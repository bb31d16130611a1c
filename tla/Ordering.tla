------------------------------ MODULE Ordering ------------------------------
(***************************************************************************)
(* In which order a request tries the accounts (pool/acquire_order.go) and *)
(* at which price an account's meter quotes a new session (pool/quota.go). *)
(*                                                                         *)
(* One pass computes the order of one model in steps, each of which reads  *)
(* the accounts afresh: nothing holds them still in between, so an account *)
(* can cool down, spend its allowance or open a session halfway.  The      *)
(* failover loop that then walks the order is in Accounts.                 *)
(***************************************************************************)
EXTENDS Integers, Sequences, FiniteSets, SequencesExt, Positions

CONSTANTS
  Tokens,          \* the slots of the roster: 1 .. n
  Balances,        \* Freebucks balances; 0 stands for an unpriced row
  Unblocks,        \* the instants a cooling account returns at
  MaxTurns,        \* bound: changes of the accounts during one pass
  DayHours,        \* hours of a (short) day, for the off-peak window
  Prices,          \* prices the server may announce
  MaxHour          \* bound: the hours that pass after a quote

ASSUME OrderingAssumption ==
  /\ Cardinality(Tokens) \in Nat /\ Tokens = 1 .. Cardinality(Tokens)
  /\ Balances \subseteq Nat /\ Unblocks \subseteq Nat \ {0} /\ Prices \subseteq Nat
  /\ {MaxTurns, MaxHour} \subseteq Nat /\ DayHours \in Nat \ {0}

VARIABLES
  acct,     \* slot -> what the pass can read of it
  pass,     \* the pass: its step, lists, order and reports
  was,      \* slot -> whether it was eligible at every step of the pass (history)
  turns,    \* changes so far
  quote     \* a stored quote and the answer it was parsed from

orderingVars == <<acct, pass, was, turns, quote>>

Size == Cardinality(Tokens)
Rotations == {"drain", "round_robin", "least_used", "random"}

NoPass == [pc |-> "none", start |-> 1, rotation |-> "drain", autoRotate |-> FALSE, hot |-> << >>,
           order |-> << >>, reported |-> {}]

(***************************************************************************)
(* What can be read of an account.  cool is the end of its cooldown, and   *)
(* fits says that the cooldown is a quota of another model; low, that its  *)
(* health signals other than the cooldown are spent.                       *)
(***************************************************************************)
FreshAccount == [locked |-> FALSE, allowed |-> TRUE, capped |-> FALSE, live |-> "cold",
                 refreshing |-> FALSE, balance |-> 0, cool |-> 0, fits |-> FALSE, low |-> FALSE]

Changed(a) ==
  UNION { {[a EXCEPT !.locked = ~@]}, {[a EXCEPT !.capped = ~@]},
          {[a EXCEPT !.live = l] : l \in {"cold", "match", "other"}},
          {[a EXCEPT !.refreshing = ~@]}, {[a EXCEPT !.balance = b] : b \in Balances},
          {[a EXCEPT !.cool = u, !.fits = f] : u \in Unblocks \cup {0}, f \in BOOLEAN},
          {[a EXCEPT !.low = ~@]}, {[a EXCEPT !.allowed = ~@]} } \ {a}

eligible(t) == ~acct[t].locked /\ acct[t].allowed /\ ~acct[t].capped
Eligible == {t \in Tokens : eligible(t)}

tokenAvailable(t) == ~acct[t].locked /\ (acct[t].cool > 0 => acct[t].fits)

\* The slots from start on, once around.
Around(start) == [i \in 1 .. Size |-> 1 + ((start + i - 2) % Size)]

\* The orders of n positions, and a list in one of them.
Orders(n) == {w \in [1 .. n -> 1 .. n] : \A i, j \in 1 .. n : w[i] = w[j] => i = j}
Rearranged(s, w) == [i \in 1 .. Len(s) |-> s[w[i]]]

\* sort.SliceStable, what may come out of it: ties keep the order they had.  A
\* comparison may be no order - an account with a price and one without are
\* compared by their slots - and then any order can be the result.
SliceStable(s, before) ==
  LET Less(i, j) == <<s[i], s[j]>> \in before \/ (<<s[j], s[i]>> \notin before /\ i < j)
      sorted == {w \in Orders(Len(s)) : \A i, j \in 1 .. Len(s) : i < j => Less(w[i], w[j])}
  IN  {Rearranged(s, w) : w \in IF sorted # {} THEN sorted ELSE Orders(Len(s))}

OrderingInit ==
  /\ acct = [t \in Tokens |-> FreshAccount]
  /\ pass = NoPass
  /\ was = [t \in Tokens |-> TRUE]
  /\ turns = 0
  /\ quote = [pc |-> "none"]

(***************************************************************************)
(* The accounts change, before the pass and during it.                     *)
(***************************************************************************)
AccountChanges(t) ==
  /\ pass.pc # "done" /\ quote.pc = "none" /\ turns < MaxTurns
  /\ \E a \in Changed(acct[t]) : acct' = [acct EXCEPT ![t] = a]
  /\ turns' = turns + 1
  /\ was' = [was EXCEPT ![t] = @ /\ eligible(t)']
  /\ UNCHANGED <<pass, quote>>

(***************************************************************************)
(* The pass.  Classify sorts the eligible accounts into those with a       *)
(* session of the model (or an admission for it under way), those without  *)
(* one and those with another model's.                                     *)
(***************************************************************************)
Classify(start, admitting, last) ==
  /\ pass.pc = "none" /\ quote.pc = "none"
  /\ LET HasLive(t) == acct[t].live # "cold" \/ acct[t].refreshing \/ admitting = t
         Match(t) == HasLive(t) /\ (acct[t].live # "other" \/ admitting = t)
         Of(those) == KeptAmong(Around(start), Eligible \cap those)
         matching == {t \in Tokens : Match(t)}
         cold == {t \in Tokens : ~HasLive(t)}
         \* An admission to park on first, then the thinnest balance, then the
         \* account the model used last.
         Parks(t) == acct[t].refreshing \/ admitting = t
         Before(a, b) ==
           IF Parks(a) # Parks(b) THEN Parks(a)
           ELSE IF acct[a].balance > 0 /\ acct[b].balance > 0 /\ acct[a].balance # acct[b].balance
                  THEN acct[a].balance < acct[b].balance
           ELSE IF last \in {a, b} THEN a = last
           ELSE a < b
     IN  \E hot \in SliceStable(Of(matching), {p \in Tokens \X Tokens : Before(p[1], p[2])}),
            rotation \in Rotations, autoRotate \in BOOLEAN :
           pass' = [NoPass EXCEPT !.pc = "arrange", !.start = start, !.rotation = rotation,
                      !.autoRotate = autoRotate,
                      !.hot = hot \o Of(cold) \o Of(Tokens \ (matching \cup cold))]
  /\ was' = [t \in Tokens |-> eligible(t)]
  /\ UNCHANGED <<acct, turns, quote>>

\* least_used: priced rows first, the fullest balance first.
Fuller(a, b) ==
  IF (acct[a].balance > 0) # (acct[b].balance > 0) THEN acct[a].balance > 0
  ELSE IF acct[a].balance # acct[b].balance THEN acct[a].balance > acct[b].balance
  ELSE a < b

\* drain keeps the three lists; the other rotations judge every account anew.
Arranged ==
  LET judged == KeptAmong(Around(1), Eligible)
  IN  CASE pass.rotation = "drain" -> {pass.hot}
        [] pass.rotation = "round_robin" -> {KeptAmong(Around(pass.start), Eligible)}
        [] pass.rotation = "least_used" -> SliceStable(judged, {p \in Tokens \X Tokens : Fuller(p[1], p[2])})
        [] pass.rotation = "random" -> {Rearranged(judged, w) : w \in Orders(Len(judged))}

Arrange ==
  /\ pass.pc = "arrange"
  /\ \E order \in Arranged : pass' = [pass EXCEPT !.pc = "demote", !.order = order, !.hot = << >>]
  /\ UNCHANGED <<acct, was, turns, quote>>

(***************************************************************************)
(* AUTO_ROTATE_ON_EXHAUSTION moves the accounts of health "exhausted" to   *)
(* the end.  The score of an account that is not cooling down is at least  *)
(* its 25 points of that component, above the 20 of the label; the partial *)
(* credit of a cooldown near its end is never given, since the elapsed     *)
(* share is computed as one half whatever has passed.                      *)
(***************************************************************************)
ComputeHealthScore(t) ==
  (IF acct[t].low THEN 0 ELSE 40) + (IF acct[t].cool = 0 THEN 25 ELSE 0) + (IF acct[t].low THEN 0 ELSE 35)

HealthScoreLabel(score) ==
  IF score >= 80 THEN "active" ELSE IF score >= 50 THEN "degraded"
  ELSE IF score >= 20 THEN "critical" ELSE "exhausted"

Spent == {t \in Tokens : HealthScoreLabel(ComputeHealthScore(t)) = "exhausted"}

DemoteDropsSpent ==   \* mutant: the exhausted accounts are left out
  /\ pass.pc = "demote"
  /\ pass' = [pass EXCEPT !.pc = "sort",
                !.order = IF pass.autoRotate THEN KeptAmong(@, Tokens \ Spent) ELSE @]
  /\ UNCHANGED <<acct, was, turns, quote>>

Demote ==
  /\ pass.pc = "demote"
  /\ pass' = [pass EXCEPT !.pc = "sort",
                !.order = IF pass.autoRotate THEN KeptAmong(@, Tokens \ Spent) \o KeptAmong(@, Spent) ELSE @]
  /\ UNCHANGED <<acct, was, turns, quote>>

ServesSooner(a, b) ==
  IF tokenAvailable(a) # tokenAvailable(b) THEN tokenAvailable(a)
  ELSE ~tokenAvailable(a) /\ acct[a].cool < acct[b].cool

\* An empty order falls back to every slot, so that the walk finds the reasons.
Sort ==
  /\ pass.pc = "sort"
  /\ \/ /\ pass.order = << >>
        /\ pass' = [pass EXCEPT !.pc = "done", !.order = Around(pass.start)]
     \/ /\ pass.order # << >>
        /\ \E order \in SliceStable(pass.order, {p \in Tokens \X Tokens : ServesSooner(p[1], p[2])}) :
             pass' = [pass EXCEPT !.pc = "report", !.order = order]
  /\ UNCHANGED <<acct, was, turns, quote>>

\* The refusals of the accounts left out for their allowance ride back.
Report ==
  /\ pass.pc = "report"
  /\ pass' = [pass EXCEPT !.pc = "done",
                !.reported = {t \in Tokens \ ToSet(pass.order) : acct[t].capped}]
  /\ UNCHANGED <<acct, was, turns, quote>>

acquireOrder ==
  \/ \E start \in Tokens, admitting, last \in {0} \cup Tokens : Classify(start, admitting, last)
  \/ Arrange \/ Demote \/ Sort \/ Report

(***************************************************************************)
(* The quote of a session.  The server answers with a price, a schedule of *)
(* changes and possibly a daily off-peak window; the client applies the    *)
(* changes that are due when it parses the answer and drops them, and      *)
(* every reader applies those due since, and the window, to what is kept.  *)
(***************************************************************************)
Discounted(price, discount) == IF price > discount THEN price - discount ELSE 0

\* Due changes of a schedule (a function from hours to prices), latest last.
LatestDue(schedule, now) ==
  LET due == {at \in DOMAIN schedule : at <= now}
  IN  IF due = {} THEN {} ELSE {CHOOSE at \in due : \A b \in due : b <= at}

Scheduled(kept, now) ==
  LET due == LatestDue(kept.schedule, now)
  IN  IF due = {} THEN kept.price
      ELSE Discounted(kept.schedule[CHOOSE at \in due : TRUE], kept.discount)

ApplyFreebucksPriceChanges(answer, now) ==
  [answer EXCEPT !.price = Scheduled(answer, now),
                 !.schedule = [at \in {h \in DOMAIN answer.schedule : h > now} |-> answer.schedule[at]]]

(***************************************************************************)
(* offPeakQuoteAt: the window [from, to) of the day, which may run over    *)
(* midnight.                                                               *)
(***************************************************************************)
offPeakSameDay(offer, now) ==     \* mutant: a window over midnight is never open
  LET hour == now % DayHours IN offer.from <= hour /\ hour < offer.to

offPeak(offer, now) ==
  LET hour == now % DayHours
      begun == IF offer.from > hour THEN now - hour - DayHours + offer.from ELSE now - hour + offer.from
      sameDay == begun - (begun % DayHours) + offer.to
      over == IF sameDay > begun THEN sameDay ELSE sameDay + DayHours
  IN  now < over

EffectiveFreebucksPrices(kept, now) ==
  IF kept.offer = {} THEN Scheduled(kept, now)
  ELSE LET o == CHOOSE x \in kept.offer : TRUE
       IN  Discounted(IF offPeak(o, now) THEN o.price ELSE o.regular, kept.discount)

Offers == {{}} \cup {{[from |-> f, to |-> t, price |-> p, regular |-> r]} :
                     f, t \in 0 .. DayHours - 1, p, r \in Prices}

Quoted ==
  /\ quote.pc = "none" /\ pass.pc = "none" /\ turns = 0
  /\ \E price \in Prices, discount \in {0, 1}, offer \in Offers, hours \in SUBSET (1 .. MaxHour) :
       \E schedule \in [hours -> Prices] :
         LET answer == [price |-> price, discount |-> discount, offer |-> offer, schedule |-> schedule]
         IN  quote' = [pc |-> "kept", answer |-> answer, at |-> 0,
                       kept |-> ApplyFreebucksPriceChanges(answer, 0)]
  /\ UNCHANGED <<acct, pass, was, turns>>

\* An hour passes; the answer may be parsed again from the store.
HourPasses ==
  /\ quote.pc = "kept" /\ quote.at < MaxHour
  /\ \E again \in BOOLEAN :
       quote' = [quote EXCEPT !.at = @ + 1,
                   !.kept = IF again THEN ApplyFreebucksPriceChanges(@, quote.at + 1) ELSE @]
  /\ UNCHANGED <<acct, pass, was, turns>>

OrderingNext ==
  \/ \E t \in Tokens : AccountChanges(t)
  \/ acquireOrder
  \/ Quoted \/ HourPasses

OrderingSpec == OrderingInit /\ [][OrderingNext]_orderingVars

(***************************************************************************)
(* Properties.                                                             *)
(***************************************************************************)

(* A finished pass names no account twice, and leaves out none that was    *)
(* eligible from its first reading to its last: whatever changed meanwhile *)
(* and whatever the rotation, the failover loop will visit it.             *)
EveryEligibleTried ==
  pass.pc = "done" =>
    /\ \A i, j \in 1 .. Len(pass.order) : pass.order[i] = pass.order[j] => i = j
    /\ \A t \in Tokens : was[t] => t \in ToSet(pass.order)

(* The price a reader computes from what is kept is the price the server   *)
(* announced for that hour: the latest change due, or the off-peak window, *)
(* less the discount, no matter when the answer was parsed, and when the   *)
(* window runs over midnight.                                              *)
QuoteAsAnnounced ==
  quote.pc = "kept" =>
    LET a == quote.answer  now == quote.at
        InWindow(o) == \E k \in 0 .. DayHours - 1 :
                         /\ \A i \in 0 .. k : (o.from + i) % DayHours # o.to \/ i = 0
                         /\ (o.from + k) % DayHours = now % DayHours
        due == {h \in DOMAIN a.schedule : h <= now}
    IN  EffectiveFreebucksPrices(quote.kept, now) =
          IF a.offer # {}
            THEN LET o == CHOOSE x \in a.offer : TRUE
                 IN  Discounted(IF InWindow(o) THEN o.price ELSE o.regular, a.discount)
          ELSE IF due = {} THEN a.price
          ELSE Discounted(a.schedule[CHOOSE h \in due : due \subseteq 0 .. h], a.discount)

\* The walk over the accounts leaves out nobody who could have served, and what
\* it says of the prices holds.
PassHonest == EveryEligibleTried /\ QuoteAsAnnounced
=============================================================================
