------------------------------- MODULE MCPool -------------------------------
(* What the pool keeps about its accounts: their cooldowns, the ledger of one *)
(* of them, the cache of the entries of bridge credentials, and the removal   *)
(* of an account.  A behaviour is of one of the four, the others rest.        *)
EXTENDS Accounts, Ledger, BridgeCache, Retirement

CONSTANTS a1, a2

VARIABLE focus

poolVars == <<accountsVars, ledgerVars, bridgeVars, retireVars, focus>>

\* One account with everything that can befall it, two where the roster moves.
SettingsDef ==
  {<<{a1}, {"tick", "walk", "ban", "forever", "flush", "crash"}>>,
   <<{a1}, {"tick", "walk", "forever", "probe", "country"}>>,
   <<{a1}, {"tick", "probe", "ban", "lapsed", "spent", "unlock", "sweep"}>>,
   <<{a1}, {"tick", "probe", "ban", "country", "unlock", "sweep"}>>,
   <<{a1}, {"tick", "walk", "country", "flush", "dbfails", "crash"}>>,
   <<{a1}, {"walk", "lock", "flush", "crash"}>>,
   <<{a1, a2}, {"tick", "walk", "limit", "flush", "edit"}>>,
   <<{a1, a2}, {"tick", "probe", "ban", "edit"}>>}

\* 2026: the year begins on a Thursday, the clocks change on 8 March and on 1
\* November.  The hours are those around the changes, the Pacific midnights and
\* the end of the rolling window.
Year2026 == <<0, 31, 59, 90, 120, 151, 181, 212, 243, 273, 304, 334, 365>>
HourOf(d, h) == 24 * d + h
HoursDef ==
  {<<HourOf(65, 20), HourOf(66, 7), HourOf(66, 8), HourOf(66, 10), HourOf(66, 20),
     HourOf(66, 21), HourOf(67, 6), HourOf(67, 7)>>,
   <<HourOf(303, 20), HourOf(304, 6), HourOf(304, 7), HourOf(304, 9), HourOf(304, 20),
     HourOf(304, 21), HourOf(305, 7), HourOf(305, 8)>>}

PoolInit ==
  /\ AccountsInit /\ LedgerInit /\ BridgeInit /\ RetireInit
  /\ focus \in {"accounts", "ledger", "bridge", "retire"}
  /\ focus # "accounts" => may = {"walk", "lock", "flush", "crash"}
  /\ focus # "ledger" => tzdata /\ hour = HourOf(65, 20)

\* Bound: entries go stale only until the second one is built.
BridgeSteps == BridgeNext /\ (built > 1 => \A i \in Ids : entry'[i].stale => entry[i].stale)

PoolNext ==
  \/ focus = "accounts" /\ AccountsNext /\ UNCHANGED <<ledgerVars, bridgeVars, retireVars, focus>>
  \/ focus = "ledger" /\ LedgerNext /\ UNCHANGED <<accountsVars, bridgeVars, retireVars, focus>>
  \/ focus = "bridge" /\ BridgeSteps /\ UNCHANGED <<accountsVars, ledgerVars, retireVars, focus>>
  \/ focus = "retire" /\ RetireNext /\ UNCHANGED <<accountsVars, ledgerVars, bridgeVars, focus>>

PoolSpec == PoolInit /\ [][PoolNext]_poolVars

===========================================================================
