----------------------------- MODULE BridgeCache -----------------------------
(***************************************************************************)
(* The cache of bridge entries (pool/bridge_cache.go) and the request that *)
(* uses one (AcquireBridge of pool/bridge.go).  An entry is built outside  *)
(* the lock for a client's credential, holds its session and its runs, and *)
(* is evicted when the cache is full, when it has been idle for long or    *)
(* when its credential is refused; a request that has been handed an entry *)
(* holds no lock on it and looks twice whether it is still cached.         *)
(***************************************************************************)
EXTENDS Naturals, FiniteSets, SequencesExt, Positions

CONSTANTS
  Clients,          \* client credentials (keys of the cache)
  BridgeReqs,       \* requests
  Sweeper,          \* the maintenance goroutine
  maxBridgeEntries, \* entries the cache should hold
  createGate,       \* concurrent client builds
  MaxBuilt          \* bound: entries ever built

ASSUME CacheAssumption ==
  /\ maxBridgeEntries \in Nat \ {0} /\ createGate \in Nat \ {0} /\ MaxBuilt \in Nat
  /\ Clients # {} /\ IsFiniteSet(BridgeReqs)

Ids == 1..MaxBuilt

VARIABLES
  bridge,   \* the map from key to entry, 0 where there is none
  order,    \* bridgeOrder: keys, least recently used first
  entry,    \* the entries ever built
  built,    \* how many
  building, \* permits taken from bridgeCreateGate
  breq,     \* the requests
  victims   \* per goroutine: entries it has evicted and has yet to close

bridgeVars == <<bridge, order, entry, built, building, breq, victims>>

\* sess: its session is admitted upstream; inflight: leases on its runs; stale:
\* unused for longer than the idle-eviction time; cooled: a cooldown is live.
NewEntry == [sess |-> FALSE, inflight |-> 0, stale |-> FALSE, cooled |-> FALSE]
NoReq == [pc |-> "idle", key |-> CHOOSE k \in Clients : TRUE, id |-> 0]

BridgeInit ==
  /\ bridge = [k \in Clients |-> 0] /\ order = <<>>
  /\ entry = [i \in Ids |-> NewEntry] /\ built = 0 /\ building = 0
  /\ breq = [r \in BridgeReqs |-> NoReq]
  /\ victims = [g \in BridgeReqs \cup {Sweeper} |-> {}]

In(r, pc) == breq[r].pc = pc
Goes(r, pc) == breq' = [breq EXCEPT ![r].pc = pc]
Given(r, i, pc) == breq' = [breq EXCEPT ![r].pc = pc, ![r].id = i]
Fails(r) == breq' = [breq EXCEPT ![r] = NoReq]
Cached(r) == bridge[breq[r].key] = breq[r].id

\* The list without some keys.
RemoveBridgeOrder(s, ks) == Picked(s, {i \in DOMAIN s : s[i] \notin ks})
BridgeTouch(k) == Append(RemoveBridgeOrder(order, {k}), k)

---------------------------------------------------------------------------
\* bridgeEntryFor: look, take a permit, look again, build and validate outside
\* the lock, look a last time and insert.
BridgeEntryFor(r) ==
  /\ In(r, "idle")
  /\ \E k \in Clients :
       \/ /\ bridge[k] # 0
          /\ breq' = [breq EXCEPT ![r] = [pc |-> "gates", key |-> k, id |-> bridge[k]]]
          /\ order' = BridgeTouch(k)
          /\ entry' = [entry EXCEPT ![bridge[k]].stale = FALSE]
       \/ /\ bridge[k] = 0
          /\ breq' = [breq EXCEPT ![r] = [pc |-> "permit", key |-> k, id |-> 0]]
          /\ UNCHANGED <<order, entry>>
  /\ UNCHANGED <<bridge, built, building, victims>>

TakePermit(r) ==
  /\ In(r, "permit")
  /\ \/ building < createGate /\ building' = building + 1 /\ Goes(r, "recheck")
     \/ Fails(r) /\ UNCHANGED building
  /\ UNCHANGED <<bridge, order, entry, built, victims>>

Recheck(r) ==
  LET i == bridge[breq[r].key] IN
  /\ In(r, "recheck")
  /\ \/ /\ i # 0
        /\ order' = BridgeTouch(breq[r].key) /\ entry' = [entry EXCEPT ![i].stale = FALSE]
        /\ building' = building - 1 /\ Given(r, i, "gates")
     \/ i = 0 /\ Goes(r, "build") /\ UNCHANGED <<order, entry, building>>
  /\ UNCHANGED <<bridge, built, victims>>

\* No client can be made of the credential, or its validation fails.
BuildFails(r) ==
  /\ In(r, "build") /\ building' = building - 1 /\ Fails(r)
  /\ UNCHANGED <<bridge, order, entry, built, victims>>

\* bridgeEvictLocked: least recently used first, never the new entry and never
\* one with leases, until the cache fits or nobody is left to evict.
Evictable(s, keep) ==
  {i \in DOMAIN s : s[i] # keep /\ entry[bridge[s[i]]].inflight = 0}

BridgeEvictLocked(s, keep) ==
  LET over == IF Len(s) > maxBridgeEntries THEN Len(s) - maxBridgeEntries ELSE 0
      idle == Evictable(s, keep)
  IN {s[i] : i \in {i \in idle : Rank(idle, i) <= over}}

InsertEntryUnlooked(r) ==
  /\ In(r, "build") /\ built < MaxBuilt /\ built' = built + 1
  /\ bridge' = [bridge EXCEPT ![breq[r].key] = built + 1]
  /\ order' = Append(order, breq[r].key)
  /\ Given(r, built + 1, "close")
  /\ UNCHANGED <<entry, building, victims>>

InsertEntry(r) ==
  LET k   == breq[r].key
      i   == built + 1
      out == BridgeEvictLocked(Append(order, k), k)
  IN /\ In(r, "build")
     /\ \/ /\ bridge[k] # 0
           /\ building' = building - 1 /\ Given(r, bridge[k], "gates")
           /\ UNCHANGED <<bridge, order, built, victims>>
        \/ /\ bridge[k] = 0 /\ built < MaxBuilt
           /\ built' = i
           /\ bridge' = [x \in Clients |-> IF x = k THEN i ELSE IF x \in out THEN 0 ELSE bridge[x]]
           /\ order' = RemoveBridgeOrder(Append(order, k), out)
           /\ victims' = [victims EXCEPT ![r] = {bridge[x] : x \in out}]
           /\ Given(r, i, "close") /\ UNCHANGED building
     /\ UNCHANGED entry

\* FinishAllRuns and EndSession of an evicted entry, outside the lock.
CloseVictim(g) ==
  /\ \E i \in victims[g] :
       /\ entry' = [entry EXCEPT ![i].sess = FALSE]
       /\ victims' = [victims EXCEPT ![g] = @ \ {i}]
  /\ UNCHANGED <<bridge, order, built, building, breq>>

\* The permit goes back when bridgeEntryFor returns.
EntryReady(r) ==
  /\ In(r, "close") /\ victims[r] = {}
  /\ building' = building - 1 /\ Goes(r, "gates")
  /\ UNCHANGED <<bridge, order, entry, built, victims>>

---------------------------------------------------------------------------
\* AcquireBridge on the entry: locked, over its rate or cooling down, or on.
BridgeGates(r) ==
  /\ In(r, "gates")
  /\ \/ ~entry[breq[r].id].cooled /\ Goes(r, "admit")
     \/ Fails(r)
  /\ UNCHANGED <<bridge, order, entry, built, building, victims>>

\* bridgeEvictToken, which spares an entry with leases.
BridgeEvictToken(r, i) ==
  LET k   == breq[r].key
      cur == bridge[k]
  IN IF cur = 0 \/ entry[cur].inflight > 0 THEN UNCHANGED <<bridge, order, victims>>
     ELSE /\ bridge' = [bridge EXCEPT ![k] = 0]
          /\ order' = RemoveBridgeOrder(order, {k})
          /\ victims' = [victims EXCEPT ![r] = {cur}]

\* The single-flight admission is answered.
AdmitEntry(r) ==
  LET i == breq[r].id IN
  /\ In(r, "admit")
  /\ \/ /\ entry' = [entry EXCEPT ![i].sess = TRUE]
        /\ Goes(r, "ready") /\ UNCHANGED <<bridge, order, victims>>
     \/ /\ entry' \in {entry, [entry EXCEPT ![i].cooled = TRUE]}
        /\ Fails(r) /\ UNCHANGED <<bridge, order, victims>>
     \/ Goes(r, "refused") /\ BridgeEvictToken(r, i) /\ UNCHANGED entry
  /\ UNCHANGED <<built, building>>

RefusedReturns(r) ==
  /\ In(r, "refused") /\ victims[r] = {} /\ Fails(r)
  /\ UNCHANGED <<bridge, order, entry, built, building, victims>>

\* The entry has a session: is it still the cached one?
EntrySession(r) ==
  /\ In(r, "ready")
  /\ \/ ~Cached(r) /\ Fails(r) /\ UNCHANGED entry
     \/ /\ Cached(r) /\ Goes(r, "run")
        /\ entry' = [entry EXCEPT ![breq[r].id].cooled = FALSE]
  /\ UNCHANGED <<bridge, order, built, building, victims>>

AcquireBridgeRun(r) ==
  /\ In(r, "run")
  /\ \/ /\ entry' = [entry EXCEPT ![breq[r].id].inflight = @ + 1]
        /\ Goes(r, "leasing") /\ UNCHANGED <<bridge, order, victims>>
     \/ Fails(r) /\ UNCHANGED <<bridge, order, entry, victims>>
     \/ Goes(r, "refused") /\ BridgeEvictToken(r, breq[r].id) /\ UNCHANGED entry
  /\ UNCHANGED <<built, building>>

\* The second look, now that the run counts as a lease.
LeaseUnchecked(r) ==
  /\ In(r, "leasing") /\ Goes(r, "leased")
  /\ UNCHANGED <<bridge, order, entry, built, building, victims>>

LeaseIfCached(r) ==
  /\ In(r, "leasing")
  /\ \/ Cached(r) /\ Goes(r, "leased") /\ UNCHANGED entry
     \/ /\ ~Cached(r) /\ Fails(r)
        /\ entry' = [entry EXCEPT ![breq[r].id].inflight = @ - 1]
  /\ UNCHANGED <<bridge, order, built, building, victims>>

ReleaseBridge(r) ==
  /\ In(r, "leased") /\ Fails(r)
  /\ entry' = [entry EXCEPT ![breq[r].id].inflight = @ - 1]
  /\ UNCHANGED <<bridge, order, built, building, victims>>

---------------------------------------------------------------------------
\* bridgeMaintain: what is idle for long, without leases and without a cooldown
\* goes, all of it in one section, and is closed afterwards.
BridgeMaintain ==
  LET out == {k \in Clients : /\ bridge[k] # 0 /\ entry[bridge[k]].stale
                              /\ entry[bridge[k]].inflight = 0 /\ ~entry[bridge[k]].cooled}
  IN /\ victims[Sweeper] = {} /\ out # {}
     /\ victims' = [victims EXCEPT ![Sweeper] = {bridge[k] : k \in out}]
     /\ bridge' = [k \in Clients |-> IF k \in out THEN 0 ELSE bridge[k]]
     /\ order' = RemoveBridgeOrder(order, out)
     /\ UNCHANGED <<entry, built, building, breq>>

\* An entry is not looked up for long; a cooldown ends.
TimePasses ==
  /\ \E i \in {bridge[k] : k \in Clients} \ {0} :
       entry' \in {[entry EXCEPT ![i].stale = TRUE], [entry EXCEPT ![i].cooled = FALSE]}
  /\ UNCHANGED <<bridge, order, built, building, breq, victims>>

BridgeStep(r) ==
  \/ BridgeEntryFor(r) \/ TakePermit(r) \/ Recheck(r) \/ BuildFails(r) \/ InsertEntry(r)
  \/ EntryReady(r) \/ BridgeGates(r) \/ AdmitEntry(r) \/ RefusedReturns(r)
  \/ EntrySession(r) \/ AcquireBridgeRun(r) \/ LeaseIfCached(r) \/ ReleaseBridge(r)

BridgeNext ==
  \/ \E r \in BridgeReqs : BridgeStep(r)
  \/ \E g \in BridgeReqs \cup {Sweeper} : CloseVictim(g)
  \/ BridgeMaintain \/ TimePasses

BridgeSpec == BridgeInit /\ [][BridgeNext]_bridgeVars

---------------------------------------------------------------------------
\* A leased entry is the cached one of its client until the lease ends, and
\* nobody is about to close it: whatever evictions ran while the request was
\* being admitted, it never chats on an entry that maintenance and shutdown no
\* longer reach (the two looks of AcquireBridge, the busy tests of evictions).
LeasedIsCached ==
  \A r \in BridgeReqs :
    In(r, "leased") => Cached(r) /\ \A g \in DOMAIN victims : breq[r].id \notin victims[g]

\* Map and recency list agree, no permit is lost, and a client never has two
\* entries: every entry but the cached ones has been evicted (bridgeTouch,
\* bridgeEvictLocked, removeBridgeOrder, the three looks of bridgeEntryFor).
CacheExact ==
  /\ ToSet(order) = {k \in Clients : bridge[k] # 0} /\ IsInjective(order)
  /\ building = Cardinality({r \in BridgeReqs : breq[r].pc \in {"recheck", "build", "close"}})
  /\ \A j, k \in Clients : j # k /\ bridge[j] # 0 => bridge[j] # bridge[k]

\* The session of an entry that has left the cache is ended, or somebody is
\* still going to end it.
SessionReachable ==
  \A i \in Ids :
    entry[i].sess => \/ \E k \in Clients : bridge[k] = i
                     \/ \E g \in DOMAIN victims : i \in victims[g]
                     \/ \E r \in BridgeReqs : breq[r].id = i

\* Whatever is evicted meanwhile, a request chats on the entry its credential has
\* in the cache, and the cache is what its map and its list say.
EntriesSafe == LeasedIsCached /\ CacheExact
=============================================================================
