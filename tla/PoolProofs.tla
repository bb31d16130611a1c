----------------------------- MODULE PoolProofs -----------------------------
(***************************************************************************)
(* Proofs about what the pool keeps about its accounts, for any number of  *)
(* accounts, requests and clients: an account that RemoveLastToken takes   *)
(* out is not drained under a lease, a leased bridge entry is the one its  *)
(* client has in the cache, and no walk admits an account while a ban      *)
(* upstream has told of is in force.  And about what it does with accounts *)
(* nobody uses, for every length of the day and set of windows: no probe   *)
(* goes out without a reason and one a day without anybody's asking, and   *)
(* the nightly walk touches an account once a day, but for a touch that a  *)
(* restart has cut off.                                                    *)
(***************************************************************************)
EXTENDS Accounts, BridgeCache, Retirement, Maturity, Upkeep, PositionProofs

-----------------------------------------------------------------------------
(* Retirement of an account.                                               *)

Turned == [pc : {"idle", "admit", "run", "look", "lease", "released"}, slot : Slots \cup {NoSlot}]
Remover == [pc : {"idle", "tested", "slip", "park", "drain"}, slot : Slots \cup {NoSlot},
            kind : Removals \cup {"last"}, slip : BOOLEAN]

\* The requests that count in the busy test of an account.
Holders(a) == {t \in Turns : turn[t].pc \in {"look", "lease"} /\ turn[t].slot = a}
NoLease(a) == \A t \in Turns : ~(turn[t].pc = "lease" /\ turn[t].slot = a)

RetireTypeOK ==
  /\ pooled \in Seq(Slots)
  /\ turn \in [Turns -> Turned] /\ \A t \in Turns : turn[t].pc # "idle" => turn[t].slot \in Slots
  /\ busy \in [Slots -> Nat]
  /\ remover \in Remover /\ (remover.pc # "idle" => remover.slot \in Slots)
  /\ retired \subseteq Slots /\ drained \subseteq Slots

\* InflightCount is the number of runs acquired and not given back.
BusyIsHeld == \A a \in Slots : busy[a] = Cardinality(Holders(a))

\* What has left the roster does not come back to it.
GoneForGood ==
  /\ IsInjective(pooled)
  /\ \A a \in retired \cup drained : ~InPool(a)
  /\ remover.pc \in {"slip", "park", "drain"} => ~InPool(remover.slot)

\* From the look for slipped leases on, a drain that is under way or done is of
\* an account without leases.
DrainSpares ==
  /\ remover.pc = "drain" \/ (remover.pc = "park" /\ ~remover.slip) => NoLease(remover.slot)
  /\ \A a \in drained : NoLease(a)

RetireInv == RetireTypeOK /\ BusyIsHeld /\ GoneForGood /\ DrainSpares

LEMMA HoldersFinite ==
  ASSUME NEW a
  PROVE  IsFiniteSet(Holders(a)) /\ Cardinality(Holders(a)) \in Nat
<1>1. Holders(a) \subseteq Turns
  BY DEF Holders
<1> QED
  BY <1>1, RetirementAssumption, FS_Subset, FS_CardinalityType

\* A step of a request that neither acquires nor gives back a run.
LEMMA HoldersStay ==
  ASSUME RetireTypeOK, BusyIsHeld, busy' = busy,
         NEW t \in Turns, NEW r \in Turned, turn' = [turn EXCEPT ![t] = r],
         \/ turn[t].pc \notin {"look", "lease"} /\ r.pc \notin {"look", "lease"}
         \/ turn[t].pc \in {"look", "lease"} /\ r.pc \in {"look", "lease"} /\ r.slot = turn[t].slot
  PROVE  BusyIsHeld'
<1>1. \A a \in Slots : Holders(a)' = Holders(a)
  BY DEF RetireTypeOK, Holders
<1> QED
  BY <1>1 DEF BusyIsHeld

\* One acquires a run.
LEMMA HolderComes ==
  ASSUME RetireTypeOK, BusyIsHeld, NEW t \in Turns, NEW r \in Turned, NEW a \in Slots,
         turn' = [turn EXCEPT ![t] = r], busy' = [busy EXCEPT ![a] = @ + 1],
         turn[t].pc \notin {"look", "lease"}, r.pc \in {"look", "lease"}, r.slot = a
  PROVE  BusyIsHeld' /\ busy' \in [Slots -> Nat]
<1>1. Holders(a)' = Holders(a) \cup {t} /\ t \notin Holders(a)
  BY DEF RetireTypeOK, Holders
<1>2. \A b \in Slots \ {a} : Holders(b)' = Holders(b)
  BY DEF RetireTypeOK, Holders
<1>3. Cardinality(Holders(a)') = Cardinality(Holders(a)) + 1
  BY <1>1, HoldersFinite, FS_AddElement
<1>4. busy'[a] = busy[a] + 1 /\ \A b \in Slots \ {a} : busy'[b] = busy[b]
  BY DEF RetireTypeOK
<1>5. busy' \in [Slots -> Nat]
  BY DEF RetireTypeOK
<1> QED
  BY <1>2, <1>3, <1>4, <1>5 DEF BusyIsHeld

\* One gives its run back.
LEMMA HolderGoes ==
  ASSUME RetireTypeOK, BusyIsHeld, NEW t \in Turns, NEW r \in Turned, NEW a \in Slots,
         turn' = [turn EXCEPT ![t] = r], busy' = [busy EXCEPT ![a] = @ - 1],
         turn[t].pc \in {"look", "lease"}, turn[t].slot = a, r.pc \notin {"look", "lease"}
  PROVE  BusyIsHeld' /\ busy' \in [Slots -> Nat]
<1>1. Holders(a)' = Holders(a) \ {t} /\ t \in Holders(a)
  BY DEF RetireTypeOK, Holders
<1>2. \A b \in Slots \ {a} : Holders(b)' = Holders(b)
  BY DEF RetireTypeOK, Holders
<1>3. Cardinality(Holders(a)') = Cardinality(Holders(a)) - 1
  BY <1>1, HoldersFinite, FS_RemoveElement
<1>4. busy'[a] = busy[a] - 1 /\ \A b \in Slots \ {a} : busy'[b] = busy[b]
  BY DEF RetireTypeOK
<1>5. Cardinality(Holders(a)) # 0
  BY <1>1, HoldersFinite, FS_EmptySet
<1>6. busy[a] \in Nat /\ busy[a] # 0
  BY <1>5 DEF BusyIsHeld, RetireTypeOK
<1>7. busy' \in [Slots -> Nat]
  BY <1>6 DEF RetireTypeOK
<1> QED
  BY <1>2, <1>3, <1>4, <1>7 DEF BusyIsHeld

\* An account whose busy test succeeds is leased by nobody.
LEMMA IdleIsUnleased ==
  ASSUME BusyIsHeld, NEW a \in Slots, busy[a] = 0
  PROVE  NoLease(a)
<1>1. Holders(a) = {}
  BY HoldersFinite, FS_EmptySet DEF BusyIsHeld
<1> QED
  BY <1>1 DEF Holders, NoLease

\* removeLast and removeAt take one entry out of the roster.
LEMMA RemoveAtRemoves ==
  ASSUME NEW q \in Seq(Slots), IsInjective(q), NEW i \in DOMAIN q
  PROVE  /\ RemoveAt(q, i) \in Seq(Slots) /\ IsInjective(RemoveAt(q, i))
         /\ \A a : (\E j \in DOMAIN RemoveAt(q, i) : RemoveAt(q, i)[j] = a)
                  => a # q[i] /\ \E j \in DOMAIN q : q[j] = a
<1> DEFINE w == RemoveAt(q, i)
           u == SubSeq(q, 1, i - 1)
           v == SubSeq(q, i + 1, Len(q))
<1>1. i \in 1..Len(q)
  OBVIOUS
<1>2. w = u \o v
  BY DEF RemoveAt
<1>3. u \in Seq(Slots) /\ Len(u) = i - 1 /\ \A j \in 1..(i - 1) : u[j] = q[j]
  BY <1>1
<1>4. v \in Seq(Slots) /\ Len(v) = Len(q) - i /\ \A j \in 1..(Len(q) - i) : v[j] = q[i + j]
  BY <1>1
<1> HIDE DEF u, v, w
<1>5. w \in Seq(Slots) /\ Len(w) = Len(q) - 1
  BY <1>1, <1>2, <1>3, <1>4
<1>6. \A j \in 1..(Len(q) - 1) : w[j] = IF j < i THEN q[j] ELSE q[j + 1]
  <2>1. \A j \in 1..(Len(q) - 1) : w[j] = IF j <= Len(u) THEN u[j] ELSE v[j - Len(u)]
    <3>1. \A j \in 1..(Len(u) + Len(v)) : w[j] = IF j <= Len(u) THEN u[j] ELSE v[j - Len(u)]
      BY <1>2, <1>3, <1>4, ConcatProperties
    <3> QED
      BY <1>1, <1>3, <1>4, <3>1
  <2>2. ASSUME NEW j \in 1..(Len(q) - 1), j >= i PROVE v[j - (i - 1)] = q[j + 1]
    <3>1. j - (i - 1) \in 1..(Len(q) - i) /\ i + (j - (i - 1)) = j + 1
      BY <1>1, <2>2
    <3> QED
      BY <1>4, <3>1
  <2> QED
    BY <1>1, <1>3, <2>1, <2>2
<1>7. DOMAIN w = 1..(Len(q) - 1)
  BY <1>5
<1>8. ASSUME NEW j \in DOMAIN w PROVE \E k \in 1..Len(q) : k # i /\ w[j] = q[k]
  BY <1>1, <1>6, <1>7
<1>9. IsInjective(w)
  <2>1. ASSUME NEW j \in DOMAIN w, NEW k \in DOMAIN w, w[j] = w[k] PROVE j = k
    BY <1>1, <1>6, <1>7, <2>1 DEF IsInjective
  <2> QED
    BY <2>1 DEF IsInjective
<1>10. ASSUME NEW a, \E j \in DOMAIN w : w[j] = a
       PROVE  a # q[i] /\ \E j \in DOMAIN q : q[j] = a
  BY <1>1, <1>8, <1>10 DEF IsInjective
<1> QED
  BY <1>5, <1>9, <1>10 DEF w

LEMMA RetireStart == RetireInit => RetireInv
<1> SUFFICES ASSUME RetireInit PROVE RetireInv
  OBVIOUS
<1> USE DEF RetireInit
<1>1. Cardinality(Slots) \in Nat
  BY RetirementAssumption, FS_CardinalityType
<1>2. pooled \in [1..Cardinality(Slots) -> Slots] /\ IsInjective(pooled)
  OBVIOUS
<1>3. pooled \in Seq(Slots)
  BY <1>1, <1>2
<1>4. NoTurn \in Turned /\ NoRemoval \in Remover
  BY DEF NoTurn, NoRemoval, Turned, Remover
<1>5. RetireTypeOK
  BY <1>3, <1>4 DEF RetireTypeOK, NoTurn, NoRemoval
<1>6. \A a : Holders(a) = {} /\ NoLease(a)
  BY DEF Holders, NoLease, NoTurn
<1>7. BusyIsHeld
  BY <1>6, FS_EmptySet DEF BusyIsHeld
<1>8. GoneForGood
  BY <1>2 DEF GoneForGood, NoRemoval
<1>9. DrainSpares
  BY <1>6 DEF DrainSpares, NoRemoval
<1> QED
  BY <1>5, <1>7, <1>8, <1>9 DEF RetireInv

\* A request that does not get a lease leaves every account without leases so.
LEMMA NoNewLease ==
  ASSUME RetireTypeOK, NEW t \in Turns, NEW r \in Turned,
         turn' = [turn EXCEPT ![t] = r], r.pc # "lease"
  PROVE  \A a : NoLease(a) => NoLease(a)'
BY DEF RetireTypeOK, NoLease

\* Typing of a step of a request.
LEMMA TurnTyped ==
  ASSUME RetireTypeOK, NEW t \in Turns, NEW r \in Turned, turn' = [turn EXCEPT ![t] = r],
         r.pc # "idle" => r.slot \in Slots,
         busy' \in [Slots -> Nat], retired' \subseteq Slots, drained' \subseteq Slots,
         pooled' = pooled, remover' = remover
  PROVE  RetireTypeOK'
<1>1. turn' \in [Turns -> Turned]
  BY DEF RetireTypeOK
<1>2. \A u \in Turns : turn'[u].pc # "idle" => turn'[u].slot \in Slots
  BY DEF RetireTypeOK
<1> QED
  BY <1>1, <1>2 DEF RetireTypeOK

\* The invariant over a step of a request that gets no lease and drains nothing.
LEMMA TurnKeeps ==
  ASSUME RetireInv, NEW t \in Turns, NEW r \in Turned, turn' = [turn EXCEPT ![t] = r],
         r.pc # "idle" => r.slot \in Slots, r.pc # "lease",
         busy' \in [Slots -> Nat], BusyIsHeld',
         UNCHANGED <<pooled, retired, drained, remover>>
  PROVE  RetireInv'
<1> USE DEF RetireInv
<1>1. RetireTypeOK'
  BY TurnTyped DEF RetireTypeOK
<1>2. GoneForGood'
  BY DEF GoneForGood, InPool
<1>3. \A a : NoLease(a) => NoLease(a)'
  BY NoNewLease
<1>4. DrainSpares'
  BY <1>3 DEF DrainSpares
<1> QED
  BY <1>1, <1>2, <1>4

LEMMA AdmitOnLaneKeeps ==
  ASSUME RetireInv, NEW t \in Turns, AdmitOnLane(t)
  PROVE  RetireInv'
<1> USE DEF RetireInv, AdmitOnLane
<1>1. PICK i \in DOMAIN pooled : turn' = [turn EXCEPT ![t] = [pc |-> "admit", slot |-> pooled[i]]]
  OBVIOUS
<1> DEFINE r == [pc |-> "admit", slot |-> pooled[i]]
<1>2. pooled[i] \in Slots
  BY DEF RetireTypeOK
<1>3. r \in Turned /\ r.slot \in Slots /\ r.pc = "admit"
  BY <1>2 DEF Turned
<1>4. turn' = [turn EXCEPT ![t] = r]
  BY <1>1
<1> HIDE DEF r
<1>5. busy' \in [Slots -> Nat]
  BY DEF RetireTypeOK
<1>6. BusyIsHeld'
  BY <1>3, <1>4, HoldersStay
<1> QED
  BY <1>3, <1>4, <1>5, <1>6, TurnKeeps

LEMMA SessionAdmittedKeeps ==
  ASSUME RetireInv, NEW t \in Turns, SessionAdmitted(t)
  PROVE  RetireInv'
<1> USE DEF RetireInv, SessionAdmitted
<1> DEFINE r == IF InPool(turn[t].slot) THEN [turn[t] EXCEPT !.pc = "run"] ELSE NoTurn
<1>1. turn[t] \in Turned /\ turn[t].slot \in Slots
  BY DEF RetireTypeOK
<1>2. r \in Turned /\ r.pc \in {"run", "idle"} /\ (r.pc # "idle" => r.slot \in Slots)
  BY <1>1 DEF Turned, NoTurn
<1>3. turn' = [turn EXCEPT ![t] = r]
  BY DEF RetireTypeOK
<1> HIDE DEF r
<1>4. busy' \in [Slots -> Nat]
  BY DEF RetireTypeOK
<1>5. BusyIsHeld'
  BY <1>2, <1>3, HoldersStay
<1> QED
  BY <1>2, <1>3, <1>4, <1>5, TurnKeeps

LEMMA RunAcquiredKeeps ==
  ASSUME RetireInv, NEW t \in Turns, RunAcquired(t)
  PROVE  RetireInv'
<1> USE DEF RetireInv, RunAcquired
<1> DEFINE r == [turn[t] EXCEPT !.pc = "look"]
           a == turn[t].slot
<1>1. turn[t] \in Turned /\ a \in Slots
  BY DEF RetireTypeOK
<1>2. r \in Turned /\ r.pc = "look" /\ r.slot = a
  BY <1>1 DEF Turned
<1>3. turn' = [turn EXCEPT ![t] = r]
  BY DEF RetireTypeOK
<1>4. busy' = [busy EXCEPT ![a] = @ + 1] /\ turn[t].pc = "run"
  OBVIOUS
<1>5. turn[t].slot = a
  OBVIOUS
<1> HIDE DEF r, a
<1>6. BusyIsHeld' /\ busy' \in [Slots -> Nat]
  BY <1>1, <1>2, <1>3, <1>4, HolderComes
<1> QED
  BY <1>1, <1>2, <1>3, <1>6, TurnKeeps

\* The last look grants only what is in the roster, which nobody drains.
LEMMA GrantIfPooledKeeps ==
  ASSUME RetireInv, NEW t \in Turns, GrantIfPooled(t)
  PROVE  RetireInv'
<1> USE DEF RetireInv, GrantIfPooled
<1> DEFINE a == turn[t].slot
<1>0. turn[t] \in Turned /\ a \in Slots
  BY DEF RetireTypeOK
<1>1. CASE InPool(a)
  <2> DEFINE r == [turn[t] EXCEPT !.pc = "lease"]
  <2>1. r \in Turned /\ r.pc = "lease" /\ r.slot = a
    BY <1>0 DEF Turned
  <2>2. turn' = [turn EXCEPT ![t] = r] /\ busy' = busy
    BY <1>1 DEF RetireTypeOK
  <2> HIDE DEF r
  <2>3. BusyIsHeld'
    BY <2>1, <2>2, HoldersStay
  <2>4. RetireTypeOK'
    BY <1>0, <2>1, <2>2, TurnTyped DEF RetireTypeOK
  <2>5. GoneForGood'
    BY DEF GoneForGood, InPool
  <2>6. \A b : b # a /\ NoLease(b) => NoLease(b)'
    BY <2>1, <2>2 DEF RetireTypeOK, NoLease
  <2>7. a \notin drained /\ (remover.pc \in {"park", "drain"} => remover.slot # a)
    BY <1>1 DEF GoneForGood
  <2>8. DrainSpares'
    BY <2>6, <2>7 DEF DrainSpares
  <2> QED
    BY <2>3, <2>4, <2>5, <2>8
<1>2. CASE ~InPool(a)
  <2>1. NoTurn \in Turned /\ NoTurn.pc = "idle"
    BY DEF Turned, NoTurn
  <2>2. turn' = [turn EXCEPT ![t] = NoTurn] /\ busy' = [busy EXCEPT ![a] = @ - 1]
    BY <1>2 DEF RetireTypeOK
  <2>3. turn[t].pc = "look"
    OBVIOUS
  <2>4. BusyIsHeld' /\ busy' \in [Slots -> Nat]
    BY <1>0, <2>1, <2>2, <2>3, HolderGoes
  <2> QED
    BY <2>1, <2>2, <2>4, TurnKeeps
<1> QED
  BY <1>1, <1>2

LEMMA LeaseReleaseKeeps ==
  ASSUME RetireInv, NEW t \in Turns, LeaseRelease(t) \/ LeaseAbandon(t)
  PROVE  RetireInv'
<1> USE DEF RetireInv, LeaseRelease, LeaseAbandon
<1> DEFINE a == turn[t].slot
           r == IF LeaseRelease(t) THEN [turn[t] EXCEPT !.pc = "released"] ELSE NoTurn
<1>1. turn[t] \in Turned /\ a \in Slots /\ turn[t].pc = "lease"
  BY DEF RetireTypeOK
<1>2. r \in Turned /\ r.pc \in {"released", "idle"} /\ (r.pc # "idle" => r.slot \in Slots)
  BY <1>1 DEF Turned, NoTurn
<1>3. turn' = [turn EXCEPT ![t] = r] /\ busy' = [busy EXCEPT ![a] = @ - 1]
  BY DEF RetireTypeOK
<1>4. UNCHANGED <<pooled, retired, drained, remover>>
  OBVIOUS
<1>5. turn[t].slot = a
  OBVIOUS
<1> HIDE DEF r, a
<1>6. BusyIsHeld' /\ busy' \in [Slots -> Nat]
  BY <1>1, <1>2, <1>3, <1>5, HolderGoes
<1> QED
  BY <1>2, <1>3, <1>4, <1>6, TurnKeeps

\* The last release drains: the count it reads says that nobody has a lease.
LEMMA DrainReleasedKeeps ==
  ASSUME RetireInv, NEW t \in Turns, DrainReleased(t)
  PROVE  RetireInv'
<1> USE DEF RetireInv, DrainReleased
<1> DEFINE a == turn[t].slot
<1>1. turn[t] \in Turned /\ a \in Slots /\ turn[t].pc = "released"
  BY DEF RetireTypeOK
<1>2. NoTurn \in Turned /\ NoTurn.pc = "idle"
  BY DEF Turned, NoTurn
<1>3. turn' = [turn EXCEPT ![t] = NoTurn] /\ busy' = busy
  OBVIOUS
<1>4. BusyIsHeld'
  BY <1>1, <1>2, <1>3, HoldersStay
<1>5. retired' \subseteq retired /\ drained' \subseteq drained \cup {a}
  BY DEF Drain
<1>6. a \in drained' => a \in drained \/ (a \in retired /\ busy[a] = 0)
  OBVIOUS
<1>7. RetireTypeOK'
  BY <1>1, <1>2, <1>3, <1>5, TurnTyped DEF RetireTypeOK
<1>8. GoneForGood'
  BY <1>5, <1>6 DEF GoneForGood, InPool
<1>9. \A b : NoLease(b) => NoLease(b)'
  BY <1>2, <1>3, NoNewLease
<1>10. a \in drained' => NoLease(a)
  BY <1>1, <1>6, IdleIsUnleased DEF DrainSpares
<1>11. DrainSpares'
  BY <1>5, <1>9, <1>10 DEF DrainSpares
<1> QED
  BY <1>4, <1>7, <1>8, <1>11

\* The removal: from the look for slipped leases on, nobody can get one.
LEMMA RemovalKeeps ==
  ASSUME RetireInv, Removals \subseteq {"last"},
         RemoveToken \/ RemoveFromRoster \/ LookForSlip \/ ParkRemoved \/ DrainRemovedToken
         \/ PruneRetired
  PROVE  RetireInv'
<1>a. RetireTypeOK /\ BusyIsHeld /\ GoneForGood /\ DrainSpares
  BY DEF RetireInv
<1>0. turn' = turn /\ busy' = busy
  BY DEF RemoveToken, RemoveFromRoster, LookForSlip, ParkRemoved, DrainRemovedToken, PruneRetired
<1>1. BusyIsHeld' /\ \A b : NoLease(b)' = NoLease(b)
  BY <1>a, <1>0 DEF BusyIsHeld, Holders, NoLease
<1>2. remover \in Remover /\ remover.kind = "last"
  BY <1>a DEF RetireTypeOK, Remover
<1>3. CASE RemoveToken
  <2>1. PICK kind \in Removals, i \in DOMAIN pooled :
          remover' = [NoRemoval EXCEPT !.pc = "tested", !.slot = pooled[i], !.kind = kind]
    BY <1>3 DEF RemoveToken
  <2>2. pooled[i] \in Slots
    BY <1>a DEF RetireTypeOK
  <2>3. remover' \in Remover /\ remover'.pc = "tested" /\ remover'.slot \in Slots
    BY <2>1, <2>2 DEF Remover, NoRemoval
  <2>4. RetireTypeOK'
    BY <1>a, <1>0, <1>3, <2>3 DEF RetireTypeOK, RemoveToken
  <2>5. GoneForGood' /\ DrainSpares'
    BY <1>a, <1>1, <1>3, <2>3 DEF GoneForGood, DrainSpares, InPool, RemoveToken
  <2> QED
    BY <1>1, <2>4, <2>5 DEF RetireInv
<1>4. CASE RemoveFromRoster
  <2>1. PICK i \in DOMAIN pooled : pooled[i] = remover.slot /\ pooled' = RemoveAt(pooled, i)
    BY <1>4 DEF RemoveFromRoster
  <2>2. pooled \in Seq(Slots) /\ IsInjective(pooled)
    BY <1>a DEF RetireTypeOK, GoneForGood
  <2>3. pooled' \in Seq(Slots) /\ IsInjective(pooled')
    BY <2>1, <2>2, RemoveAtRemoves
  <2>4. \A b : (\E j \in DOMAIN pooled' : pooled'[j] = b) => b # remover.slot /\ InPool(b)
    <3>1. \A b : (\E j \in DOMAIN RemoveAt(pooled, i) : RemoveAt(pooled, i)[j] = b)
                   => b # pooled[i] /\ \E j \in DOMAIN pooled : pooled[j] = b
      BY <2>2, RemoveAtRemoves
    <3> QED
      BY <2>1, <3>1, Zenon DEF InPool
  <2>5. remover' = [remover EXCEPT !.pc = "slip"] /\ remover.pc = "tested"
    BY <1>2, <1>4 DEF RemoveFromRoster
  <2>6. remover' \in Remover /\ remover'.slot = remover.slot /\ remover'.pc = "slip"
    BY <1>2, <2>5 DEF Remover
  <2>7. RetireTypeOK'
    BY <1>a, <1>0, <1>4, <2>3, <2>5, <2>6 DEF RetireTypeOK, RemoveFromRoster
  <2>8. GoneForGood'
    BY <1>a, <1>4, <2>3, <2>4, <2>6 DEF GoneForGood, InPool, RemoveFromRoster
  <2>9. DrainSpares'
    BY <1>a, <1>1, <1>4, <2>6 DEF DrainSpares, RemoveFromRoster
  <2> QED
    BY <1>1, <2>7, <2>8, <2>9 DEF RetireInv
<1>5. CASE LookForSlip
  <2>1. remover.pc = "slip" /\ remover.slot \in Slots
    BY <1>a, <1>5 DEF RetireTypeOK, LookForSlip
  <2> DEFINE b == busy[remover.slot] > 0
  <2>b. b \in BOOLEAN /\ remover' = [remover EXCEPT !.pc = "park", !.slip = b]
    BY <1>5 DEF LookForSlip
  <2> HIDE DEF b
  <2>2. /\ remover' \in Remover /\ remover'.slot = remover.slot /\ remover'.pc = "park"
        /\ remover'.slip = b
    BY <1>2, <2>b DEF Remover
  <2>3. RetireTypeOK'
    BY <1>a, <1>0, <1>5, <2>1, <2>2 DEF RetireTypeOK, LookForSlip
  <2>4. GoneForGood'
    BY <1>a, <1>5, <2>1, <2>2 DEF GoneForGood, InPool, LookForSlip
  <2>5. busy[remover.slot] \in Nat
    BY <1>a, <2>1 DEF RetireTypeOK
  <2>6. ~remover'.slip => NoLease(remover.slot)
    <3>1. ~b => busy[remover.slot] = 0
      BY <2>5 DEF b
    <3> QED
      BY <1>a, <2>1, <2>2, <3>1, IdleIsUnleased
  <2>7. DrainSpares'
    BY <1>a, <1>0, <1>5, <2>2, <2>6 DEF DrainSpares, NoLease, LookForSlip
  <2> QED
    BY <1>1, <2>3, <2>4, <2>7 DEF RetireInv
<1>6. CASE ParkRemoved
  <2>1. remover.pc = "park" /\ remover.slot \in Slots
    BY <1>a, <1>6 DEF RetireTypeOK, ParkRemoved
  <2>2. \/ remover' = NoRemoval
        \/ ~remover.slip /\ remover' = [remover EXCEPT !.pc = "drain"]
    BY <1>6 DEF ParkRemoved
  <2>3. \/ remover' \in Remover /\ remover'.pc = "idle"
        \/ ~remover.slip /\ remover' \in Remover /\ remover'.pc = "drain" /\ remover'.slot = remover.slot
    <3>1. NoRemoval \in Remover /\ NoRemoval.pc = "idle"
      BY DEF Remover, NoRemoval
    <3>2. /\ [remover EXCEPT !.pc = "drain"] \in Remover
          /\ [remover EXCEPT !.pc = "drain"].pc = "drain"
          /\ [remover EXCEPT !.pc = "drain"].slot = remover.slot
      BY <1>2 DEF Remover
    <3> QED
      BY <2>2, <3>1, <3>2
  <2>4. RetireTypeOK'
    BY <1>a, <1>0, <1>6, <2>1, <2>3 DEF RetireTypeOK, ParkRemoved
  <2>5. GoneForGood'
    BY <1>a, <1>6, <2>1, <2>3 DEF GoneForGood, InPool, ParkRemoved
  <2>6. DrainSpares'
    BY <1>a, <1>1, <1>6, <2>1, <2>3 DEF DrainSpares, NoLease, ParkRemoved
  <2> QED
    BY <1>1, <2>4, <2>5, <2>6 DEF RetireInv
<1>7. CASE DrainRemovedToken
  <2>1. remover.pc = "drain" /\ remover.slot \in Slots
    BY <1>a, <1>7 DEF RetireTypeOK, DrainRemovedToken
  <2>2. remover' \in Remover /\ remover'.pc = "idle"
    BY <1>7 DEF Remover, NoRemoval, DrainRemovedToken
  <2>3. drained' = drained \cup {remover.slot} /\ retired' \subseteq retired /\ pooled' = pooled
    BY <1>7 DEF Drain, DrainRemovedToken
  <2>4. RetireTypeOK'
    BY <1>a, <1>0, <2>1, <2>2, <2>3 DEF RetireTypeOK
  <2>5. GoneForGood'
    BY <1>a, <2>1, <2>2, <2>3 DEF GoneForGood, InPool
  <2>6. DrainSpares'
    BY <1>a, <1>1, <2>1, <2>2, <2>3 DEF DrainSpares
  <2> QED
    BY <1>1, <2>4, <2>5, <2>6 DEF RetireInv
<1>8. CASE PruneRetired
  <2>1. retired' \subseteq retired /\ UNCHANGED <<pooled, drained, remover>>
    BY <1>8 DEF PruneRetired
  <2>2. RetireTypeOK'
    BY <1>a, <1>0, <2>1 DEF RetireTypeOK
  <2>3. GoneForGood' /\ DrainSpares'
    BY <1>a, <1>1, <2>1 DEF GoneForGood, DrainSpares, InPool
  <2> QED
    BY <1>1, <2>2, <2>3 DEF RetireInv
<1> QED
  BY <1>3, <1>4, <1>5, <1>6, <1>7, <1>8

LEMMA RetireStep ==
  ASSUME RetireInv, Removals \subseteq {"last"}, [RetireNext]_retireVars
  PROVE  RetireInv'
<1>1. ASSUME NEW t \in Turns,
             \/ AdmitOnLane(t) \/ SessionAdmitted(t) \/ RunAcquired(t) \/ GrantIfPooled(t)
             \/ LeaseRelease(t) \/ LeaseAbandon(t) \/ DrainReleased(t)
      PROVE  RetireInv'
  BY <1>1, AdmitOnLaneKeeps, SessionAdmittedKeeps, RunAcquiredKeeps, GrantIfPooledKeeps,
     LeaseReleaseKeeps, DrainReleasedKeeps
<1>2. CASE UNCHANGED retireVars
  BY <1>2 DEF retireVars, RetireInv, RetireTypeOK, BusyIsHeld, GoneForGood, DrainSpares,
              Holders, NoLease, InPool
<1> QED
  BY <1>1, <1>2, RemovalKeeps DEF RetireNext

\* The inductive invariant of a pool whose accounts go by RemoveLastToken.
\* RemoveTokenAt does not look for leases that slipped in (pool/lifecycle.go:288).
THEOREM RetirementKept ==
  ASSUME Removals \subseteq {"last"}
  PROVE  RetireSpec => []RetireInv
<1>1. RetireInit => RetireInv
  BY RetireStart
<1>2. RetireInv /\ [RetireNext]_retireVars => RetireInv'
  BY RetireStep
<1> QED
  BY <1>1, <1>2, PTL DEF RetireSpec

\* An account that RemoveLastToken takes out of the roster is drained under no
\* lease, whatever requests were between the roster they loaded and their last
\* look at it (RemoveLastToken, LeaseRelease, admitOnLane).
THEOREM NoDrainUnderALease ==
  ASSUME Removals \subseteq {"last"}
  PROVE  RetireSpec => []NoDrainUnderLease
<1>1. RetireInv => NoDrainUnderLease
  BY DEF RetireInv, DrainSpares, NoLease, NoDrainUnderLease
<1> QED
  BY <1>1, RetirementKept, PTL

-----------------------------------------------------------------------------
(* The bridge cache.                                                       *)

Entries == [sess : BOOLEAN, inflight : Nat, stale : BOOLEAN, cooled : BOOLEAN]
CachePCs == {"idle", "permit", "recheck", "build", "close", "gates", "admit", "refused",
             "ready", "run", "leasing", "leased"}
BridgeReq == [pc : CachePCs, key : Clients, id : 0..built]

\* The points at which a request has been handed an entry, at which it counts
\* in the entry's runs, and at which it holds a permit.
HasEntry(r) == breq[r].pc \notin {"idle", "permit", "recheck", "build"}
OnEntry(i) == {r \in BridgeReqs : breq[r].pc \in {"leasing", "leased"} /\ breq[r].id = i}
Building == {r \in BridgeReqs : breq[r].pc \in {"recheck", "build", "close"}}
Closers == BridgeReqs \cup {Sweeper}
Builds(s) == s.pc \in {"recheck", "build", "close"}
Leases(s) == s.pc \in {"leasing", "leased"}

\* An entry's runs are the leases of the requests on it.
LeasesCounted == \A i \in Ids : entry[i].inflight = Cardinality(OnEntry(i))

\* The list holds the keys of the map, once each.
ListIsMap == ToSet(order) = {k \in Clients : bridge[k] # 0} /\ IsInjective(order)

\* An entry is cached under one key, and what is cached nobody is closing.
EntriesDiffer ==
  /\ \A j, k \in Clients : j # k /\ bridge[j] # 0 => bridge[j] # bridge[k]
  /\ \A k \in Clients, g \in Closers : bridge[k] \notin victims[g]

MapOK ==
  /\ built \in 0..MaxBuilt
  /\ bridge \in [Clients -> 0..built] /\ order \in Seq(Clients)
  /\ entry \in [Ids -> Entries]
  /\ victims \in [Closers -> SUBSET (1..built)]
  /\ ListIsMap /\ EntriesDiffer

\* The permits are those of the requests that build.
PermitsHeld == building \in Nat /\ building = Cardinality(Building)

LeasedCached == \A r \in BridgeReqs : breq[r].pc = "leased" => Cached(r)

RequestsTyped ==
  breq \in [BridgeReqs -> BridgeReq] /\ \A r \in BridgeReqs : HasEntry(r) => breq[r].id # 0

ReqsOK == RequestsTyped /\ LeasesCounted /\ PermitsHeld /\ LeasedCached

CacheInv == MapOK /\ ReqsOK

-----------------------------------------------------------------------------
(* The recency list.                                                       *)

\* Taking keys out of the list takes them out, and nothing else.
LEMMA OrderWithout ==
  ASSUME NEW q \in Seq(Clients), IsInjective(q), NEW ks
  PROVE  /\ RemoveBridgeOrder(q, ks) \in Seq(Clients) /\ IsInjective(RemoveBridgeOrder(q, ks))
         /\ ToSet(RemoveBridgeOrder(q, ks)) = ToSet(q) \ ks
<1> DEFINE stay == {i \in DOMAIN q : q[i] \notin ks}
<1>1. stay \in SUBSET DOMAIN q /\ {q[i] : i \in stay} = ToSet(q) \ ks
  BY DEF ToSet
<1>2. RemoveBridgeOrder(q, ks) = Picked(q, stay)
  BY DEF RemoveBridgeOrder
<1> HIDE DEF stay
<1> QED
  BY <1>1, <1>2, PickedIs

\* A key that is put at the end of a list it is not in.
LEMMA OrderAppends ==
  ASSUME NEW q \in Seq(Clients), IsInjective(q), NEW k \in Clients, k \notin ToSet(q)
  PROVE  /\ Append(q, k) \in Seq(Clients) /\ IsInjective(Append(q, k))
         /\ ToSet(Append(q, k)) = ToSet(q) \cup {k}
<1> DEFINE w == Append(q, k)
<1>1. w \in Seq(Clients) /\ Len(w) = Len(q) + 1
  OBVIOUS
<1>2. w[Len(q) + 1] = k /\ \A i \in 1..Len(q) : w[i] = q[i]
  OBVIOUS
<1>3. DOMAIN w = 1..(Len(q) + 1) /\ DOMAIN q = 1..Len(q) /\ Len(q) \in Nat
  BY <1>1
<1> HIDE DEF w
<1>4. \A i \in 1..Len(q) : q[i] # k
  BY <1>3 DEF ToSet
<1>5. IsInjective(w)
  BY <1>2, <1>3, <1>4 DEF IsInjective
<1>6. ToSet(w) = ToSet(q) \cup {k}
  <2>1. ASSUME NEW a \in ToSet(w) PROVE a \in ToSet(q) \cup {k}
    <3>1. PICK i \in 1..(Len(q) + 1) : a = w[i]
      BY <1>3, <2>1 DEF ToSet
    <3> QED
      BY <1>2, <1>3, <3>1 DEF ToSet
  <2>2. ASSUME NEW a \in ToSet(q) \cup {k} PROVE a \in ToSet(w)
    <3>1. \E i \in 1..(Len(q) + 1) : a = w[i]
      BY <1>2, <1>3, <2>2 DEF ToSet
    <3> QED
      BY <1>3, <3>1 DEF ToSet
  <2> QED
    BY <2>1, <2>2
<1> QED
  BY <1>1, <1>5, <1>6 DEF w

\* A key that has been used moves to the end.
LEMMA OrderTouched ==
  ASSUME order \in Seq(Clients), IsInjective(order), NEW k \in Clients, k \in ToSet(order)
  PROVE  /\ BridgeTouch(k) \in Seq(Clients) /\ IsInjective(BridgeTouch(k))
         /\ ToSet(BridgeTouch(k)) = ToSet(order)
<1> DEFINE w == RemoveBridgeOrder(order, {k})
<1>1. w \in Seq(Clients) /\ IsInjective(w) /\ ToSet(w) = ToSet(order) \ {k}
  BY OrderWithout
<1>2. BridgeTouch(k) = Append(w, k)
  BY DEF BridgeTouch
<1> HIDE DEF w
<1>3. k \notin ToSet(w) /\ ToSet(order) = ToSet(w) \cup {k}
  BY <1>1
<1> QED
  BY <1>1, <1>2, <1>3, OrderAppends

-----------------------------------------------------------------------------
(* The map of the cache.                                                   *)

LEMMA MapStays ==
  ASSUME MapOK, UNCHANGED <<bridge, built, victims>>, entry' \in [Ids -> Entries],
         order' \in Seq(Clients), IsInjective(order'), ToSet(order') = ToSet(order)
  PROVE  MapOK'
BY DEF MapOK, ListIsMap, EntriesDiffer

\* Keys that are evicted leave the map and the list, and their entries go to
\* whoever closes them.
LEMMA Evicts ==
  ASSUME MapOK, NEW g \in Closers, NEW out \in SUBSET {k \in Clients : bridge[k] # 0},
         bridge' = [k \in Clients |-> IF k \in out THEN 0 ELSE bridge[k]],
         order' = RemoveBridgeOrder(order, out),
         victims' = [victims EXCEPT ![g] = {bridge[k] : k \in out}],
         UNCHANGED <<built, entry>>
  PROVE  MapOK'
<1>1. bridge' \in [Clients -> 0..built']
  BY DEF MapOK
<1>2. order' \in Seq(Clients) /\ IsInjective(order') /\ ToSet(order') = ToSet(order) \ out
  BY OrderWithout DEF MapOK, ListIsMap
<1>3. {bridge[k] : k \in out} \in SUBSET (1..built)
  BY DEF MapOK
<1>4. victims' \in [Closers -> SUBSET (1..built')]
  BY <1>3 DEF MapOK
<1>5. ListIsMap'
  <2>1. ToSet(order') = {k \in Clients : bridge'[k] # 0}
    BY <1>2 DEF MapOK, ListIsMap
  <2> QED
    BY <1>2, <2>1 DEF ListIsMap
<1>6. \A j, k \in Clients : j # k /\ bridge'[j] # 0 => bridge'[j] # bridge'[k]
  BY DEF MapOK, EntriesDiffer
<1>7. ASSUME NEW k \in Clients, NEW h \in Closers PROVE bridge'[k] \notin victims'[h]
  <2>1. CASE h = g
    <3>1. victims'[h] = {bridge[j] : j \in out}
      BY <2>1 DEF MapOK
    <3>2. ASSUME NEW j \in out, bridge'[k] = bridge[j] PROVE FALSE
      <4>1. bridge[j] # 0 /\ j \in Clients
        OBVIOUS
      <4>2. k \notin out /\ bridge'[k] = bridge[k]
        BY <3>2, <4>1
      <4> QED
        BY <3>2, <4>1, <4>2 DEF MapOK, EntriesDiffer
    <3> QED
      BY <3>1, <3>2
  <2>2. CASE h # g
    <3>1. victims'[h] = victims[h] /\ 0 \notin victims[h]
      BY <2>2 DEF MapOK
    <3> QED
      BY <3>1 DEF MapOK, EntriesDiffer
  <2> QED
    BY <2>1, <2>2
<1>8. EntriesDiffer'
  BY <1>6, <1>7 DEF EntriesDiffer
<1> QED
  BY <1>1, <1>2, <1>4, <1>5, <1>8 DEF MapOK

\* A new entry, and the evictions that make room for it.
LEMMA Inserts ==
  ASSUME MapOK, NEW g \in Closers, NEW k \in Clients, bridge[k] = 0, built < MaxBuilt,
         NEW out \in SUBSET {j \in Clients : bridge[j] # 0},
         built' = built + 1,
         bridge' = [j \in Clients |-> IF j = k THEN built + 1 ELSE IF j \in out THEN 0 ELSE bridge[j]],
         order' = RemoveBridgeOrder(Append(order, k), out),
         victims' = [victims EXCEPT ![g] = {bridge[j] : j \in out}],
         entry' = entry
  PROVE  MapOK'
<1>0. MaxBuilt \in Nat /\ built \in 0..MaxBuilt
  BY CacheAssumption DEF MapOK
<1>1. built' \in 0..MaxBuilt /\ bridge' \in [Clients -> 0..built']
  BY <1>0 DEF MapOK
<1>2. k \notin ToSet(order) /\ k \notin out
  BY DEF MapOK, ListIsMap
<1>3. /\ Append(order, k) \in Seq(Clients) /\ IsInjective(Append(order, k))
      /\ ToSet(Append(order, k)) = ToSet(order) \cup {k}
  BY <1>2, OrderAppends DEF MapOK, ListIsMap
<1>4. /\ order' \in Seq(Clients) /\ IsInjective(order')
      /\ ToSet(order') = (ToSet(order) \cup {k}) \ out
  BY <1>3, OrderWithout
<1>5. {bridge[j] : j \in out} \in SUBSET (1..built) /\ 1..built \subseteq 1..built'
  BY <1>0 DEF MapOK
<1>6. victims' \in [Closers -> SUBSET (1..built')]
  BY <1>5 DEF MapOK
<1>7. ListIsMap'
  <2>1. ToSet(order') = {j \in Clients : bridge'[j] # 0}
    BY <1>0, <1>2, <1>4 DEF MapOK, ListIsMap
  <2> QED
    BY <1>4, <2>1 DEF ListIsMap
<1>8. \A j \in Clients : bridge[j] # built + 1
  BY <1>0 DEF MapOK
<1>9. \A i, j \in Clients : i # j /\ bridge'[i] # 0 => bridge'[i] # bridge'[j]
  BY <1>0, <1>8 DEF MapOK, EntriesDiffer
<1>10. ASSUME NEW j \in Clients, NEW h \in Closers PROVE bridge'[j] \notin victims'[h]
  <2>0. built + 1 \notin victims'[h]
    BY <1>0, <1>5 DEF MapOK
  <2>1. CASE h = g
    <3>1. victims'[h] = {bridge[i] : i \in out}
      BY <2>1 DEF MapOK
    <3>2. ASSUME NEW i \in out, bridge'[j] = bridge[i] PROVE FALSE
      <4>1. bridge[i] # 0 /\ i \in Clients /\ bridge[i] # built + 1
        BY <1>8
      <4>2. j \notin out /\ bridge'[j] = bridge[j]
        BY <3>2, <4>1, <1>2
      <4> QED
        BY <3>2, <4>1, <4>2 DEF MapOK, EntriesDiffer
    <3> QED
      BY <3>1, <3>2
  <2>2. CASE h # g
    <3>1. victims'[h] = victims[h] /\ 0 \notin victims[h]
      BY <2>2 DEF MapOK
    <3> QED
      BY <2>0, <3>1 DEF MapOK, EntriesDiffer
  <2> QED
    BY <2>1, <2>2
<1>11. EntriesDiffer'
  BY <1>9, <1>10 DEF EntriesDiffer
<1> QED
  BY <1>1, <1>4, <1>6, <1>7, <1>11 DEF MapOK

-----------------------------------------------------------------------------
(* The requests of the cache.                                              *)

LEMMA RequestsFinite ==
  /\ \A i : IsFiniteSet(OnEntry(i)) /\ Cardinality(OnEntry(i)) \in Nat
  /\ IsFiniteSet(Building) /\ Cardinality(Building) \in Nat
<1>1. Building \subseteq BridgeReqs /\ \A i : OnEntry(i) \subseteq BridgeReqs
  BY DEF Building, OnEntry
<1> QED
  BY <1>1, CacheAssumption, FS_Subset, FS_CardinalityType

\* A permit is taken and goes back with the step that says so.
LEMMA PermitsKept ==
  ASSUME RequestsTyped, PermitsHeld, NEW r \in BridgeReqs, NEW s,
         breq' = [breq EXCEPT ![r] = s],
         \/ Builds(breq[r]) /\ Builds(s) /\ building' = building
         \/ ~Builds(breq[r]) /\ ~Builds(s) /\ building' = building
         \/ ~Builds(breq[r]) /\ Builds(s) /\ building' = building + 1
         \/ Builds(breq[r]) /\ ~Builds(s) /\ building' = building - 1
  PROVE  PermitsHeld'
<1>0. Cardinality(Building)' = Cardinality(Building')
  OBVIOUS
<1>1. CASE Builds(breq[r]) <=> Builds(s)
  <2>1. Building' = Building
    BY <1>1 DEF RequestsTyped, Building, Builds
  <2> QED
    BY <1>1, <2>1 DEF PermitsHeld
<1>2. CASE ~Builds(breq[r]) /\ Builds(s)
  <2>1. Building' = Building \cup {r} /\ r \notin Building
    BY <1>2 DEF RequestsTyped, Building, Builds
  <2>2. Cardinality(Building') = Cardinality(Building) + 1
    BY <2>1, RequestsFinite, FS_AddElement
  <2> QED
    BY <1>2, <2>2 DEF PermitsHeld
<1>3. CASE Builds(breq[r]) /\ ~Builds(s)
  <2>1. Building' = Building \ {r} /\ r \in Building
    BY <1>3 DEF RequestsTyped, Building, Builds
  <2>2. Cardinality(Building') = Cardinality(Building) - 1
    BY <2>1, RequestsFinite, FS_RemoveElement
  <2>3. Cardinality(Building) # 0
    BY <2>1, RequestsFinite, FS_EmptySet
  <2> QED
    BY <1>3, <2>2, <2>3 DEF PermitsHeld
<1> QED
  BY <1>1, <1>2, <1>3

\* A step that neither takes nor gives back a lease.
LEMMA LeasesStay ==
  ASSUME RequestsTyped, LeasesCounted, NEW r \in BridgeReqs, NEW s,
         breq' = [breq EXCEPT ![r] = s],
         \/ ~Leases(breq[r]) /\ ~Leases(s)
         \/ Leases(breq[r]) /\ Leases(s) /\ s.id = breq[r].id,
         \A i \in Ids : entry'[i].inflight = entry[i].inflight
  PROVE  LeasesCounted'
<1>1. \A i \in Ids : OnEntry(i)' = OnEntry(i)
  BY DEF RequestsTyped, OnEntry, Leases
<1> QED
  BY <1>1 DEF LeasesCounted

LEMMA LeaseTaken ==
  ASSUME RequestsTyped, LeasesCounted, entry \in [Ids -> Entries],
         NEW r \in BridgeReqs, NEW s, NEW i \in Ids,
         breq' = [breq EXCEPT ![r] = s], entry' = [entry EXCEPT ![i].inflight = @ + 1],
         ~Leases(breq[r]), Leases(s), s.id = i
  PROVE  LeasesCounted' /\ entry' \in [Ids -> Entries]
<1>1. OnEntry(i)' = OnEntry(i) \cup {r} /\ r \notin OnEntry(i)
  BY DEF RequestsTyped, OnEntry, Leases
<1>2. \A j \in Ids \ {i} : OnEntry(j)' = OnEntry(j)
  BY DEF RequestsTyped, OnEntry, Leases
<1>3. Cardinality(OnEntry(i)') = Cardinality(OnEntry(i)) + 1
  BY <1>1, RequestsFinite, FS_AddElement
<1>4. entry'[i].inflight = entry[i].inflight + 1 /\ \A j \in Ids \ {i} : entry'[j] = entry[j]
  BY DEF Entries
<1>5. entry' \in [Ids -> Entries]
  BY DEF Entries
<1> QED
  BY <1>2, <1>3, <1>4, <1>5 DEF LeasesCounted

LEMMA LeaseGiven ==
  ASSUME RequestsTyped, LeasesCounted, entry \in [Ids -> Entries],
         NEW r \in BridgeReqs, NEW s, NEW i \in Ids,
         breq' = [breq EXCEPT ![r] = s], entry' = [entry EXCEPT ![i].inflight = @ - 1],
         Leases(breq[r]), breq[r].id = i, ~Leases(s)
  PROVE  LeasesCounted' /\ entry' \in [Ids -> Entries]
<1>1. OnEntry(i)' = OnEntry(i) \ {r} /\ r \in OnEntry(i)
  BY DEF RequestsTyped, OnEntry, Leases
<1>2. \A j \in Ids \ {i} : OnEntry(j)' = OnEntry(j)
  BY DEF RequestsTyped, OnEntry, Leases
<1>3. Cardinality(OnEntry(i)') = Cardinality(OnEntry(i)) - 1
  BY <1>1, RequestsFinite, FS_RemoveElement
<1>4. entry'[i].inflight = entry[i].inflight - 1 /\ \A j \in Ids \ {i} : entry'[j] = entry[j]
  BY DEF Entries
<1>5. entry[i].inflight # 0
  BY <1>1, RequestsFinite, FS_EmptySet DEF LeasesCounted
<1>6. entry[i].inflight - 1 \in Nat
  BY <1>5 DEF Entries
<1>7. entry' \in [Ids -> Entries]
  BY <1>6 DEF Entries
<1> QED
  BY <1>2, <1>3, <1>4, <1>7 DEF LeasesCounted

\* What has no runs is leased by nobody, and may be evicted.
LEMMA EvictedUnleased ==
  ASSUME CacheInv, NEW k \in Clients, bridge[k] # 0, entry[bridge[k]].inflight = 0,
         NEW r \in BridgeReqs, breq[r].pc = "leased"
  PROVE  breq[r].key # k
<1>1. SUFFICES ASSUME breq[r].key = k PROVE FALSE
  OBVIOUS
<1>2. bridge[k] = breq[r].id
  BY <1>1 DEF CacheInv, ReqsOK, LeasedCached, Cached
<1>3. bridge[k] \in Ids
  BY CacheAssumption DEF CacheInv, MapOK, Ids
<1>4. r \in OnEntry(bridge[k])
  BY <1>2 DEF OnEntry
<1>5. Cardinality(OnEntry(bridge[k])) = 0
  BY <1>3 DEF CacheInv, ReqsOK, LeasesCounted
<1> QED
  BY <1>4, <1>5, RequestsFinite, FS_EmptySet

\* A step of a request, put together.
LEMMA RequestKeeps ==
  ASSUME CacheInv, MapOK', LeasesCounted', PermitsHeld', NEW r \in BridgeReqs, NEW s \in BridgeReq',
         breq' = [breq EXCEPT ![r] = s], built' \in {built, built + 1},
         s.pc \notin {"idle", "permit", "recheck", "build"} => s.id # 0,
         s.pc = "leased" => bridge'[s.key] = s.id,
         \A q \in BridgeReqs : breq[q].pc = "leased" => bridge'[breq[q].key] = bridge[breq[q].key]
  PROVE  CacheInv'
<1> USE DEF CacheInv, ReqsOK
<1>0. built \in Nat /\ BridgeReq \subseteq BridgeReq'
  BY CacheAssumption DEF MapOK, BridgeReq
<1>1. breq' \in [BridgeReqs -> BridgeReq']
  BY <1>0 DEF RequestsTyped
<1>2. \A q \in BridgeReqs : HasEntry(q)' => breq'[q].id # 0
  BY DEF RequestsTyped, HasEntry
<1>3. LeasedCached'
  BY DEF RequestsTyped, LeasedCached, Cached
<1> QED
  BY <1>1, <1>2, <1>3 DEF RequestsTyped

LEMMA GoesMoves ==
  ASSUME RequestsTyped, NEW r \in BridgeReqs, NEW pc \in CachePCs, Goes(r, pc)
  PROVE  \E s \in BridgeReq : /\ breq' = [breq EXCEPT ![r] = s]
                             /\ s.pc = pc /\ s.key = breq[r].key /\ s.id = breq[r].id
<1> DEFINE s == [breq[r] EXCEPT !.pc = pc]
<1>1. breq[r] \in BridgeReq
  BY DEF RequestsTyped
<1>2. s \in BridgeReq /\ s.pc = pc /\ s.key = breq[r].key /\ s.id = breq[r].id
  BY <1>1 DEF BridgeReq
<1>3. breq' = [breq EXCEPT ![r] = s]
  BY DEF Goes
<1> HIDE DEF s
<1> QED
  BY <1>2, <1>3

LEMMA GivenMoves ==
  ASSUME RequestsTyped, NEW r \in BridgeReqs, NEW pc \in CachePCs, NEW i \in 0..built',
         BridgeReq \subseteq BridgeReq', Given(r, i, pc)
  PROVE  \E s \in BridgeReq' : /\ breq' = [breq EXCEPT ![r] = s]
                              /\ s.pc = pc /\ s.key = breq[r].key /\ s.id = i
<1> DEFINE s == [breq[r] EXCEPT !.pc = pc, !.id = i]
<1>1. breq \in [BridgeReqs -> BridgeReq] /\ breq[r] \in BridgeReq
  BY DEF RequestsTyped
<1>2. s \in BridgeReq' /\ s.pc = pc /\ s.key = breq[r].key /\ s.id = i
  BY <1>1 DEF BridgeReq
<1>3. breq' = [breq EXCEPT ![r] = s]
  BY <1>1 DEF Given
<1> HIDE DEF s
<1> QED
  BY <1>2, <1>3

LEMMA FailsMoves ==
  ASSUME MapOK, NEW r \in BridgeReqs, Fails(r)
  PROVE  breq' = [breq EXCEPT ![r] = NoReq] /\ NoReq \in BridgeReq /\ NoReq.pc = "idle"
<1>1. (CHOOSE k \in Clients : TRUE) \in Clients
  BY CacheAssumption
<1>2. 0 \in 0..built
  BY CacheAssumption DEF MapOK
<1> QED
  BY <1>1, <1>2 DEF Fails, NoReq, BridgeReq, CachePCs

\* The flags of an entry change no count.
LEMMA FlagsOnly ==
  ASSUME entry \in [Ids -> Entries], NEW i, NEW b \in BOOLEAN,
         \/ entry' = entry
         \/ entry' = [entry EXCEPT ![i].sess = b]
         \/ entry' = [entry EXCEPT ![i].stale = b]
         \/ entry' = [entry EXCEPT ![i].cooled = b]
  PROVE  entry' \in [Ids -> Entries] /\ \A j \in Ids : entry'[j].inflight = entry[j].inflight
BY DEF Entries

\* A step of a request that is on no entry's runs, with the map as it is.
LEMMA PlainStep ==
  ASSUME CacheInv, MapOK', NEW r \in BridgeReqs, NEW s \in BridgeReq,
         breq' = [breq EXCEPT ![r] = s], built' = built, bridge' = bridge,
         \A i \in Ids : entry'[i].inflight = entry[i].inflight,
         ~Leases(breq[r]), ~Leases(s),
         s.pc \notin {"idle", "permit", "recheck", "build"} => s.id # 0,
         \/ Builds(breq[r]) /\ Builds(s) /\ building' = building
         \/ ~Builds(breq[r]) /\ ~Builds(s) /\ building' = building
         \/ ~Builds(breq[r]) /\ Builds(s) /\ building' = building + 1
         \/ Builds(breq[r]) /\ ~Builds(s) /\ building' = building - 1
  PROVE  CacheInv'
<1>1. RequestsTyped /\ LeasesCounted /\ PermitsHeld
  BY DEF CacheInv, ReqsOK
<1>2. PermitsHeld'
  BY <1>1, PermitsKept
<1>3. LeasesCounted'
  BY <1>1, LeasesStay
<1>4. BridgeReq' = BridgeReq
  BY DEF BridgeReq
<1>5. s \in BridgeReq' /\ s.pc # "leased"
  BY <1>4 DEF Leases
<1> QED
  BY <1>2, <1>3, <1>5, RequestKeeps

\* The same for a step that leaves the list alone.
LEMMA QuietStep ==
  ASSUME CacheInv, NEW r \in BridgeReqs, NEW s \in BridgeReq,
         breq' = [breq EXCEPT ![r] = s], UNCHANGED <<bridge, order, built, victims>>,
         entry' \in [Ids -> Entries], \A i \in Ids : entry'[i].inflight = entry[i].inflight,
         ~Leases(breq[r]), ~Leases(s),
         s.pc \notin {"idle", "permit", "recheck", "build"} => s.id # 0,
         \/ Builds(breq[r]) /\ Builds(s) /\ building' = building
         \/ ~Builds(breq[r]) /\ ~Builds(s) /\ building' = building
         \/ ~Builds(breq[r]) /\ Builds(s) /\ building' = building + 1
         \/ Builds(breq[r]) /\ ~Builds(s) /\ building' = building - 1
  PROVE  CacheInv'
<1>1. MapOK'
  BY MapStays DEF CacheInv, MapOK, ListIsMap
<1> QED
  BY <1>1, PlainStep

-----------------------------------------------------------------------------
(* The steps of the cache.                                                 *)

\* A request uses a cached entry: its key moves to the end of the list.
LEMMA TouchKeeps ==
  ASSUME MapOK, UNCHANGED <<bridge, built, victims>>, NEW k \in Clients, bridge[k] # 0,
         order' = BridgeTouch(k), entry' = [entry EXCEPT ![bridge[k]].stale = FALSE]
  PROVE  MapOK' /\ \A j \in Ids : entry'[j].inflight = entry[j].inflight
<1>1. k \in ToSet(order) /\ order \in Seq(Clients) /\ IsInjective(order)
  BY DEF MapOK, ListIsMap
<1>2. order' \in Seq(Clients) /\ IsInjective(order') /\ ToSet(order') = ToSet(order)
  BY <1>1, OrderTouched
<1>3. entry' \in [Ids -> Entries] /\ \A j \in Ids : entry'[j].inflight = entry[j].inflight
  BY FlagsOnly DEF MapOK
<1> QED
  BY <1>2, <1>3, MapStays

LEMMA BridgeEntryForKeeps ==
  ASSUME CacheInv, NEW r \in BridgeReqs, BridgeEntryFor(r)
  PROVE  CacheInv'
<1>1. MapOK /\ RequestsTyped /\ breq[r].pc = "idle"
  BY DEF CacheInv, ReqsOK, BridgeEntryFor, In
<1>2. PICK k \in Clients :
        \/ /\ bridge[k] # 0
           /\ breq' = [breq EXCEPT ![r] = [pc |-> "gates", key |-> k, id |-> bridge[k]]]
           /\ order' = BridgeTouch(k)
           /\ entry' = [entry EXCEPT ![bridge[k]].stale = FALSE]
        \/ /\ bridge[k] = 0
           /\ breq' = [breq EXCEPT ![r] = [pc |-> "permit", key |-> k, id |-> 0]]
           /\ UNCHANGED <<order, entry>>
  BY DEF BridgeEntryFor
<1>3. UNCHANGED <<bridge, built, building, victims>> /\ ~Leases(breq[r]) /\ ~Builds(breq[r])
  BY <1>1 DEF BridgeEntryFor, Leases, Builds
<1>4. CASE bridge[k] # 0
  <2> DEFINE s == [pc |-> "gates", key |-> k, id |-> bridge[k]]
  <2>1. s \in BridgeReq /\ s.pc = "gates" /\ s.id # 0
    BY <1>1, <1>4 DEF BridgeReq, CachePCs, MapOK
  <2>2. breq' = [breq EXCEPT ![r] = s]
    BY <1>2, <1>4
  <2> HIDE DEF s
  <2>3. MapOK' /\ \A j \in Ids : entry'[j].inflight = entry[j].inflight
    BY <1>1, <1>2, <1>3, <1>4, TouchKeeps
  <2>4. ~Leases(s) /\ ~Builds(s)
    BY <2>1 DEF Leases, Builds
  <2> QED
    BY <1>3, <2>1, <2>2, <2>3, <2>4, PlainStep
<1>5. CASE bridge[k] = 0
  <2> DEFINE s == [pc |-> "permit", key |-> k, id |-> 0]
  <2>1. s \in BridgeReq /\ s.pc = "permit"
    BY <1>1 DEF BridgeReq, CachePCs, MapOK
  <2>2. breq' = [breq EXCEPT ![r] = s]
    BY <1>2, <1>5
  <2> HIDE DEF s
  <2>3. UNCHANGED <<order, entry>> /\ entry' \in [Ids -> Entries]
    BY <1>1, <1>2, <1>5 DEF MapOK
  <2>4. ~Leases(s) /\ ~Builds(s)
    BY <2>1 DEF Leases, Builds
  <2> QED
    BY <1>3, <2>1, <2>2, <2>3, <2>4, QuietStep
<1> QED
  BY <1>4, <1>5

LEMMA TakePermitKeeps ==
  ASSUME CacheInv, NEW r \in BridgeReqs, TakePermit(r)
  PROVE  CacheInv'
<1>1. MapOK /\ RequestsTyped /\ ~Leases(breq[r]) /\ ~Builds(breq[r])
  BY DEF CacheInv, ReqsOK, TakePermit, In, Leases, Builds
<1>2. UNCHANGED <<bridge, order, entry, built, victims>> /\ entry' \in [Ids -> Entries]
  BY <1>1 DEF TakePermit, MapOK
<1>3. CASE building' = building + 1 /\ Goes(r, "recheck")
  <2>1. PICK s \in BridgeReq : breq' = [breq EXCEPT ![r] = s] /\ s.pc = "recheck"
    BY <1>1, <1>3, GoesMoves DEF CachePCs
  <2>2. ~Leases(s) /\ Builds(s)
    BY <2>1 DEF Leases, Builds
  <2> QED
    BY <1>1, <1>2, <1>3, <2>1, <2>2, QuietStep
<1>4. CASE Fails(r) /\ UNCHANGED building
  <2>1. breq' = [breq EXCEPT ![r] = NoReq] /\ NoReq \in BridgeReq /\ NoReq.pc = "idle"
    BY <1>1, <1>4, FailsMoves
  <2>2. ~Leases(NoReq) /\ ~Builds(NoReq)
    BY <2>1 DEF Leases, Builds
  <2> QED
    BY <1>1, <1>2, <1>4, <2>1, <2>2, QuietStep
<1> QED
  BY <1>3, <1>4 DEF TakePermit

LEMMA RecheckKeeps ==
  ASSUME CacheInv, NEW r \in BridgeReqs, Recheck(r)
  PROVE  CacheInv'
<1> DEFINE k == breq[r].key
<1>1. MapOK /\ RequestsTyped /\ ~Leases(breq[r]) /\ Builds(breq[r])
  BY DEF CacheInv, ReqsOK, Recheck, In, Leases, Builds
<1>2. UNCHANGED <<bridge, built, victims>> /\ k \in Clients /\ bridge[k] \in 0..built
  BY <1>1 DEF Recheck, MapOK, RequestsTyped, BridgeReq
<1>3. CASE /\ bridge[k] # 0 /\ order' = BridgeTouch(k)
           /\ entry' = [entry EXCEPT ![bridge[k]].stale = FALSE]
           /\ building' = building - 1 /\ Given(r, bridge[k], "gates")
  <2>1. BridgeReq' = BridgeReq /\ bridge[k] \in 0..built' /\ "gates" \in CachePCs
    BY <1>2 DEF BridgeReq, CachePCs
  <2>2. PICK s \in BridgeReq' : /\ breq' = [breq EXCEPT ![r] = s]
                               /\ s.pc = "gates" /\ s.key = breq[r].key /\ s.id = bridge[k]
    BY <1>1, <1>3, <2>1, GivenMoves
  <2>3. MapOK' /\ \A j \in Ids : entry'[j].inflight = entry[j].inflight
    BY <1>1, <1>2, <1>3, TouchKeeps
  <2>4. ~Leases(s) /\ ~Builds(s)
    BY <2>2 DEF Leases, Builds
  <2> QED
    BY <1>1, <1>2, <1>3, <2>1, <2>2, <2>3, <2>4, PlainStep
<1>4. CASE Goes(r, "build") /\ UNCHANGED <<order, entry, building>>
  <2>1. PICK s \in BridgeReq : breq' = [breq EXCEPT ![r] = s] /\ s.pc = "build"
    BY <1>1, <1>4, GoesMoves DEF CachePCs
  <2>2. ~Leases(s) /\ Builds(s) /\ entry' \in [Ids -> Entries]
    BY <1>1, <1>4, <2>1 DEF Leases, Builds, MapOK
  <2> QED
    BY <1>1, <1>2, <1>4, <2>1, <2>2, QuietStep
<1> QED
  BY <1>3, <1>4 DEF Recheck

\* A build that fails, and the return of one whose victims are closed.
LEMMA PermitBackKeeps ==
  ASSUME CacheInv, NEW r \in BridgeReqs, BuildFails(r) \/ EntryReady(r)
  PROVE  CacheInv'
<1>1. MapOK /\ RequestsTyped
  BY DEF CacheInv, ReqsOK
<1>2. /\ UNCHANGED <<bridge, order, entry, built, victims>> /\ entry' \in [Ids -> Entries]
      /\ ~Leases(breq[r]) /\ Builds(breq[r]) /\ building' = building - 1
  BY <1>1 DEF BuildFails, EntryReady, MapOK, In, Leases, Builds
<1>3. CASE BuildFails(r)
  <2>1. breq' = [breq EXCEPT ![r] = NoReq] /\ NoReq \in BridgeReq /\ NoReq.pc = "idle"
    BY <1>1, <1>3, FailsMoves DEF BuildFails
  <2>2. ~Leases(NoReq) /\ ~Builds(NoReq)
    BY <2>1 DEF Leases, Builds
  <2> QED
    BY <1>2, <2>1, <2>2, QuietStep
<1>4. CASE EntryReady(r)
  <2>1. Goes(r, "gates") /\ breq[r].pc = "close"
    BY <1>4 DEF EntryReady, In
  <2>2. PICK s \in BridgeReq : breq' = [breq EXCEPT ![r] = s] /\ s.pc = "gates" /\ s.id = breq[r].id
    BY <1>1, <2>1, GoesMoves DEF CachePCs
  <2>3. s.id # 0
    BY <1>1, <2>1, <2>2 DEF RequestsTyped, HasEntry
  <2>4. ~Leases(s) /\ ~Builds(s)
    BY <2>2 DEF Leases, Builds
  <2> QED
    BY <1>2, <2>2, <2>3, <2>4, QuietStep
<1> QED
  BY <1>3, <1>4

\* Evictions that make room spare the new key and what has runs.
LEMMA RoomSpares ==
  ASSUME MapOK, NEW k \in Clients, bridge[k] = 0,
         NEW j \in BridgeEvictLocked(Append(order, k), k)
  PROVE  j \in Clients /\ bridge[j] # 0 /\ entry[bridge[j]].inflight = 0
<1> DEFINE w == Append(order, k)
<1>1. k \notin ToSet(order) /\ order \in Seq(Clients) /\ IsInjective(order)
  BY DEF MapOK, ListIsMap
<1>2. ToSet(w) = ToSet(order) \cup {k}
  BY <1>1, OrderAppends
<1>3. j \in BridgeEvictLocked(w, k)
  OBVIOUS
<1> HIDE DEF w
<1>4. PICK i \in DOMAIN w : j = w[i] /\ w[i] # k /\ entry[bridge[w[i]]].inflight = 0
  BY <1>3 DEF BridgeEvictLocked, Evictable
<1>5. j \in ToSet(order)
  BY <1>2, <1>4 DEF ToSet
<1> QED
  BY <1>4, <1>5 DEF MapOK, ListIsMap

LEMMA InsertEntryKeeps ==
  ASSUME CacheInv, NEW r \in BridgeReqs, InsertEntry(r)
  PROVE  CacheInv'
<1> DEFINE k   == breq[r].key
           out == BridgeEvictLocked(Append(order, k), k)
<1>1. MapOK /\ RequestsTyped /\ LeasesCounted /\ PermitsHeld
  BY DEF CacheInv, ReqsOK
<1>2. ~Leases(breq[r]) /\ Builds(breq[r]) /\ k \in Clients /\ bridge[k] \in 0..built /\ entry' = entry
  BY <1>1 DEF InsertEntry, MapOK, In, Leases, Builds, RequestsTyped, BridgeReq
<1>3. CASE /\ bridge[k] # 0 /\ building' = building - 1 /\ Given(r, bridge[k], "gates")
           /\ UNCHANGED <<bridge, order, built, victims>>
  <2>1. BridgeReq' = BridgeReq /\ bridge[k] \in 0..built' /\ "gates" \in CachePCs
    BY <1>2, <1>3 DEF BridgeReq, CachePCs
  <2>2. PICK s \in BridgeReq' : /\ breq' = [breq EXCEPT ![r] = s]
                               /\ s.pc = "gates" /\ s.key = breq[r].key /\ s.id = bridge[k]
    BY <1>1, <1>3, <2>1, GivenMoves
  <2>3. ~Leases(s) /\ ~Builds(s) /\ entry' \in [Ids -> Entries]
    BY <1>1, <1>2, <2>2 DEF Leases, Builds, MapOK
  <2> QED
    BY <1>2, <1>3, <2>1, <2>2, <2>3, QuietStep
<1>4. CASE /\ bridge[k] = 0 /\ built < MaxBuilt
           /\ built' = built + 1
           /\ bridge' = [x \in Clients |-> IF x = k THEN built + 1 ELSE IF x \in out THEN 0 ELSE bridge[x]]
           /\ order' = RemoveBridgeOrder(Append(order, k), out)
           /\ victims' = [victims EXCEPT ![r] = {bridge[x] : x \in out}]
           /\ Given(r, built + 1, "close") /\ UNCHANGED building
  <2>1. \A j \in out : j \in Clients /\ bridge[j] # 0 /\ entry[bridge[j]].inflight = 0
    BY <1>1, <1>2, <1>4, RoomSpares
  <2>2. out \in SUBSET {j \in Clients : bridge[j] # 0} /\ r \in Closers
    BY <2>1 DEF Closers
  <2> HIDE DEF out
  <2>3. MapOK'
    BY <1>1, <1>2, <1>4, <2>2, Inserts
  <2>4. built \in Nat /\ built' \in Nat
    BY <1>1, <1>4, CacheAssumption DEF MapOK
  <2>5. BridgeReq \subseteq BridgeReq' /\ built + 1 \in 0..built' /\ "close" \in CachePCs
    BY <1>4, <2>4 DEF BridgeReq, CachePCs
  <2>6. PICK s \in BridgeReq' : /\ breq' = [breq EXCEPT ![r] = s]
                               /\ s.pc = "close" /\ s.key = breq[r].key /\ s.id = built + 1
    BY <1>1, <1>4, <2>5, GivenMoves
  <2>7. ~Leases(s) /\ Builds(s) /\ s.id # 0 /\ s.pc # "leased"
    BY <2>4, <2>6 DEF Leases, Builds
  <2>8. PermitsHeld'
    BY <1>1, <1>2, <1>4, <2>6, <2>7, PermitsKept
  <2>9. LeasesCounted'
    BY <1>1, <1>2, <2>6, <2>7, LeasesStay
  <2>10. ASSUME NEW q \in BridgeReqs, breq[q].pc = "leased"
         PROVE  bridge'[breq[q].key] = bridge[breq[q].key]
    <3>1. breq[q].key \in Clients /\ breq[q].id # 0 /\ bridge[breq[q].key] = breq[q].id
      BY <2>10 DEF CacheInv, ReqsOK, RequestsTyped, BridgeReq, HasEntry, LeasedCached, Cached
    <3>2. breq[q].key # k
      BY <1>4, <3>1
    <3>3. breq[q].key \notin out
      BY <2>1, <2>10, <3>1, EvictedUnleased
    <3> QED
      BY <1>4, <3>1, <3>2, <3>3
  <2> QED
    BY <1>4, <2>3, <2>6, <2>7, <2>8, <2>9, <2>10, RequestKeeps
<1> QED
  BY <1>3, <1>4 DEF InsertEntry

\* Where no request moves, nothing about requests does.
LEMMA RequestsRest ==
  ASSUME ReqsOK, UNCHANGED <<built, building, breq>>,
         \A j \in Ids : entry'[j].inflight = entry[j].inflight,
         \A q \in BridgeReqs : breq[q].pc = "leased" => bridge'[breq[q].key] = bridge[breq[q].key]
  PROVE  ReqsOK'
<1>1. BridgeReq' = BridgeReq /\ Building' = Building /\ \A i : OnEntry(i)' = OnEntry(i)
  BY DEF BridgeReq, Building, OnEntry
<1>2. RequestsTyped'
  BY <1>1 DEF ReqsOK, RequestsTyped, HasEntry
<1>3. LeasesCounted' /\ PermitsHeld'
  BY <1>1 DEF ReqsOK, LeasesCounted, PermitsHeld
<1>4. LeasedCached'
  BY DEF ReqsOK, LeasedCached, Cached
<1> QED
  BY <1>2, <1>3, <1>4 DEF ReqsOK

LEMMA CloseVictimKeeps ==
  ASSUME CacheInv, NEW g \in Closers, CloseVictim(g)
  PROVE  CacheInv'
<1>1. PICK i \in victims[g] : /\ entry' = [entry EXCEPT ![i].sess = FALSE]
                             /\ victims' = [victims EXCEPT ![g] = @ \ {i}]
  BY DEF CloseVictim
<1>2. MapOK /\ UNCHANGED <<bridge, order, built, building, breq>>
  BY DEF CacheInv, CloseVictim
<1>3. entry' \in [Ids -> Entries] /\ \A j \in Ids : entry'[j].inflight = entry[j].inflight
  BY <1>1, <1>2, FlagsOnly DEF MapOK
<1>4. victims' \in [Closers -> SUBSET (1..built)] /\ \A h \in Closers : victims'[h] \subseteq victims[h]
  BY <1>1, <1>2 DEF MapOK
<1>5. MapOK'
  BY <1>2, <1>3, <1>4 DEF MapOK, ListIsMap, EntriesDiffer
<1>6. ReqsOK'
  BY <1>2, <1>3, RequestsRest DEF CacheInv
<1> QED
  BY <1>5, <1>6 DEF CacheInv

LEMMA BridgeGatesKeeps ==
  ASSUME CacheInv, NEW r \in BridgeReqs, BridgeGates(r) \/ RefusedReturns(r)
  PROVE  CacheInv'
<1>1. MapOK /\ RequestsTyped
  BY DEF CacheInv, ReqsOK
<1>2. /\ UNCHANGED <<bridge, order, entry, built, building, victims>> /\ entry' \in [Ids -> Entries]
      /\ ~Leases(breq[r]) /\ ~Builds(breq[r]) /\ breq[r].pc \in {"gates", "refused"}
  BY <1>1 DEF BridgeGates, RefusedReturns, MapOK, In, Leases, Builds
<1>3. CASE Fails(r)
  <2>1. breq' = [breq EXCEPT ![r] = NoReq] /\ NoReq \in BridgeReq /\ NoReq.pc = "idle"
    BY <1>1, <1>3, FailsMoves
  <2>2. ~Leases(NoReq) /\ ~Builds(NoReq)
    BY <2>1 DEF Leases, Builds
  <2> QED
    BY <1>2, <2>1, <2>2, QuietStep
<1>4. CASE Goes(r, "admit")
  <2>1. PICK s \in BridgeReq : breq' = [breq EXCEPT ![r] = s] /\ s.pc = "admit" /\ s.id = breq[r].id
    BY <1>1, <1>4, GoesMoves DEF CachePCs
  <2>2. s.id # 0
    BY <1>1, <1>2, <2>1 DEF RequestsTyped, HasEntry
  <2>3. ~Leases(s) /\ ~Builds(s)
    BY <2>1 DEF Leases, Builds
  <2> QED
    BY <1>2, <2>1, <2>2, <2>3, QuietStep
<1> QED
  BY <1>3, <1>4 DEF BridgeGates, RefusedReturns

\* A refused credential: the entry goes, unless it is leased.
LEMMA RefusalKeeps ==
  ASSUME CacheInv, NEW r \in BridgeReqs, breq[r].pc \in {"admit", "run"},
         Goes(r, "refused"), BridgeEvictToken(r, breq[r].id), UNCHANGED <<entry, built, building>>
  PROVE  CacheInv'
<1> DEFINE k == breq[r].key
<1>1. MapOK /\ RequestsTyped /\ LeasesCounted /\ PermitsHeld
  BY DEF CacheInv, ReqsOK
<1>2. k \in Clients /\ breq[r].id # 0 /\ ~Leases(breq[r]) /\ ~Builds(breq[r]) /\ r \in Closers
  BY <1>1 DEF RequestsTyped, BridgeReq, HasEntry, Leases, Builds, Closers
<1>3. PICK s \in BridgeReq : breq' = [breq EXCEPT ![r] = s] /\ s.pc = "refused" /\ s.id = breq[r].id
  BY <1>1, GoesMoves DEF CachePCs
<1>4. ~Leases(s) /\ ~Builds(s) /\ s.id # 0 /\ s.pc # "leased"
  BY <1>2, <1>3 DEF Leases, Builds
<1>5. CASE bridge[k] = 0 \/ entry[bridge[k]].inflight > 0
  <2>1. UNCHANGED <<bridge, order, victims>> /\ entry' \in [Ids -> Entries]
    BY <1>1, <1>5 DEF BridgeEvictToken, MapOK
  <2> QED
    BY <1>2, <1>3, <1>4, <2>1, QuietStep
<1>6. CASE ~(bridge[k] = 0 \/ entry[bridge[k]].inflight > 0)
  <2>1. /\ bridge' = [bridge EXCEPT ![k] = 0]
        /\ order' = RemoveBridgeOrder(order, {k})
        /\ victims' = [victims EXCEPT ![r] = {bridge[k]}]
    BY <1>6 DEF BridgeEvictToken
  <2>2. bridge[k] \in Ids
    BY <1>1, <1>2, <1>6, CacheAssumption DEF MapOK, Ids
  <2>3. entry[bridge[k]].inflight = 0
    BY <1>1, <1>6, <2>2 DEF MapOK, Entries
  <2> DEFINE out == {k}
  <2>4. out \in SUBSET {j \in Clients : bridge[j] # 0}
    BY <1>2, <1>6
  <2>5. bridge' = [j \in Clients |-> IF j \in out THEN 0 ELSE bridge[j]]
    BY <1>1, <2>1 DEF MapOK
  <2>6. victims' = [victims EXCEPT ![r] = {bridge[j] : j \in out}]
    <3>1. {bridge[j] : j \in out} = {bridge[k]}
      OBVIOUS
    <3> QED
      BY <2>1, <3>1
  <2>7. order' = RemoveBridgeOrder(order, out)
    BY <2>1
  <2> HIDE DEF out
  <2>8. MapOK'
    BY <1>1, <1>2, <2>4, <2>5, <2>6, <2>7, Evicts
  <2>9. PermitsHeld' /\ LeasesCounted'
    BY <1>1, <1>2, <1>3, <1>4, PermitsKept, LeasesStay
  <2>10. ASSUME NEW q \in BridgeReqs, breq[q].pc = "leased"
         PROVE  bridge'[breq[q].key] = bridge[breq[q].key]
    <3>1. breq[q].key # k
      BY <1>2, <1>6, <2>3, <2>10, EvictedUnleased
    <3> QED
      BY <1>1, <2>1, <3>1 DEF MapOK
  <2>11. BridgeReq' = BridgeReq
    BY DEF BridgeReq
  <2> QED
    BY <1>3, <1>4, <2>8, <2>9, <2>10, <2>11, RequestKeeps
<1> QED
  BY <1>5, <1>6

LEMMA AdmitEntryKeeps ==
  ASSUME CacheInv, NEW r \in BridgeReqs, AdmitEntry(r)
  PROVE  CacheInv'
<1> DEFINE i == breq[r].id
<1>1. MapOK /\ RequestsTyped /\ breq[r].pc = "admit" /\ UNCHANGED <<built, building>>
  BY DEF CacheInv, ReqsOK, AdmitEntry, In
<1>2. ~Leases(breq[r]) /\ ~Builds(breq[r]) /\ i # 0
  BY <1>1 DEF RequestsTyped, HasEntry, Leases, Builds
<1>3. CASE entry' = [entry EXCEPT ![i].sess = TRUE] /\ Goes(r, "ready") /\ UNCHANGED <<bridge, order, victims>>
  <2>1. PICK s \in BridgeReq : breq' = [breq EXCEPT ![r] = s] /\ s.pc = "ready" /\ s.id = breq[r].id
    BY <1>1, <1>3, GoesMoves DEF CachePCs
  <2>2. entry' \in [Ids -> Entries] /\ \A j \in Ids : entry'[j].inflight = entry[j].inflight
    BY <1>1, <1>3, FlagsOnly DEF MapOK
  <2>3. ~Leases(s) /\ ~Builds(s) /\ s.id # 0
    BY <1>2, <2>1 DEF Leases, Builds
  <2> QED
    BY <1>1, <1>2, <1>3, <2>1, <2>2, <2>3, QuietStep
<1>4. CASE /\ entry' \in {entry, [entry EXCEPT ![i].cooled = TRUE]}
           /\ Fails(r) /\ UNCHANGED <<bridge, order, victims>>
  <2>1. breq' = [breq EXCEPT ![r] = NoReq] /\ NoReq \in BridgeReq /\ NoReq.pc = "idle"
    BY <1>1, <1>4, FailsMoves
  <2>2. ~Leases(NoReq) /\ ~Builds(NoReq)
    BY <2>1 DEF Leases, Builds
  <2>3. entry' \in [Ids -> Entries] /\ \A j \in Ids : entry'[j].inflight = entry[j].inflight
    BY <1>1, <1>4, FlagsOnly DEF MapOK
  <2> QED
    BY <1>1, <1>2, <1>4, <2>1, <2>2, <2>3, QuietStep
<1>5. CASE Goes(r, "refused") /\ BridgeEvictToken(r, i) /\ UNCHANGED entry
  BY <1>1, <1>5, RefusalKeeps
<1> QED
  BY <1>3, <1>4, <1>5 DEF AdmitEntry

LEMMA EntrySessionKeeps ==
  ASSUME CacheInv, NEW r \in BridgeReqs, EntrySession(r)
  PROVE  CacheInv'
<1>1. MapOK /\ RequestsTyped /\ breq[r].pc = "ready" /\ UNCHANGED <<bridge, order, built, building, victims>>
  BY DEF CacheInv, ReqsOK, EntrySession, In
<1>2. ~Leases(breq[r]) /\ ~Builds(breq[r]) /\ breq[r].id # 0
  BY <1>1 DEF RequestsTyped, HasEntry, Leases, Builds
<1>3. CASE Fails(r) /\ UNCHANGED entry
  <2>1. breq' = [breq EXCEPT ![r] = NoReq] /\ NoReq \in BridgeReq /\ NoReq.pc = "idle"
    BY <1>1, <1>3, FailsMoves
  <2>2. ~Leases(NoReq) /\ ~Builds(NoReq) /\ entry' \in [Ids -> Entries]
    BY <1>1, <1>3, <2>1 DEF Leases, Builds, MapOK
  <2> QED
    BY <1>1, <1>2, <1>3, <2>1, <2>2, QuietStep
<1>4. CASE Goes(r, "run") /\ entry' = [entry EXCEPT ![breq[r].id].cooled = FALSE]
  <2>1. PICK s \in BridgeReq : breq' = [breq EXCEPT ![r] = s] /\ s.pc = "run" /\ s.id = breq[r].id
    BY <1>1, <1>4, GoesMoves DEF CachePCs
  <2>2. entry' \in [Ids -> Entries] /\ \A j \in Ids : entry'[j].inflight = entry[j].inflight
    BY <1>1, <1>4, FlagsOnly DEF MapOK
  <2>3. ~Leases(s) /\ ~Builds(s) /\ s.id # 0
    BY <1>2, <2>1 DEF Leases, Builds
  <2> QED
    BY <1>1, <1>2, <2>1, <2>2, <2>3, QuietStep
<1> QED
  BY <1>3, <1>4 DEF EntrySession

\* A run is acquired: from now on the entry is spared.
LEMMA AcquireBridgeRunKeeps ==
  ASSUME CacheInv, NEW r \in BridgeReqs, AcquireBridgeRun(r)
  PROVE  CacheInv'
<1> DEFINE i == breq[r].id
<1>1. /\ MapOK /\ RequestsTyped /\ LeasesCounted /\ PermitsHeld /\ breq[r].pc = "run"
      /\ UNCHANGED <<built, building>>
  BY DEF CacheInv, ReqsOK, AcquireBridgeRun, In
<1>2. ~Leases(breq[r]) /\ ~Builds(breq[r]) /\ i # 0
  BY <1>1 DEF RequestsTyped, HasEntry, Leases, Builds
<1>3. CASE /\ entry' = [entry EXCEPT ![i].inflight = @ + 1]
           /\ Goes(r, "leasing") /\ UNCHANGED <<bridge, order, victims>>
  <2>1. PICK s \in BridgeReq : breq' = [breq EXCEPT ![r] = s] /\ s.pc = "leasing" /\ s.id = breq[r].id
    BY <1>1, <1>3, GoesMoves DEF CachePCs
  <2>2. Leases(s) /\ ~Builds(s) /\ s.id = i /\ s.id # 0 /\ s.pc # "leased"
    BY <1>2, <2>1 DEF Leases, Builds
  <2>3. i \in Ids /\ entry \in [Ids -> Entries]
    BY <1>1, <1>2, CacheAssumption DEF MapOK, RequestsTyped, BridgeReq, Ids
  <2>4. LeasesCounted' /\ entry' \in [Ids -> Entries]
    BY <1>1, <1>2, <1>3, <2>1, <2>2, <2>3, LeaseTaken
  <2>5. PermitsHeld'
    BY <1>1, <1>2, <2>1, <2>2, PermitsKept
  <2>6. MapOK'
    BY <1>1, <1>3, <2>4, MapStays DEF MapOK, ListIsMap
  <2>7. BridgeReq' = BridgeReq
    BY <1>1 DEF BridgeReq
  <2> QED
    BY <1>1, <1>3, <2>1, <2>2, <2>4, <2>5, <2>6, <2>7, RequestKeeps
<1>4. CASE Fails(r) /\ UNCHANGED <<bridge, order, entry, victims>>
  <2>1. breq' = [breq EXCEPT ![r] = NoReq] /\ NoReq \in BridgeReq /\ NoReq.pc = "idle"
    BY <1>1, <1>4, FailsMoves
  <2>2. ~Leases(NoReq) /\ ~Builds(NoReq) /\ entry' \in [Ids -> Entries]
    BY <1>1, <1>4, <2>1 DEF Leases, Builds, MapOK
  <2> QED
    BY <1>1, <1>2, <1>4, <2>1, <2>2, QuietStep
<1>5. CASE Goes(r, "refused") /\ BridgeEvictToken(r, i) /\ UNCHANGED entry
  BY <1>1, <1>5, RefusalKeeps
<1> QED
  BY <1>3, <1>4, <1>5 DEF AcquireBridgeRun

\* A lease ends, or is not given because its entry has been evicted meanwhile.
LEMMA LeaseEndsKeeps ==
  ASSUME CacheInv, NEW r \in BridgeReqs, breq[r].pc \in {"leasing", "leased"}, Fails(r),
         entry' = [entry EXCEPT ![breq[r].id].inflight = @ - 1],
         UNCHANGED <<bridge, order, built, building, victims>>
  PROVE  CacheInv'
<1> DEFINE i == breq[r].id
<1>1. MapOK /\ RequestsTyped /\ LeasesCounted /\ PermitsHeld
  BY DEF CacheInv, ReqsOK
<1>2. Leases(breq[r]) /\ ~Builds(breq[r]) /\ i # 0
  BY <1>1 DEF RequestsTyped, HasEntry, Leases, Builds
<1>3. breq' = [breq EXCEPT ![r] = NoReq] /\ NoReq \in BridgeReq /\ NoReq.pc = "idle"
  BY <1>1, FailsMoves
<1>4. ~Leases(NoReq) /\ ~Builds(NoReq)
  BY <1>3 DEF Leases, Builds
<1>5. i \in Ids /\ entry \in [Ids -> Entries]
  BY <1>1, <1>2, CacheAssumption DEF MapOK, RequestsTyped, BridgeReq, Ids
<1>6. LeasesCounted' /\ entry' \in [Ids -> Entries]
  BY <1>1, <1>2, <1>3, <1>4, <1>5, LeaseGiven
<1>7. PermitsHeld'
  BY <1>1, <1>2, <1>3, <1>4, PermitsKept
<1>8. MapOK'
  BY <1>1, <1>6, MapStays DEF MapOK, ListIsMap
<1>9. BridgeReq' = BridgeReq
  BY DEF BridgeReq
<1> QED
  BY <1>3, <1>6, <1>7, <1>8, <1>9, RequestKeeps

\* The second look: what is cached now stays so, its run being acquired.
LEMMA LeaseIfCachedKeeps ==
  ASSUME CacheInv, NEW r \in BridgeReqs, LeaseIfCached(r)
  PROVE  CacheInv'
<1>1. /\ MapOK /\ RequestsTyped /\ LeasesCounted /\ PermitsHeld /\ breq[r].pc = "leasing"
      /\ UNCHANGED <<bridge, order, built, building, victims>>
  BY DEF CacheInv, ReqsOK, LeaseIfCached, In
<1>2. Leases(breq[r]) /\ ~Builds(breq[r]) /\ breq[r].id # 0
  BY <1>1 DEF RequestsTyped, HasEntry, Leases, Builds
<1>3. CASE Cached(r) /\ Goes(r, "leased") /\ UNCHANGED entry
  <2>1. PICK s \in BridgeReq : /\ breq' = [breq EXCEPT ![r] = s]
                              /\ s.pc = "leased" /\ s.key = breq[r].key /\ s.id = breq[r].id
    BY <1>1, <1>3, GoesMoves DEF CachePCs
  <2>2. Leases(s) /\ ~Builds(s) /\ s.id # 0
    BY <1>2, <2>1 DEF Leases, Builds
  <2>3. PermitsHeld' /\ LeasesCounted'
    BY <1>1, <1>2, <1>3, <2>1, <2>2, PermitsKept, LeasesStay
  <2>4. MapOK'
    BY <1>1, <1>3, MapStays DEF MapOK, ListIsMap
  <2>5. bridge'[s.key] = s.id
    BY <1>1, <1>3, <2>1 DEF Cached
  <2>6. BridgeReq' = BridgeReq
    BY <1>1 DEF BridgeReq
  <2> QED
    BY <1>1, <2>1, <2>2, <2>3, <2>4, <2>5, <2>6, RequestKeeps
<1>4. CASE Fails(r) /\ entry' = [entry EXCEPT ![breq[r].id].inflight = @ - 1]
  BY <1>1, <1>4, LeaseEndsKeeps
<1> QED
  BY <1>3, <1>4 DEF LeaseIfCached

LEMMA BridgeMaintainKeeps ==
  ASSUME CacheInv, BridgeMaintain
  PROVE  CacheInv'
<1> DEFINE out == {k \in Clients : /\ bridge[k] # 0 /\ entry[bridge[k]].stale
                                  /\ entry[bridge[k]].inflight = 0 /\ ~entry[bridge[k]].cooled}
<1>1. /\ victims' = [victims EXCEPT ![Sweeper] = {bridge[k] : k \in out}]
      /\ bridge' = [k \in Clients |-> IF k \in out THEN 0 ELSE bridge[k]]
      /\ order' = RemoveBridgeOrder(order, out)
      /\ UNCHANGED <<entry, built, building, breq>>
  BY DEF BridgeMaintain
<1>2. out \in SUBSET {k \in Clients : bridge[k] # 0} /\ Sweeper \in Closers
  BY DEF Closers
<1>3. \A k \in out : k \in Clients /\ bridge[k] # 0 /\ entry[bridge[k]].inflight = 0
  OBVIOUS
<1> HIDE DEF out
<1>4. MapOK'
  BY <1>1, <1>2, Evicts DEF CacheInv
<1>5. ASSUME NEW q \in BridgeReqs, breq[q].pc = "leased"
      PROVE  bridge'[breq[q].key] = bridge[breq[q].key]
  <2>1. breq[q].key \in Clients
    BY DEF CacheInv, ReqsOK, RequestsTyped, BridgeReq
  <2>2. breq[q].key \notin out
    BY <1>3, <1>5, EvictedUnleased
  <2> QED
    BY <1>1, <2>1, <2>2
<1>6. ReqsOK'
  BY <1>1, <1>5, RequestsRest DEF CacheInv
<1> QED
  BY <1>4, <1>6 DEF CacheInv

LEMMA TimePassesKeeps ==
  ASSUME CacheInv, TimePasses
  PROVE  CacheInv'
<1>1. PICK i : entry' \in {[entry EXCEPT ![i].stale = TRUE], [entry EXCEPT ![i].cooled = FALSE]}
  BY DEF TimePasses
<1>2. MapOK /\ UNCHANGED <<bridge, order, built, building, breq, victims>>
  BY DEF CacheInv, TimePasses
<1>3. entry' \in [Ids -> Entries] /\ \A j \in Ids : entry'[j].inflight = entry[j].inflight
  BY <1>1, <1>2, FlagsOnly DEF MapOK
<1>4. MapOK'
  BY <1>2, <1>3, MapStays DEF MapOK, ListIsMap
<1>5. ReqsOK'
  BY <1>2, <1>3, RequestsRest DEF CacheInv
<1> QED
  BY <1>4, <1>5 DEF CacheInv

LEMMA CacheStart == BridgeInit => CacheInv
<1> SUFFICES ASSUME BridgeInit PROVE CacheInv
  OBVIOUS
<1> USE DEF BridgeInit
<1>1. built = 0 /\ 0 \in 0..MaxBuilt
  BY CacheAssumption
<1>2. NewEntry \in Entries /\ NewEntry.inflight = 0
  BY DEF NewEntry, Entries
<1>3. order = <<>> /\ order \in Seq(Clients) /\ IsInjective(order) /\ ToSet(order) = {}
  BY DEF IsInjective, ToSet
<1>4. MapOK
  BY <1>1, <1>2, <1>3 DEF MapOK, ListIsMap, EntriesDiffer, Closers
<1>5. (CHOOSE k \in Clients : TRUE) \in Clients
  BY CacheAssumption
<1>6. NoReq \in BridgeReq /\ NoReq.pc = "idle"
  BY <1>1, <1>5 DEF NoReq, BridgeReq, CachePCs
<1>7. RequestsTyped
  BY <1>6 DEF RequestsTyped, HasEntry
<1>8. Building = {} /\ \A i : OnEntry(i) = {}
  BY <1>6 DEF Building, OnEntry
<1>9. LeasesCounted /\ PermitsHeld
  BY <1>2, <1>8, FS_EmptySet DEF LeasesCounted, PermitsHeld
<1>10. LeasedCached
  BY <1>6 DEF LeasedCached
<1> QED
  BY <1>4, <1>7, <1>9, <1>10 DEF CacheInv, ReqsOK

LEMMA CacheStep ==
  ASSUME CacheInv, [BridgeNext]_bridgeVars
  PROVE  CacheInv'
<1>1. ASSUME NEW r \in BridgeReqs, BridgeStep(r) PROVE CacheInv'
  <2>1. CASE ReleaseBridge(r)
    BY <2>1, LeaseEndsKeeps DEF ReleaseBridge, In
  <2> QED
    BY <1>1, <2>1, BridgeEntryForKeeps, TakePermitKeeps, RecheckKeeps, PermitBackKeeps,
       InsertEntryKeeps, BridgeGatesKeeps, AdmitEntryKeeps, EntrySessionKeeps,
       AcquireBridgeRunKeeps, LeaseIfCachedKeeps DEF BridgeStep
<1>2. ASSUME NEW g \in Closers, CloseVictim(g) PROVE CacheInv'
  BY <1>2, CloseVictimKeeps
<1>3. CASE UNCHANGED bridgeVars
  <2>1. UNCHANGED <<bridge, order, entry, built, building, breq, victims>>
    BY <1>3 DEF bridgeVars
  <2>2. MapOK'
    BY <2>1, MapStays DEF CacheInv, MapOK, ListIsMap
  <2>3. ReqsOK'
    BY <2>1, RequestsRest DEF CacheInv
  <2> QED
    BY <2>2, <2>3 DEF CacheInv
<1> QED
  BY <1>1, <1>2, <1>3, BridgeMaintainKeeps, TimePassesKeeps DEF BridgeNext, Closers

\* The inductive invariant of the bridge cache: the counts, the map and the list.
THEOREM CacheKept == BridgeSpec => []CacheInv
<1>1. BridgeInit => CacheInv
  BY CacheStart
<1>2. CacheInv /\ [BridgeNext]_bridgeVars => CacheInv'
  BY CacheStep
<1> QED
  BY <1>1, <1>2, PTL DEF BridgeSpec

\* For any number of clients and requests a bridge request chats on the entry its
\* client has in the cache, which nobody is closing; map, recency list and build
\* permits agree, whatever evictions run meanwhile (AcquireBridge,
\* bridgeEntryFor, bridgeEvictLocked, bridgeEvictToken, bridgeMaintain).
THEOREM EntriesAreSafe == BridgeSpec => []EntriesSafe
<1>1. CacheInv => EntriesSafe
  <2> SUFFICES ASSUME CacheInv PROVE EntriesSafe
    OBVIOUS
  <2> USE DEF CacheInv, MapOK, ReqsOK
  <2>1. LeasedIsCached
    <3>1. ASSUME NEW r \in BridgeReqs, In(r, "leased")
          PROVE  Cached(r) /\ \A g \in DOMAIN victims : breq[r].id \notin victims[g]
      <4>1. breq[r].key \in Clients
        BY DEF RequestsTyped, BridgeReq
      <4>2. Cached(r)
        BY <3>1 DEF In, LeasedCached
      <4>3. DOMAIN victims = Closers
        OBVIOUS
      <4> QED
        BY <4>1, <4>2, <4>3 DEF Cached, EntriesDiffer
    <3> QED
      BY <3>1 DEF LeasedIsCached
  <2>2. CacheExact
    BY DEF CacheExact, ListIsMap, EntriesDiffer, PermitsHeld, Building
  <2> QED
    BY <2>1, <2>2 DEF EntriesSafe
<1> QED
  BY <1>1, CacheKept, PTL

-----------------------------------------------------------------------------
(* Bans.                                                                   *)

TokenState == [locked : BOOLEAN, quar : Deadline, gate : Windows, count : Nat]

CallRec ==
  [todo : Seq(Steps), acct : Accts \cup {NoAcct}, at : Nat, until : Deadline, skip : BOOLEAN,
   pc : {"idle", "walk", "asked", "lease", "probe", "spent", "funded"},
   val : Deadline, row : TokenState \cup {NoRow}]

\* A call with a step to make, or with an answer to come, is about an account.
CallOK(r) ==
  /\ r \in CallRec
  /\ r.todo # <<>> \/ r.pc \in {"asked", "lease", "probe", "spent", "funded"} => r.acct \in Accts

Flushing ==
  [pc : {"idle", "ledgers", "hints", "save"}, counts : [Accts -> Nat \cup {NoRow}],
   hints : [Accts -> Deadline \cup {NoRow}], left : SUBSET ({"count", "hint"} \X Accts)]

AccountsTypeOK ==
  /\ clock \in 1..MaxNow /\ roster \in Seq(Accts)
  /\ locked \in [Accts -> BOOLEAN] /\ quar \in [Accts -> Deadline]
  /\ gate \in [Accts -> Windows] /\ spent \in [Accts -> Deadline] /\ count \in [Accts -> Nat]
  /\ hint \in [Accts -> Deadline] /\ dirty \in BOOLEAN
  /\ hintRow \in [Accts -> Deadline \cup {NoRow}] /\ countRow \in [Accts -> Nat \cup {NoRow}]
  /\ stateRow \in [Accts -> TokenState \cup {NoRow}]
  /\ call \in [Callers -> CallRec] /\ \A c \in Callers : CallOK(call[c])
  /\ flush \in Flushing /\ told \in [Accts -> Deadline]

\* Until its end a ban is what the RunManager has for the account: no cooldown,
\* country block or other answer replaces it without countermanding it.
BanKnown == \A a \in Accts : Live(told[a]) => gate[a].ban = told[a]

AccountsInv == AccountsTypeOK /\ BanKnown

LEMMA Instants ==
  /\ Never \in Nat /\ Deadline = 0..Never /\ 0 \in Deadline /\ Never \in Deadline
  /\ \A t \in 1..MaxNow : t \in Deadline /\ t + 1 \in Deadline /\ t \in Nat
  /\ \A t \in Deadline : t \in Nat
BY AccountsAssumption DEF Never, Deadline

LEMMA NoCallOK == CallOK(NoCall) /\ NoCall.todo = <<>>
<1>1. <<>> \in Seq(Steps)
  OBVIOUS
<1> QED
  BY <1>1, Instants DEF NoCall, CallOK, CallRec

\* A step of a call is done, and some are put in front of the others.
LEMMA ThenOK ==
  ASSUME NEW c, CallOK(call[c]), call[c].todo # <<>>, NEW s \in Seq(Steps)
  PROVE  CallOK(Then(c, s))
<1> DEFINE q == s \o Tail(call[c].todo)
           r == [call[c] EXCEPT !.todo = q]
<1>1. call[c] \in CallRec /\ call[c].acct \in Accts /\ call[c].todo \in Seq(Steps)
  BY DEF CallOK, CallRec
<1>2. q \in Seq(Steps)
  BY <1>1
<1>3. Then(c, s) = Over(r)
  BY DEF Then
<1> HIDE DEF q
<1>4. r \in CallRec /\ r.acct \in Accts
  BY <1>1, <1>2 DEF CallRec
<1> HIDE DEF r
<1> QED
  BY <1>3, <1>4, NoCallOK DEF Over, CallOK

LEMMA RestOK ==
  ASSUME NEW c, CallOK(call[c]), call[c].todo # <<>>
  PROVE  CallOK(Rest(c))
<1>1. <<>> \in Seq(Steps)
  OBVIOUS
<1> QED
  BY <1>1, ThenOK DEF Rest

\* A call moves on, and nothing else.
LEMMA CallTyped ==
  ASSUME AccountsTypeOK, NEW c \in Callers, NEW r, CallOK(r), call' = [call EXCEPT ![c] = r]
  PROVE  call' \in [Callers -> CallRec] /\ \A d \in Callers : CallOK(call'[d])
<1>1. r \in CallRec
  BY DEF CallOK
<1> QED
  BY <1>1 DEF AccountsTypeOK

LEMMA CallKeeps ==
  ASSUME AccountsInv, NEW c \in Callers, NEW r, CallOK(r), call' = [call EXCEPT ![c] = r],
         UNCHANGED <<clock, roster, memVars, hint, dirty, rowVars, flush, histVars>>
  PROVE  AccountsInv'
<1>1. AccountsTypeOK
  BY DEF AccountsInv
<1>2. call' \in [Callers -> CallRec] /\ \A d \in Callers : CallOK(call'[d])
  BY <1>1, CallTyped
<1>3. UNCHANGED <<clock, roster, locked, quar, gate, spent, count, hint, dirty, hintRow, countRow,
                  stateRow, flush, told>>
  BY DEF memVars, rowVars, histVars
<1>4. AccountsTypeOK'
  BY <1>1, <1>2, <1>3 DEF AccountsTypeOK
<1>5. BanKnown'
  BY <1>3 DEF AccountsInv, BanKnown, Live
<1> QED
  BY <1>4, <1>5 DEF AccountsInv

LEMMA StepSequences ==
  /\ <<>> \in Seq(Steps) /\ BanSteps \in Seq(Steps) /\ LiftSteps \in Seq(Steps)
  /\ UnlockSteps \in Seq(Steps) /\ AdmitSteps \in Seq(Steps) /\ RecordSteps \in Seq(Steps)
  /\ CountrySteps \in Seq(Steps) /\ HealthySteps \in Seq(Steps)
  /\ \A s \in Steps, t \in Steps : <<s>> \in Seq(Steps) /\ <<s, t>> \in Seq(Steps)
BY DEF Steps, BanSteps, LiftSteps, UnlockSteps, AdmitSteps, RecordSteps, CountrySteps, HealthySteps

LEMMA StepNames ==
  /\ "remember" \in Steps /\ "storeCountry" \in Steps /\ "meter" \in Steps
  /\ "cool" \in Steps /\ "capture" \in Steps /\ "popHint" \in Steps /\ "lock" \in Steps
  /\ "unlock" \in Steps /\ "writeHint" \in Steps /\ "dropHint" \in Steps /\ "save" \in Steps
BY DEF Steps

LEMMA BanEndsTyped == AccountsTypeOK => BanEnds \subseteq Deadline
BY Instants DEF BanEnds, AccountsTypeOK

LEMMA RosterTyped ==
  ASSUME AccountsTypeOK
  PROVE  /\ \A a \in ToSet(roster) : a \in Accts
         /\ \A i \in DOMAIN roster : i \in Nat /\ roster[i] \in Accts
         /\ \A i : AtIndex(i) \in Accts \cup {NoAcct}
BY DEF AccountsTypeOK, ToSet, AtIndex

\* A call that begins, and one that has an answer.
LEMMA BeginOK ==
  ASSUME NEW pc \in {"idle", "walk", "probe"}, NEW skip \in BOOLEAN, NEW i \in Nat,
         NEW a \in Accts, NEW todo \in Seq(Steps)
  PROVE  /\ CallOK([NoCall EXCEPT !.pc = "walk", !.skip = skip])
         /\ CallOK([NoCall EXCEPT !.pc = "probe", !.at = i, !.acct = a])
         /\ CallOK([NoCall EXCEPT !.acct = a, !.todo = todo])
BY NoCallOK DEF CallOK, CallRec, NoCall

LEMMA AnswerOK ==
  ASSUME NEW r, CallOK(r), NEW pc \in {"idle", "walk", "asked", "lease", "spent", "funded"},
         NEW a \in Accts, NEW t \in Deadline, NEW todo \in Seq(Steps)
  PROVE  /\ CallOK([r EXCEPT !.pc = pc, !.acct = a, !.todo = todo])
         /\ CallOK([r EXCEPT !.pc = pc, !.acct = a, !.until = t, !.todo = todo])
         /\ r.acct \in Accts => /\ CallOK([r EXCEPT !.pc = pc, !.until = t, !.todo = todo])
                              /\ CallOK([r EXCEPT !.pc = pc, !.todo = todo])
                              /\ CallOK([r EXCEPT !.pc = pc])
BY DEF CallOK, CallRec

LEMMA CallTypes ==
  ASSUME AccountsInv, NEW c \in Callers
  PROVE  AccountsTypeOK /\ CallOK(call[c]) /\ call[c] \in CallRec
BY DEF AccountsInv, AccountsTypeOK

LEMMA WalkKeeps ==
  ASSUME AccountsInv, NEW c \in Callers,
         Acquire(c) \/ TryLane(c) \/ AcquireFails(c) \/ AdmissionRefused(c) \/ Admitted(c) \/ ChatDone(c)
  PROVE  AccountsInv'
<1>0. AccountsTypeOK /\ CallOK(call[c]) /\ call[c] \in CallRec
  BY CallTypes
<1>1. CASE Acquire(c)
  <2> DEFINE k == CooldownHintSkippable
  <2>1. k \in BOOLEAN
    BY DEF CooldownHintSkippable
  <2>2. call' = [call EXCEPT ![c] = [NoCall EXCEPT !.pc = "walk", !.skip = k]]
    BY <1>1 DEF Acquire, Begin
  <2> HIDE DEF k
  <2>3. CallOK([NoCall EXCEPT !.pc = "walk", !.skip = k])
    BY <2>1, NoCallOK DEF CallOK, CallRec, NoCall
  <2> QED
    BY <1>1, <2>2, <2>3, CallKeeps DEF Acquire
<1>2. CASE TryLane(c)
  <2>1. PICK a \in ToSet(roster) :
          call' = [call EXCEPT ![c] = [call[c] EXCEPT !.pc = "asked", !.acct = a,
                                         !.todo = IF quar[a] # 0 THEN LiftSteps ELSE <<>>]]
    BY <1>2 DEF TryLane, Begin
  <2> DEFINE todo == IF quar[a] # 0 THEN LiftSteps ELSE <<>>
  <2>2. a \in Accts /\ todo \in Seq(Steps)
    BY <1>0, RosterTyped, StepSequences
  <2>3. call' = [call EXCEPT ![c] = [call[c] EXCEPT !.pc = "asked", !.acct = a, !.todo = todo]]
    BY <2>1
  <2> HIDE DEF todo
  <2>4. CallOK([call[c] EXCEPT !.pc = "asked", !.acct = a, !.todo = todo])
    BY <1>0, <2>2, AnswerOK, Instants
  <2> QED
    BY <1>2, <2>3, <2>4, CallKeeps DEF TryLane
<1>3. CASE AcquireFails(c)
  <2>1. call' = [call EXCEPT ![c] = NoCall]
    BY <1>3 DEF AcquireFails, Begin
  <2> QED
    BY <1>3, <2>1, NoCallOK, CallKeeps DEF AcquireFails
<1>4. CASE AdmissionRefused(c)
  <2>0. call[c].acct \in Accts /\ clock + 1 \in Deadline
    BY <1>0, <1>4, Instants DEF AdmissionRefused, At, CallOK, AccountsTypeOK
  <2>1. UNCHANGED <<clock, roster, memVars, hint, dirty, rowVars, flush, histVars>>
    BY <1>4 DEF AdmissionRefused
  <2>2. ASSUME NEW t \in BanEnds,
               Begin(c, [call[c] EXCEPT !.pc = "walk", !.until = t, !.todo = BanSteps])
        PROVE  AccountsInv'
    <3>1. t \in Deadline
      BY <1>0, BanEndsTyped
    <3>2. CallOK([call[c] EXCEPT !.pc = "walk", !.until = t, !.todo = BanSteps])
      BY <1>0, <2>0, <3>1, AnswerOK, StepSequences
    <3> QED
      BY <2>1, <2>2, <3>2, CallKeeps DEF Begin
  <2>3. ASSUME Begin(c, [call[c] EXCEPT !.pc = "walk", !.until = clock + 1, !.todo = <<"remember">>])
        PROVE  AccountsInv'
    <3>1. CallOK([call[c] EXCEPT !.pc = "walk", !.until = clock + 1, !.todo = <<"remember">>])
      BY <1>0, <2>0, AnswerOK, StepSequences, StepNames
    <3> QED
      BY <2>1, <2>3, <3>1, CallKeeps DEF Begin
  <2>4. ASSUME Begin(c, [call[c] EXCEPT !.pc = "idle", !.until = clock + 1, !.todo = <<"storeCountry">>])
        PROVE  AccountsInv'
    <3>1. CallOK([call[c] EXCEPT !.pc = "idle", !.until = clock + 1, !.todo = <<"storeCountry">>])
      BY <1>0, <2>0, AnswerOK, StepSequences, StepNames
    <3> QED
      BY <2>1, <2>4, <3>1, CallKeeps DEF Begin
  <2>5. ASSUME Begin(c, NoCall) PROVE AccountsInv'
    BY <2>1, <2>5, NoCallOK, CallKeeps DEF Begin
  <2> QED
    BY <1>4, <2>2, <2>3, <2>4, <2>5 DEF AdmissionRefused
<1>5. CASE Admitted(c)
  <2>1. call[c].acct \in Accts
    BY <1>0, <1>5 DEF Admitted, At, CallOK
  <2>2. CallOK([call[c] EXCEPT !.pc = "lease", !.todo = AdmitSteps])
    BY <1>0, <2>1, AnswerOK, StepSequences, Instants
  <2> QED
    BY <1>5, <2>2, CallKeeps DEF Admitted, Begin
<1>6. CASE ChatDone(c)
  <2>0. call[c].acct \in Accts
    BY <1>0, <1>6 DEF ChatDone, At, CallOK
  <2>1. UNCHANGED <<clock, roster, memVars, hint, dirty, rowVars, flush, histVars>>
    BY <1>6 DEF ChatDone
  <2>2. ASSUME Begin(c, [call[c] EXCEPT !.pc = "walk"]) PROVE AccountsInv'
    <3>1. CallOK([call[c] EXCEPT !.pc = "walk"])
      BY <1>0, <2>0, AnswerOK, StepSequences, Instants
    <3> QED
      BY <2>1, <2>2, <3>1, CallKeeps DEF Begin
  <2>3. ASSUME Begin(c, [call[c] EXCEPT !.pc = "idle", !.todo = RecordSteps]) PROVE AccountsInv'
    <3>1. CallOK([call[c] EXCEPT !.pc = "idle", !.todo = RecordSteps])
      BY <1>0, <2>0, AnswerOK, StepSequences, Instants
    <3> QED
      BY <2>1, <2>3, <3>1, CallKeeps DEF Begin
  <2>4. ASSUME NEW t \in BanEnds,
               Begin(c, [call[c] EXCEPT !.pc = "idle", !.until = t, !.todo = BanSteps])
        PROVE  AccountsInv'
    <3>1. t \in Deadline
      BY <1>0, BanEndsTyped
    <3>2. CallOK([call[c] EXCEPT !.pc = "idle", !.until = t, !.todo = BanSteps])
      BY <1>0, <2>0, <3>1, AnswerOK, StepSequences
    <3> QED
      BY <2>1, <2>4, <3>2, CallKeeps DEF Begin
  <2>5. ASSUME Begin(c, NoCall) PROVE AccountsInv'
    BY <2>1, <2>5, NoCallOK, CallKeeps DEF Begin
  <2> QED
    BY <1>6, <2>2, <2>3, <2>4, <2>5 DEF ChatDone
<1> QED
  BY <1>1, <1>2, <1>3, <1>4, <1>5, <1>6

LEMMA ProbeKeeps ==
  ASSUME AccountsInv, NEW c \in Callers, ProbeToken(c) \/ ProbeAnswered(c) \/ ProbeMetered(c)
  PROVE  AccountsInv'
<1>0. AccountsTypeOK /\ CallOK(call[c]) /\ call[c] \in CallRec
  BY CallTypes
<1>1. CASE ProbeToken(c)
  <2>1. PICK i \in DOMAIN roster :
          call' = [call EXCEPT ![c] = [NoCall EXCEPT !.pc = "probe", !.at = i, !.acct = roster[i]]]
    BY <1>1 DEF ProbeToken, Begin
  <2>2. i \in Nat /\ roster[i] \in Accts
    BY <1>0, RosterTyped
  <2>3. CallOK([NoCall EXCEPT !.pc = "probe", !.at = i, !.acct = roster[i]])
    BY <2>2, NoCallOK DEF CallOK, CallRec, NoCall
  <2> QED
    BY <1>1, <2>1, <2>3, CallKeeps DEF ProbeToken
<1>2. CASE ProbeAnswered(c)
  <2> DEFINE here  == AtIndex(call[c].at)
             lift  == IF quar[call[c].acct] # 0 THEN HealthySteps ELSE <<>>
             q     == lift \o <<"meter">>
             r(a, t, steps) == IF a = NoAcct THEN NoCall
                 ELSE [call[c] EXCEPT !.pc = "idle", !.acct = a, !.until = t, !.todo = steps]
  <2>0. call[c].acct \in Accts /\ clock + 1 \in Deadline /\ 0 \in Deadline
    BY <1>0, <1>2, Instants DEF ProbeAnswered, At, CallOK, AccountsTypeOK
  <2>1. UNCHANGED <<clock, roster, memVars, hint, dirty, rowVars, flush, histVars>>
    BY <1>2 DEF ProbeAnswered
  <2>2. here \in Accts \cup {NoAcct}
    BY <1>0, RosterTyped
  <2>3. q \in Seq(Steps)
    <3>1. lift \in Seq(Steps) /\ <<"meter">> \in Seq(Steps)
      BY StepSequences, StepNames
    <3> QED
      BY <3>1
  <2>4. (\E t \in BanEnds : Begin(c, r(here, t, BanSteps)))
        \/ Begin(c, r(here, clock + 1, CountrySteps))
        \/ Begin(c, [call[c] EXCEPT !.pc = "spent", !.until = clock + 1, !.todo = q])
        \/ Begin(c, [call[c] EXCEPT !.pc = "funded", !.until = 0, !.todo = q])
        \/ Begin(c, NoCall)
    BY <1>2 DEF ProbeAnswered
  <2> HIDE DEF here, q
  <2>5. ASSUME NEW t \in Deadline, NEW steps \in Seq(Steps) PROVE CallOK(r(here, t, steps))
    BY <1>0, <2>2, AnswerOK, NoCallOK
  <2> HIDE DEF r
  <2>6. ASSUME NEW t \in BanEnds, Begin(c, r(here, t, BanSteps)) PROVE AccountsInv'
    <3>1. t \in Deadline
      BY <1>0, BanEndsTyped
    <3>2. CallOK(r(here, t, BanSteps))
      BY <2>5, <3>1, StepSequences
    <3> QED
      BY <2>1, <2>6, <3>2, CallKeeps DEF Begin
  <2>7. ASSUME Begin(c, r(here, clock + 1, CountrySteps)) PROVE AccountsInv'
    <3>1. CallOK(r(here, clock + 1, CountrySteps))
      BY <2>0, <2>5, StepSequences
    <3> QED
      BY <2>1, <2>7, <3>1, CallKeeps DEF Begin
  <2>8. ASSUME Begin(c, [call[c] EXCEPT !.pc = "spent", !.until = clock + 1, !.todo = q])
        PROVE  AccountsInv'
    <3>1. CallOK([call[c] EXCEPT !.pc = "spent", !.until = clock + 1, !.todo = q])
      BY <1>0, <2>0, <2>3, AnswerOK
    <3> QED
      BY <2>1, <2>8, <3>1, CallKeeps DEF Begin
  <2>9. ASSUME Begin(c, [call[c] EXCEPT !.pc = "funded", !.until = 0, !.todo = q])
        PROVE  AccountsInv'
    <3>1. CallOK([call[c] EXCEPT !.pc = "funded", !.until = 0, !.todo = q])
      BY <1>0, <2>0, <2>3, AnswerOK
    <3> QED
      BY <2>1, <2>9, <3>1, CallKeeps DEF Begin
  <2>10. ASSUME Begin(c, NoCall) PROVE AccountsInv'
    BY <2>1, <2>10, NoCallOK, CallKeeps DEF Begin
  <2> QED
    BY <2>4, <2>6, <2>7, <2>8, <2>9, <2>10
<1>3. CASE ProbeMetered(c)
  <2>0. call[c].acct \in Accts
    BY <1>0, <1>3 DEF ProbeMetered, At, CallOK
  <2>1. UNCHANGED <<clock, roster, memVars, hint, dirty, rowVars, flush, histVars>>
    BY <1>3 DEF ProbeMetered
  <2> DEFINE a == AtIndex(call[c].at)
             q == IF BanError(call[c].acct) THEN <<>> ELSE <<"popHint">>
             r == [call[c] EXCEPT !.pc = "idle", !.todo = q]
  <2>2. a \in Accts \cup {NoAcct}
    BY <1>0, RosterTyped
  <2>3. q \in Seq(Steps)
    BY StepSequences, StepNames
  <2>4. CallOK(r)
    <3> HIDE DEF q
    <3> QED
      BY <1>0, <2>0, <2>3, AnswerOK, Instants
  <2>5. CallOK(Over(r))
    <3> HIDE DEF r
    <3> QED
      BY <2>4, NoCallOK DEF Over
  <2>6. Begin(c, IF a = NoAcct THEN NoCall
                 ELSE [call[c] EXCEPT !.pc = "idle", !.acct = a, !.todo = <<"cool", "capture">>])
        \/ Begin(c, Over(r))
    BY <1>3 DEF ProbeMetered
  <2> HIDE DEF a, r
  <2>7. a # NoAcct => CallOK([call[c] EXCEPT !.pc = "idle", !.acct = a, !.todo = <<"cool", "capture">>])
    BY <1>0, <2>2, AnswerOK, StepSequences, StepNames, Instants
  <2>8. CallOK(IF a = NoAcct THEN NoCall
               ELSE [call[c] EXCEPT !.pc = "idle", !.acct = a, !.todo = <<"cool", "capture">>])
    BY <2>7, NoCallOK
  <2> QED
    BY <2>1, <2>5, <2>6, <2>8, CallKeeps DEF Begin
<1> QED
  BY <1>1, <1>2, <1>3

\* The calls of the dashboard and of the maintenance tick begin.
LEMMA AdminKeeps ==
  ASSUME AccountsInv, NEW c \in Callers,
         UnlockToken(c) \/ LockToken(c) \/ UnlockLockToken(c) \/ MaintainSweep(c)
  PROVE  AccountsInv'
<1>0. AccountsTypeOK
  BY DEF AccountsInv
<1>1. /\ UNCHANGED <<clock, roster, memVars, hint, dirty, rowVars, flush, histVars>>
      /\ \E a \in ToSet(roster), todo \in {UnlockSteps, <<"lock", "capture">>, <<"unlock", "capture">>, LiftSteps} :
           call' = [call EXCEPT ![c] = [NoCall EXCEPT !.acct = a, !.todo = todo]]
  BY DEF UnlockToken, LockToken, UnlockLockToken, MaintainSweep, Begin
<1>2. PICK a \in ToSet(roster), todo \in {UnlockSteps, <<"lock", "capture">>, <<"unlock", "capture">>, LiftSteps} :
           call' = [call EXCEPT ![c] = [NoCall EXCEPT !.acct = a, !.todo = todo]]
  BY <1>1
<1>3. a \in Accts /\ todo \in Seq(Steps)
  BY <1>0, RosterTyped, StepSequences, StepNames
<1>4. CallOK([NoCall EXCEPT !.acct = a, !.todo = todo])
  BY <1>3, NoCallOK DEF CallOK, CallRec, NoCall
<1> QED
  BY <1>1, <1>2, <1>4, CallKeeps

-----------------------------------------------------------------------------
\* A call that has a step to make.
LEMMA DoesOK ==
  ASSUME AccountsTypeOK, NEW c \in Callers, call[c].todo # <<>>
  PROVE  /\ call[c] \in CallRec /\ call[c].acct \in Accts /\ call[c].until \in Deadline
         /\ call[c].val \in Deadline /\ call[c].row \in TokenState \cup {NoRow}
         /\ CallOK(Rest(c)) /\ \A q \in Seq(Steps) : CallOK(Then(c, q))
<1>1. CallOK(call[c])
  BY DEF AccountsTypeOK
<1> QED
  BY <1>1, RestOK, ThenOK DEF CallOK, CallRec

\* What the answers make of the windows.
LEMMA WindowsTyped ==
  ASSUME AccountsTypeOK, NEW w \in Windows, NEW t \in Deadline
  PROVE  /\ CooldownBan(w, t) \in Windows /\ CooldownCountryBlocked(w) \in Windows
         /\ Cooldown(w, t) \in Windows /\ ClearCooldowns(w) \in Windows
         /\ RememberModelRateLimit(w, t) \in Windows /\ Open \in Windows
         /\ Live(t) => CooldownBan(w, t).ban = t
         /\ Live(w.ban) => CooldownCountryBlocked(w).ban = w.ban
         /\ RememberModelRateLimit(w, t).ban = w.ban
<1>1. clock + 1 \in Deadline /\ 0 \in Deadline
  BY Instants DEF AccountsTypeOK
<1> QED
  BY <1>1 DEF CooldownBan, CooldownCountryBlocked, Cooldown, ClearCooldowns,
              RememberModelRateLimit, Open, Windows

LEMMA WindowsKeep ==
  ASSUME AccountsInv, NEW c \in Callers, DoWindows(c)
  PROVE  AccountsInv'
<1> DEFINE a == call[c].acct
           t == call[c].until
<1>0. AccountsTypeOK /\ BanKnown
  BY DEF AccountsInv
<1>1. call[c].todo # <<>>
  BY DEF DoWindows, Does
<1>2. a \in Accts /\ t \in Deadline /\ CallOK(Rest(c)) /\ gate[a] \in Windows
  BY <1>0, <1>1, DoesOK DEF AccountsTypeOK
<1>3. UNCHANGED <<clock, roster, locked, quar, spent, count, hint, dirty, hintRow, countRow, stateRow, flush>>
  BY DEF DoWindows, rowVars
<1>4. call' \in [Callers -> CallRec] /\ \A d \in Callers : CallOK(call'[d])
  BY <1>0, <1>2, CallTyped DEF DoWindows
<1>5. \/ /\ gate' = [gate EXCEPT ![a] = CooldownBan(@, t)]
         /\ told' = [told EXCEPT ![a] = IF Live(t) THEN t ELSE 0]
      \/ /\ gate' = [gate EXCEPT ![a] = CooldownCountryBlocked(@)] /\ UNCHANGED told
      \/ /\ gate' = [gate EXCEPT ![a] = Cooldown(@, t)] /\ told' = [told EXCEPT ![a] = 0]
      \/ /\ gate' = [gate EXCEPT ![a] = ClearCooldowns(@)] /\ told' = [told EXCEPT ![a] = 0]
      \/ /\ gate' = [gate EXCEPT ![a] = RememberModelRateLimit(@, t)] /\ UNCHANGED told
  BY DEF DoWindows
<1> HIDE DEF a, t
<1>6. PICK w \in Windows, b \in Deadline :
        /\ gate' = [gate EXCEPT ![a] = w] /\ told' = [told EXCEPT ![a] = b]
        /\ Live(b) => w.ban = b
  <2>1. told[a] \in Deadline /\ told = [told EXCEPT ![a] = told[a]] /\ 0 \in Deadline /\ ~Live(0)
    BY <1>0, <1>2, Instants DEF AccountsTypeOK, Live
  <2>2. Live(told[a]) => gate[a].ban = told[a]
    BY <1>0, <1>2 DEF BanKnown
  <2>3. CASE /\ gate' = [gate EXCEPT ![a] = CooldownBan(@, t)]
             /\ told' = [told EXCEPT ![a] = IF Live(t) THEN t ELSE 0]
    <3> DEFINE w == CooldownBan(gate[a], t)
               b == IF Live(t) THEN t ELSE 0
    <3>1. w \in Windows /\ b \in Deadline /\ (Live(b) => w.ban = b)
      BY <1>0, <1>2, <2>1, WindowsTyped
    <3>2. gate' = [gate EXCEPT ![a] = w] /\ told' = [told EXCEPT ![a] = b]
      BY <2>3
    <3> QED
      BY <3>1, <3>2
  <2>4. CASE gate' = [gate EXCEPT ![a] = CooldownCountryBlocked(@)] /\ UNCHANGED told
    <3> DEFINE w == CooldownCountryBlocked(gate[a])
    <3>1. w \in Windows /\ (Live(told[a]) => w.ban = told[a])
      BY <1>0, <1>2, <2>2, WindowsTyped
    <3>2. gate' = [gate EXCEPT ![a] = w] /\ told' = [told EXCEPT ![a] = told[a]]
      BY <2>1, <2>4
    <3> QED
      BY <2>1, <3>1, <3>2
  <2>5. CASE gate' = [gate EXCEPT ![a] = Cooldown(@, t)] /\ told' = [told EXCEPT ![a] = 0]
    <3> DEFINE w == Cooldown(gate[a], t)
    <3>1. w \in Windows /\ gate' = [gate EXCEPT ![a] = w]
      BY <1>0, <1>2, <2>5, WindowsTyped
    <3> QED
      BY <2>1, <2>5, <3>1
  <2>6. CASE gate' = [gate EXCEPT ![a] = ClearCooldowns(@)] /\ told' = [told EXCEPT ![a] = 0]
    <3> DEFINE w == ClearCooldowns(gate[a])
    <3>1. w \in Windows /\ gate' = [gate EXCEPT ![a] = w]
      BY <1>0, <1>2, <2>6, WindowsTyped
    <3> QED
      BY <2>1, <2>6, <3>1
  <2>7. CASE gate' = [gate EXCEPT ![a] = RememberModelRateLimit(@, t)] /\ UNCHANGED told
    <3> DEFINE w == RememberModelRateLimit(gate[a], t)
    <3>1. w \in Windows /\ (Live(told[a]) => w.ban = told[a])
      BY <1>0, <1>2, <2>2, WindowsTyped
    <3>2. gate' = [gate EXCEPT ![a] = w] /\ told' = [told EXCEPT ![a] = told[a]]
      BY <2>1, <2>7
    <3> QED
      BY <2>1, <3>1, <3>2
  <2> QED
    BY <1>5, <2>3, <2>4, <2>5, <2>6, <2>7
<1>7. AccountsTypeOK'
  BY <1>0, <1>3, <1>4, <1>6 DEF AccountsTypeOK
<1>8. BanKnown'
  <2>1. ASSUME NEW x \in Accts, Live(told'[x]) PROVE gate'[x].ban = told'[x]
    BY <1>0, <1>2, <1>6, <2>1 DEF BanKnown, AccountsTypeOK
  <2> QED
    BY <1>3, <2>1 DEF BanKnown, Live
<1> QED
  BY <1>7, <1>8 DEF AccountsInv

\* A step of a call that leaves the windows, the roster and the flush alone.
LEMMA StepKeeps ==
  ASSUME AccountsInv, NEW c \in Callers, NEW r, CallOK(r), call' = [call EXCEPT ![c] = r],
         locked' \in [Accts -> BOOLEAN], quar' \in [Accts -> Deadline],
         spent' \in [Accts -> Deadline], count' \in [Accts -> Nat],
         hint' \in [Accts -> Deadline], dirty' \in BOOLEAN,
         hintRow' \in [Accts -> Deadline \cup {NoRow}],
         stateRow' \in [Accts -> TokenState \cup {NoRow}],
         UNCHANGED <<clock, roster, gate, countRow, flush, told>>
  PROVE  AccountsInv'
<1>1. AccountsTypeOK /\ BanKnown
  BY DEF AccountsInv
<1>2. call' \in [Callers -> CallRec] /\ \A d \in Callers : CallOK(call'[d])
  BY <1>1, CallTyped
<1>3. AccountsTypeOK'
  BY <1>1, <1>2 DEF AccountsTypeOK
<1>4. BanKnown'
  BY <1>1 DEF BanKnown, Live
<1> QED
  BY <1>3, <1>4 DEF AccountsInv

LEMMA QuarantineTokenKeeps ==
  ASSUME AccountsInv, NEW c \in Callers, QuarantineToken(c)
  PROVE  AccountsInv'
<1> DEFINE a == call[c].acct
           q == IF BanError(a) /\ quar[a] = 0 THEN call[c].until ELSE quar[a]
<1>0. AccountsTypeOK /\ call[c].todo # <<>>
  BY DEF AccountsInv, QuarantineToken, Does
<1>1. a \in Accts /\ call[c].until \in Deadline /\ CallOK(Rest(c))
  BY <1>0, DoesOK
<1>2. q \in Deadline
  BY <1>0, <1>1 DEF AccountsTypeOK
<1>3. quar' = [quar EXCEPT ![a] = q]
  BY DEF QuarantineToken
<1> HIDE DEF q
<1> QED
  <2>1. UNCHANGED <<clock, roster, locked, gate, spent, count, hint, dirty, hintRow, countRow,
                    stateRow, flush, told>>
    BY DEF QuarantineToken, rowVars, histVars
  <2>2. quar' \in [Accts -> Deadline]
    BY <1>0, <1>1, <1>2, <1>3 DEF AccountsTypeOK
  <2>3. call' = [call EXCEPT ![c] = Rest(c)]
    BY DEF QuarantineToken
  <2> HIDE DEF a
  <2> QED
    BY <1>0, <1>1, <2>1, <2>2, <2>3, StepKeeps DEF AccountsTypeOK

LEMMA ClearLiftedQuarantineKeeps ==
  ASSUME AccountsInv, NEW c \in Callers, ClearLiftedQuarantine(c)
  PROVE  AccountsInv'
<1> DEFINE a == call[c].acct
           q == IF Live(quar[a]) THEN quar[a] ELSE 0
           r == IF quar[a] # 0 /\ ~Live(quar[a]) THEN Then(c, <<"popHint", "capture">>) ELSE Rest(c)
<1>0. AccountsTypeOK /\ call[c].todo # <<>>
  BY DEF AccountsInv, ClearLiftedQuarantine, Does
<1>1. a \in Accts /\ CallOK(Rest(c)) /\ CallOK(Then(c, <<"popHint", "capture">>))
  BY <1>0, DoesOK, StepSequences, StepNames
<1>2. q \in Deadline /\ CallOK(r)
  BY <1>0, <1>1, Instants DEF AccountsTypeOK
<1>3. quar' = [quar EXCEPT ![a] = q] /\ call' = [call EXCEPT ![c] = r]
  BY DEF ClearLiftedQuarantine
<1> HIDE DEF q, r
<1> QED
  <2>1. UNCHANGED <<clock, roster, locked, gate, spent, count, hint, dirty, hintRow, countRow,
                    stateRow, flush, told>>
    BY DEF ClearLiftedQuarantine, rowVars, histVars
  <2>2. quar' \in [Accts -> Deadline]
    BY <1>0, <1>1, <1>2, <1>3 DEF AccountsTypeOK
  <2> HIDE DEF a
  <2> QED
    BY <1>0, <1>2, <1>3, <2>1, <2>2, StepKeeps DEF AccountsTypeOK

LEMMA UnquarantineKeeps ==
  ASSUME AccountsInv, NEW c \in Callers, Unquarantine(c)
  PROVE  AccountsInv'
<1> DEFINE a == call[c].acct
<1>0. AccountsTypeOK /\ BanKnown /\ call[c].todo # <<>>
  BY DEF AccountsInv, Unquarantine, Does
<1>1. a \in Accts /\ CallOK(Rest(c)) /\ 0 \in Deadline
  BY <1>0, DoesOK, Instants
<1>2. /\ quar' = [quar EXCEPT ![a] = 0] /\ told' = [told EXCEPT ![a] = 0]
      /\ UNCHANGED <<clock, roster, locked, gate, spent, count, hint, dirty, hintRow, countRow, stateRow, flush>>
  BY DEF Unquarantine, rowVars
<1>3. call' \in [Callers -> CallRec] /\ \A d \in Callers : CallOK(call'[d])
  BY <1>0, <1>1, CallTyped DEF Unquarantine
<1> HIDE DEF a
<1>4. AccountsTypeOK'
  BY <1>0, <1>1, <1>2, <1>3 DEF AccountsTypeOK
<1>5. BanKnown'
  <2>1. ~Live(0)
    BY <1>0 DEF AccountsTypeOK, Live
  <2>2. ASSUME NEW x \in Accts, Live(told'[x]) PROVE gate'[x].ban = told'[x]
    <3>1. told'[x] = IF x = a THEN 0 ELSE told[x]
      BY <1>0, <1>2 DEF AccountsTypeOK
    <3> QED
      BY <1>0, <1>2, <2>1, <2>2, <3>1 DEF BanKnown
  <2> QED
    BY <1>2, <2>2 DEF BanKnown, Live
<1> QED
  BY <1>4, <1>5 DEF AccountsInv

\* SetLocked, UpdateQuotaFromProbe, RecordChat and markPersistDirty.
LEMMA EntryKeeps ==
  ASSUME AccountsInv, NEW c \in Callers,
         SetLocked(c) \/ UpdateQuotaFromProbe(c) \/ RecordChat(c) \/ MarkPersistDirty(c)
  PROVE  AccountsInv'
<1> DEFINE a == call[c].acct
<1>0. AccountsTypeOK /\ call[c].todo # <<>>
  BY DEF AccountsInv, SetLocked, UpdateQuotaFromProbe, RecordChat, MarkPersistDirty, Does
<1>1. a \in Accts /\ call[c].until \in Deadline /\ CallOK(Rest(c))
  BY <1>0, DoesOK
<1>2. call' = [call EXCEPT ![c] = Rest(c)]
  BY DEF SetLocked, UpdateQuotaFromProbe, RecordChat, MarkPersistDirty
<1>3. /\ UNCHANGED <<clock, roster, quar, gate, hint, hintRow, countRow, stateRow, flush, told>>
      /\ \/ /\ locked' = [locked EXCEPT ![a] = Does(c, "lock")] /\ UNCHANGED <<spent, count, dirty>>
         \/ /\ spent' = [spent EXCEPT ![a] = call[c].until] /\ UNCHANGED <<locked, count, dirty>>
         \/ /\ count' = [count EXCEPT ![a] = @ + 1] /\ UNCHANGED <<locked, spent, dirty>>
         \/ dirty' = TRUE /\ UNCHANGED <<locked, spent, count>>
  BY DEF SetLocked, UpdateQuotaFromProbe, RecordChat, MarkPersistDirty, memVars, rowVars, histVars
<1> HIDE DEF a
<1>4. locked' \in [Accts -> BOOLEAN]
  <2> DEFINE b == Does(c, "lock")
  <2>1. b \in BOOLEAN
    BY DEF Does
  <2>2. locked' = [locked EXCEPT ![a] = b] \/ UNCHANGED locked
    BY <1>3
  <2> HIDE DEF b
  <2> QED
    BY <1>0, <1>1, <2>1, <2>2 DEF AccountsTypeOK
<1>5. spent' \in [Accts -> Deadline]
  BY <1>0, <1>1, <1>3 DEF AccountsTypeOK
<1>6. count' \in [Accts -> Nat] /\ dirty' \in BOOLEAN
  <2>1. count[a] + 1 \in Nat
    BY <1>0, <1>1 DEF AccountsTypeOK
  <2>2. count' = [count EXCEPT ![a] = count[a] + 1] \/ UNCHANGED count
    BY <1>3
  <2>3. dirty' = TRUE \/ UNCHANGED dirty
    BY <1>3
  <2>4. dirty' \in BOOLEAN
    BY <1>0, <2>3 DEF AccountsTypeOK
  <2>5. count' \in [Accts -> Nat]
    BY <1>0, <1>1, <2>1, <2>2 DEF AccountsTypeOK
  <2> QED
    BY <2>4, <2>5
<1> QED
  BY <1>0, <1>1, <1>2, <1>3, <1>4, <1>5, <1>6, StepKeeps DEF AccountsTypeOK

\* The hints, in memory and in the store.
LEMMA HintKeeps ==
  ASSUME AccountsInv, NEW c \in Callers, StoreHint(c) \/ PopHint(c) \/ HintRowStep(c)
  PROVE  AccountsInv'
<1> DEFINE a == call[c].acct
           t == HintUntil(c)
<1>0. AccountsTypeOK /\ call[c].todo # <<>>
  BY DEF AccountsInv, StoreHint, PopHint, HintRowStep, Does
<1>1. /\ a \in Accts /\ call[c].until \in Deadline /\ call[c].val \in Deadline
      /\ CallOK(Rest(c)) /\ \A q \in Seq(Steps) : CallOK(Then(c, q))
  BY <1>0, DoesOK
<1>2. CASE StoreHint(c)
  <2>1. t \in Deadline
    <3>1. gate[a].ban \in Deadline /\ gate[a].cool \in Deadline /\ 0 \in Deadline
      BY <1>0, <1>1, Instants DEF AccountsTypeOK, Windows
    <3> QED
      BY <1>1, <3>1 DEF HintUntil
  <2> DEFINE h == IF t = 0 THEN hint[a] ELSE t
             b == dirty \/ t # 0
             q == IF Does(c, "storeBan") THEN <<"popHint">> ELSE <<>>
             r == IF t # 0 THEN [Then(c, <<"writeHint">>) EXCEPT !.val = t] ELSE Then(c, q)
  <2>2. h \in Deadline /\ b \in BOOLEAN /\ q \in Seq(Steps)
    BY <1>0, <1>1, <2>1, StepSequences, StepNames DEF AccountsTypeOK
  <2>3. /\ hint' = [hint EXCEPT ![a] = h] /\ dirty' = b /\ call' = [call EXCEPT ![c] = r]
        /\ UNCHANGED <<clock, roster, memVars, rowVars, flush, histVars>>
    BY <1>2 DEF StoreHint
  <2> HIDE DEF t, h, b, q
  <2>4. CallOK(r)
    <3> DEFINE w == Then(c, <<"writeHint">>)
    <3>1. CallOK(w)
      BY <1>1, StepSequences, StepNames
    <3> HIDE DEF w
    <3>2. CallOK([w EXCEPT !.val = t])
      BY <2>1, <3>1 DEF CallOK, CallRec
    <3> QED
      BY <1>1, <2>2, <3>2 DEF w
  <2> HIDE DEF r
  <2> QED
    BY <1>0, <1>1, <2>2, <2>3, <2>4, StepKeeps DEF AccountsTypeOK, memVars, rowVars, histVars
<1>3. CASE PopHint(c)
  <2> DEFINE b == dirty \/ hint[a] # 0
             r == IF hint[a] # 0 THEN Then(c, <<"dropHint">>) ELSE Rest(c)
  <2>1. b \in BOOLEAN /\ CallOK(r) /\ 0 \in Deadline
    BY <1>0, <1>1, StepSequences, StepNames, Instants DEF AccountsTypeOK
  <2>2. /\ hint' = [hint EXCEPT ![a] = 0] /\ dirty' = b /\ call' = [call EXCEPT ![c] = r]
        /\ UNCHANGED <<clock, roster, memVars, rowVars, flush, histVars>>
    BY <1>3 DEF PopHint
  <2> HIDE DEF b, r
  <2> QED
    BY <1>0, <1>1, <2>1, <2>2, StepKeeps DEF AccountsTypeOK, memVars, rowVars, histVars
<1>4. CASE HintRowStep(c)
  <2> DEFINE v == IF Does(c, "writeHint") THEN call[c].val ELSE NoRow
  <2>1. v \in Deadline \cup {NoRow}
    BY <1>1
  <2>2. /\ hintRow' = [hintRow EXCEPT ![a] = v] \/ UNCHANGED hintRow
        /\ call' = [call EXCEPT ![c] = Rest(c)]
        /\ UNCHANGED <<clock, roster, memVars, hint, dirty, countRow, stateRow, flush, histVars>>
    BY <1>4 DEF HintRowStep
  <2> HIDE DEF v
  <2>3. hintRow' \in [Accts -> Deadline \cup {NoRow}]
    BY <1>0, <1>1, <2>1, <2>2 DEF AccountsTypeOK
  <2> QED
    BY <1>0, <1>1, <2>2, <2>3, StepKeeps DEF AccountsTypeOK, memVars, rowVars, histVars
<1> QED
  BY <1>2, <1>3, <1>4

\* persistTokenState: the snapshot and the write.
LEMMA TokenStateKeeps ==
  ASSUME AccountsInv, NEW c \in Callers, PersistTokenState(c) \/ SaveTokenState(c)
  PROVE  AccountsInv'
<1> DEFINE a == call[c].acct
<1>0. AccountsTypeOK /\ call[c].todo # <<>>
  BY DEF AccountsInv, PersistTokenState, SaveTokenState, Does
<1>1. /\ a \in Accts /\ call[c].row \in TokenState \cup {NoRow}
      /\ CallOK(Rest(c)) /\ \A q \in Seq(Steps) : CallOK(Then(c, q))
  BY <1>0, DoesOK
<1>2. CASE PersistTokenState(c)
  <2> DEFINE v == StateOf(a)
             w == Then(c, <<"save">>)
  <2>1. v \in TokenState
    <3>1. gate[a] \in Windows /\ locked[a] \in BOOLEAN /\ quar[a] \in Deadline /\ count[a] \in Nat
      BY <1>0, <1>1 DEF AccountsTypeOK
    <3>2. [gate[a] EXCEPT !.limit = 0] \in Windows
      BY <3>1, Instants DEF Windows
    <3> QED
      BY <3>1, <3>2 DEF StateOf, TokenState
  <2>2. CallOK(w)
    BY <1>1, StepSequences, StepNames
  <2>3. /\ call' = [call EXCEPT ![c] = [w EXCEPT !.row = v]]
        /\ UNCHANGED <<clock, roster, memVars, hint, dirty, rowVars, flush, histVars>>
    BY <1>2 DEF PersistTokenState
  <2> HIDE DEF v, w
  <2>4. CallOK([w EXCEPT !.row = v])
    BY <2>1, <2>2 DEF CallOK, CallRec
  <2> QED
    BY <2>3, <2>4, CallKeeps
<1>3. CASE SaveTokenState(c)
  <2> DEFINE w == Rest(c)
  <2>1. /\ stateRow' = [stateRow EXCEPT ![a] = call[c].row] \/ UNCHANGED stateRow
        /\ call' = [call EXCEPT ![c] = [w EXCEPT !.row = NoRow]]
        /\ UNCHANGED <<clock, roster, memVars, hint, dirty, hintRow, countRow, flush, histVars>>
    BY <1>3 DEF SaveTokenState
  <2>2. CallOK(w)
    BY <1>1
  <2> HIDE DEF w
  <2>3. CallOK([w EXCEPT !.row = NoRow])
    BY <2>2 DEF CallOK, CallRec
  <2>4. stateRow' \in [Accts -> TokenState \cup {NoRow}]
    BY <1>0, <1>1, <2>1 DEF AccountsTypeOK
  <2> QED
    BY <1>0, <2>1, <2>3, <2>4, StepKeeps DEF AccountsTypeOK, memVars, rowVars, histVars
<1> QED
  BY <1>2, <1>3

LEMMA CallerKeeps ==
  ASSUME AccountsInv, NEW c \in Callers, CallerStep(c)
  PROVE  AccountsInv'
BY WalkKeeps, ProbeKeeps, AdminKeeps, WindowsKeep, QuarantineTokenKeeps,
   ClearLiftedQuarantineKeeps, UnquarantineKeeps, EntryKeeps, HintKeeps, TokenStateKeeps
   DEF CallerStep

-----------------------------------------------------------------------------
\* What FlushPoolPersist writes, and what the next process finds.
LEMMA FlushKeeps ==
  ASSUME AccountsInv, FlushStep
  PROVE  AccountsInv'
<1>0. AccountsTypeOK /\ BanKnown
  BY DEF AccountsInv
<1>1. UNCHANGED <<clock, roster, locked, quar, gate, spent, count, stateRow, call, told>>
  BY DEF FlushStep, TakeDirty, SnapshotLedgers, SnapshotCooldownHints, FlushRow, FlushPrune,
         memVars, rowVars, histVars
<1>2. NoFlush \in Flushing
  BY DEF NoFlush, Flushing
<1>3. /\ flush' \in Flushing /\ dirty' \in BOOLEAN /\ hint' \in [Accts -> Deadline]
      /\ hintRow' \in [Accts -> Deadline \cup {NoRow}] /\ countRow' \in [Accts -> Nat \cup {NoRow}]
  <2>1. CASE TakeDirty
    <3>1. [NoFlush EXCEPT !.pc = "ledgers"] \in Flushing
      BY <1>2 DEF Flushing
    <3> QED
      BY <1>0, <2>1, <3>1 DEF TakeDirty, AccountsTypeOK, rowVars
  <2>2. CASE SnapshotLedgers
    <3> DEFINE k == [a \in Accts |-> IF a \in ToSet(roster) THEN count[a] ELSE NoRow]
    <3>1. k \in [Accts -> Nat \cup {NoRow}]
      BY <1>0 DEF AccountsTypeOK
    <3>2. flush' = [flush EXCEPT !.pc = "hints", !.counts = k]
      BY <2>2 DEF SnapshotLedgers
    <3> HIDE DEF k
    <3>3. flush' \in Flushing
      BY <1>0, <3>1, <3>2 DEF AccountsTypeOK, Flushing
    <3> QED
      BY <1>0, <2>2, <3>3 DEF SnapshotLedgers, AccountsTypeOK, rowVars
  <2>3. CASE SnapshotCooldownHints
    <3> DEFINE h == [a \in Accts |-> IF CooldownHintFresh(a) THEN hint[a] ELSE NoRow]
               l == {r \in {"count", "hint"} \X Accts :
                       IF r[1] = "count" THEN flush.counts[r[2]] # NoRow
                       ELSE CooldownHintFresh(r[2])}
    <3>1. h \in [Accts -> Deadline \cup {NoRow}] /\ l \in SUBSET ({"count", "hint"} \X Accts)
      BY <1>0 DEF AccountsTypeOK
    <3>2. flush' = [flush EXCEPT !.pc = "save", !.hints = h, !.left = l]
      BY <2>3 DEF SnapshotCooldownHints
    <3>3. hint' \in [Accts -> Deadline]
      BY <1>0, <2>3, Instants DEF SnapshotCooldownHints, AccountsTypeOK
    <3> HIDE DEF h, l
    <3>4. flush' \in Flushing
      BY <1>0, <3>1, <3>2 DEF AccountsTypeOK, Flushing
    <3> QED
      BY <1>0, <2>3, <3>3, <3>4 DEF SnapshotCooldownHints, AccountsTypeOK, rowVars
  <2>4. CASE FlushRow
    <3>1. PICK r \in flush.left :
            \/ /\ IF r[1] = "count"
                  THEN countRow' = [countRow EXCEPT ![r[2]] = flush.counts[r[2]]] /\ UNCHANGED hintRow
                  ELSE hintRow' = [hintRow EXCEPT ![r[2]] = flush.hints[r[2]]] /\ UNCHANGED countRow
               /\ flush' = [flush EXCEPT !.left = @ \ {r}] /\ UNCHANGED dirty
            \/ dirty' = TRUE /\ flush' = NoFlush /\ UNCHANGED <<hintRow, countRow>>
      BY <2>4 DEF FlushRow
    <3> DEFINE l == flush.left \ {r}
    <3>2. l \in SUBSET ({"count", "hint"} \X Accts)
      BY <1>0 DEF AccountsTypeOK, Flushing
    <3>3. flush' = [flush EXCEPT !.left = l] \/ flush' = NoFlush
      BY <3>1
    <3> HIDE DEF l
    <3>4. flush' \in Flushing
      BY <1>0, <1>2, <3>2, <3>3 DEF AccountsTypeOK, Flushing
    <3>5. r[2] \in Accts
      BY <1>0 DEF AccountsTypeOK, Flushing
    <3>6. flush.counts[r[2]] \in Nat \cup {NoRow} /\ flush.hints[r[2]] \in Deadline \cup {NoRow}
      BY <1>0, <3>5 DEF AccountsTypeOK, Flushing
    <3>7. hintRow' \in [Accts -> Deadline \cup {NoRow}] /\ countRow' \in [Accts -> Nat \cup {NoRow}]
      BY <1>0, <3>1, <3>5, <3>6 DEF AccountsTypeOK
    <3>8. dirty' \in BOOLEAN /\ UNCHANGED hint
      BY <1>0, <2>4, <3>1 DEF AccountsTypeOK, FlushRow
    <3> QED
      BY <1>0, <3>4, <3>7, <3>8 DEF AccountsTypeOK
  <2>5. CASE FlushPrune
    <3>1. PICK gone \in SUBSET ({"count", "hint"} \X Accts) :
            /\ countRow' = [a \in Accts |-> IF <<"count", a>> \in gone THEN NoRow ELSE countRow[a]]
            /\ hintRow' = [a \in Accts |-> IF <<"hint", a>> \in gone THEN NoRow ELSE hintRow[a]]
      <4> DEFINE o == {r \in {"count", "hint"} \X Accts :
                         IF r[1] = "count" THEN flush.counts[r[2]] = NoRow
                         ELSE flush.hints[r[2]] = NoRow}
      <4>1. PICK kept \in SUBSET o :
              /\ countRow' = [a \in Accts |-> IF <<"count", a>> \in o \ kept THEN NoRow ELSE countRow[a]]
              /\ hintRow' = [a \in Accts |-> IF <<"hint", a>> \in o \ kept THEN NoRow ELSE hintRow[a]]
        BY <2>5 DEF FlushPrune
      <4>2. o \ kept \in SUBSET ({"count", "hint"} \X Accts)
        OBVIOUS
      <4> HIDE DEF o
      <4> QED
        BY <4>1, <4>2
    <3>2. hintRow' \in [Accts -> Deadline \cup {NoRow}] /\ countRow' \in [Accts -> Nat \cup {NoRow}]
      BY <1>0, <3>1 DEF AccountsTypeOK
    <3>3. flush' = NoFlush /\ UNCHANGED <<hint, dirty>>
      BY <2>5 DEF FlushPrune
    <3> QED
      BY <1>0, <1>2, <3>2, <3>3 DEF AccountsTypeOK
  <2> QED
    BY <2>1, <2>2, <2>3, <2>4, <2>5 DEF FlushStep
<1>4. AccountsTypeOK'
  BY <1>0, <1>1, <1>3 DEF AccountsTypeOK
<1>5. BanKnown'
  BY <1>0, <1>1 DEF BanKnown, Live
<1> QED
  BY <1>4, <1>5 DEF AccountsInv

\* The roster is swapped and shortened; the entries remember what they knew.
LEMMA EditRosterKeeps ==
  ASSUME AccountsInv, EditRoster
  PROVE  AccountsInv'
<1>0. AccountsTypeOK /\ BanKnown
  BY DEF AccountsInv
<1>1. UNCHANGED <<clock, locked, quar, gate, spent, count, hint, dirty, hintRow, countRow,
                  stateRow, call, flush, told>>
  BY DEF EditRoster, memVars, rowVars
<1>2. roster' \in Seq(Accts)
  <2>1. ASSUME NEW i \in DOMAIN roster, NEW j \in DOMAIN roster,
               roster' = [roster EXCEPT ![i] = roster[j], ![j] = roster[i]]
        PROVE  roster' \in Seq(Accts)
    <3>1. roster \in Seq(Accts) /\ roster[i] \in Accts /\ roster[j] \in Accts
      BY <1>0 DEF AccountsTypeOK
    <3> DEFINE x == roster[i]
               y == roster[j]
               u == [roster EXCEPT ![i] = y]
    <3>2. roster' = [u EXCEPT ![j] = x]
      BY <2>1
    <3>3. u \in Seq(Accts)
      BY <3>1
    <3> QED
      BY <3>1, <3>2, <3>3
  <2>2. ASSUME NEW i \in DOMAIN roster, roster' = RemoveAt(roster, i)
        PROVE  roster' \in Seq(Accts)
    <3>1. roster \in Seq(Accts) /\ i \in 1..Len(roster)
      BY <1>0 DEF AccountsTypeOK
    <3>2. SubSeq(roster, 1, i - 1) \in Seq(Accts) /\ SubSeq(roster, i + 1, Len(roster)) \in Seq(Accts)
      BY <3>1
    <3> QED
      BY <2>2, <3>2 DEF RemoveAt
  <2> QED
    BY <2>1, <2>2 DEF EditRoster
<1>3. AccountsTypeOK'
  BY <1>0, <1>1, <1>2 DEF AccountsTypeOK
<1>4. BanKnown'
  BY <1>0, <1>1 DEF BanKnown, Live
<1> QED
  BY <1>3, <1>4 DEF AccountsInv

\* A new process has been told of no ban yet.
LEMMA RestartKeeps ==
  ASSUME AccountsInv, Restart
  PROVE  AccountsInv'
<1>0. AccountsTypeOK
  BY DEF AccountsInv
<1>1. ASSUME NEW a \in Accts PROVE RestoredCount(a) \in Nat /\ RestoredHint(a) \in Deadline
  BY <1>0, Instants DEF RestoredCount, RestoredHint, AccountsTypeOK, TokenState
<1>2. UNCHANGED <<clock, roster, countRow, stateRow>> /\ dirty' = FALSE
  BY DEF Restart
<1>3. locked' \in [Accts -> BOOLEAN]
  <2> DEFINE b(a) == stateRow[a] # NoRow /\ stateRow[a].locked
  <2>1. ASSUME NEW a \in Accts PROVE b(a) \in BOOLEAN
    <3>1. CASE stateRow[a] = NoRow
      BY <3>1
    <3>2. CASE stateRow[a] # NoRow
      BY <1>0, <3>2 DEF AccountsTypeOK, TokenState
    <3> QED
      BY <3>1, <3>2
  <2>2. locked' = [a \in Accts |-> b(a)]
    BY DEF Restart
  <2> HIDE DEF b
  <2> QED
    BY <2>1, <2>2
<1>4. quar' \in [Accts -> Deadline] /\ gate' \in [Accts -> Windows]
  <2>1. Open \in Windows /\ 0 \in Deadline
    BY <1>0, Instants, AccountsAssumption DEF Open, Windows
  <2>2. \A a \in Accts : stateRow[a] # NoRow => stateRow[a].quar \in Deadline /\ stateRow[a].gate \in Windows
    BY <1>0 DEF AccountsTypeOK, TokenState
  <2> QED
    BY <2>1, <2>2 DEF Restart
<1>5. spent' \in [Accts -> Deadline] /\ told' \in [Accts -> Deadline]
  BY Instants DEF Restart
<1>6. count' \in [Accts -> Nat] /\ hint' \in [Accts -> Deadline]
  BY <1>1 DEF Restart
<1>7. hintRow' \in [Accts -> Deadline \cup {NoRow}]
  BY <1>0 DEF Restart, AccountsTypeOK
<1>8. call' \in [Callers -> CallRec] /\ \A c \in Callers : CallOK(call'[c])
  BY NoCallOK DEF Restart, CallOK
<1>9. flush' \in Flushing
  BY DEF Restart, NoFlush, Flushing
<1>10. AccountsTypeOK'
  BY <1>0, <1>2, <1>3, <1>4, <1>5, <1>6, <1>7, <1>8, <1>9 DEF AccountsTypeOK
<1>11. BanKnown'
  BY <1>0, <1>2 DEF BanKnown, Restart, Live, AccountsTypeOK
<1> QED
  BY <1>10, <1>11 DEF AccountsInv

\* A ban that is over is not a ban any more.
LEMMA TickKeeps ==
  ASSUME AccountsInv, Tick
  PROVE  AccountsInv'
<1>0. AccountsTypeOK /\ BanKnown
  BY DEF AccountsInv
<1>1. /\ clock' = clock + 1 /\ clock < MaxNow
      /\ UNCHANGED <<roster, locked, quar, gate, spent, count, hint, dirty, hintRow, countRow,
                     stateRow, call, flush, told>>
  BY DEF Tick, memVars, rowVars, histVars
<1>2. clock' \in 1..MaxNow
  BY <1>0, <1>1, AccountsAssumption DEF AccountsTypeOK
<1>3. AccountsTypeOK'
  BY <1>0, <1>1, <1>2 DEF AccountsTypeOK
<1>4. BanKnown'
  <2>1. ASSUME NEW a \in Accts, clock' < told'[a] PROVE gate'[a].ban = told'[a]
    <3>1. told[a] \in Nat /\ clock \in Nat
      BY <1>0, Instants DEF AccountsTypeOK
    <3>2. Live(told[a])
      BY <1>1, <2>1, <3>1 DEF Live
    <3> QED
      BY <1>0, <1>1, <3>2 DEF BanKnown
  <2> QED
    BY <2>1 DEF BanKnown, Live
<1> QED
  BY <1>3, <1>4 DEF AccountsInv

LEMMA AccountsStart == AccountsInit => AccountsInv
<1> SUFFICES ASSUME AccountsInit PROVE AccountsInv
  OBVIOUS
<1>1. roster \in Seq(Accts)
  <2>1. PICK s \in Settings : roster = SetToSeq(s[1])
    BY DEF AccountsInit
  <2> DEFINE S == s[1]
  <2>2. IsFiniteSet(S) /\ S \subseteq Accts
    BY AccountsAssumption, FS_Subset
  <2>3. Cardinality(S) \in Nat /\ ExistsBijection(1..Cardinality(S), S)
    BY <2>2, FS_CardinalityType
  <2>4. PICK f \in [1..Cardinality(S) -> S] : IsInjective(f)
    BY <2>3 DEF ExistsBijection, Bijection, Injection, IsInjective
  <2>5. SetToSeq(S) \in [1..Cardinality(S) -> S]
    BY <2>4 DEF SetToSeq
  <2> HIDE DEF S
  <2>6. SetToSeq(S) \in [1..Cardinality(S) -> Accts]
    BY <2>2, <2>5
  <2>7. SetToSeq(S) \in Seq(Accts)
    BY <2>3, <2>6
  <2> QED
    BY <2>1, <2>7 DEF S
<1>2. AccountsTypeOK
  <2>1. clock \in 1..MaxNow
    BY AccountsAssumption DEF AccountsInit
  <2>2. Open \in Windows
    BY Instants DEF Open, Windows
  <2>3. gate \in [Accts -> Windows]
    BY <2>2 DEF AccountsInit
  <2>4. flush \in Flushing
    BY DEF AccountsInit, NoFlush, Flushing
  <2>5. call \in [Callers -> CallRec] /\ \A c \in Callers : CallOK(call[c])
    BY NoCallOK DEF AccountsInit, CallOK
  <2> QED
    BY <1>1, <2>1, <2>3, <2>4, <2>5, Instants DEF AccountsInit, AccountsTypeOK
<1>3. BanKnown
  BY AccountsAssumption DEF AccountsInit, BanKnown, Live
<1> QED
  BY <1>2, <1>3 DEF AccountsInv

LEMMA AccountsStep == AccountsInv /\ [AccountsNext]_accountsVars => AccountsInv'
<1>1. ASSUME AccountsInv, AccountsNext PROVE AccountsInv'
  BY <1>1, CallerKeeps, FlushKeeps, EditRosterKeeps, RestartKeeps, TickKeeps DEF AccountsNext
<1>2. ASSUME AccountsInv, UNCHANGED accountsVars PROVE AccountsInv'
  <2>1. UNCHANGED <<clock, roster, locked, quar, gate, spent, count, hint, dirty, hintRow,
                    countRow, stateRow, call, flush, told>>
    BY <1>2 DEF accountsVars, memVars, rowVars, histVars
  <2>2. AccountsTypeOK'
    BY <1>2, <2>1 DEF AccountsInv, AccountsTypeOK
  <2>3. BanKnown'
    BY <1>2, <2>1 DEF AccountsInv, BanKnown, Live
  <2> QED
    BY <2>2, <2>3 DEF AccountsInv
<1> QED
  BY <1>1, <1>2

\* What the pool knows of its accounts keeps its shape, and a ban is what the
\* RunManager has for its account until it ends or is countermanded, in every
\* behaviour: whatever answers, probes, roster edits, flushes and restarts come.
THEOREM AccountsKept == AccountsSpec => []AccountsInv
<1>1. AccountsInit => AccountsInv
  BY AccountsStart
<1>2. AccountsInv /\ [AccountsNext]_accountsVars => AccountsInv'
  BY AccountsStep
<1> QED
  BY <1>1, <1>2, PTL DEF AccountsSpec

\* No walk admits an account while a ban upstream has told of is in force
\* (walkGates, with and without restart hints to skip by).
THEOREM BansAreHeld == AccountsSpec => []BanHeld
<1>1. AccountsInv => BanHeld
  <2>1. ASSUME AccountsInv, NEW a \in Accts, Live(told[a]) PROVE ~WalkGates(a, FALSE)
    <3>1. gate[a].ban = told[a]
      BY <2>1 DEF AccountsInv, BanKnown
    <3> QED
      BY <2>1, <3>1 DEF WalkGates, BanError
  <2> QED
    BY <2>1 DEF BanHeld
<1> QED
  BY <1>1, AccountsKept, PTL

-----------------------------------------------------------------------------
(***************************************************************************)
(* Clocks and days                                                         *)
(***************************************************************************)

\* A reading is as many whole days as its day says, and less than one more.
LEMMA DayParts ==
  ASSUME NEW c \in Nat, NEW n \in Nat \ {0}
  PROVE  /\ c \div n \in Nat /\ c % n \in 0 .. (n - 1)
         /\ c = n * (c \div n) + (c % n)
<1> QED
  OBVIOUS

\* Multiples come in the order of what they are multiples of.
LEMMA TimesMonotone ==
  ASSUME NEW a \in Nat, NEW b \in Nat, NEW n \in Nat, a <= b
  PROVE  n * a <= n * b
<1>1. PICK k \in Nat : b = a + k
  <2> WITNESS b - a \in Nat
  <2> QED
    OBVIOUS
<1>2. n * k \in Nat /\ n * a \in Nat
  OBVIOUS
<1>3. n * b = n * a + n * k
  BY <1>1
<1> QED
  BY <1>2, <1>3

\* A reading whose whole days reach past a day is of that day or a later one.
LEMMA DayReached ==
  ASSUME NEW c \in Nat, NEW d \in Nat, NEW n \in Nat \ {0}, n * d <= c
  PROVE  d <= c \div n
<1> DEFINE q == c \div n
<1>1. q \in Nat /\ c % n \in 0 .. (n - 1) /\ c = n * q + (c % n)
  BY DayParts
<1>2. ASSUME q < d PROVE FALSE
  <2>1. n * (q + 1) <= n * d
    BY <1>1, <1>2, TimesMonotone
  <2>2. n * (q + 1) = n * q + n
    BY <1>1
  <2> QED
    BY <1>1, <2>1, <2>2
<1> QED
  BY <1>1, <1>2

\* Days come in the order of their readings.
LEMMA DaysInOrder ==
  ASSUME NEW b \in Nat, NEW c \in Nat, NEW n \in Nat \ {0}, b <= c
  PROVE  b \div n <= c \div n
<1>1. b \div n \in Nat /\ b % n \in 0 .. (n - 1) /\ b = n * (b \div n) + (b % n)
  BY DayParts
<1>2. n * (b \div n) <= c
  <2> DEFINE p == n * (b \div n)
  <2>1. p \in Nat
    BY <1>1
  <2> QED
    BY <1>1, <2>1
<1> QED
  BY <1>1, <1>2, DayReached

-----------------------------------------------------------------------------
(***************************************************************************)
(* The probes of maintenance                                               *)
(***************************************************************************)

ProbeFields == {"dirty", "next", "last", "step"}

UpkeepShape ==
  /\ upkeepClock \in 1 .. MaxUpkeepClock
  /\ DOMAIN probe = Members
  /\ \A m \in Members : DOMAIN probe[m] = ProbeFields /\ probe[m].dirty \in BOOLEAN /\ probe[m].last \in Nat
  /\ quota \in [Members -> [saved : Nat, reset : Nat]]
  /\ DOMAIN firing = {"todo", "at"} /\ firing.todo \subseteq Members /\ firing.at \in Members \cup {NoMember}
  /\ owed \subseteq Members
  /\ auto \in [Members -> [day : Nat, booted : BOOLEAN]]
  /\ daily \in [Members -> [UpkeepDays -> Nat]]

(* Who is marked, or has a reset to come that no fire has used up, is owed  *)
(* a probe; while the answer is out, a reset that lies ahead is.            *)
ProbesOwed ==
  /\ unasked = {}
  /\ firing.todo \subseteq owed
  /\ \A m \in Members : firing.at /= m /\ (probe[m].dirty \/ (quota[m].reset /= Unset /\ quota[m].reset > probe[m].last))
                        => m \in owed
  /\ \A m \in Members : firing.at = m /\ quota[m].reset > upkeepClock => m \in owed

(* A probe of today has left its mark, and no day to come has had one.      *)
DaysMarked ==
  \A m \in Members :
    /\ \A d \in UpkeepDays : daily[m][d] <= 1
    /\ daily[m][UDayOf(upkeepClock)] >= 1 => auto[m].day = UDayOf(upkeepClock) + 1
    /\ \A d \in UpkeepDays : d > UDayOf(upkeepClock) => daily[m][d] = 0

UpkeepInv == UpkeepShape /\ ProbesOwed /\ DaysMarked

\* Today is one of the days, and a reset instant a reading of the clock.
LEMMA UpkeepToday ==
  ASSUME UpkeepShape
  PROVE  /\ UDayOf(upkeepClock) \in UpkeepDays /\ UDayOf(upkeepClock) \in Nat
         /\ Resets \subseteq Nat
<1>1. upkeepClock \in Nat /\ upkeepClock <= MaxUpkeepClock /\ MaxUpkeepClock \in Nat /\ DayTicks \in Nat \ {0}
  BY UpkeepAssumption DEF UpkeepShape
<1>2. UDayOf(upkeepClock) \in Nat /\ UDayOf(MaxUpkeepClock) \in Nat
  BY <1>1, DayParts DEF UDayOf
<1>3. UDayOf(upkeepClock) <= UDayOf(MaxUpkeepClock)
  BY <1>1, DaysInOrder DEF UDayOf
<1>4. NextMidnight \in Nat
  BY <1>1, <1>2 DEF NextMidnight
<1> QED
  BY <1>1, <1>2, <1>3, <1>4 DEF UpkeepDays, Resets

\* The pool starts with nobody marked and no probe behind it.
LEMMA UpkeepInvInit == UpkeepInit => UpkeepInv
<1> SUFFICES ASSUME UpkeepInit PROVE UpkeepInv
  OBVIOUS
<1>1. UpkeepShape
  <2>1. upkeepClock \in 1 .. MaxUpkeepClock
    BY UpkeepAssumption DEF UpkeepInit
  <2>2. DOMAIN probe = Members
        /\ \A m \in Members : DOMAIN probe[m] = ProbeFields /\ probe[m].dirty \in BOOLEAN /\ probe[m].last \in Nat
    BY DEF UpkeepInit, ProbeFields, Unset
  <2>3. quota \in [Members -> [saved : Nat, reset : Nat]]
    BY DEF UpkeepInit, Unset
  <2>4. DOMAIN firing = {"todo", "at"} /\ firing.todo \subseteq Members /\ firing.at \in Members \cup {NoMember}
    BY DEF UpkeepInit, WorkerRests
  <2>5. auto \in [Members -> [day : Nat, booted : BOOLEAN]] /\ daily \in [Members -> [UpkeepDays -> Nat]]
    BY DEF UpkeepInit, Unset
  <2>6. owed \subseteq Members
    BY DEF UpkeepInit
  <2> QED
    BY <2>1, <2>2, <2>3, <2>4, <2>5, <2>6 DEF UpkeepShape
<1>2. ProbesOwed
  BY UpkeepAssumption DEF UpkeepInit, ProbesOwed, WorkerRests, Unset, NoMember
<1>3. DaysMarked
  BY <1>1, UpkeepToday DEF UpkeepInit, DaysMarked
<1> QED
  BY <1>1, <1>2, <1>3 DEF UpkeepInv

\* What nothing of the invariant speaks of may change.
LEMMA UpkeepUnchanged ==
  ASSUME UpkeepInv, UNCHANGED <<upkeepClock, probeVars, autoVars>>
  PROVE  UpkeepInv'
<1> QED
  BY DEF UpkeepInv, UpkeepShape, ProbesOwed, DaysMarked, probeVars, autoVars, UpkeepDays, UDayOf

\* A mark makes the account owed a probe.
LEMMA MarkStep ==
  ASSUME UpkeepInv, NEW m \in Members, markProbeDirty(m),
         UNCHANGED <<upkeepClock, quota, firing, unasked, autoVars>>
  PROVE  UpkeepInv'
<1>1. /\ DOMAIN probe' = Members
      /\ \A k \in Members : DOMAIN probe'[k] = ProbeFields /\ probe'[k].last = probe[k].last /\ probe'[k].dirty \in BOOLEAN
      /\ \A k \in Members \ {m} : probe'[k] = probe[k]
  BY DEF UpkeepInv, UpkeepShape, markProbeDirty, ProbeFields
<1>2. owed' = owed \cup {m}
  BY DEF markProbeDirty
<1>3. UpkeepShape'
  BY <1>1, <1>2 DEF UpkeepInv, UpkeepShape, autoVars, UpkeepDays
<1>4. ProbesOwed'
  BY <1>1, <1>2 DEF UpkeepInv, UpkeepShape, ProbesOwed
<1>5. DaysMarked'
  BY DEF UpkeepInv, DaysMarked, autoVars, UpkeepDays, UDayOf
<1> QED
  BY <1>3, <1>4, <1>5 DEF UpkeepInv

\* A fire uses up what the account was owed.
LEMMA FireStep ==
  ASSUME UpkeepInv, NEW m \in Members, smartProbeFireOne(m)
  PROVE  UpkeepInv'
<1>1. /\ firing.at = NoMember /\ m \in firing.todo /\ firing' = [todo |-> firing.todo \ {m}, at |-> m]
      /\ owed' = IF quota[m].reset > upkeepClock THEN owed ELSE owed \ {m}
      /\ unasked' = IF m \in owed THEN unasked ELSE unasked \cup {m}
      /\ UNCHANGED <<upkeepClock, probe, quota, autoVars>>
  BY DEF smartProbeFireOne
<1>2. UpkeepShape'
  BY <1>1 DEF UpkeepInv, UpkeepShape, autoVars, UpkeepDays
<1>3. ProbesOwed'
  BY <1>1, UpkeepAssumption DEF UpkeepInv, UpkeepShape, ProbesOwed, NoMember
<1>4. DaysMarked'
  BY <1>1 DEF UpkeepInv, DaysMarked, autoVars, UpkeepDays, UDayOf
<1> QED
  BY <1>2, <1>3, <1>4 DEF UpkeepInv

\* The answer leaves the account clean and its fire dated; what it teaches anew
\* is owed.
LEMMA FireAnsweredStep ==
  ASSUME UpkeepInv, NEW m \in Members, NEW o \in ProbeOutcomes, NEW r \in Resets, FireAnswered(m, o, r)
  PROVE  UpkeepInv'
<1> DEFINE p == [probe[m] EXCEPT !.last = upkeepClock, !.dirty = FALSE]
<1>1. firing.at = m /\ firing' = [firing EXCEPT !.at = NoMember] /\ UNCHANGED <<upkeepClock, unasked, autoVars>>
  BY DEF FireAnswered
<1>2. DOMAIN p = ProbeFields /\ p.dirty = FALSE /\ p.last = upkeepClock
  BY DEF UpkeepInv, UpkeepShape, ProbeFields
<1>3. PICK q : /\ probe' = [probe EXCEPT ![m] = q]
               /\ DOMAIN q = ProbeFields /\ q.dirty = FALSE /\ q.last = upkeepClock
  <2>1. CASE o = "refused"
    <3> DEFINE q == [p EXCEPT !.step = @ + 1, !.next = upkeepClock + smartProbeRetryDelay(p.step + 1)]
    <3>1. probe' = [probe EXCEPT ![m] = q]
      BY <2>1 DEF FireAnswered
    <3>2. DOMAIN q = ProbeFields /\ q.dirty = FALSE /\ q.last = upkeepClock
      BY <1>2 DEF ProbeFields
    <3> QED
      BY <3>1, <3>2
  <2>2. CASE o = "exhausted"
    <3> DEFINE q == [p EXCEPT !.step = 0, !.next = NextMidnight]
    <3>1. probe' = [probe EXCEPT ![m] = q]
      BY <2>2 DEF FireAnswered
    <3>2. DOMAIN q = ProbeFields /\ q.dirty = FALSE /\ q.last = upkeepClock
      BY <1>2 DEF ProbeFields
    <3> QED
      BY <3>1, <3>2
  <2>3. CASE o = "error"
    <3> DEFINE q == [p EXCEPT !.next = upkeepClock + RetryBase]
    <3>1. probe' = [probe EXCEPT ![m] = q]
      BY <2>3 DEF FireAnswered
    <3>2. DOMAIN q = ProbeFields /\ q.dirty = FALSE /\ q.last = upkeepClock
      BY <1>2 DEF ProbeFields
    <3> QED
      BY <3>1, <3>2
  <2>4. CASE o = "ok"
    <3> DEFINE q == [p EXCEPT !.step = 0, !.next = Unset]
    <3>1. probe' = [probe EXCEPT ![m] = q]
      BY <2>4 DEF FireAnswered
    <3>2. DOMAIN q = ProbeFields /\ q.dirty = FALSE /\ q.last = upkeepClock
      BY <1>2 DEF ProbeFields
    <3> QED
      BY <3>1, <3>2
  <2> QED
    BY <2>1, <2>2, <2>3, <2>4 DEF ProbeOutcomes
<1>4. \/ UNCHANGED <<quota, owed>>
      \/ /\ quota' = [quota EXCEPT ![m] = [saved |-> upkeepClock, reset |-> r]]
         /\ owed' = IF r /= quota[m].reset THEN owed \cup {m} ELSE owed
  BY DEF FireAnswered, Learned, Owing
<1>5. r \in Nat /\ upkeepClock \in Nat
  BY UpkeepToday DEF UpkeepInv, UpkeepShape
<1>6. DOMAIN probe = Members /\ probe'[m] = q /\ DOMAIN probe' = Members /\ \A k \in Members \ {m} : probe'[k] = probe[k]
  BY <1>3 DEF UpkeepInv, UpkeepShape
<1>7. firing'.todo = firing.todo /\ firing'.at = NoMember /\ DOMAIN firing' = {"todo", "at"} /\ NoMember \notin Members
  BY <1>1, UpkeepAssumption DEF UpkeepInv, UpkeepShape, NoMember
<1>8. quota' \in [Members -> [saved : Nat, reset : Nat]]
  <2>1. quota \in [Members -> [saved : Nat, reset : Nat]]
    BY DEF UpkeepInv, UpkeepShape
  <2>2. [saved |-> upkeepClock, reset |-> r] \in [saved : Nat, reset : Nat]
    BY <1>5
  <2> QED
    BY <1>4, <2>1, <2>2
<1>9. owed \subseteq owed' /\ owed' \subseteq Members
  BY <1>4 DEF UpkeepInv, UpkeepShape
<1>10. UpkeepShape'
  <2>1. \A k \in Members : DOMAIN probe'[k] = ProbeFields /\ probe'[k].dirty \in BOOLEAN /\ probe'[k].last \in Nat
    BY <1>3, <1>5, <1>6 DEF UpkeepInv, UpkeepShape
  <2> QED
    BY <1>1, <1>6, <1>7, <1>8, <1>9, <2>1 DEF UpkeepInv, UpkeepShape, autoVars, UpkeepDays
<1>11. ProbesOwed'
  <2>1. firing'.todo \subseteq owed'
    BY <1>7, <1>9 DEF UpkeepInv, ProbesOwed
  <2>2. ASSUME NEW k \in Members, probe'[k].dirty \/ (quota'[k].reset /= Unset /\ quota'[k].reset > probe'[k].last)
        PROVE  k \in owed'
    <3>1. CASE k = m
      BY <1>1, <1>3, <1>4, <1>5, <1>6, <2>2, <3>1 DEF UpkeepInv, UpkeepShape, ProbesOwed
    <3>2. CASE k /= m
      <4>1. quota'[k] = quota[k] /\ probe'[k] = probe[k]
        BY <1>4, <1>6, <3>2 DEF UpkeepInv, UpkeepShape
      <4> QED
        BY <1>1, <1>9, <2>2, <3>2, <4>1 DEF UpkeepInv, ProbesOwed
    <3> QED
      BY <3>1, <3>2
  <2> QED
    BY <1>1, <1>7, <2>1, <2>2 DEF UpkeepInv, ProbesOwed
<1>12. DaysMarked'
  BY <1>1 DEF UpkeepInv, DaysMarked, autoVars, UpkeepDays, UDayOf
<1> QED
  BY <1>10, <1>11, <1>12 DEF UpkeepInv

\* The daily probe marks its day before it goes out.
LEMMA AutoProbeStep ==
  ASSUME UpkeepInv, NEW m \in Members, quotaAutoProbeOne(m)
  PROVE  UpkeepInv'
<1> DEFINE boot == ~quotaAutoProbeReset(m) /\ quotaBootProbeDue(m)
           due == quotaAutoProbeReset(m) /\ quotaAutoProbeDue(m)
           today == UDayOf(upkeepClock)
<1>1. /\ auto' = IF boot THEN [MarkedDay(m) EXCEPT ![m].booted = TRUE] ELSE IF due THEN MarkedDay(m) ELSE auto
      /\ daily' = IF boot \/ due THEN Probed(m, boot) ELSE daily
      /\ UNCHANGED <<upkeepClock, probe, firing, unasked>>
  BY DEF quotaAutoProbeOne
<1>2. \/ UNCHANGED <<quota, owed>>
      \/ \E r \in Resets : /\ quota' = [quota EXCEPT ![m] = [saved |-> upkeepClock, reset |-> r]]
                           /\ owed' = IF r /= quota[m].reset THEN owed \cup {m} ELSE owed
  BY DEF quotaAutoProbeOne, Learned, Owing
<1>3. today \in UpkeepDays /\ today \in Nat /\ Resets \subseteq Nat /\ upkeepClock \in Nat
  BY UpkeepToday DEF UpkeepInv, UpkeepShape
<1>4. due => auto[m].day /= today + 1
  BY DEF quotaAutoProbeDue
<1> HIDE DEF boot, due, today
<1>5. /\ auto' \in [Members -> [day : Nat, booted : BOOLEAN]]
      /\ \A k \in Members \ {m} : auto'[k] = auto[k]
      /\ boot \/ due => auto'[m].day = today + 1
      /\ ~(boot \/ due) => auto'[m] = auto[m]
  <2>1. auto \in [Members -> [day : Nat, booted : BOOLEAN]]
    BY DEF UpkeepInv, UpkeepShape
  <2>2. MarkedDay(m) \in [Members -> [day : Nat, booted : BOOLEAN]] /\ MarkedDay(m)[m].day = today + 1
        /\ \A k \in Members \ {m} : MarkedDay(m)[k] = auto[k]
    BY <1>3, <2>1 DEF MarkedDay, today
  <2> DEFINE b == [MarkedDay(m) EXCEPT ![m].booted = TRUE]
  <2>3. b \in [Members -> [day : Nat, booted : BOOLEAN]] /\ b[m].day = today + 1 /\ \A k \in Members \ {m} : b[k] = auto[k]
    BY <2>2
  <2> HIDE DEF b
  <2> QED
    BY <1>1, <2>1, <2>2, <2>3 DEF b
<1>6. /\ daily' \in [Members -> [UpkeepDays -> Nat]]
      /\ \A k \in Members \ {m} : daily'[k] = daily[k]
      /\ \A d \in UpkeepDays \ {today} : daily'[m][d] = daily[m][d]
      /\ boot \/ due => daily'[m][today] = IF boot THEN 1 ELSE daily[m][today] + 1
      /\ ~(boot \/ due) => daily'[m] = daily[m]
  <2> DEFINE row == [daily[m] EXCEPT ![today] = IF boot THEN 1 ELSE @ + 1]
  <2>1. daily \in [Members -> [UpkeepDays -> Nat]]
    BY DEF UpkeepInv, UpkeepShape
  <2>2. row \in [UpkeepDays -> Nat] /\ row[today] = (IF boot THEN 1 ELSE daily[m][today] + 1)
        /\ \A d \in UpkeepDays \ {today} : row[d] = daily[m][d]
    BY <1>3, <2>1
  <2>3. CASE boot \/ due
    <3>1. daily' = [daily EXCEPT ![m] = row]
      BY <1>1, <2>3 DEF Probed, today
    <3> HIDE DEF row
    <3> QED
      BY <2>1, <2>2, <2>3, <3>1
  <2>4. CASE ~(boot \/ due)
    BY <1>1, <2>1, <2>4
  <2> QED
    BY <2>3, <2>4
<1>7. quota' \in [Members -> [saved : Nat, reset : Nat]] /\ owed \subseteq owed' /\ owed' \subseteq Members
      /\ \A k \in Members : quota'[k].reset = quota[k].reset \/ k \in owed'
  <2>1. quota \in [Members -> [saved : Nat, reset : Nat]] /\ owed \subseteq Members
    BY DEF UpkeepInv, UpkeepShape
  <2>2. CASE UNCHANGED <<quota, owed>>
    BY <2>1, <2>2
  <2>3. ASSUME NEW r \in Resets, quota' = [quota EXCEPT ![m] = [saved |-> upkeepClock, reset |-> r]],
               owed' = IF r /= quota[m].reset THEN owed \cup {m} ELSE owed
        PROVE  /\ quota' \in [Members -> [saved : Nat, reset : Nat]] /\ owed \subseteq owed' /\ owed' \subseteq Members
               /\ \A k \in Members : quota'[k].reset = quota[k].reset \/ k \in owed'
    <3>1. [saved |-> upkeepClock, reset |-> r] \in [saved : Nat, reset : Nat]
      BY <1>3
    <3>2. quota' \in [Members -> [saved : Nat, reset : Nat]]
      BY <2>1, <2>3, <3>1
    <3>3. ASSUME NEW k \in Members PROVE quota'[k].reset = quota[k].reset \/ k \in owed'
      BY <2>1, <2>3
    <3> QED
      BY <2>1, <2>3, <3>2, <3>3
  <2> QED
    BY <1>2, <2>2, <2>3
<1>8. UpkeepShape'
  BY <1>1, <1>5, <1>6, <1>7 DEF UpkeepInv, UpkeepShape, UpkeepDays
<1>9. ProbesOwed'
  BY <1>1, <1>7 DEF UpkeepInv, UpkeepShape, ProbesOwed
<1>10. DaysMarked'
  <2>1. UDayOf(upkeepClock)' = today /\ UpkeepDays' = UpkeepDays
    BY <1>1 DEF UDayOf, today, UpkeepDays
  <2>2. ASSUME NEW k \in Members
        PROVE  /\ \A d \in UpkeepDays : daily'[k][d] <= 1
               /\ daily'[k][today] >= 1 => auto'[k].day = today + 1
               /\ \A d \in UpkeepDays : d > today => daily'[k][d] = 0
    <3>1. /\ \A d \in UpkeepDays : daily[k][d] <= 1 /\ daily[k][d] \in Nat
          /\ daily[k][today] >= 1 => auto[k].day = today + 1
          /\ \A d \in UpkeepDays : d > today => daily[k][d] = 0
      BY DEF UpkeepInv, DaysMarked, UpkeepShape, today
    <3>2. CASE k /= m
      BY <1>5, <1>6, <3>1, <3>2
    <3>3. CASE k = m /\ (boot \/ due)
      <4>1. daily'[m][today] <= 1
        BY <1>3, <1>4, <1>6, <3>1, <3>3
      <4> QED
        BY <1>3, <1>5, <1>6, <3>1, <3>3, <4>1
    <3>4. CASE k = m /\ ~(boot \/ due)
      BY <1>5, <1>6, <3>1, <3>4
    <3> QED
      BY <3>2, <3>3, <3>4
  <2> QED
    BY <2>1, <2>2 DEF DaysMarked
<1> QED
  BY <1>8, <1>9, <1>10 DEF UpkeepInv

\* A round takes up who is due, and who is due is owed a probe.
LEMMA RoundStep ==
  ASSUME UpkeepInv, MaintainRest
  PROVE  UpkeepInv'
<1>1. UNCHANGED <<upkeepClock, probe, quota, owed, unasked, autoVars>>
  BY DEF MaintainRest
<1>2. CASE firing' = firing
  BY <1>1, <1>2, UpkeepUnchanged DEF probeVars
<1>3. CASE firing' /= firing
  <2>1. firing = WorkerRests /\ firing' = [todo |-> smartProbeDue, at |-> NoMember]
    BY <1>3 DEF MaintainRest, smartProbeTick
  <2>2. smartProbeDue \subseteq Members
    BY DEF smartProbeDue
  <2>3. smartProbeDue \subseteq owed
    <3>1. \A m \in smartProbeDue : m \in Members /\ firing.at /= m /\ (probe[m].dirty \/ resetDue(m))
      BY DEF smartProbeDue, smartProbeDueToken
    <3> QED
      BY <3>1 DEF UpkeepInv, ProbesOwed, resetDue
  <2>4. UpkeepShape'
    BY <1>1, <2>1, <2>2 DEF UpkeepInv, UpkeepShape, autoVars, UpkeepDays
  <2>5. ProbesOwed'
    BY <1>1, <2>1, <2>3, UpkeepAssumption DEF UpkeepInv, UpkeepShape, ProbesOwed, WorkerRests, NoMember
  <2>6. DaysMarked'
    BY <1>1 DEF UpkeepInv, DaysMarked, autoVars, UpkeepDays, UDayOf
  <2> QED
    BY <2>4, <2>5, <2>6 DEF UpkeepInv
<1> QED
  BY <1>2, <1>3

\* Time passes: a new day has seen no probe.
LEMMA UpkeepTickStep ==
  ASSUME UpkeepInv, UpkeepTick
  PROVE  UpkeepInv'
<1>1. upkeepClock' = upkeepClock + 1 /\ upkeepClock < MaxUpkeepClock /\ UNCHANGED <<probeVars, autoVars>>
  BY DEF UpkeepTick
<1>2. UpkeepShape'
  BY <1>1, UpkeepAssumption DEF UpkeepInv, UpkeepShape, probeVars, autoVars, UpkeepDays
<1>3. ProbesOwed'
  <2>1. ASSUME NEW m \in Members, firing.at = m, quota[m].reset > upkeepClock + 1 PROVE m \in owed
    <3>1. quota[m].reset > upkeepClock
      BY <2>1 DEF UpkeepInv, UpkeepShape
    <3> QED
      BY <2>1, <3>1 DEF UpkeepInv, ProbesOwed
  <2> QED
    BY <1>1, <2>1 DEF UpkeepInv, ProbesOwed, probeVars
<1>4. DaysMarked'
  <2> DEFINE d1 == UDayOf(upkeepClock) d2 == UDayOf(upkeepClock + 1)
  <2>1. upkeepClock \in Nat /\ DayTicks \in Nat \ {0}
    BY UpkeepAssumption DEF UpkeepInv, UpkeepShape
  <2>2. d1 \in Nat /\ d2 \in Nat /\ d1 <= d2
    BY <2>1, DayParts, DaysInOrder DEF UDayOf
  <2>3. d2 \in UpkeepDays
    <3>1. UDayOf(MaxUpkeepClock) \in Nat /\ d2 <= UDayOf(MaxUpkeepClock)
      <4>1. upkeepClock + 1 \in Nat /\ MaxUpkeepClock \in Nat /\ upkeepClock + 1 <= MaxUpkeepClock
        BY <1>1, <2>1, UpkeepAssumption
      <4> QED
        BY <2>1, <4>1, DayParts, DaysInOrder DEF UDayOf
    <3> QED
      BY <2>2, <3>1 DEF UpkeepDays
  <2>4. UDayOf(upkeepClock)' = d2 /\ UpkeepDays' = UpkeepDays /\ daily' = daily /\ auto' = auto
    BY <1>1 DEF UDayOf, UpkeepDays, autoVars
  <2>5. ASSUME NEW k \in Members
        PROVE  /\ \A d \in UpkeepDays : daily[k][d] <= 1
               /\ daily[k][d2] >= 1 => auto[k].day = d2 + 1
               /\ \A d \in UpkeepDays : d > d2 => daily[k][d] = 0
    <3>1. /\ \A d \in UpkeepDays : daily[k][d] <= 1
          /\ daily[k][d1] >= 1 => auto[k].day = d1 + 1
          /\ \A d \in UpkeepDays : d > d1 => daily[k][d] = 0
      BY DEF UpkeepInv, DaysMarked
    <3>2. \A d \in UpkeepDays : d \in Int
      BY DEF UpkeepDays
    <3>3. CASE d1 = d2
      BY <3>1, <3>3
    <3>4. CASE d1 < d2
      <4> HIDE DEF d1, d2
      <4> QED
        BY <2>2, <2>3, <3>1, <3>2, <3>4
    <3> QED
      BY <2>2, <3>3, <3>4
  <2> QED
    BY <2>4, <2>5 DEF DaysMarked
<1> QED
  BY <1>2, <1>3, <1>4 DEF UpkeepInv

\* Every step of the loop, the worker and the requests keeps the invariant.
LEMMA UpkeepInvStep == UpkeepInv /\ [UpkeepNext]_upkeepVars => UpkeepInv'
<1> SUFFICES ASSUME UpkeepInv, [UpkeepNext]_upkeepVars PROVE UpkeepInv'
  OBVIOUS
<1>1. CASE maintainTick
  BY <1>1, UpkeepUnchanged DEF maintainTick
<1>2. CASE MaintainRest
  BY <1>2, RoundStep
<1>3. CASE UpkeepTick
  BY <1>3, UpkeepTickStep
<1>4. ASSUME NEW m \in Members, quotaAutoProbeOne(m) PROVE UpkeepInv'
  BY <1>4, AutoProbeStep
<1>5. ASSUME NEW m \in Members, smartProbeFireOne(m) PROVE UpkeepInv'
  BY <1>5, FireStep
<1>6. ASSUME NEW m \in Members, NEW o \in ProbeOutcomes, NEW r \in Resets, FireAnswered(m, o, r) PROVE UpkeepInv'
  BY <1>6, FireAnsweredStep
<1>7. ASSUME NEW m \in Members, sessionPollTick(m) PROVE UpkeepInv'
  BY <1>7, UpkeepUnchanged DEF sessionPollTick
<1>8. ASSUME NEW m \in Members, NEW ok \in BOOLEAN, NEW f \in Floors, PollAnswered(m, ok, f) PROVE UpkeepInv'
  BY <1>8, UpkeepUnchanged DEF PollAnswered
<1>9. ASSUME NEW m \in Members, GateChanges(m) PROVE UpkeepInv'
  BY <1>9, UpkeepUnchanged DEF GateChanges
<1>10. ASSUME NEW m \in Members, Leased(m) PROVE UpkeepInv'
  BY <1>10, MarkStep DEF Leased
<1>11. ASSUME NEW m \in Members, Chatted(m) PROVE UpkeepInv'
  <2>1. CASE markProbeDirty(m)
    BY <1>11, <2>1, MarkStep DEF Chatted
  <2>2. CASE UNCHANGED <<probe, owed>>
    BY <1>11, <2>2, UpkeepUnchanged DEF Chatted, probeVars
  <2> QED
    BY <1>11, <2>1, <2>2 DEF Chatted
<1>12. CASE UNCHANGED upkeepVars
  BY <1>12, UpkeepUnchanged DEF upkeepVars
<1> QED
  BY <1>1, <1>2, <1>3, <1>4, <1>5, <1>6, <1>7, <1>8, <1>9, <1>10, <1>11, <1>12 DEF UpkeepNext

(* No probe goes out without activity or a reset instant it answers to,     *)
(* once for each, and the daily probe goes out once a Pacific day, for      *)
(* every roster, length of the day, set of windows and retry delay.         *)
THEOREM UpkeepProbesSparing == UpkeepSpec => []ProbesSparing
<1>1. UpkeepInv => ProbesSparing
  BY DEF UpkeepInv, ProbesOwed, DaysMarked, ProbesSparing, TriggeredOnly, OneDailyProbe
<1> QED
  BY <1>1, UpkeepInvInit, UpkeepInvStep, PTL DEF UpkeepSpec

-----------------------------------------------------------------------------
(***************************************************************************)
(* The nightly touch                                                       *)
(***************************************************************************)

MatStates == [mode : {"unmetered", "premium-short"}, slot : Nat, slotDay : Nat, lastTouch : Nat,
              touchDay : Nat, result : {"", "skip", "ok", "error"}]
MatReadings == {NoReading} \cup [used : BOOLEAN, fresh : BOOLEAN]
MatRows == {NoMatRow} \cup [state : MatStates, reading : MatReadings]
InTouch == {"touch", "ok", "error", "429"}
WalkSteps == {"account", "reading", "fire"} \cup InTouch
MatWalks == [at : WalkSteps, todo : Seq(Accounts), now : Nat, today : Nat, all : BOOLEAN]

MaturityShape ==
  /\ matClock \in DayLength .. MaxMatClock
  /\ mat \in [Accounts -> MatStates]
  /\ matDisk \in [Accounts -> MatRows]
  /\ streak \in [Accounts -> MatReadings]
  /\ walk \in [Touchers -> {Resting} \cup MatWalks]
  /\ nightly \in [Accounts -> [Days -> Nat]]
  /\ torn \in [Accounts -> [Days -> Nat]]

(* A walk has an account before it, is not far behind the clock, and is of  *)
(* the day it took its clock on.                                            *)
Timely(u, c) ==
  /\ u.todo /= <<>>
  /\ DayLength <= u.now /\ u.now <= c /\ c - u.now <= MaxLag
  /\ u.today = pacificDayKey(u.now)

WalksTimely == \A w \in Touchers : walk[w] /= Resting => Timely(walk[w], matClock)

(* The mark of a touch is of its day; the row has it, or neither has one.   *)
MarksKept ==
  \A a \in Accounts :
    /\ mat[a].lastTouch /= 0 => mat[a].touchDay = pacificDayKey(mat[a].lastTouch)
    /\ matDisk[a] = NoMatRow => mat[a].lastTouch = 0
    /\ matDisk[a] /= NoMatRow => /\ matDisk[a].state.lastTouch = mat[a].lastTouch
                                 /\ matDisk[a].state.touchDay = mat[a].touchDay

TouchMarked(a, d) == mat[a].lastTouch /= 0 /\ mat[a].touchDay >= d
TouchingNow(a, d) == walk["tick"].at \in InTouch /\ Head1("tick") = a /\ walk["tick"].today = d

(* A touch of the tick that no restart has cut off is still under way or    *)
(* has left its mark; it began in the firing gate of its day.               *)
TouchesCounted ==
  \A a \in Accounts, d \in Days :
    /\ nightly[a][d] <= 1 + torn[a][d]
    /\ nightly[a][d] > torn[a][d] => TouchingNow(a, d) \/ TouchMarked(a, d)
    /\ nightly[a][d] > 0 => d * DayLength + GateStart <= matClock

(* Who is about to be touched has not been, and the gate was open.          *)
FireIsFirst ==
  walk["tick"].at = "fire" =>
    /\ nightly[Head1("tick")][walk["tick"].today] <= torn[Head1("tick")][walk["tick"].today]
    /\ maturityInFireGate(walk["tick"].now)

MaturityInv == MaturityShape /\ WalksTimely /\ MarksKept /\ TouchesCounted /\ FireIsFirst

\* What the assumption says of each constant.
LEMMA MaturityConstants ==
  /\ WindowStart \in Nat /\ GateStart \in Nat /\ GateEnd \in Nat /\ Backoff \in Nat /\ MaxLag \in Nat
  /\ DayLength \in Nat \ {0} /\ Throttle \in Nat \ {0} /\ MaxLag <= GateStart
  /\ MaxMatClock \in Nat /\ DayLength <= MaxMatClock
BY MaturityAssumption

\* An order of the accounts is a list of them that is not empty.
LEMMA SweepOrders ==
  ASSUME NEW sweep \in SetToSeqs(Accounts)
  PROVE  sweep \in Seq(Accounts) /\ sweep /= <<>>
<1>1. PICK n \in Nat : n = Cardinality(Accounts)
  BY MaturityAssumption, FS_CardinalityType
<1>2. n /= 0
  BY <1>1, MaturityAssumption, FS_EmptySet
<1>3. sweep \in [1 .. n -> Accounts]
  BY <1>1 DEF SetToSeqs
<1>4. sweep \in Seq(Accounts) /\ Len(sweep) = n
  BY <1>3, SeqDef, LenProperties
<1> QED
  BY <1>2, <1>4

\* The day of a reading of the model's clock, and its bounds.
LEMMA DayOfClock ==
  ASSUME NEW c \in Nat, DayLength <= c, c <= MaxMatClock
  PROVE  /\ pacificDayKey(c) \in Days /\ pacificDayKey(c) \in Nat
         /\ c = DayLength * pacificDayKey(c) + MinuteOf(c)
         /\ MinuteOf(c) \in 0 .. (DayLength - 1)
<1>1. DayLength \in Nat \ {0} /\ MaxMatClock \in Nat
  BY MaturityConstants
<1>2. pacificDayKey(c) \in Nat /\ c = DayLength * pacificDayKey(c) + MinuteOf(c) /\ MinuteOf(c) \in 0 .. (DayLength - 1)
  BY <1>1, DayParts DEF pacificDayKey, MinuteOf
<1>3. pacificDayKey(c) <= pacificDayKey(MaxMatClock) /\ pacificDayKey(MaxMatClock) \in Nat
  BY <1>1, DaysInOrder, DayParts DEF pacificDayKey
<1>4. 1 <= pacificDayKey(c)
  <2>1. DayLength * 1 <= c
    BY <1>1
  <2> QED
    BY <1>1, <2>1, DayReached DEF pacificDayKey
<1> QED
  BY <1>2, <1>3, <1>4 DEF Days

\* A reading of a day is before every later day.
LEMMA DayEnds ==
  ASSUME NEW c \in Nat, DayLength <= c, c <= MaxMatClock, NEW d \in Nat, pacificDayKey(c) < d
  PROVE  c < d * DayLength
<1>1. DayLength \in Nat \ {0}
  BY MaturityConstants
<1>2. ~(DayLength * d <= c)
  <2>1. pacificDayKey(c) \in Nat
    BY DayOfClock
  <2>2. DayLength * d <= c => d <= pacificDayKey(c)
    BY <1>1, DayReached DEF pacificDayKey
  <2> QED
    BY <2>1, <2>2
<1>3. DayLength * d = d * DayLength /\ d * DayLength \in Nat
  BY <1>1
<1> QED
  BY <1>2, <1>3

\* What a walk that is under way has: an account, its clock and its day.
LEMMA WalkFacts ==
  ASSUME MaturityInv, NEW w \in Touchers, walk[w] /= Resting
  PROVE  /\ walk[w] \in MatWalks /\ Head1(w) \in Accounts /\ walk[w].todo \in Seq(Accounts) /\ walk[w].todo /= <<>>
         /\ walk[w].now \in Nat /\ DayLength <= walk[w].now /\ walk[w].now <= matClock
         /\ walk[w].now <= MaxMatClock /\ matClock \in Nat /\ matClock <= walk[w].now + MaxLag
         /\ walk[w].today = pacificDayKey(walk[w].now) /\ walk[w].today \in Days /\ walk[w].today \in Nat
         /\ Timely(walk[w], matClock)
<1>1. walk[w] \in MatWalks /\ Timely(walk[w], matClock)
  BY DEF MaturityInv, MaturityShape, WalksTimely
<1>2. walk[w].todo \in Seq(Accounts) /\ walk[w].todo /= <<>> /\ walk[w].now \in Nat /\ walk[w].today = pacificDayKey(walk[w].now)
      /\ DayLength <= walk[w].now /\ walk[w].now <= matClock /\ matClock - walk[w].now <= MaxLag
  BY <1>1 DEF MatWalks, Timely
<1>3. Head1(w) \in Accounts
  BY <1>2 DEF Head1
<1>4. matClock \in Nat /\ matClock <= MaxMatClock /\ MaxLag \in Nat
  BY MaturityConstants DEF MaturityInv, MaturityShape
<1>5. walk[w].now <= MaxMatClock /\ matClock <= walk[w].now + MaxLag
  BY <1>2, <1>4, MaturityConstants
<1>6. walk[w].today \in Days /\ walk[w].today \in Nat
  BY <1>2, <1>5, DayOfClock
<1> QED
  BY <1>1, <1>2, <1>3, <1>4, <1>5, <1>6

\* A walk at one of its steps is not at rest.
LEMMA StepsWalk ==
  ASSUME NEW w \in Touchers, walk[w].at \in WalkSteps
  PROVE  walk[w] /= Resting
BY DEF WalkSteps, InTouch, Resting

\* The walk goes on to its next account with the same clock, or ends.
LEMMA OnwardFacts ==
  ASSUME MaturityInv, NEW w \in Touchers, walk[w] /= Resting
  PROVE  /\ Onward(w) \in {Resting} \cup MatWalks
         /\ Onward(w) /= Resting => Timely(Onward(w), matClock)
         /\ Onward(w).at \in {"account", "resting"}
<1>1. /\ walk[w] \in MatWalks /\ walk[w].todo \in Seq(Accounts) /\ walk[w].todo /= <<>> /\ Timely(walk[w], matClock)
  BY WalkFacts
<1>2. CASE Len(walk[w].todo) = 1
  BY <1>2 DEF Onward, Resting
<1>3. CASE Len(walk[w].todo) /= 1
  <2> DEFINE u == [walk[w] EXCEPT !.todo = Tail(@), !.at = "account"]
  <2>1. Onward(w) = u
    BY <1>3 DEF Onward
  <2>2. Len(walk[w].todo) \in Nat /\ Len(walk[w].todo) > 1
    <3>1. Len(walk[w].todo) \in Nat /\ Len(walk[w].todo) /= 0
      BY <1>1, EmptySeq, LenProperties
    <3> DEFINE n == Len(walk[w].todo)
    <3>2. n \in Nat /\ n /= 0 /\ n /= 1
      BY <1>3, <3>1
    <3> HIDE DEF n
    <3>3. n > 1
      BY <3>2
    <3> QED
      BY <3>2, <3>3 DEF n
  <2>3. Tail(walk[w].todo) \in Seq(Accounts) /\ Tail(walk[w].todo) /= <<>>
    BY <1>1, <2>2
  <2>4. u \in MatWalks /\ u.todo = Tail(walk[w].todo) /\ u.now = walk[w].now /\ u.today = walk[w].today /\ u.at = "account"
    BY <1>1, <2>3 DEF MatWalks, WalkSteps
  <2> HIDE DEF u
  <2>5. Timely(u, matClock)
    BY <1>1, <2>3, <2>4 DEF Timely
  <2> QED
    BY <2>1, <2>4, <2>5
<1> QED
  BY <1>2, <1>3

-----------------------------------------------------------------------------

\* The accounts keep their marks, and the rows with them.
MarksSame ==
  /\ mat' \in [Accounts -> MatStates] /\ matDisk' \in [Accounts -> MatRows]
  /\ MarksKept'
  /\ \A a \in Accounts : mat'[a].lastTouch = mat[a].lastTouch /\ mat'[a].touchDay = mat[a].touchDay

\* The walks go on, a touch under way stays under way, and a fire is a first one.
WalksGoOn ==
  /\ walk' \in [Touchers -> {Resting} \cup MatWalks]
  /\ WalksTimely'
  /\ \A a \in Accounts, d \in Days : TouchingNow(a, d) => TouchingNow(a, d)'
  /\ FireIsFirst'

\* A step that counts nothing keeps the invariant when marks and walks do.
LEMMA UncountedStep ==
  ASSUME MaturityInv, MarksSame, WalksGoOn, streak' \in [Accounts -> MatReadings], UNCHANGED <<matClock, nightly, torn>>
  PROVE  MaturityInv'
<1>1. MaturityShape'
  BY DEF MaturityInv, MaturityShape, MarksSame, WalksGoOn, Days, pacificDayKey
<1>2. TouchesCounted'
  <2>1. Days' = Days
    BY DEF Days, pacificDayKey
  <2>2. ASSUME NEW a \in Accounts, NEW d \in Days
        PROVE  /\ nightly[a][d] <= 1 + torn[a][d]
               /\ nightly[a][d] > torn[a][d] => TouchingNow(a, d)' \/ TouchMarked(a, d)'
               /\ nightly[a][d] > 0 => d * DayLength + GateStart <= matClock
    <3>1. TouchMarked(a, d) => TouchMarked(a, d)'
      BY DEF MarksSame, TouchMarked
    <3>2. TouchingNow(a, d) => TouchingNow(a, d)'
      BY DEF WalksGoOn
    <3> QED
      BY <3>1, <3>2 DEF MaturityInv, TouchesCounted
  <2> QED
    BY <2>1, <2>2 DEF TouchesCounted
<1> QED
  BY <1>1, <1>2 DEF MaturityInv, MarksSame, WalksGoOn

\* Untouched states and rows keep their marks.
LEMMA MarksUnchanged ==
  ASSUME MaturityInv, UNCHANGED <<mat, matDisk>>
  PROVE  MarksSame
BY DEF MaturityInv, MaturityShape, MarksSame, MarksKept, pacificDayKey

\* Walks that stand still go on.
LEMMA WalksUnchanged ==
  ASSUME MaturityInv, UNCHANGED <<walk, nightly, torn, matClock>>
  PROVE  WalksGoOn
<1>1. walk' \in [Touchers -> {Resting} \cup MatWalks]
  BY DEF MaturityInv, MaturityShape
<1>2. WalksTimely'
  BY DEF MaturityInv, WalksTimely, Timely, pacificDayKey
<1>3. \A a \in Accounts, d \in Days : TouchingNow(a, d) => TouchingNow(a, d)'
  BY DEF TouchingNow, Head1
<1>4. FireIsFirst'
  BY DEF MaturityInv, FireIsFirst, Head1, maturityInFireGate, MinuteOf
<1> QED
  BY <1>1, <1>2, <1>3, <1>4 DEF WalksGoOn

\* A save writes the state it is given; an account with nothing in it has none.
LEMMA MarkMoves ==
  ASSUME MaturityInv, NEW a \in Accounts, NEW m \in MatStates, NEW r \in MatReadings,
         m.lastTouch = mat[a].lastTouch, m.touchDay = mat[a].touchDay,
         mat' = [mat EXCEPT ![a] = m], matDisk' = matDisk \/ matDisk' = saveMaturity(a, m, r)
  PROVE  MarksSame
<1>1. mat \in [Accounts -> MatStates] /\ matDisk \in [Accounts -> MatRows] /\ MarksKept
  BY DEF MaturityInv, MaturityShape
<1>2. mat' \in [Accounts -> MatStates] /\ mat'[a] = m /\ \A b \in Accounts \ {a} : mat'[b] = mat[b]
  BY <1>1
<1>3. \A b \in Accounts : mat'[b].lastTouch = mat[b].lastTouch /\ mat'[b].touchDay = mat[b].touchDay
  BY <1>2
<1>4. CASE matDisk' = matDisk
  BY <1>1, <1>2, <1>3, <1>4 DEF MarksSame, MarksKept, pacificDayKey
<1>5. CASE matDisk' /= matDisk
  <2> DEFINE row == [state |-> m, reading |-> r]
  <2>1. matDisk' = [matDisk EXCEPT ![a] = row]
    BY <1>5 DEF saveMaturity
  <2>2. row \in MatRows /\ row /= NoMatRow /\ row.state = m
    BY DEF MatRows, NoMatRow
  <2> HIDE DEF row
  <2>3. matDisk' \in [Accounts -> MatRows] /\ matDisk'[a] = row /\ \A b \in Accounts \ {a} : matDisk'[b] = matDisk[b]
    BY <1>1, <2>1, <2>2
  <2>4. ASSUME NEW b \in Accounts
        PROVE  /\ mat'[b].lastTouch /= 0 => mat'[b].touchDay = pacificDayKey(mat'[b].lastTouch)
               /\ matDisk'[b] = NoMatRow => mat'[b].lastTouch = 0
               /\ matDisk'[b] /= NoMatRow => /\ matDisk'[b].state.lastTouch = mat'[b].lastTouch
                                             /\ matDisk'[b].state.touchDay = mat'[b].touchDay
    <3>1. CASE b = a
      BY <1>1, <1>2, <1>3, <2>2, <2>3, <3>1 DEF MarksKept
    <3>2. CASE b /= a
      BY <1>1, <1>2, <2>3, <3>2 DEF MarksKept
    <3> QED
      BY <3>1, <3>2
  <2>5. MarksKept'
    BY <2>4 DEF MarksKept, pacificDayKey
  <2> QED
    BY <1>2, <1>3, <2>3, <2>5 DEF MarksSame
<1> QED
  BY <1>4, <1>5

\* One walk moves; a touch of the tick goes on as the same touch, and it comes to
\* a fire only on an account not touched yet, with the gate open.
LEMMA WalkMoves ==
  ASSUME MaturityInv, UNCHANGED <<nightly, torn, matClock>>, NEW w \in Touchers, NEW u \in {Resting} \cup MatWalks,
         walk' = [walk EXCEPT ![w] = u], u /= Resting => Timely(u, matClock),
         w = "tick" /\ walk[w].at \in InTouch => u.at \in InTouch /\ u.todo = walk[w].todo /\ u.today = walk[w].today,
         w = "tick" /\ u.at = "fire" => nightly[u.todo[1]][u.today] <= torn[u.todo[1]][u.today] /\ maturityInFireGate(u.now)
  PROVE  WalksGoOn
<1>1. walk \in [Touchers -> {Resting} \cup MatWalks] /\ WalksTimely /\ FireIsFirst
  BY DEF MaturityInv, MaturityShape
<1>2. walk'[w] = u /\ \A v \in Touchers \ {w} : walk'[v] = walk[v]
  BY <1>1
<1>3. walk' \in [Touchers -> {Resting} \cup MatWalks]
  BY <1>1
<1>4. WalksTimely'
  <2>1. \A v \in Touchers : walk'[v] /= Resting => Timely(walk'[v], matClock)
    BY <1>1, <1>2 DEF WalksTimely
  <2>2. \A v \in Touchers : Timely(walk[v], matClock)' = Timely(walk'[v], matClock)
    BY DEF Timely, pacificDayKey
  <2> QED
    BY <2>1, <2>2 DEF WalksTimely, Resting
<1>5. "tick" \in Touchers
  BY DEF Touchers
<1>6. \A a \in Accounts, d \in Days : TouchingNow(a, d) => TouchingNow(a, d)'
  <2>1. CASE w = "tick"
    BY <1>2, <2>1 DEF TouchingNow, Head1
  <2>2. CASE w /= "tick"
    BY <1>2, <1>5, <2>2 DEF TouchingNow, Head1
  <2> QED
    BY <2>1, <2>2
<1>7. FireIsFirst'
  <2>1. CASE w = "tick"
    BY <1>2, <2>1 DEF FireIsFirst, Head1, maturityInFireGate, MinuteOf
  <2>2. CASE w /= "tick"
    BY <1>1, <1>2, <1>5, <2>2 DEF FireIsFirst, Head1, maturityInFireGate, MinuteOf
  <2> QED
    BY <2>1, <2>2
<1> QED
  BY <1>3, <1>4, <1>6, <1>7 DEF WalksGoOn

\* Readings, gates, prices and turns are nothing the invariant speaks of.
LEMMA MaturityUnchanged ==
  ASSUME MaturityInv, UNCHANGED <<matClock, mat, matDisk, walk, nightly, torn>>, streak' \in [Accounts -> MatReadings]
  PROVE  MaturityInv'
BY UncountedStep, MarksUnchanged, WalksUnchanged

\* A walk that is not in the middle of a touch leaves its account.
LEMMA LeaveStep ==
  ASSUME MaturityInv, UNCHANGED <<nightly, torn, matClock>>, NEW w \in Touchers,
         walk[w].at \in {"account", "reading", "fire"}, NEW m \in MatStates, NEW r \in MatReadings,
         m.lastTouch = mat[Head1(w)].lastTouch, m.touchDay = mat[Head1(w)].touchDay, Leave(w, m, r)
  PROVE  MarksSame /\ WalksGoOn
<1>1. walk[w] /= Resting
  BY StepsWalk DEF WalkSteps
<1>2. Head1(w) \in Accounts
  BY <1>1, WalkFacts
<1>3. MarksSame
  BY <1>2, MarkMoves DEF Leave
<1>4. PICK u : u = Onward(w)
  OBVIOUS
<1>5. u \in {Resting} \cup MatWalks /\ (u /= Resting => Timely(u, matClock)) /\ u.at \in {"account", "resting"}
  BY <1>1, <1>4, OnwardFacts
<1>6. walk' = [walk EXCEPT ![w] = u]
  BY <1>4 DEF Leave
<1>7. walk[w].at \notin InTouch /\ u.at /= "fire"
  BY <1>5 DEF InTouch
<1>8. WalksGoOn
  BY <1>5, <1>6, <1>7, WalkMoves
<1> QED
  BY <1>3, <1>8

\* A walk turns to its account without touching it.
LEMMA PassStep ==
  ASSUME MaturityInv, UNCHANGED <<nightly, torn, matClock>>, NEW w \in Touchers,
         walk[w].at \in {"account", "reading", "fire"}, walk' = [walk EXCEPT ![w] = Onward(w)]
  PROVE  WalksGoOn
<1>1. walk[w] /= Resting
  BY StepsWalk DEF WalkSteps
<1>2. PICK u : u = Onward(w)
  OBVIOUS
<1>3. u \in {Resting} \cup MatWalks /\ (u /= Resting => Timely(u, matClock)) /\ u.at \in {"account", "resting"}
  BY <1>1, <1>2, OnwardFacts
<1>4. walk[w].at \notin InTouch /\ u.at /= "fire"
  BY <1>3 DEF InTouch
<1> QED
  BY <1>2, <1>3, <1>4, WalkMoves

\* A walk takes a step with its account.
LEMMA StepMoves ==
  ASSUME MaturityInv, UNCHANGED <<nightly, torn, matClock>>, NEW w \in Touchers, walk[w].at \in WalkSteps,
         NEW s \in WalkSteps, walk' = [walk EXCEPT ![w] = [walk[w] EXCEPT !.at = s]],
         w = "tick" /\ walk[w].at \in InTouch => s \in InTouch,
         w = "tick" /\ s = "fire" => nightly[Head1(w)][walk[w].today] <= torn[Head1(w)][walk[w].today]
                                     /\ maturityInFireGate(walk[w].now)
  PROVE  WalksGoOn
<1>1. walk[w] /= Resting
  BY StepsWalk
<1>2. walk[w] \in MatWalks /\ Timely(walk[w], matClock)
  BY <1>1, WalkFacts
<1>3. PICK u : u = [walk[w] EXCEPT !.at = s]
  OBVIOUS
<1>4. u \in MatWalks /\ u.todo = walk[w].todo /\ u.now = walk[w].now /\ u.today = walk[w].today /\ u.at = s
  BY <1>2, <1>3 DEF MatWalks
<1>5. Timely(u, matClock)
  BY <1>2, <1>4 DEF Timely
<1>6. walk' = [walk EXCEPT ![w] = u]
  BY <1>3
<1> QED
  BY <1>4, <1>5, <1>6, WalkMoves DEF Head1

\* A walk begins with the clock as it is.
LEMMA BeginStep ==
  ASSUME MaturityInv, UNCHANGED <<nightly, torn, matClock>>, NEW w \in Touchers, walk[w] = Resting,
         NEW todo \in Seq(Accounts), todo /= <<>>, NEW all \in BOOLEAN,
         walk' = [walk EXCEPT ![w] = Walking(w, todo, all)]
  PROVE  WalksGoOn
<1>1. matClock \in Nat /\ DayLength <= matClock /\ matClock <= MaxMatClock /\ MaxLag \in Nat
  BY MaturityConstants DEF MaturityInv, MaturityShape
<1>2. pacificDayKey(matClock) \in Nat
  BY <1>1, DayOfClock
<1>3. PICK u : u = Walking(w, todo, all)
  OBVIOUS
<1>4. u \in MatWalks /\ u.todo = todo /\ u.now = matClock /\ u.today = pacificDayKey(matClock) /\ u.at = "account"
  BY <1>1, <1>2, <1>3 DEF Walking, MatWalks, WalkSteps
<1>5. Timely(u, matClock)
  BY <1>1, <1>4 DEF Timely
<1>6. walk[w].at \notin InTouch
  BY DEF Resting, InTouch
<1> QED
  BY <1>3, <1>4, <1>5, <1>6, WalkMoves

-----------------------------------------------------------------------------

\* Who passes the gates of the nightly pass has not been touched this day: the mark
\* of a touch would be of the day, or of a later one and ahead of the walk's clock.
LEMMA NotYetTouched ==
  ASSUME MaturityInv, walk["tick"].at \in {"account", "reading"},
         ~touchedToday(mat[Head1("tick")], walk["tick"].today),
         ~(mat[Head1("tick")].lastTouch /= 0 /\ walk["tick"].now - mat[Head1("tick")].lastTouch < Throttle)
  PROVE  nightly[Head1("tick")][walk["tick"].today] <= torn[Head1("tick")][walk["tick"].today]
<1> DEFINE a == Head1("tick") t == walk["tick"].today now == walk["tick"].now
<1>1. "tick" \in Touchers /\ walk["tick"] /= Resting
  BY StepsWalk DEF Touchers, WalkSteps
<1>2. a \in Accounts /\ t \in Days /\ t \in Nat /\ now \in Nat /\ t = pacificDayKey(now) /\ DayLength <= now /\ now <= MaxMatClock
  BY <1>1, WalkFacts
<1>3. mat[a].lastTouch \in Nat /\ mat[a].touchDay \in Nat /\ nightly[a][t] \in Nat /\ torn[a][t] \in Nat
  BY <1>2 DEF MaturityInv, MaturityShape, MatStates
<1>4. ~TouchingNow(a, t)
  BY DEF TouchingNow, InTouch
<1>5. ASSUME TouchMarked(a, t) PROVE FALSE
  <2>1. mat[a].lastTouch /= 0 /\ mat[a].touchDay >= t /\ mat[a].touchDay = pacificDayKey(mat[a].lastTouch)
    BY <1>2, <1>5 DEF TouchMarked, MaturityInv, MarksKept
  <2>2. mat[a].touchDay /= t
    BY <2>1 DEF touchedToday
  <2>3. mat[a].touchDay > t
    BY <1>2, <1>3, <2>1, <2>2
  <2>4. mat[a].lastTouch > now
    <3>1. ~(mat[a].lastTouch <= now)
      BY <1>2, <1>3, <2>1, <2>3, DaysInOrder, MaturityConstants DEF pacificDayKey
    <3> QED
      BY <1>2, <1>3, <3>1
  <2>5. Throttle \in Nat \ {0}
    BY MaturityConstants
  <2> QED
    BY <1>2, <1>3, <2>1, <2>4, <2>5
<1>6. ~(nightly[a][t] > torn[a][t])
  BY <1>2, <1>4, <1>5 DEF MaturityInv, TouchesCounted
<1> HIDE DEF a, t
<1> QED
  BY <1>3, <1>6 DEF a, t

\* The slots of a day are readings of the clock.
LEMMA SlotsAreNat ==
  ASSUME NEW d \in Nat
  PROVE  SlotsOf(d) \subseteq Nat
<1>1. d * DayLength \in Nat
  BY MaturityConstants
<1> QED
  BY <1>1, MaturityConstants DEF SlotsOf

\* The decision leaves the account, or comes to a first touch.
LEMMA DecideStep ==
  ASSUME MaturityInv, UNCHANGED <<nightly, torn, matClock>>, walk["tick"].at \in {"account", "reading"},
         NEW r \in MatReadings, Decide("tick", mat[Head1("tick")], r)
  PROVE  MarksSame /\ WalksGoOn
<1> DEFINE a == Head1("tick") now == walk["tick"].now today == walk["tick"].today m == mat[a]
<1>1. "tick" \in Touchers /\ walk["tick"] /= Resting
  BY StepsWalk DEF Touchers, WalkSteps
<1>2. a \in Accounts /\ today \in Nat
  BY <1>1, WalkFacts
<1>3. m \in MatStates
  BY <1>2 DEF MaturityInv, MaturityShape
<1>4. CASE ~maturityInWindow(now)
  <2>1. Leave("tick", m, r)
    BY <1>4 DEF Decide
  <2> QED
    BY <1>1, <1>3, <2>1, LeaveStep
<1>5. CASE maturityInWindow(now)
  <2>1. PICK drawn \in SlotsOf(today) :
          LET n == IF ReachesSlot(a, m, r, today) THEN Rolled(m, today, drawn) ELSE m
              v == NightlyVerdict(a, n, r, now, today)
          IN  IF v = "fire" THEN Fire("tick") /\ mat' = [mat EXCEPT ![a] = n] /\ UNCHANGED matDisk
              ELSE Leave("tick", maturityRecord(n, v), r)
    BY <1>5 DEF Decide
  <2> DEFINE n == IF ReachesSlot(a, m, r, today) THEN Rolled(m, today, drawn) ELSE m
             v == NightlyVerdict(a, n, r, now, today)
  <2>2. drawn \in Nat
    BY <1>2, SlotsAreNat
  <2>3. n \in MatStates /\ n.lastTouch = m.lastTouch /\ n.touchDay = m.touchDay
    BY <1>2, <1>3, <2>2 DEF Rolled, MatStates
  <2>4. v /= "fire" => v \in {"skip", "ok", "error"}
    BY DEF NightlyVerdict
  <2>5. v = "fire" => /\ ~touchedToday(n, today)
                      /\ ~(n.lastTouch /= 0 /\ now - n.lastTouch < Throttle)
                      /\ maturityInFireGate(now)
    BY DEF NightlyVerdict
  <2>6. IF v = "fire" THEN Fire("tick") /\ mat' = [mat EXCEPT ![a] = n] /\ UNCHANGED matDisk
        ELSE Leave("tick", maturityRecord(n, v), r)
    BY <2>1
  <2> HIDE DEF n, v
  <2>7. CASE v = "fire"
    <3>1. MarksSame
      BY <1>2, <2>3, <2>6, <2>7, MarkMoves
    <3>2. ~touchedToday(m, today) /\ ~(m.lastTouch /= 0 /\ now - m.lastTouch < Throttle)
      BY <2>3, <2>5, <2>7 DEF touchedToday
    <3>3. nightly[a][today] <= torn[a][today]
      BY <3>2, NotYetTouched
    <3>4. walk' = [walk EXCEPT !["tick"] = [walk["tick"] EXCEPT !.at = "fire"]]
      BY <1>1, <2>6, <2>7 DEF Fire, MaturityInv, MaturityShape
    <3>5. WalksGoOn
      BY <1>1, <2>5, <2>7, <3>3, <3>4, StepMoves DEF WalkSteps, InTouch
    <3> QED
      BY <3>1, <3>5
  <2>8. CASE v /= "fire"
    <3>1. PICK k : k = maturityRecord(n, v)
      OBVIOUS
    <3>2. k \in MatStates /\ k.lastTouch = m.lastTouch /\ k.touchDay = m.touchDay
      BY <2>3, <2>4, <2>8, <3>1 DEF maturityRecord, MatStates
    <3>3. Leave("tick", k, r)
      BY <2>6, <2>8, <3>1
    <3> QED
      BY <1>1, <3>2, <3>3, LeaveStep
  <2> QED
    BY <2>7, <2>8
<1> QED
  BY <1>4, <1>5

\* A refusal or a pass is a word in the ledger and leaves the marks alone.
LEMMA RecordedStates ==
  ASSUME NEW m \in MatStates, NEW v \in {"", "skip", "ok", "error"}
  PROVE  /\ maturityRecord(m, v) \in MatStates
         /\ maturityRecord(m, v).lastTouch = m.lastTouch /\ maturityRecord(m, v).touchDay = m.touchDay
BY DEF maturityRecord, MatStates

\* The nightly tick on one account: its gates, a stale reading, the decision.
LEMMA TickOneStep == MaturityInv /\ maturityTickOne => MaturityInv'
<1> SUFFICES ASSUME MaturityInv, maturityTickOne PROVE MaturityInv'
  OBVIOUS
<1> DEFINE a == Head1("tick") now == walk["tick"].now
<1>1. "tick" \in Touchers /\ walk["tick"].at = "account" /\ walk["tick"] /= Resting
  BY StepsWalk DEF maturityTickOne, Touchers, WalkSteps
<1>2. UNCHANGED <<matClock, streak, nightly, torn>>
  BY DEF maturityTickOne
<1>3. a \in Accounts
  BY <1>1, WalkFacts
<1>4. mat[a] \in MatStates /\ streak[a] \in MatReadings /\ streak' \in [Accounts -> MatReadings]
  BY <1>2, <1>3 DEF MaturityInv, MaturityShape
<1>5. \/ Leave("tick", IF maturityInWindow(now) THEN maturityRecord(mat[a], "skip") ELSE mat[a], streak[a])
      \/ walk' = [walk EXCEPT !["tick"].at = "reading"] /\ UNCHANGED <<mat, matDisk>>
      \/ Decide("tick", mat[a], streak[a])
  BY DEF maturityTickOne
<1>6. CASE Leave("tick", IF maturityInWindow(now) THEN maturityRecord(mat[a], "skip") ELSE mat[a], streak[a])
  <2>1. PICK m : m = IF maturityInWindow(now) THEN maturityRecord(mat[a], "skip") ELSE mat[a]
    OBVIOUS
  <2>2. m \in MatStates /\ m.lastTouch = mat[a].lastTouch /\ m.touchDay = mat[a].touchDay
    BY <1>4, <2>1, RecordedStates
  <2>3. MarksSame /\ WalksGoOn
    BY <1>1, <1>2, <1>4, <1>6, <2>1, <2>2, LeaveStep
  <2> QED
    BY <1>2, <1>4, <2>3, UncountedStep
<1>7. CASE walk' = [walk EXCEPT !["tick"].at = "reading"] /\ UNCHANGED <<mat, matDisk>>
  <2>1. walk' = [walk EXCEPT !["tick"] = [walk["tick"] EXCEPT !.at = "reading"]]
    BY <1>1, <1>7 DEF MaturityInv, MaturityShape
  <2>2. WalksGoOn
    BY <1>1, <1>2, <2>1, StepMoves DEF WalkSteps, InTouch
  <2>3. MarksSame
    BY <1>7, MarksUnchanged
  <2> QED
    BY <1>2, <1>4, <2>2, <2>3, UncountedStep
<1>8. CASE Decide("tick", mat[a], streak[a])
  <2>1. MarksSame /\ WalksGoOn
    BY <1>1, <1>2, <1>4, <1>8, DecideStep
  <2> QED
    BY <1>2, <1>4, <2>1, UncountedStep
<1> QED
  BY <1>5, <1>6, <1>7, <1>8

\* What the upstream answers is a reading.
LEMMA ReadingsTyped ==
  ASSUME NEW a \in Accounts
  PROVE  Reading(a) \in MatReadings
BY DEF Reading, MatReadings

\* The answer of the upstream, or none, and the decision on it.
LEMMA RefreshStep == MaturityInv /\ maturityRefreshStreak => MaturityInv'
<1> SUFFICES ASSUME MaturityInv, maturityRefreshStreak PROVE MaturityInv'
  OBVIOUS
<1> DEFINE a == Head1("tick") now == walk["tick"].now
<1>1. "tick" \in Touchers /\ walk["tick"].at = "reading" /\ walk["tick"] /= Resting
  BY StepsWalk DEF maturityRefreshStreak, Touchers, WalkSteps
<1>2. UNCHANGED <<matClock, nightly, torn>>
  BY DEF maturityRefreshStreak
<1>3. a \in Accounts
  BY <1>1, WalkFacts
<1>4. mat[a] \in MatStates /\ streak[a] \in MatReadings /\ streak \in [Accounts -> MatReadings]
  BY <1>3 DEF MaturityInv, MaturityShape
<1>5. CASE streak' = [streak EXCEPT ![a] = Reading(a)] /\ Decide("tick", mat[a], Reading(a))
  <2>1. Reading(a) \in MatReadings
    BY <1>3, ReadingsTyped
  <2>2. streak' \in [Accounts -> MatReadings]
    BY <1>4, <1>5, <2>1
  <2>3. MarksSame /\ WalksGoOn
    BY <1>1, <1>2, <1>5, <2>1, DecideStep
  <2> QED
    BY <1>2, <2>2, <2>3, UncountedStep
<1>6. CASE UNCHANGED streak
           /\ Leave("tick", IF maturityInWindow(now) THEN maturityRecord(mat[a], "skip") ELSE mat[a], streak[a])
  <2>1. PICK m : m = IF maturityInWindow(now) THEN maturityRecord(mat[a], "skip") ELSE mat[a]
    OBVIOUS
  <2>2. m \in MatStates /\ m.lastTouch = mat[a].lastTouch /\ m.touchDay = mat[a].touchDay
    BY <1>4, <2>1, RecordedStates
  <2>3. MarksSame /\ WalksGoOn
    BY <1>1, <1>2, <1>4, <1>6, <2>1, <2>2, LeaveStep
  <2> QED
    BY <1>2, <1>4, <1>6, <2>3, UncountedStep
<1> QED
  BY <1>5, <1>6 DEF maturityRefreshStreak

\* A walk begins: the tick, the touch of one account, the forced walk.
LEMMA BeginsStep ==
  ASSUME MaturityInv, \/ maturityTickAt
                      \/ \E a \in Accounts : MaturityTouchNow(a)
                      \/ \E all \in BOOLEAN : ForceMaturityTouch(all)
  PROVE  MaturityInv'
<1> DEFINE Begins == /\ UNCHANGED <<matClock, mat, matDisk, streak, nightly, torn>>
                     /\ \E w \in Touchers, todo \in Seq(Accounts), all \in BOOLEAN :
                          walk[w] = Resting /\ todo /= <<>> /\ walk' = [walk EXCEPT ![w] = Walking(w, todo, all)]
<1>1. Begins
  <2>1. CASE maturityTickAt
    <3>1. PICK sweep \in SetToSeqs(Accounts) : walk' = [walk EXCEPT !["tick"] = Walking("tick", sweep, FALSE)]
      BY <2>1 DEF maturityTickAt, maturitySweepOrder
    <3>2. sweep \in Seq(Accounts) /\ sweep /= <<>>
      BY SweepOrders
    <3> QED
      BY <2>1, <3>1, <3>2 DEF maturityTickAt, Touchers
  <2>2. ASSUME NEW a \in Accounts, MaturityTouchNow(a) PROVE Begins
    <3>1. <<a>> \in Seq(Accounts) /\ <<a>> /= <<>>
      OBVIOUS
    <3> QED
      BY <2>2, <3>1 DEF MaturityTouchNow, CanAsk, Touchers
  <2>3. ASSUME NEW all \in BOOLEAN, ForceMaturityTouch(all) PROVE Begins
    <3>1. PICK sweep \in SetToSeqs(Accounts) : walk' = [walk EXCEPT !["force"] = Walking("force", sweep, all)]
      BY <2>3 DEF ForceMaturityTouch
    <3>2. sweep \in Seq(Accounts) /\ sweep /= <<>>
      BY SweepOrders
    <3> QED
      BY <2>3, <3>1, <3>2 DEF ForceMaturityTouch, CanAsk, Touchers
  <2> QED
    BY <2>1, <2>2, <2>3
<1>2. WalksGoOn
  BY <1>1, BeginStep
<1>3. streak' \in [Accounts -> MatReadings]
  BY <1>1 DEF MaturityInv, MaturityShape
<1> QED
  BY <1>1, <1>2, <1>3, UncountedStep, MarksUnchanged

\* A manual walk turns to its account or passes it; no mark moves.
LEMMA ManualStep ==
  ASSUME MaturityInv, NEW w \in Touchers, ManualOne(w)
  PROVE  MaturityInv'
<1> DEFINE a == Head1(w)
<1>1. w /= "tick" /\ walk[w].at = "account" /\ walk[w] /= Resting
  BY StepsWalk DEF ManualOne, WalkSteps
<1>2. UNCHANGED <<matClock, matDisk, nightly, torn>>
  BY DEF ManualOne
<1>3. a \in Accounts
  BY <1>1, WalkFacts
<1>4. mat \in [Accounts -> MatStates] /\ streak \in [Accounts -> MatReadings] /\ walk \in [Touchers -> {Resting} \cup MatWalks]
  BY DEF MaturityInv, MaturityShape
<1>5. PICK word : word = [mat EXCEPT ![a] = maturityRecord(mat[a], "skip")]
  OBVIOUS
<1>6. /\ \/ walk' = [walk EXCEPT ![w] = Onward(w)] /\ (mat' = mat \/ mat' = word)
         \/ Fire(w) /\ mat' = mat
      /\ streak' = streak \/ \E r \in {Reading(a), streak[a]} : streak' = [streak EXCEPT ![a] = r]
  BY <1>4, <1>5 DEF ManualOne
<1>7. streak' \in [Accounts -> MatReadings]
  <2>1. Reading(a) \in MatReadings /\ streak[a] \in MatReadings
    BY <1>3, <1>4, ReadingsTyped
  <2> QED
    BY <1>4, <1>6, <2>1
<1>8. MarksSame
  <2>1. CASE mat' = mat
    BY <1>2, <2>1, MarksUnchanged
  <2>2. CASE mat' = word
    <3>1. PICK m : m = maturityRecord(mat[a], "skip")
      OBVIOUS
    <3>2. m \in MatStates /\ m.lastTouch = mat[a].lastTouch /\ m.touchDay = mat[a].touchDay
      BY <1>3, <1>4, <3>1, RecordedStates
    <3>3. NoReading \in MatReadings
      BY DEF MatReadings
    <3> QED
      BY <1>2, <1>3, <1>5, <2>2, <3>1, <3>2, <3>3, MarkMoves
  <2> QED
    BY <1>6, <2>1, <2>2
<1>9. WalksGoOn
  <2>1. CASE walk' = [walk EXCEPT ![w] = Onward(w)]
    BY <1>1, <1>2, <2>1, PassStep
  <2>2. CASE Fire(w)
    <3>1. walk' = [walk EXCEPT ![w] = [walk[w] EXCEPT !.at = "fire"]]
      BY <1>4, <2>2 DEF Fire
    <3> QED
      BY <1>1, <1>2, <3>1, StepMoves DEF WalkSteps
  <2> QED
    BY <1>6, <2>1, <2>2
<1> QED
  BY <1>2, <1>7, <1>8, <1>9, UncountedStep

\* A reading inside a day's firing gate is past the gate's start of that day.
LEMMA GateReached ==
  ASSUME NEW c \in Nat, DayLength <= c, c <= MaxMatClock, maturityInFireGate(c)
  PROVE  pacificDayKey(c) * DayLength + GateStart <= c
<1> DEFINE q == pacificDayKey(c) p == DayLength * pacificDayKey(c)
<1>1. q \in Nat /\ c = p + MinuteOf(c) /\ MinuteOf(c) \in 0 .. (DayLength - 1) /\ DayLength \in Nat \ {0} /\ GateStart \in Nat
  BY DayOfClock, MaturityConstants
<1>2. p \in Nat /\ p = q * DayLength
  BY <1>1
<1>3. MinuteOf(c) >= GateStart /\ MinuteOf(c) \in Int
  BY <1>1 DEF maturityInFireGate
<1> HIDE DEF p
<1>4. p + GateStart <= c
  BY <1>1, <1>2, <1>3
<1> QED
  BY <1>2, <1>4

\* The touch begins: it is counted once, and under way.
LEMMA FireTouchStep ==
  ASSUME MaturityInv, NEW w \in Touchers, maturityFire(w)
  PROVE  MaturityInv'
<1> DEFINE a == Head1(w) t == walk[w].today
<1>1. walk[w].at = "fire" /\ walk[w] /= Resting
  BY StepsWalk DEF maturityFire, WalkSteps
<1>2. UNCHANGED <<matClock, streak, torn>>
  BY DEF maturityFire
<1>3. /\ a \in Accounts /\ t \in Days /\ t = pacificDayKey(walk[w].now) /\ walk[w] \in MatWalks /\ Timely(walk[w], matClock)
      /\ walk[w].now \in Nat /\ DayLength <= walk[w].now /\ walk[w].now <= MaxMatClock /\ walk[w].now <= matClock
      /\ matClock \in Nat
  BY <1>1, WalkFacts
<1>4. /\ mat \in [Accounts -> MatStates] /\ streak \in [Accounts -> MatReadings] /\ walk \in [Touchers -> {Resting} \cup MatWalks]
      /\ nightly \in [Accounts -> [Days -> Nat]] /\ torn \in [Accounts -> [Days -> Nat]]
  BY DEF MaturityInv, MaturityShape
<1>5. streak' \in [Accounts -> MatReadings]
  BY <1>2, <1>4
<1>6. CASE Leave(w, maturityRefuse(mat[a]), streak[a]) /\ UNCHANGED nightly
  <2>1. PICK m : m = maturityRefuse(mat[a])
    OBVIOUS
  <2>2. m \in MatStates /\ m.lastTouch = mat[a].lastTouch /\ m.touchDay = mat[a].touchDay
    BY <1>3, <1>4, <2>1, RecordedStates DEF maturityRefuse
  <2>3. MarksSame /\ WalksGoOn
    BY <1>1, <1>2, <1>3, <1>4, <1>6, <2>1, <2>2, LeaveStep
  <2> QED
    BY <1>2, <1>5, <1>6, <2>3, UncountedStep
<1>7. CASE walk' = [walk EXCEPT ![w].at = "touch"] /\ nightly' = Count(nightly, w) /\ UNCHANGED <<mat, matDisk>>
  <2>1. walk' = [walk EXCEPT ![w] = [walk[w] EXCEPT !.at = "touch"]]
    BY <1>4, <1>7
  <2>2. MarksSame
    BY <1>7, MarksUnchanged
  <2>3. CASE w /= "tick"
    <3>1. nightly' = nightly
      BY <1>7, <2>3 DEF Count
    <3>2. WalksGoOn
      BY <1>1, <1>2, <2>1, <2>3, <3>1, StepMoves DEF WalkSteps, InTouch
    <3> QED
      BY <1>2, <1>5, <2>2, <3>1, <3>2, UncountedStep
  <2>4. CASE w = "tick"
    <3> DEFINE row == [nightly[a] EXCEPT ![t] = @ + 1]
    <3>1. nightly' = [nightly EXCEPT ![a] = row]
      BY <1>3, <1>4, <1>7, <2>4 DEF Count
    <3>2. row \in [Days -> Nat] /\ row[t] = nightly[a][t] + 1 /\ \A d \in Days \ {t} : row[d] = nightly[a][d]
      BY <1>3, <1>4
    <3> HIDE DEF row
    <3>3. /\ nightly' \in [Accounts -> [Days -> Nat]] /\ nightly'[a][t] = nightly[a][t] + 1
          /\ \A d \in Days \ {t} : nightly'[a][d] = nightly[a][d]
          /\ \A b \in Accounts \ {a} : nightly'[b] = nightly[b]
      BY <1>3, <1>4, <3>1, <3>2
    <3>4. PICK u : u = [walk[w] EXCEPT !.at = "touch"]
      OBVIOUS
    <3>5. u \in MatWalks /\ u.at = "touch" /\ u.todo = walk[w].todo /\ u.now = walk[w].now /\ u.today = t
      BY <1>3, <3>4 DEF MatWalks, WalkSteps, InTouch
    <3>6. walk' = [walk EXCEPT ![w] = u] /\ Timely(u, matClock)
      BY <1>3, <2>1, <3>4, <3>5 DEF Timely
    <3>7. walk'[w] = u /\ (\A v \in Touchers \ {w} : walk'[v] = walk[v]) /\ walk' \in [Touchers -> {Resting} \cup MatWalks]
      BY <1>4, <3>5, <3>6
    <3>8. MaturityShape'
      <4>1. UNCHANGED <<mat, matDisk, streak, torn, matClock>>
        BY <1>2, <1>7
      <4> QED
        BY <3>3, <3>7, <4>1 DEF MaturityInv, MaturityShape, Days, pacificDayKey
    <3>9. WalksTimely'
      <4>1. \A v \in Touchers : walk'[v] /= Resting => Timely(walk'[v], matClock)
        BY <3>6, <3>7 DEF MaturityInv, WalksTimely
      <4> QED
        BY <1>2, <4>1 DEF WalksTimely, Timely, pacificDayKey, Resting
    <3>10. TouchesCounted'
      <4>1. Days' = Days
        BY DEF Days, pacificDayKey
      <4>2. ASSUME NEW b \in Accounts, NEW d \in Days
            PROVE  /\ nightly'[b][d] <= 1 + torn[b][d]
                   /\ nightly'[b][d] > torn[b][d] => TouchingNow(b, d)' \/ TouchMarked(b, d)'
                   /\ nightly'[b][d] > 0 => d * DayLength + GateStart <= matClock
        <5>1. CASE b = a /\ d = t
          <6>1. nightly[a][t] <= torn[a][t] /\ maturityInFireGate(walk[w].now)
            BY <1>1, <2>4 DEF MaturityInv, FireIsFirst
          <6>2. t * DayLength + GateStart <= walk[w].now
            BY <1>3, <6>1, GateReached
          <6>3. t * DayLength + GateStart \in Int
            BY <1>3, DayOfClock, MaturityConstants
          <6>4. t * DayLength + GateStart <= matClock
            BY <1>3, <6>2, <6>3
          <6>5. TouchingNow(b, d)'
            BY <2>4, <3>5, <3>7, <5>1 DEF TouchingNow, Head1, InTouch
          <6>6. nightly[a][t] \in Nat /\ torn[a][t] \in Nat
            BY <1>3, <1>4
          <6>7. nightly'[a][t] <= 1 + torn[a][t]
            BY <3>3, <6>1, <6>6
          <6> HIDE DEF a, t
          <6> QED
            BY <5>1, <6>4, <6>5, <6>7
        <5>2. CASE ~(b = a /\ d = t)
          <6>1. nightly'[b][d] = nightly[b][d]
            BY <3>3, <5>2
          <6>2. ~TouchingNow(b, d)
            BY <1>1, <2>4 DEF TouchingNow, InTouch
          <6>3. TouchMarked(b, d) => TouchMarked(b, d)'
            BY <1>7 DEF TouchMarked
          <6> QED
            BY <6>1, <6>2, <6>3 DEF MaturityInv, TouchesCounted
        <5> QED
          BY <5>1, <5>2
      <4> QED
        BY <1>2, <4>1, <4>2 DEF TouchesCounted
    <3>11. FireIsFirst'
      BY <2>4, <3>5, <3>7 DEF FireIsFirst
    <3> QED
      BY <2>2, <3>8, <3>9, <3>10, <3>11 DEF MaturityInv, MarksSame
  <2> QED
    BY <2>3, <2>4
<1> QED
  BY <1>6, <1>7 DEF maturityFire

\* The turn lands or not; the touch is still under way.
LEMMA TouchRunStep ==
  ASSUME MaturityInv, NEW w \in Touchers, maturityTouchRun(w)
  PROVE  MaturityInv'
<1>1. walk[w].at = "touch" /\ UNCHANGED <<matClock, mat, matDisk, streak, nightly, torn>>
  BY DEF maturityTouchRun
<1>2. PICK r \in {"ok", "error", "429"} : walk' = [walk EXCEPT ![w] = [walk[w] EXCEPT !.at = r]]
  BY DEF maturityTouchRun, MaturityInv, MaturityShape
<1>3. WalksGoOn
  BY <1>1, <1>2, StepMoves DEF WalkSteps, InTouch
<1>4. MarksSame
  BY <1>1, MarksUnchanged
<1>5. streak' \in [Accounts -> MatReadings]
  BY <1>1 DEF MaturityInv, MaturityShape
<1> QED
  BY <1>1, <1>3, <1>4, <1>5, UncountedStep

\* Who has been touched on a day keeps a mark of it, whichever walk comes back: no
\* walk of an earlier day is left.
LEMMA WalkIsOfTheDay ==
  ASSUME MaturityInv, NEW w \in Touchers, walk[w] /= Resting,
         NEW a \in Accounts, NEW d \in Days, nightly[a][d] > torn[a][d]
  PROVE  walk[w].today >= d
<1> DEFINE now == walk[w].now e == d * DayLength
<1>1. /\ now \in Nat /\ DayLength <= now /\ now <= MaxMatClock /\ walk[w].today = pacificDayKey(now) /\ walk[w].today \in Nat
      /\ matClock \in Nat /\ matClock <= now + MaxLag
  BY WalkFacts
<1>2. nightly[a][d] \in Nat /\ torn[a][d] \in Nat
  BY DEF MaturityInv, MaturityShape
<1>3. e + GateStart <= matClock
  BY <1>2 DEF MaturityInv, TouchesCounted
<1>4. MaxLag \in Nat /\ GateStart \in Nat /\ MaxLag <= GateStart /\ DayLength \in Nat /\ d \in Nat
  BY MaturityConstants DEF Days
<1>5. ASSUME walk[w].today < d PROVE FALSE
  <2>1. now < e
    BY <1>1, <1>4, <1>5, DayEnds
  <2>2. e \in Nat
    BY <1>4
  <2> HIDE DEF e, now
  <2> QED
    BY <1>1, <1>3, <1>4, <2>1, <2>2
<1> QED
  BY <1>1, <1>4, <1>5

\* The touch comes back: its mark is of the walk's day, in memory and in the row.
LEMMA TouchReturnsStep ==
  ASSUME MaturityInv, NEW w \in Touchers, TouchReturns(w)
  PROVE  MaturityInv'
<1> DEFINE a == Head1(w)
<1>1. walk[w].at \in InTouch /\ walk[w] /= Resting
  BY StepsWalk DEF TouchReturns, InTouch, WalkSteps
<1>2. UNCHANGED <<matClock, streak, nightly, torn>>
  BY DEF TouchReturns
<1>3. a \in Accounts /\ walk[w].now \in Nat /\ walk[w].today \in Nat /\ walk[w].today = pacificDayKey(walk[w].now) /\ walk[w].now /= 0
  BY <1>1, WalkFacts, MaturityConstants
<1>4. /\ mat \in [Accounts -> MatStates] /\ matDisk \in [Accounts -> MatRows] /\ streak \in [Accounts -> MatReadings]
      /\ walk \in [Touchers -> {Resting} \cup MatWalks] /\ MarksKept
  BY DEF MaturityInv, MaturityShape
<1>5. PICK m : m = TouchRecorded(w, mat[a])
  OBVIOUS
<1>6. m \in MatStates /\ m.lastTouch = walk[w].now /\ m.touchDay = walk[w].today
  BY <1>3, <1>4, <1>5 DEF TouchRecorded, MatStates
<1>7. mat' = [mat EXCEPT ![a] = m]
  BY <1>4, <1>5 DEF TouchReturns
<1>8. m /= FreshState
  <2>1. FreshState.lastTouch = 0
    BY DEF FreshState
  <2> QED
    BY <1>3, <1>6, <2>1
<1>9. PICK row : row = [state |-> m, reading |-> streak[a]]
  OBVIOUS
<1>10. row \in MatRows /\ row /= NoMatRow /\ row.state = m
  BY <1>3, <1>4, <1>6, <1>9 DEF MatRows, NoMatRow
<1>11. matDisk' = [matDisk EXCEPT ![a] = row]
  BY <1>5, <1>8, <1>9 DEF TouchReturns, saveMaturity
<1>12. /\ mat' \in [Accounts -> MatStates] /\ mat'[a] = m /\ \A b \in Accounts \ {a} : mat'[b] = mat[b]
       /\ matDisk' \in [Accounts -> MatRows] /\ matDisk'[a] = row /\ \A b \in Accounts \ {a} : matDisk'[b] = matDisk[b]
  BY <1>3, <1>4, <1>6, <1>7, <1>10, <1>11
<1>13. PICK u : walk' = [walk EXCEPT ![w] = u] /\ u \in {Resting, Onward(w)}
  BY DEF TouchReturns
<1>14. u \in {Resting} \cup MatWalks /\ (u /= Resting => Timely(u, matClock)) /\ u.at \in {"account", "resting"}
  BY <1>1, <1>13, OnwardFacts DEF Resting
<1>15. walk'[w] = u /\ (\A v \in Touchers \ {w} : walk'[v] = walk[v]) /\ walk' \in [Touchers -> {Resting} \cup MatWalks]
  BY <1>4, <1>13, <1>14
<1>16. MaturityShape'
  BY <1>2, <1>12, <1>15 DEF MaturityInv, MaturityShape, Days, pacificDayKey
<1>17. WalksTimely'
  <2>1. \A v \in Touchers : walk'[v] /= Resting => Timely(walk'[v], matClock)
    BY <1>14, <1>15 DEF MaturityInv, WalksTimely
  <2> QED
    BY <1>2, <2>1 DEF WalksTimely, Timely, pacificDayKey, Resting
<1>18. MarksKept'
  <2>1. ASSUME NEW b \in Accounts
        PROVE  /\ mat'[b].lastTouch /= 0 => mat'[b].touchDay = pacificDayKey(mat'[b].lastTouch)
               /\ matDisk'[b] = NoMatRow => mat'[b].lastTouch = 0
               /\ matDisk'[b] /= NoMatRow => /\ matDisk'[b].state.lastTouch = mat'[b].lastTouch
                                             /\ matDisk'[b].state.touchDay = mat'[b].touchDay
    <3>1. CASE b = a
      BY <1>3, <1>6, <1>10, <1>12, <3>1
    <3>2. CASE b /= a
      BY <1>4, <1>12, <3>2 DEF MarksKept
    <3> QED
      BY <3>1, <3>2
  <2> QED
    BY <2>1 DEF MarksKept, pacificDayKey
<1>19. TouchesCounted'
  <2>1. Days' = Days
    BY DEF Days, pacificDayKey
  <2>2. ASSUME NEW b \in Accounts, NEW d \in Days
        PROVE  /\ nightly[b][d] <= 1 + torn[b][d]
               /\ nightly[b][d] > torn[b][d] => TouchingNow(b, d)' \/ TouchMarked(b, d)'
               /\ nightly[b][d] > 0 => d * DayLength + GateStart <= matClock
    <3>1. CASE b = a
      <4>1. nightly[b][d] > torn[b][d] => TouchMarked(b, d)'
        <5>1. nightly[b][d] > torn[b][d] => walk[w].today >= d
          BY <1>1, WalkIsOfTheDay
        <5> QED
          BY <1>3, <1>6, <1>12, <3>1, <5>1 DEF TouchMarked
      <4> QED
        BY <4>1 DEF MaturityInv, TouchesCounted
    <3>2. CASE b /= a
      <4>1. TouchMarked(b, d) => TouchMarked(b, d)'
        BY <1>12, <3>2 DEF TouchMarked
      <4>2. TouchingNow(b, d) => TouchingNow(b, d)'
        <5>1. CASE w = "tick"
          BY <3>2, <5>1 DEF TouchingNow
        <5>2. CASE w /= "tick"
          BY <1>15, <5>2 DEF TouchingNow, Head1, Touchers
        <5> QED
          BY <5>1, <5>2
      <4> QED
        BY <4>1, <4>2 DEF MaturityInv, TouchesCounted
    <3> QED
      BY <3>1, <3>2
  <2> QED
    BY <1>2, <2>1, <2>2 DEF TouchesCounted
<1>20. FireIsFirst'
  <2>1. CASE w = "tick"
    BY <1>14, <1>15, <2>1 DEF FireIsFirst
  <2>2. CASE w /= "tick"
    <3>1. walk'["tick"] = walk["tick"]
      BY <1>15, <2>2 DEF Touchers
    <3> QED
      BY <1>2, <3>1 DEF MaturityInv, FireIsFirst, Head1, maturityInFireGate, MinuteOf
  <2> QED
    BY <2>1, <2>2
<1> QED
  BY <1>16, <1>17, <1>18, <1>19, <1>20 DEF MaturityInv

\* The preferences leave the marks alone.
LEMMA SetMaturityStep ==
  ASSUME MaturityInv, NEW a \in Accounts, NEW mode \in {"unmetered", "premium-short"},
         NEW drawn \in SlotsOf(pacificDayKey(matClock)), SetMaturity(a, mode, drawn)
  PROVE  MaturityInv'
<1> DEFINE today == pacificDayKey(matClock)
<1>1. today \in Nat
  BY DayOfClock, MaturityConstants DEF MaturityInv, MaturityShape
<1>2. drawn \in Nat
  BY <1>1, SlotsAreNat
<1>3. mat[a] \in MatStates /\ streak[a] \in MatReadings /\ streak \in [Accounts -> MatReadings]
  BY DEF MaturityInv, MaturityShape
<1>4. PICK m : m = [mat[a] EXCEPT !.mode = mode, !.slot = IF @ = Undrawn THEN drawn ELSE @,
                                  !.slotDay = IF mat[a].slot = Undrawn THEN today ELSE @]
  OBVIOUS
<1>5. m \in MatStates /\ m.lastTouch = mat[a].lastTouch /\ m.touchDay = mat[a].touchDay
  BY <1>1, <1>2, <1>3, <1>4 DEF MatStates
<1>6. mat' = [mat EXCEPT ![a] = m] /\ matDisk' = saveMaturity(a, m, streak[a])
      /\ UNCHANGED <<matClock, walk, streak, nightly, torn>>
  BY <1>4 DEF SetMaturity
<1>7. MarksSame
  BY <1>3, <1>5, <1>6, MarkMoves
<1>8. WalksGoOn
  BY <1>6, WalksUnchanged
<1> QED
  BY <1>3, <1>6, <1>7, <1>8, UncountedStep

\* The marks come back from the rows; the touch a restart cuts off is told apart.
LEMMA RestoreStep == MaturityInv /\ RestoreMaturity => MaturityInv'
<1> SUFFICES ASSUME MaturityInv, RestoreMaturity PROVE MaturityInv'
  OBVIOUS
<1> DEFINE cut == walk["tick"].at \in InTouch
<1>1. /\ mat' = [a \in Accounts |-> IF matDisk[a] = NoMatRow THEN FreshState ELSE matDisk[a].state]
      /\ streak' = [a \in Accounts |-> IF matDisk[a] = NoMatRow THEN NoReading ELSE matDisk[a].reading]
      /\ walk' = [w \in Touchers |-> Resting]
      /\ torn' = IF cut THEN Count(torn, "tick") ELSE torn
      /\ UNCHANGED <<matClock, matDisk, nightly>>
  BY DEF RestoreMaturity, InTouch
<1>2. /\ mat \in [Accounts -> MatStates] /\ matDisk \in [Accounts -> MatRows] /\ MarksKept
      /\ nightly \in [Accounts -> [Days -> Nat]] /\ torn \in [Accounts -> [Days -> Nat]]
  BY DEF MaturityInv, MaturityShape
<1>3. \A a \in Accounts : matDisk[a] /= NoMatRow => matDisk[a].state \in MatStates /\ matDisk[a].reading \in MatReadings
  BY <1>2 DEF MatRows
<1>4. FreshState \in MatStates /\ FreshState.lastTouch = 0 /\ NoReading \in MatReadings
  BY DEF FreshState, MatStates, MatReadings, Undrawn, NoDay
<1>5. mat' \in [Accounts -> MatStates] /\ streak' \in [Accounts -> MatReadings] /\ walk' \in [Touchers -> {Resting} \cup MatWalks]
  BY <1>1, <1>3, <1>4
<1>6. ASSUME NEW a \in Accounts
      PROVE  /\ mat'[a].lastTouch = mat[a].lastTouch /\ (mat[a].lastTouch /= 0 => mat'[a].touchDay = mat[a].touchDay)
             /\ mat'[a].lastTouch /= 0 => mat'[a].touchDay = pacificDayKey(mat'[a].lastTouch)
             /\ matDisk[a] = NoMatRow => mat'[a].lastTouch = 0
             /\ matDisk[a] /= NoMatRow => /\ matDisk[a].state.lastTouch = mat'[a].lastTouch
                                          /\ matDisk[a].state.touchDay = mat'[a].touchDay
  <2>1. CASE matDisk[a] = NoMatRow
    BY <1>1, <1>2, <1>4, <2>1 DEF MarksKept
  <2>2. CASE matDisk[a] /= NoMatRow
    BY <1>1, <1>2, <2>2 DEF MarksKept
  <2> QED
    BY <2>1, <2>2
<1>7. MarksKept'
  BY <1>1, <1>6 DEF MarksKept, pacificDayKey
<1>8. WalksTimely' /\ FireIsFirst'
  BY <1>1 DEF WalksTimely, FireIsFirst, Resting, Touchers
<1>9. /\ torn' \in [Accounts -> [Days -> Nat]]
      /\ \A a \in Accounts, d \in Days : /\ torn[a][d] <= torn'[a][d]
                                         /\ TouchingNow(a, d) => torn'[a][d] = torn[a][d] + 1
  <2>1. CASE ~cut
    BY <1>1, <1>2, <2>1 DEF TouchingNow
  <2>2. CASE cut
    <3> DEFINE b == Head1("tick") t == walk["tick"].today
    <3>1. b \in Accounts /\ t \in Days
      BY <2>2, StepsWalk, WalkFacts DEF Touchers, WalkSteps
    <3> DEFINE row == [torn[b] EXCEPT ![t] = @ + 1]
    <3>2. torn' = [torn EXCEPT ![b] = row]
      BY <1>1, <1>2, <2>2, <3>1 DEF Count
    <3>3. row \in [Days -> Nat] /\ row[t] = torn[b][t] + 1 /\ \A d \in Days \ {t} : row[d] = torn[b][d]
      BY <1>2, <3>1
    <3> HIDE DEF row
    <3>4. /\ torn' \in [Accounts -> [Days -> Nat]] /\ torn'[b][t] = torn[b][t] + 1
          /\ \A d \in Days \ {t} : torn'[b][d] = torn[b][d]
          /\ \A a \in Accounts \ {b} : torn'[a] = torn[a]
      BY <1>2, <3>1, <3>2, <3>3
    <3>5. \A a \in Accounts, d \in Days : TouchingNow(a, d) => a = b /\ d = t
      BY DEF TouchingNow
    <3>6. \A a \in Accounts, d \in Days : torn[a][d] \in Nat
      BY <1>2
    <3> HIDE DEF b, t
    <3> QED
      BY <3>1, <3>4, <3>5, <3>6
  <2> QED
    BY <2>1, <2>2
<1>10. MaturityShape'
  BY <1>1, <1>5, <1>9 DEF MaturityInv, MaturityShape, Days, pacificDayKey
<1>11. TouchesCounted'
  <2>1. Days' = Days
    BY DEF Days, pacificDayKey
  <2>2. ASSUME NEW a \in Accounts, NEW d \in Days
        PROVE  /\ nightly[a][d] <= 1 + torn'[a][d]
               /\ nightly[a][d] > torn'[a][d] => TouchMarked(a, d)'
               /\ nightly[a][d] > 0 => d * DayLength + GateStart <= matClock
    <3>1. nightly[a][d] \in Nat /\ torn[a][d] \in Nat /\ torn'[a][d] \in Nat
      BY <1>2, <1>9
    <3>2. nightly[a][d] <= 1 + torn[a][d] /\ (nightly[a][d] > torn[a][d] => TouchingNow(a, d) \/ TouchMarked(a, d))
          /\ (nightly[a][d] > 0 => d * DayLength + GateStart <= matClock)
      BY DEF MaturityInv, TouchesCounted
    <3>3. TouchMarked(a, d) => TouchMarked(a, d)'
      BY <1>6 DEF TouchMarked
    <3>4. nightly[a][d] > torn'[a][d] => nightly[a][d] > torn[a][d] /\ ~TouchingNow(a, d)
      BY <1>9, <3>1, <3>2
    <3>5. nightly[a][d] <= 1 + torn'[a][d]
      BY <1>9, <3>1, <3>2
    <3> QED
      BY <3>2, <3>3, <3>4, <3>5
  <2> QED
    BY <1>1, <2>1, <2>2 DEF TouchesCounted
<1> QED
  BY <1>7, <1>8, <1>10, <1>11 DEF MaturityInv

\* Time passes no further than a walk may be behind.
LEMMA MatTickStep == MaturityInv /\ MatTick => MaturityInv'
<1> SUFFICES ASSUME MaturityInv, MatTick PROVE MaturityInv'
  OBVIOUS
<1>1. /\ matClock' = matClock + 1 /\ matClock < MaxMatClock /\ UNCHANGED <<mat, walk, nightly, torn>>
      /\ \A w \in Touchers : walk[w] /= Resting => matClock - walk[w].now < MaxLag
  BY DEF MatTick
<1>2. matClock \in Nat /\ DayLength \in Nat /\ MaxMatClock \in Nat /\ MaxLag \in Nat /\ GateStart \in Nat /\ DayLength <= matClock
  BY MaturityConstants DEF MaturityInv, MaturityShape
<1>3. /\ streak \in [Accounts -> MatReadings] /\ matDisk \in [Accounts -> MatRows] /\ MarksKept
      /\ nightly \in [Accounts -> [Days -> Nat]]
  BY DEF MaturityInv, MaturityShape
<1>4. \A r \in MatReadings : Staled(r) \in MatReadings
  BY DEF MatReadings, Staled, NoReading
<1>5. streak' \in [Accounts -> MatReadings] /\ matDisk' \in [Accounts -> MatRows]
      /\ \A a \in Accounts : /\ matDisk'[a] = NoMatRow <=> matDisk[a] = NoMatRow
                             /\ matDisk[a] /= NoMatRow => matDisk'[a].state = matDisk[a].state
  <2>1. CASE MinuteOf(matClock') /= 0
    BY <1>3, <2>1 DEF MatTick
  <2>2. CASE MinuteOf(matClock') = 0
    <3>1. /\ streak' = [a \in Accounts |-> Staled(streak[a])]
          /\ matDisk' = [a \in Accounts |-> IF matDisk[a] = NoMatRow THEN NoMatRow ELSE [matDisk[a] EXCEPT !.reading = Staled(@)]]
      BY <2>2 DEF MatTick
    <3>2. streak' \in [Accounts -> MatReadings]
      BY <1>3, <1>4, <3>1
    <3>3. ASSUME NEW a \in Accounts, matDisk[a] /= NoMatRow
          PROVE  /\ [matDisk[a] EXCEPT !.reading = Staled(@)] \in MatRows
                 /\ [matDisk[a] EXCEPT !.reading = Staled(@)] /= NoMatRow
                 /\ [matDisk[a] EXCEPT !.reading = Staled(@)].state = matDisk[a].state
      <4>1. matDisk[a] \in [state : MatStates, reading : MatReadings]
        BY <1>3, <3>3 DEF MatRows
      <4>2. PICK row : row = [matDisk[a] EXCEPT !.reading = Staled(@)]
        OBVIOUS
      <4>3. row \in [state : MatStates, reading : MatReadings] /\ row.state = matDisk[a].state
        BY <1>4, <4>1, <4>2
      <4> QED
        BY <4>2, <4>3 DEF MatRows, NoMatRow
    <3> QED
      BY <3>1, <3>2, <3>3 DEF MatRows
  <2> QED
    BY <2>1, <2>2
<1>6. MaturityShape'
  BY <1>1, <1>2, <1>5 DEF MaturityInv, MaturityShape, Days, pacificDayKey
<1>7. WalksTimely'
  <2>1. ASSUME NEW w \in Touchers, walk[w] /= Resting PROVE Timely(walk[w], matClock + 1)
    <3>1. Timely(walk[w], matClock) /\ walk[w].now \in Nat
      BY <2>1, WalkFacts
    <3>2. matClock - walk[w].now < MaxLag
      BY <1>1, <2>1
    <3> QED
      BY <1>2, <3>1, <3>2 DEF Timely
  <2> QED
    BY <1>1, <2>1 DEF WalksTimely, Timely, pacificDayKey, Resting
<1>8. MarksKept'
  BY <1>1, <1>3, <1>5 DEF MarksKept, pacificDayKey
<1>9. TouchesCounted'
  <2>1. Days' = Days /\ Days \subseteq Nat
    BY DEF Days, pacificDayKey
  <2>2. \A a \in Accounts, d \in Days : nightly[a][d] > 0 => d * DayLength + GateStart <= matClock + 1
    <3>1. ASSUME NEW a \in Accounts, NEW d \in Days, nightly[a][d] > 0 PROVE d * DayLength + GateStart <= matClock + 1
      <4> DEFINE e == d * DayLength
      <4>1. e \in Nat
        BY <1>2, <2>1
      <4>2. e + GateStart <= matClock
        BY <3>1 DEF MaturityInv, TouchesCounted
      <4> HIDE DEF e
      <4>3. e + GateStart <= matClock + 1
        BY <1>2, <4>1, <4>2
      <4> QED
        BY <4>3 DEF e
    <3> QED
      BY <3>1
  <2>3. \A a \in Accounts, d \in Days : /\ TouchingNow(a, d) => TouchingNow(a, d)'
                                        /\ TouchMarked(a, d) => TouchMarked(a, d)'
    BY <1>1 DEF TouchingNow, TouchMarked, Head1
  <2> QED
    BY <1>1, <2>1, <2>2, <2>3 DEF MaturityInv, TouchesCounted
<1>10. FireIsFirst'
  BY <1>1 DEF MaturityInv, FireIsFirst, Head1, maturityInFireGate, MinuteOf
<1> QED
  BY <1>6, <1>7, <1>8, <1>9, <1>10 DEF MaturityInv

-----------------------------------------------------------------------------

\* The pool starts with no touch, no mark and no walk.
LEMMA MaturityInvInit == MaturityInit => MaturityInv
<1> SUFFICES ASSUME MaturityInit PROVE MaturityInv
  OBVIOUS
<1>1. FreshState \in MatStates /\ FreshState.lastTouch = 0 /\ NoReading \in MatReadings /\ NoMatRow \in MatRows
  BY DEF FreshState, MatStates, MatReadings, MatRows, Undrawn, NoDay
<1>2. MaturityShape
  BY <1>1, MaturityConstants DEF MaturityInit, MaturityShape
<1>3. WalksTimely /\ FireIsFirst
  BY DEF MaturityInit, WalksTimely, FireIsFirst, Resting, Touchers
<1>4. MarksKept
  BY <1>1 DEF MaturityInit, MarksKept
<1>5. TouchesCounted
  BY DEF MaturityInit, TouchesCounted
<1> QED
  BY <1>2, <1>3, <1>4, <1>5 DEF MaturityInv

\* Every step of the three walkers, the clients and the process keeps the invariant.
LEMMA MaturityInvStep == MaturityInv /\ [MaturityNext]_matVars => MaturityInv'
<1> SUFFICES ASSUME MaturityInv, [MaturityNext]_matVars PROVE MaturityInv'
  OBVIOUS
<1>1. streak \in [Accounts -> MatReadings]
  BY DEF MaturityInv, MaturityShape
<1>2. CASE maturityTickAt
  BY <1>2, BeginsStep
<1>3. CASE maturityTickOne
  BY <1>3, TickOneStep
<1>4. CASE maturityRefreshStreak
  BY <1>4, RefreshStep
<1>5. ASSUME NEW a \in Accounts, MaturityTouchNow(a) PROVE MaturityInv'
  BY <1>5, BeginsStep
<1>6. ASSUME NEW all \in BOOLEAN, ForceMaturityTouch(all) PROVE MaturityInv'
  BY <1>6, BeginsStep
<1>7. ASSUME NEW w \in Touchers, ManualOne(w) PROVE MaturityInv'
  BY <1>7, ManualStep
<1>8. ASSUME NEW w \in Touchers, maturityFire(w) PROVE MaturityInv'
  BY <1>8, FireTouchStep
<1>9. ASSUME NEW w \in Touchers, maturityTouchRun(w) PROVE MaturityInv'
  BY <1>9, TouchRunStep
<1>10. ASSUME NEW w \in Touchers, TouchReturns(w) PROVE MaturityInv'
  BY <1>10, TouchReturnsStep
<1>11. ASSUME NEW a \in Accounts, NEW mode \in {"unmetered", "premium-short"},
              NEW drawn \in SlotsOf(pacificDayKey(matClock)), SetMaturity(a, mode, drawn)
       PROVE  MaturityInv'
  BY <1>11, SetMaturityStep
<1>12. ASSUME NEW a \in Accounts, asyncStreakFetch(a) PROVE MaturityInv'
  <2>1. streak' \in [Accounts -> MatReadings]
    BY <1>1, <1>12, ReadingsTyped DEF asyncStreakFetch
  <2> QED
    BY <1>12, <2>1, MaturityUnchanged DEF asyncStreakFetch
<1>13. ASSUME NEW a \in Accounts, ClientTurn(a) PROVE MaturityInv'
  BY <1>1, <1>13, MaturityUnchanged DEF ClientTurn
<1>14. ASSUME NEW a \in Accounts, NEW g \in {"open", "locked", "flagged"}, GateShifts(a, g) PROVE MaturityInv'
  BY <1>1, <1>14, MaturityUnchanged DEF GateShifts
<1>15. ASSUME NEW a \in Accounts, MeterMoves(a) PROVE MaturityInv'
  BY <1>1, <1>15, MaturityUnchanged DEF MeterMoves
<1>16. ASSUME NEW a \in Accounts, ReadingAges(a) PROVE MaturityInv'
  <2>1. Staled(streak[a]) \in MatReadings
    BY <1>1 DEF MatReadings, Staled, NoReading
  <2>2. streak' \in [Accounts -> MatReadings]
    BY <1>1, <1>16, <2>1 DEF ReadingAges
  <2> QED
    BY <1>16, <2>2, MaturityUnchanged DEF ReadingAges
<1>17. CASE RestoreMaturity
  BY <1>17, RestoreStep
<1>18. CASE MatTick
  BY <1>18, MatTickStep
<1>19. CASE UNCHANGED matVars
  BY <1>1, <1>19, MaturityUnchanged DEF matVars
<1> QED
  BY <1>2, <1>3, <1>4, <1>5, <1>6, <1>7, <1>8, <1>9, <1>10, <1>11, <1>12, <1>13, <1>14, <1>15, <1>16, <1>17,
     <1>18, <1>19 DEF MaturityNext

(* The nightly walk touches no account twice on a Pacific day, but for a    *)
(* touch a restart has cut off, whatever the walks an administrator asks    *)
(* for, the clients' turns and the restarts do in between: for every        *)
(* roster, length of the day, windows and throttle, as long as no walk is   *)
(* as far behind as from one day to the firing gate of the next.            *)
THEOREM MaturityOneNightlyTouch == MaturitySpec => []OneNightlyTouch
<1>1. MaturityInv => OneNightlyTouch
  BY DEF MaturityInv, TouchesCounted, OneNightlyTouch
<1> QED
  BY <1>1, MaturityInvInit, MaturityInvStep, PTL DEF MaturitySpec

=============================================================================
