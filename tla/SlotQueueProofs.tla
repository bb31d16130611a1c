-------------------------- MODULE SlotQueueProofs --------------------------
(***************************************************************************)
(* Proofs about SlotQueue, for any number of requests, lanes, bridges and  *)
(* slots: no path of an admission leaks a slot or a seat or gives one back *)
(* twice, every parked request is queued once, and a bridge lane does not  *)
(* idle while it has waiters.                                              *)
(*                                                                         *)
(* SlotsExact is not inductive: that a release finds the slot still held,  *)
(* and that the seat an admission gives back is the one it took, follows   *)
(* from where a request is.  Shape says it for every request.              *)
(*                                                                         *)
(* And about Ordering, which says in what order a request walks the lanes: *)
(* the walk leaves out no account that could have served, and the price it *)
(* is quoted is the one announced.                                         *)
(***************************************************************************)
EXTENDS SlotQueue, Ordering, PositionProofs

\* The points of a pooled admission.
Walking == PCs \ {"idle", "turn", "ending", "bparked", "badmit"}

\* What the request of record s holds, by where it is.
Shape(s) ==
  /\ s.pc \in {"scan", "rescan"} => s.at > 0
  /\ s.pc \in Walking => s.pos > 0
  /\ s.pc \in {"idle", "scan", "walk", "join"} => s.lane = None /\ s.tok = None
  /\ s.pc = "parked" => s.lane \in Lanes \cup {None} /\ s.tok = None
  /\ s.pc \in {"admit", "retry"} => s.lane \in Lanes /\ s.tok = None
  /\ s.pc \in {"ensure", "start", "jail"} => s.lane \in Lanes /\ s.tok = s.lane
  /\ s.pc \in {"rescan", "rejoin"} => s.lane = None /\ s.tok \in Lanes
  /\ s.pc = "reparked" => s.lane \in Lanes \cup {None} /\ s.tok \in Lanes
  /\ s.pc = "turn" => s.lane \in AllLanes /\ s.tok = s.lane
  /\ s.pc = "ending" => s.lane \in AllLanes /\ s.tok = None
  /\ s.pc = "bparked" => s.tok \in Bridges /\ s.lane \in {None, s.tok}
  /\ s.pc = "badmit" => s.tok \in Bridges /\ s.lane = s.tok

Shapes == \A r \in Requests : Shape(th[r])


-----------------------------------------------------------------------------
(* Queues.                                                                 *)

Queued(q, r) == \E i \in DOMAIN q : q[i] = r

Distinct(q) == \A i, j \in DOMAIN q : q[i] = q[j] => i = j

\* Without takes r out of the queue and leaves the others in it.
LEMMA WithoutRemoves ==
  ASSUME NEW q \in Seq(Requests), NEW r, Distinct(q)
  PROVE  /\ Without(q, r) \in Seq(Requests) /\ Distinct(Without(q, r))
         /\ \A s : Queued(Without(q, r), s) <=> Queued(q, s) /\ s # r
         /\ Without(q, r) # <<>> => q # <<>>
<1>1. CASE ~Queued(q, r)
  <2>1. Without(q, r) = q
    BY <1>1 DEF Without, Queued
  <2> QED
    BY <1>1, <2>1 DEF Queued
<1>2. CASE Queued(q, r)
  <2> DEFINE i == CHOOSE i \in DOMAIN q : q[i] = r
             w == [j \in 1..(Len(q) - 1) |-> IF j < i THEN q[j] ELSE q[j + 1]]
  <2>1. i \in 1..Len(q) /\ q[i] = r
    BY <1>2 DEF Queued
  <2>2. Without(q, r) = w
    BY <1>2 DEF Without, Queued
  <2> HIDE DEF i
  <2>3. w \in Seq(Requests) /\ DOMAIN w = 1..(Len(q) - 1)
    BY <2>1
  <2>4. Distinct(w)
    BY <2>1 DEF Distinct
  <2>5. ASSUME NEW s, Queued(w, s) PROVE Queued(q, s) /\ s # r
    <3>1. PICK j \in 1..(Len(q) - 1) : w[j] = s
      BY <2>3, <2>5 DEF Queued
    <3>2. \E k \in 1..Len(q) : k # i /\ q[k] = s
      BY <2>1, <3>1
    <3> QED
      BY <2>1, <3>2 DEF Queued, Distinct
  <2>6. ASSUME NEW s, Queued(q, s), s # r PROVE Queued(w, s)
    <3>1. PICK k \in 1..Len(q) : q[k] = s
      BY <2>6 DEF Queued
    <3>2. k # i
      BY <2>1, <2>6, <3>1
    <3>3. CASE k < i
      <4>1. k \in DOMAIN w /\ w[k] = s
        BY <2>1, <3>1, <3>3
      <4> QED
        BY <4>1 DEF Queued
    <3>4. CASE k > i
      <4>1. k - 1 \in DOMAIN w /\ w[k - 1] = s
        BY <2>1, <3>1, <3>4
      <4> QED
        BY <4>1 DEF Queued
    <3> QED
      BY <2>1, <3>1, <3>2, <3>3, <3>4
  <2>7. q # <<>>
    BY <2>1
  <2> HIDE DEF w
  <2> QED
    BY <2>2, <2>3, <2>4, <2>5, <2>6, <2>7
<1> QED
  BY <1>1, <1>2

\* The first live waiter, and those behind it: nobody live is dropped.
LEMMA FromLiveKeeps ==
  ASSUME NEW q \in Seq(Requests), Distinct(q)
  PROVE  /\ FromLive(q) \in Seq(Requests) /\ Distinct(FromLive(q))
         /\ \A s : Queued(FromLive(q), s) => Queued(q, s)
         /\ \A s : Queued(q, s) /\ ~th[s].dead => Queued(FromLive(q), s)
<1>1. CASE \A i \in DOMAIN q : th[q[i]].dead
  <2>1. FromLive(q) = <<>>
    BY <1>1 DEF FromLive
  <2> QED
    BY <1>1, <2>1 DEF Queued, Distinct
<1>2. CASE \E i \in DOMAIN q : ~th[q[i]].dead
  <2> DEFINE P(i) == ~th[q[i]].dead /\ \A j \in 1..(i - 1) : th[q[j]].dead
             i == CHOOSE i \in DOMAIN q : P(i)
             w == SubSeq(q, i, Len(q))
             T == {k \in DOMAIN q : ~th[q[k]].dead}
  <2>1. \E k \in DOMAIN q : P(k)
    <3>1. PICK m \in T : \A k \in T : m <= k
      <4>1. T \in SUBSET Nat /\ T # {}
        BY <1>2
      <4> QED
        BY <4>1, LeastOf
    <3>2. \A j \in 1..(m - 1) : j \in DOMAIN q /\ j \notin T
      BY <3>1
    <3> QED
      BY <3>1, <3>2
  <2>2. i \in 1..Len(q) /\ P(i)
    BY <2>1
  <2>3. FromLive(q) = w
    BY <1>2 DEF FromLive
  <2> HIDE DEF i
  <2>4. /\ w \in Seq(Requests) /\ Len(w) = Len(q) - i + 1
        /\ \A k \in 1..(Len(q) - i + 1) : w[k] = q[i + k - 1]
    BY <2>2
  <2>5. Distinct(w)
    BY <2>2, <2>4 DEF Distinct
  <2>6. ASSUME NEW s, Queued(w, s) PROVE Queued(q, s)
    BY <2>2, <2>4, <2>6 DEF Queued
  <2>7. ASSUME NEW s, Queued(q, s), ~th[s].dead PROVE Queued(w, s)
    <3>1. PICK k \in 1..Len(q) : q[k] = s
      BY <2>7 DEF Queued
    <3>2. k >= i
      BY <2>2, <2>7, <3>1
    <3>3. k - i + 1 \in DOMAIN w /\ w[k - i + 1] = s
      BY <2>2, <2>4, <3>1, <3>2
    <3> QED
      BY <3>3 DEF Queued
  <2> HIDE DEF w
  <2> QED
    BY <2>3, <2>4, <2>5, <2>6, <2>7
<1> QED
  BY <1>1, <1>2

\* A waiter behind the head of a queue.
LEMMA TailKeeps ==
  ASSUME NEW q \in Seq(Requests), Distinct(q), q # <<>>
  PROVE  /\ Head(q) \in Requests /\ Tail(q) \in Seq(Requests) /\ Distinct(Tail(q))
         /\ \A s : Queued(Tail(q), s) <=> Queued(q, s) /\ s # Head(q)
         /\ Queued(q, Head(q))
<1>1. /\ Head(q) = q[1] /\ q[1] \in Requests /\ Len(q) \in Nat \ {0}
      /\ Tail(q) \in Seq(Requests) /\ Len(Tail(q)) = Len(q) - 1
      /\ \A k \in 1..(Len(q) - 1) : Tail(q)[k] = q[k + 1]
  OBVIOUS
<1>2. Distinct(Tail(q))
  BY <1>1 DEF Distinct
<1>3. ASSUME NEW s, Queued(Tail(q), s) PROVE Queued(q, s) /\ s # Head(q)
  <2>1. PICK k \in 1..(Len(q) - 1) : q[k + 1] = s
    BY <1>1, <1>3 DEF Queued
  <2> QED
    BY <1>1, <2>1 DEF Queued, Distinct
<1>4. ASSUME NEW s, Queued(q, s), s # Head(q) PROVE Queued(Tail(q), s)
  <2>1. PICK k \in 1..Len(q) : q[k] = s
    BY <1>4 DEF Queued
  <2>2. k # 1
    BY <1>1, <1>4, <2>1
  <2>3. k - 1 \in DOMAIN Tail(q) /\ Tail(q)[k - 1] = s
    BY <1>1, <2>1, <2>2
  <2> QED
    BY <2>3 DEF Queued
<1>5. Queued(q, Head(q))
  BY <1>1 DEF Queued
<1> QED
  BY <1>1, <1>2, <1>3, <1>4, <1>5

\* A request that joins a queue at its end, or at its head.
LEMMA JoinedQueue ==
  ASSUME NEW q \in Seq(Requests), Distinct(q), NEW r \in Requests, ~Queued(q, r)
  PROVE  /\ Append(q, r) \in Seq(Requests) /\ Distinct(Append(q, r))
         /\ \A s : Queued(Append(q, r), s) <=> Queued(q, s) \/ s = r
         /\ (<<r>> \o q) \in Seq(Requests) /\ Distinct(<<r>> \o q)
         /\ \A s : Queued(<<r>> \o q, s) <=> Queued(q, s) \/ s = r
<1> DEFINE a == Append(q, r)
           c == <<r>> \o q
<1>1. /\ a \in Seq(Requests) /\ Len(a) = Len(q) + 1
      /\ \A k \in 1..Len(q) : a[k] = q[k]
      /\ a[Len(q) + 1] = r
  OBVIOUS
<1>2. /\ c \in Seq(Requests) /\ Len(c) = Len(q) + 1
      /\ \A k \in 1..Len(q) : c[k + 1] = q[k]
      /\ c[1] = r
  OBVIOUS
<1> HIDE DEF a, c
<1>3. Distinct(a)
  BY <1>1 DEF Distinct, Queued
<1>4. Distinct(c)
  <2> SUFFICES ASSUME NEW i \in 1..(Len(q) + 1), NEW j \in 1..(Len(q) + 1), c[i] = c[j]
               PROVE  i = j
    BY <1>2 DEF Distinct
  <2>1. ASSUME NEW k \in 1..(Len(q) + 1), k # 1
        PROVE  k - 1 \in DOMAIN q /\ c[k] = q[k - 1] /\ c[k] # r
    BY <1>2, <2>1 DEF Queued
  <2>2. i # 1 /\ j # 1 => i - 1 = j - 1
    BY <2>1 DEF Distinct
  <2> QED
    BY <1>2, <2>1, <2>2
<1>5. ASSUME NEW s PROVE Queued(a, s) <=> Queued(q, s) \/ s = r
  <2>1. DOMAIN a = 1..(Len(q) + 1) /\ DOMAIN q = 1..Len(q) /\ Len(q) \in Nat
    BY <1>1
  <2> QED
    BY <1>1, <2>1 DEF Queued
<1>6. ASSUME NEW s PROVE Queued(c, s) <=> Queued(q, s) \/ s = r
  <2>1. DOMAIN c = 1..(Len(q) + 1) /\ DOMAIN q = 1..Len(q) /\ Len(q) \in Nat
    BY <1>2
  <2>2. ASSUME Queued(c, s), s # r PROVE Queued(q, s)
    <3>1. PICK k \in 1..(Len(q) + 1) : c[k] = s
      BY <2>1, <2>2 DEF Queued
    <3>2. k - 1 \in DOMAIN q /\ q[k - 1] = s
      BY <1>2, <2>1, <2>2, <3>1
    <3> QED
      BY <3>2 DEF Queued
  <2>3. ASSUME Queued(q, s) PROVE Queued(c, s)
    <3>1. PICK k \in 1..Len(q) : q[k] = s
      BY <2>1, <2>3 DEF Queued
    <3>2. k + 1 \in DOMAIN c /\ c[k + 1] = s
      BY <1>2, <2>1, <3>1
    <3> QED
      BY <3>2 DEF Queued
  <2>4. Queued(c, r)
    BY <1>2, <2>1 DEF Queued
  <2> QED
    BY <2>2, <2>3, <2>4
<1> QED
  BY <1>1, <1>2, <1>3, <1>4, <1>5, <1>6 DEF a, c

-----------------------------------------------------------------------------
(* Counting.                                                               *)

\* n counts, for every lane, the requests that f maps to it.
Tally(n, f) ==
  \A l \in AllLanes : n[l] = Cardinality({r \in Requests : f[r] = l})

\* The counts with one more, or one less, for lane a.
OneMore(n, a) == [n EXCEPT ![a] = @ + 1]
OneLess(n, a) == [n EXCEPT ![a] = IF @ > 0 THEN @ - 1 ELSE 0]

\* The set a lane's count is about is finite; it gains r, or loses it.
LEMMA CountOf ==
  ASSUME NEW f, NEW l
  PROVE  IsFiniteSet({r \in Requests : f[r] = l})
<1> DEFINE S == {r \in Requests : f[r] = l}
<1>1. S \in SUBSET Requests
  OBVIOUS
<1>2. IsFiniteSet(Requests)
  BY ConstantsAssumption
<1> HIDE DEF S
<1>3. IsFiniteSet(S)
  BY <1>1, <1>2, FS_Subset
<1> QED
  BY <1>3 DEF S

\* Nothing moves.
LEMMA TallyStays ==
  ASSUME NEW n, NEW f, NEW g, Tally(n, f), \A s \in Requests : g[s] = f[s]
  PROVE  Tally(n, g)
<1> SUFFICES ASSUME NEW l \in AllLanes
             PROVE  n[l] = Cardinality({s \in Requests : g[s] = l})
  BY DEF Tally
<1>1. {s \in Requests : g[s] = l} = {s \in Requests : f[s] = l}
  OBVIOUS
<1> QED
  BY <1>1 DEF Tally

\* r, which counts for no lane, comes to count for lane a.
LEMMA TallyTakes ==
  ASSUME NEW n \in [AllLanes -> Nat], NEW f, NEW g, Tally(n, f),
         NEW r \in Requests, NEW a \in AllLanes,
         f[r] = None, g[r] = a, \A s \in Requests : s # r => g[s] = f[s]
  PROVE  Tally(OneMore(n, a), g)
<1> DEFINE m == OneMore(n, a)
<1> SUFFICES ASSUME NEW l \in AllLanes
             PROVE  m[l] = Cardinality({s \in Requests : g[s] = l})
  BY DEF Tally
<1> DEFINE F == {s \in Requests : f[s] = l}
           G == {s \in Requests : g[s] = l}
<1>1. None \notin AllLanes
  BY ConstantsAssumption
<1>2. IsFiniteSet(F) /\ n[l] = Cardinality(F)
  <2>1. IsFiniteSet(F)
    BY CountOf
  <2>2. n[l] = Cardinality(F)
    BY DEF Tally
  <2> QED
    BY <2>1, <2>2
<1>3. CASE l # a
  <2>1. F = G /\ m[l] = n[l]
    BY <1>1, <1>3 DEF OneMore
  <2> HIDE DEF F, G, m
  <2> QED
    BY <1>2, <2>1 DEF G
<1>4. CASE l = a
  <2>1. G = F \cup {r} /\ r \notin F /\ m[l] = n[l] + 1
    BY <1>1, <1>4 DEF OneMore
  <2> HIDE DEF F, G, m
  <2>2. Cardinality(G) = Cardinality(F) + 1
    BY <1>2, <2>1, FS_AddElement
  <2> QED
    BY <1>2, <2>1, <2>2 DEF G
<1> QED
  BY <1>3, <1>4

\* r, which counts for lane a, comes to count for none.
LEMMA TallyDrops ==
  ASSUME NEW n \in [AllLanes -> Nat], NEW f, NEW g, Tally(n, f),
         NEW r \in Requests, NEW a \in AllLanes,
         f[r] = a, g[r] = None, \A s \in Requests : s # r => g[s] = f[s]
  PROVE  Tally(OneLess(n, a), g) /\ n[a] > 0
<1> DEFINE m == OneLess(n, a)
<1>1. None \notin AllLanes
  BY ConstantsAssumption
<1>2. ASSUME NEW l \in AllLanes
      PROVE  m[l] = Cardinality({s \in Requests : g[s] = l}) /\ (l = a => n[l] > 0)
  <2> DEFINE F == {s \in Requests : f[s] = l}
             G == {s \in Requests : g[s] = l}
  <2>2. IsFiniteSet(F) /\ n[l] = Cardinality(F)
    <3>1. IsFiniteSet(F)
      BY CountOf
    <3>2. n[l] = Cardinality(F)
      BY DEF Tally
    <3> QED
      BY <3>1, <3>2
  <2>3. CASE l # a
    <3>1. F = G /\ m[l] = n[l]
      BY <1>1, <2>3 DEF OneLess
    <3> HIDE DEF F, G, m
    <3> QED
      BY <2>2, <2>3, <3>1 DEF G
  <2>4. CASE l = a
    <3>1. G = F \ {r} /\ r \in F
      BY <1>1, <2>4
    <3>2. m[l] = IF n[l] > 0 THEN n[l] - 1 ELSE 0
      BY <2>4 DEF OneLess
    <3>3. F # {}
      BY <3>1
    <3> HIDE DEF F, G, m
    <3>4. Cardinality(G) = Cardinality(F) - 1
      BY <2>2, <3>1, FS_RemoveElement
    <3>5. Cardinality(F) # 0 /\ n[l] \in Nat
      BY <2>2, <3>3, FS_EmptySet
    <3>6. n[l] > 0
      BY <2>2, <3>5
    <3> QED
      BY <2>2, <3>2, <3>4, <3>6 DEF G
  <2> QED
    BY <2>3, <2>4
<1> QED
  BY <1>2 DEF Tally

\* r hands lane a on to h, which counts for none.
LEMMA TallyHands ==
  ASSUME NEW n \in [AllLanes -> Nat], NEW f, NEW g, Tally(n, f),
         NEW r \in Requests, NEW h \in Requests, NEW a \in AllLanes,
         f[r] = a, g[r] = None, f[h] = None, g[h] = a,
         \A s \in Requests : s # r /\ s # h => g[s] = f[s]
  PROVE  Tally(n, g)
<1> DEFINE e == [s \in Requests |-> IF s = r THEN None ELSE f[s]]
           m == OneLess(n, a)
<1>1. None \notin AllLanes
  BY ConstantsAssumption
<1>2. m \in [AllLanes -> Nat]
  BY DEF OneLess
<1>3. e[r] = None /\ \A s \in Requests : s # r => e[s] = f[s]
  OBVIOUS
<1>4. e[h] = None /\ \A s \in Requests : s # h => g[s] = e[s]
  BY <1>1
<1> HIDE DEF e
<1>5. Tally(m, e) /\ n[a] > 0
  BY <1>3, TallyDrops
<1>6. n = OneMore(m, a)
  <2>1. n[a] \in Nat /\ m[a] = n[a] - 1
    BY <1>5 DEF OneLess
  <2>2. \A l \in AllLanes : l # a => m[l] = n[l]
    BY DEF OneLess
  <2> HIDE DEF m
  <2>3. OneMore(m, a) \in [AllLanes -> Int]
    BY <1>2 DEF OneMore
  <2>4. \A l \in AllLanes : OneMore(m, a)[l] = n[l]
    BY <1>2, <2>1, <2>2 DEF OneMore
  <2> QED
    BY <2>3, <2>4
<1> HIDE DEF m
<1>7. Tally(OneMore(m, a), g)
  BY <1>2, <1>4, <1>5, TallyTakes
<1> QED
  BY <1>6, <1>7

-----------------------------------------------------------------------------
(* The inductive invariant.                                                *)

HeldLanes == [r \in Requests |-> th[r].lane]
HeldSeats == [r \in Requests |-> th[r].tok]

\* A request in record s is parked and has no grant.
Parked(s) == s.pc \in {"parked", "reparked"} /\ s.lane = None
ParkedAt(s, b) == s.pc = "bparked" /\ s.tok = b /\ s.lane = None
Waits(s) == Parked(s) \/ (s.pc = "bparked" /\ s.lane = None)

\* EachWaiterOnce, queue by queue.
QueuesOK ==
  /\ Distinct(queue)
  /\ \A r \in Requests : Queued(queue, r) => Parked(th[r])
  /\ \A r \in Requests : Parked(th[r]) /\ ~th[r].dead => Queued(queue, r)
  /\ \A b \in Bridges : Distinct(laneq[b])
  /\ \A b \in Bridges, r \in Requests : ParkedAt(th[r], b) <=> Queued(laneq[b], r)

RequestsOK == th \in [Requests -> Records] /\ Shapes

LedgerOK ==
  /\ live \in [AllLanes -> Nat] /\ laneq \in [Bridges -> Seq(Requests)]
  /\ queue \in Seq(Requests)
  /\ Tally(live, HeldLanes) /\ \A l \in AllLanes : live[l] <= Cap
  /\ BridgeConserves

PoolOK ==
  /\ open \subseteq Lanes /\ warm \subseteq Lanes /\ spare \subseteq Lanes
  /\ roster \in Seq(Lanes)
  /\ edit \in [op : {"none", "last", "at"}, at : Nat]
  /\ edits \in 0..MaxEdits /\ jails \in 0..MaxJails

LedgerInv == RequestsOK /\ LedgerOK /\ QueuesOK
SeatInv   == seat \in [AllLanes -> Nat] /\ Tally(seat, HeldSeats)

SlotInv == LedgerInv /\ SeatInv /\ PoolOK

\* r goes on as rec, and nobody else's seat is touched.
Moves(r, rec) ==
  th'[r] = rec /\ \A s \in Requests : s # r => th'[s].tok = th[s].tok

-----------------------------------------------------------------------------
(* What a step does to the ledger.                                         *)

LEMMA RequestsKept ==
  ASSUME RequestsOK, NEW r \in Requests, NEW rec \in Records, Shape(rec), Goto(r, rec)
  PROVE  /\ RequestsOK' /\ th'[r] = rec
         /\ \A s \in Requests : s # r => th'[s] = th[s]
<1>1. /\ th' \in [Requests -> Records] /\ th'[r] = rec
      /\ \A s \in Requests : s # r => th'[s] = th[s]
  BY DEF RequestsOK, Goto
<1>2. Shapes'
  BY <1>1 DEF RequestsOK, Shapes
<1> QED
  BY <1>1, <1>2 DEF RequestsOK

\* The queues stand, and r is in none of them before or after.
LEMMA QueuesStand ==
  ASSUME QueuesOK, UNCHANGED <<laneq, queue>>, NEW r \in Requests,
         ~Waits(th[r]), ~Waits(th'[r]), \A s \in Requests : s # r => th'[s] = th[s]
  PROVE  QueuesOK'
<1>1. \A s \in Requests : Parked(th'[s]) <=> Parked(th[s])
  BY DEF Waits, Parked
<1>2. \A s \in Requests : Parked(th[s]) => th'[s] = th[s]
  BY DEF Waits, Parked
<1>3. \A b \in Bridges, s \in Requests : ParkedAt(th'[s], b) <=> ParkedAt(th[s], b)
  BY DEF Waits, ParkedAt
<1>4. (Parked(th[r]))' <=> Parked(th'[r])
  OBVIOUS
<1> QED
  BY <1>1, <1>2, <1>3 DEF QueuesOK

\* r moves on with the slot it has, or with none.
LEMMA QuietStep ==
  ASSUME LedgerInv, NEW r \in Requests, NEW rec \in Records, Shape(rec), Goto(r, rec),
         UNCHANGED ledger, rec.lane = th[r].lane, ~Waits(th[r]), ~Waits(rec)
  PROVE  LedgerInv' /\ Moves(r, rec)
<1>1. RequestsOK /\ LedgerOK /\ QueuesOK
  BY DEF LedgerInv
<1>2. /\ RequestsOK' /\ th'[r] = rec
      /\ \A s \in Requests : s # r => th'[s] = th[s]
  BY <1>1, RequestsKept
<1>3. UNCHANGED <<live, laneq, queue>>
  BY DEF ledger
<1>4. \A s \in Requests : HeldLanes'[s] = HeldLanes[s]
  BY <1>2 DEF HeldLanes
<1>5. Tally(live, HeldLanes')
  BY <1>1, <1>4, TallyStays DEF LedgerOK
<1>6. LedgerOK'
  BY <1>1, <1>3, <1>5 DEF LedgerOK, BridgeConserves
<1>7. QueuesOK'
  BY <1>1, <1>2, <1>3, QueuesStand
<1> QED
  BY <1>2, <1>6, <1>7 DEF LedgerInv, Moves

\* r takes a slot of lane l.
LEMMA TakeStep ==
  ASSUME LedgerInv, NEW r \in Requests, NEW rec \in Records, Shape(rec), Goto(r, rec),
         NEW l \in AllLanes, Take(l), l \in Bridges => laneq[l] = <<>>,
         th[r].lane = None, rec.lane = l, ~Waits(th[r])
  PROVE  LedgerInv' /\ Moves(r, rec)
<1>1. RequestsOK /\ LedgerOK /\ QueuesOK
  BY DEF LedgerInv
<1>2. /\ RequestsOK' /\ th'[r] = rec
      /\ \A s \in Requests : s # r => th'[s] = th[s]
  BY <1>1, RequestsKept
<1>3. live' = OneMore(live, l) /\ live[l] < Cap /\ UNCHANGED <<laneq, queue>>
  BY DEF Take, OneMore
<1>4. /\ HeldLanes[r] = None /\ HeldLanes'[r] = l
      /\ \A s \in Requests : s # r => HeldLanes'[s] = HeldLanes[s]
  BY <1>2 DEF HeldLanes
<1>5. live \in [AllLanes -> Nat] /\ Tally(live, HeldLanes)
  BY <1>1 DEF LedgerOK
<1>6. Tally(OneMore(live, l), HeldLanes')
  BY <1>4, <1>5, TallyTakes
<1>7. live' \in [AllLanes -> Nat] /\ \A k \in AllLanes : live'[k] <= Cap
  BY <1>1, <1>3, ConstantsAssumption DEF LedgerOK, OneMore
<1>8. BridgeConserves'
  BY <1>1, <1>3, <1>5 DEF LedgerOK, BridgeConserves, OneMore, AllLanes
<1>9. LedgerOK'
  BY <1>1, <1>3, <1>6, <1>7, <1>8 DEF LedgerOK
<1>10. ~Waits(th'[r])
  BY <1>2, ConstantsAssumption DEF Waits, Parked
<1>11. QueuesOK'
  BY <1>1, <1>2, <1>3, <1>10, QueuesStand
<1> QED
  BY <1>2, <1>9, <1>11 DEF LedgerInv, Moves

\* r goes on as rec, and h as got.
HandsTo(r, rec, h, got) == th' = [th EXCEPT ![r] = rec, ![h] = got]

\* r, which held a lane, hands it to h, which was waiting.
LEMMA HandStep ==
  ASSUME RequestsOK, live \in [AllLanes -> Nat], Tally(live, HeldLanes),
         NEW r \in Requests, NEW rec \in Records, Shape(rec), rec.lane = None,
         th[r].lane \in AllLanes,
         NEW h \in Requests, NEW got \in Records, Shape(got),
         th[h].lane = None, got.lane = th[r].lane, got.tok = th[h].tok,
         HandsTo(r, rec, h, got)
  PROVE  /\ RequestsOK' /\ Tally(live, HeldLanes') /\ Moves(r, rec)
         /\ r # h /\ th'[r] = rec /\ th'[h] = got
         /\ \A s \in Requests : s # r /\ s # h => th'[s] = th[s]
<1>1. r # h
  BY ConstantsAssumption
<1>2. /\ th' \in [Requests -> Records]
      /\ th'[r] = rec /\ th'[h] = got
      /\ \A s \in Requests : s # r /\ s # h => th'[s] = th[s]
  BY <1>1 DEF RequestsOK, HandsTo
<1>3. Shapes'
  BY <1>2 DEF RequestsOK, Shapes
<1>4. /\ HeldLanes[r] = th[r].lane /\ HeldLanes[h] = None
      /\ HeldLanes'[r] = None /\ HeldLanes'[h] = th[r].lane
      /\ \A s \in Requests : s # r /\ s # h => HeldLanes'[s] = HeldLanes[s]
  BY <1>2 DEF HeldLanes
<1>5. Tally(live, HeldLanes')
  BY <1>4, TallyHands
<1>6. Moves(r, rec)
  BY <1>2 DEF Moves
<1> QED
  BY <1>1, <1>2, <1>3, <1>5, <1>6 DEF RequestsOK

LEMMA IndexOfNat ==
  ASSUME roster \in Seq(Lanes), NEW l
  PROVE  IndexOf(l) \in Nat
BY DEF IndexOf

\* A waiter of either queue that is granted a lane.
LEMMA GrantedOK ==
  ASSUME PoolOK, NEW s \in Records, Shape(s), NEW l \in AllLanes,
         \/ Parked(s) /\ l \in Lanes
         \/ l \in Bridges /\ ParkedAt(s, l)
  PROVE  /\ Granted(s, l) \in Records /\ Shape(Granted(s, l))
         /\ Granted(s, l).lane = l /\ Granted(s, l).tok = s.tok
         /\ Granted(s, l).pc = s.pc /\ Granted(s, l).dead = s.dead
<1>1. IndexOf(l) \in Nat
  BY IndexOfNat DEF PoolOK
<1> DEFINE i == IF l \in Lanes THEN IndexOf(l) ELSE 0
<1>2. i \in Nat
  BY <1>1
<1>3. Granted(s, l) = [s EXCEPT !.lane = l, !.idx = i]
  BY DEF Granted
<1> HIDE DEF i
<1>4. Granted(s, l) \in Records
  BY <1>2, <1>3 DEF Records
<1>5. /\ Granted(s, l).lane = l /\ Granted(s, l).tok = s.tok
      /\ Granted(s, l).pc = s.pc /\ Granted(s, l).dead = s.dead
      /\ Granted(s, l).at = s.at /\ Granted(s, l).pos = s.pos
  BY <1>3 DEF Records
<1>6. Shape(Granted(s, l))
  BY <1>5 DEF Shape, Parked, ParkedAt
<1> QED
  BY <1>4, <1>5, <1>6

\* r gives its slot back: to a waiter, or to the ledger.
LEMMA ReleaseStep ==
  ASSUME LedgerInv, PoolOK, NEW r \in Requests, NEW rec \in Records, Shape(rec),
         th[r].lane \in AllLanes, rec.lane = None, ~Waits(rec), Release(r, rec)
  PROVE  LedgerInv' /\ Moves(r, rec)
<1>1. RequestsOK /\ LedgerOK /\ QueuesOK
  BY DEF LedgerInv
<1>2. None \notin AllLanes /\ Lanes \cap Bridges = {}
  BY ConstantsAssumption
<1>3. \A s \in Requests : th[s] \in Records /\ Shape(th[s])
  BY <1>1 DEF RequestsOK, Shapes
<1>4. /\ live \in [AllLanes -> Nat] /\ Tally(live, HeldLanes)
      /\ laneq \in [Bridges -> Seq(Requests)] /\ queue \in Seq(Requests)
  BY <1>1 DEF LedgerOK
<1>5. ~Waits(th[r])
  BY <1>2 DEF Waits, Parked
<1>6. CASE ReleaseToBridge(r, rec)
  <2> DEFINE b == th[r].lane
             h == Head(laneq[b])
             got == Granted(th[h], b)
  <2>1. /\ b \in Bridges /\ laneq[b] # <<>>
        /\ laneq' = [laneq EXCEPT ![b] = Tail(laneq[b])]
        /\ HandsTo(r, rec, h, got)
        /\ UNCHANGED <<live, queue>>
    BY <1>6 DEF ReleaseToBridge, HandsTo
  <2>2. laneq[b] \in Seq(Requests) /\ Distinct(laneq[b])
    BY <1>1, <1>4, <2>1 DEF QueuesOK
  <2>3. /\ h \in Requests /\ Tail(laneq[b]) \in Seq(Requests) /\ Distinct(Tail(laneq[b]))
        /\ \A s : Queued(Tail(laneq[b]), s) <=> Queued(laneq[b], s) /\ s # h
        /\ Queued(laneq[b], h)
    BY <2>1, <2>2, TailKeeps
  <2>4. ParkedAt(th[h], b)
    BY <1>1, <2>1, <2>3 DEF QueuesOK
  <2>5. b \in AllLanes
    OBVIOUS
  <2> HIDE DEF b, h
  <2>6. /\ got \in Records /\ Shape(got)
        /\ got.lane = b /\ got.tok = th[h].tok /\ got.pc = th[h].pc
    BY <1>3, <2>1, <2>3, <2>4, <2>5, GrantedOK
  <2> HIDE DEF got
  <2>7. th[r].lane = b /\ got.lane = th[r].lane /\ th[h].lane = None
    BY <2>4, <2>6 DEF b, ParkedAt
  <2>8. /\ RequestsOK' /\ Tally(live, HeldLanes') /\ Moves(r, rec)
        /\ r # h /\ th'[r] = rec /\ th'[h] = got
        /\ \A s \in Requests : s # r /\ s # h => th'[s] = th[s]
    BY <1>1, <1>4, <2>1, <2>3, <2>6, <2>7, HandStep
  <2>9. laneq' \in [Bridges -> Seq(Requests)] /\ laneq'[b] = Tail(laneq[b])
        /\ \A c \in Bridges : c # b => laneq'[c] = laneq[c]
    BY <1>4, <2>1, <2>3
  <2>10. BridgeConserves'
    BY <1>1, <2>1, <2>9 DEF LedgerOK, BridgeConserves
  <2>11. LedgerOK'
    BY <1>1, <2>1, <2>8, <2>9, <2>10 DEF LedgerOK
  <2>12. \A s \in Requests : Parked(th'[s]) <=> Parked(th[s])
    BY <1>5, <2>4, <2>6, <2>8 DEF Waits, Parked, ParkedAt
  <2>13. \A s \in Requests : Parked(th[s]) => th'[s] = th[s]
    BY <1>5, <2>4, <2>8 DEF Waits, Parked, ParkedAt
  <2>14. \A c \in Bridges, s \in Requests :
           ParkedAt(th'[s], c) <=> ParkedAt(th[s], c) /\ ~(c = b /\ s = h)
    <3>1. ASSUME NEW c \in Bridges
          PROVE  ~ParkedAt(th[r], c) /\ ~ParkedAt(th'[r], c) /\ ~ParkedAt(th'[h], c)
      BY <1>2, <1>5, <2>5, <2>6, <2>8 DEF Waits, ParkedAt
    <3>2. \A c \in Bridges : ParkedAt(th[h], c) <=> c = b
      BY <2>1, <2>4 DEF ParkedAt
    <3> QED
      BY <2>8, <3>1, <3>2
  <2>15. \A c \in Bridges : Distinct(laneq'[c])
    BY <1>1, <2>3, <2>9 DEF QueuesOK
  <2>16. \A c \in Bridges, s \in Requests :
           Queued(laneq'[c], s) <=> Queued(laneq[c], s) /\ ~(c = b /\ s = h)
    BY <2>3, <2>9
  <2>17. QueuesOK'
    <3>1. \A s \in Requests : Queued(queue', s) => Parked(th'[s])
      BY <1>1, <2>1, <2>12 DEF QueuesOK
    <3>2. \A s \in Requests : Parked(th'[s]) /\ ~th'[s].dead => Queued(queue', s)
      BY <1>1, <2>1, <2>12, <2>13 DEF QueuesOK
    <3>3. \A c \in Bridges, s \in Requests : ParkedAt(th'[s], c) <=> Queued(laneq'[c], s)
      BY <1>1, <2>14, <2>16 DEF QueuesOK
    <3> QED
      BY <1>1, <2>1, <2>15, <3>1, <3>2, <3>3 DEF QueuesOK
  <2> QED
    BY <2>8, <2>11, <2>17 DEF LedgerInv
<1>7. CASE ReleaseToQueue(r, rec)
  <2> DEFINE l == th[r].lane
             q == FromLive(queue)
             h == Head(q)
             got == Granted(th[h], l)
  <2>1. /\ l \in Lanes /\ q # <<>>
        /\ queue' = Tail(q)
        /\ HandsTo(r, rec, h, got)
        /\ UNCHANGED <<live, laneq>>
    BY <1>7 DEF ReleaseToQueue, HandsTo
  <2>2. Distinct(queue)
    BY <1>1 DEF QueuesOK
  <2>3. /\ q \in Seq(Requests) /\ Distinct(q)
        /\ \A s : Queued(q, s) => Queued(queue, s)
        /\ \A s : Queued(queue, s) /\ ~th[s].dead => Queued(q, s)
    BY <1>4, <2>2, FromLiveKeeps
  <2> HIDE DEF q
  <2>4. /\ h \in Requests /\ Tail(q) \in Seq(Requests) /\ Distinct(Tail(q))
        /\ \A s : Queued(Tail(q), s) <=> Queued(q, s) /\ s # h
        /\ Queued(q, h)
    BY <2>1, <2>3, TailKeeps
  <2>5. Parked(th[h]) /\ l \in AllLanes
    BY <1>1, <2>3, <2>4 DEF QueuesOK
  <2> HIDE DEF l, h
  <2>6. /\ got \in Records /\ Shape(got)
        /\ got.lane = l /\ got.tok = th[h].tok /\ got.pc = th[h].pc
    BY <1>3, <2>1, <2>4, <2>5, GrantedOK
  <2> HIDE DEF got
  <2>7. th[r].lane = l /\ got.lane = th[r].lane /\ th[h].lane = None
    BY <2>5, <2>6 DEF l, Parked
  <2>8. /\ RequestsOK' /\ Tally(live, HeldLanes') /\ Moves(r, rec)
        /\ r # h /\ th'[r] = rec /\ th'[h] = got
        /\ \A s \in Requests : s # r /\ s # h => th'[s] = th[s]
    BY <1>1, <1>4, <2>1, <2>4, <2>6, <2>7, HandStep
  <2>9. LedgerOK'
    BY <1>1, <2>1, <2>4, <2>8 DEF LedgerOK, BridgeConserves
  <2>10. ASSUME NEW s \in Requests
         PROVE  /\ Parked(th'[s]) <=> Parked(th[s]) /\ s # h
                /\ Parked(th'[s]) => th'[s] = th[s]
                /\ \A b \in Bridges : ParkedAt(th'[s], b) <=> ParkedAt(th[s], b)
    <3>1. ~Parked(th'[h]) /\ \A b \in Bridges : ~ParkedAt(th'[h], b) /\ ~ParkedAt(th[h], b)
      BY <1>2, <2>5, <2>6, <2>8 DEF Parked, ParkedAt
    <3>2. /\ ~Parked(th[r]) /\ ~Parked(th'[r])
          /\ \A b \in Bridges : ~ParkedAt(th[r], b) /\ ~ParkedAt(th'[r], b)
      BY <1>5, <2>8 DEF Waits, ParkedAt
    <3> QED
      BY <2>8, <3>1, <3>2
  <2>11. QueuesOK'
    <3>1. \A s \in Requests : Queued(queue', s) => Parked(th'[s])
      BY <1>1, <2>1, <2>3, <2>4, <2>10 DEF QueuesOK
    <3>2. \A s \in Requests : Parked(th'[s]) /\ ~th'[s].dead => Queued(queue', s)
      BY <1>1, <2>1, <2>3, <2>4, <2>10 DEF QueuesOK
    <3> QED
      BY <1>1, <2>1, <2>4, <2>10, <3>1, <3>2 DEF QueuesOK
  <2> QED
    BY <2>8, <2>9, <2>11 DEF LedgerInv
<1>8. CASE ReleaseToLedger(r, rec)
  <2> DEFINE l == th[r].lane
             q == FromLive(queue)
  <2>1. /\ \/ l \in Bridges /\ laneq[l] = <<>> /\ UNCHANGED queue
           \/ l \in Lanes /\ queue' = q
        /\ live' = OneLess(live, l)
        /\ Goto(r, rec) /\ UNCHANGED laneq
    BY <1>8 DEF ReleaseToLedger, OneLess
  <2>2. Distinct(queue)
    BY <1>1 DEF QueuesOK
  <2>3. /\ q \in Seq(Requests) /\ Distinct(q)
        /\ \A s : Queued(q, s) => Queued(queue, s)
        /\ \A s : Queued(queue, s) /\ ~th[s].dead => Queued(q, s)
    BY <1>4, <2>2, FromLiveKeeps
  <2> HIDE DEF q
  <2>4. /\ RequestsOK' /\ th'[r] = rec
        /\ \A s \in Requests : s # r => th'[s] = th[s]
    BY <1>1, <2>1, RequestsKept
  <2>5. /\ HeldLanes[r] = l /\ HeldLanes'[r] = None
        /\ \A s \in Requests : s # r => HeldLanes'[s] = HeldLanes[s]
    BY <2>4 DEF HeldLanes
  <2>6. l \in AllLanes
    OBVIOUS
  <2> HIDE DEF l
  <2>7. Tally(OneLess(live, l), HeldLanes')
    BY <1>4, <2>5, <2>6, TallyDrops
  <2>8. /\ live' \in [AllLanes -> Nat]
        /\ \A k \in AllLanes : live'[k] <= live[k] /\ (k # l => live'[k] = live[k])
    BY <1>4, <2>1, <2>6 DEF OneLess
  <2>9. \A k \in AllLanes : live'[k] <= Cap
    BY <1>1, <1>4, <2>8, ConstantsAssumption DEF LedgerOK
  <2>10. BridgeConserves'
    BY <1>1, <1>2, <2>1, <2>8 DEF LedgerOK, BridgeConserves, AllLanes
  <2>11. queue' \in Seq(Requests) /\ UNCHANGED laneq
    BY <1>4, <2>1, <2>3
  <2>12. LedgerOK'
    BY <1>1, <2>1, <2>7, <2>8, <2>9, <2>10, <2>11 DEF LedgerOK
  <2>13. ~Waits(th'[r])
    BY <2>4
  <2>14. QueuesOK'
    <3>1. /\ Distinct(queue') /\ \A s : Queued(queue', s) => Queued(queue, s)
          /\ \A s : Queued(queue, s) /\ ~th[s].dead => Queued(queue', s)
      BY <2>1, <2>2, <2>3
    <3>2. \A s \in Requests : Parked(th'[s]) \/ Parked(th[s]) => th'[s] = th[s]
      BY <1>5, <2>4, <2>13 DEF Waits, Parked
    <3>3. \A b \in Bridges, s \in Requests : ParkedAt(th'[s], b) <=> ParkedAt(th[s], b)
      BY <1>5, <2>4, <2>13 DEF Waits, ParkedAt
    <3>4. \A s \in Requests : Queued(queue', s) => Parked(th'[s])
      BY <1>1, <3>1, <3>2 DEF QueuesOK
    <3>5. \A s \in Requests : Parked(th'[s]) /\ ~th'[s].dead => Queued(queue', s)
      BY <1>1, <3>1, <3>2 DEF QueuesOK
    <3> QED
      BY <1>1, <2>11, <3>1, <3>3, <3>4, <3>5 DEF QueuesOK
  <2>15. Moves(r, rec)
    BY <2>4 DEF Moves
  <2> QED
    BY <2>4, <2>12, <2>14, <2>15 DEF LedgerInv
<1> QED
  BY <1>6, <1>7, <1>8 DEF Release

\* r goes on with the slot it has, or with none: the counts stand.
LEMMA CountsStand ==
  ASSUME RequestsOK, LedgerOK, NEW r \in Requests, NEW rec \in Records, Shape(rec),
         Goto(r, rec), rec.lane = th[r].lane, UNCHANGED live
  PROVE  /\ RequestsOK' /\ th'[r] = rec
         /\ \A s \in Requests : s # r => th'[s] = th[s]
         /\ Tally(live', HeldLanes') /\ Moves(r, rec)
<1>1. /\ RequestsOK' /\ th'[r] = rec
      /\ \A s \in Requests : s # r => th'[s] = th[s]
  BY RequestsKept
<1>2. \A s \in Requests : HeldLanes'[s] = HeldLanes[s]
  BY <1>1 DEF HeldLanes
<1>3. Tally(live, HeldLanes')
  BY <1>2, TallyStays DEF LedgerOK
<1> QED
  BY <1>1, <1>3 DEF Moves

\* r parks in the model's queue, at either end.
LEMMA ParkStep ==
  ASSUME LedgerInv, NEW r \in Requests, NEW rec \in Records, Shape(rec), Goto(r, rec),
         th[r].lane = None, ~Waits(th[r]), Parked(rec),
         queue' = Append(queue, r) \/ queue' = <<r>> \o queue, UNCHANGED <<live, laneq>>
  PROVE  LedgerInv' /\ Moves(r, rec)
<1>1. RequestsOK /\ LedgerOK /\ QueuesOK
  BY DEF LedgerInv
<1>2. rec.lane = th[r].lane /\ UNCHANGED live /\ UNCHANGED laneq
  BY DEF Parked
<1>3. /\ RequestsOK' /\ th'[r] = rec
      /\ \A s \in Requests : s # r => th'[s] = th[s]
      /\ Tally(live', HeldLanes') /\ Moves(r, rec)
  BY <1>1, <1>2, CountsStand
<1>4. queue \in Seq(Requests) /\ Distinct(queue) /\ ~Queued(queue, r)
  BY <1>1 DEF LedgerOK, QueuesOK, Waits
<1>5. /\ queue' \in Seq(Requests) /\ Distinct(queue')
      /\ \A s : Queued(queue', s) <=> Queued(queue, s) \/ s = r
  <2>1. CASE queue' = Append(queue, r)
    BY <1>4, <2>1, JoinedQueue
  <2>2. CASE queue' = <<r>> \o queue
    BY <1>4, <2>2, JoinedQueue
  <2> QED
    BY <2>1, <2>2
<1>6. LedgerOK'
  BY <1>1, <1>2, <1>3, <1>5 DEF LedgerOK, BridgeConserves
<1>7. QueuesOK'
  <2>1. \A b \in Bridges, s \in Requests : ParkedAt(th'[s], b) <=> ParkedAt(th[s], b)
    BY <1>3 DEF Waits, Parked, ParkedAt
  <2>2. \A s \in Requests : Queued(queue', s) => Parked(th'[s])
    BY <1>1, <1>3, <1>5 DEF QueuesOK
  <2>3. \A s \in Requests : Parked(th'[s]) /\ ~th'[s].dead => Queued(queue', s)
    BY <1>1, <1>3, <1>5 DEF QueuesOK
  <2> QED
    BY <1>1, <1>2, <1>5, <2>1, <2>2, <2>3 DEF QueuesOK
<1> QED
  BY <1>3, <1>6, <1>7 DEF LedgerInv

\* r, which has no grant, leaves the model's queue.
LEMMA UnparkStep ==
  ASSUME LedgerInv, NEW r \in Requests, NEW rec \in Records, Shape(rec), Goto(r, rec),
         Parked(th[r]), rec.lane = None, ~Waits(rec),
         queue' = Without(queue, r), UNCHANGED <<live, laneq>>
  PROVE  LedgerInv' /\ Moves(r, rec)
<1>1. RequestsOK /\ LedgerOK /\ QueuesOK
  BY DEF LedgerInv
<1>2. rec.lane = th[r].lane /\ UNCHANGED live /\ UNCHANGED laneq
  BY DEF Parked
<1>3. /\ RequestsOK' /\ th'[r] = rec
      /\ \A s \in Requests : s # r => th'[s] = th[s]
      /\ Tally(live', HeldLanes') /\ Moves(r, rec)
  BY <1>1, <1>2, CountsStand
<1>4. queue \in Seq(Requests) /\ Distinct(queue)
  BY <1>1 DEF LedgerOK, QueuesOK
<1>5. /\ queue' \in Seq(Requests) /\ Distinct(queue')
      /\ \A s : Queued(queue', s) <=> Queued(queue, s) /\ s # r
  BY <1>4, WithoutRemoves
<1>6. LedgerOK'
  BY <1>1, <1>2, <1>3, <1>5 DEF LedgerOK, BridgeConserves
<1>7. QueuesOK'
  <2>1. \A b \in Bridges, s \in Requests : ParkedAt(th'[s], b) <=> ParkedAt(th[s], b)
    BY <1>3 DEF Waits, Parked, ParkedAt
  <2>2. \A s \in Requests : Queued(queue', s) => Parked(th'[s])
    BY <1>1, <1>3, <1>5 DEF QueuesOK
  <2>3. \A s \in Requests : Parked(th'[s]) /\ ~th'[s].dead => Queued(queue', s)
    BY <1>1, <1>3, <1>5 DEF QueuesOK, Waits
  <2> QED
    BY <1>1, <1>2, <1>5, <2>1, <2>2, <2>3 DEF QueuesOK
<1> QED
  BY <1>3, <1>6, <1>7 DEF LedgerInv

\* The queue of bridge lane b becomes q.
LaneQueue(b, q) == laneq' = [laneq EXCEPT ![b] = q]

\* r parks on bridge lane b, which has no slot free.
LEMMA BridgeParkStep ==
  ASSUME LedgerInv, NEW r \in Requests, NEW rec \in Records, Shape(rec), Goto(r, rec),
         NEW b \in Bridges, th[r].lane = None, ~Waits(th[r]), ParkedAt(rec, b),
         live[b] >= Cap \/ laneq[b] # <<>>,
         LaneQueue(b, Append(laneq[b], r)), UNCHANGED <<live, queue>>
  PROVE  LedgerInv' /\ Moves(r, rec)
<1>1. RequestsOK /\ LedgerOK /\ QueuesOK
  BY DEF LedgerInv
<1>2. rec.lane = th[r].lane /\ UNCHANGED live /\ UNCHANGED queue
  BY DEF ParkedAt
<1>3. /\ RequestsOK' /\ th'[r] = rec
      /\ \A s \in Requests : s # r => th'[s] = th[s]
      /\ Tally(live', HeldLanes') /\ Moves(r, rec)
  BY <1>1, <1>2, CountsStand
<1>4. laneq[b] \in Seq(Requests) /\ Distinct(laneq[b]) /\ ~Queued(laneq[b], r)
  BY <1>1 DEF LedgerOK, QueuesOK, Waits, ParkedAt
<1> DEFINE q == Append(laneq[b], r)
<1>5. /\ q \in Seq(Requests) /\ Distinct(q)
      /\ \A s : Queued(q, s) <=> Queued(laneq[b], s) \/ s = r
  BY <1>4, JoinedQueue
<1> HIDE DEF q
<1>6. /\ laneq' \in [Bridges -> Seq(Requests)] /\ laneq'[b] = q
      /\ \A c \in Bridges : c # b => laneq'[c] = laneq[c]
  BY <1>1, <1>5 DEF LaneQueue, LedgerOK, q
<1>7. live[b] = Cap
  <2>1. live[b] <= Cap /\ live[b] \in Int /\ Cap \in Int
    BY <1>1, ConstantsAssumption DEF LedgerOK, AllLanes
  <2> QED
    BY <1>1, <2>1 DEF LedgerOK, BridgeConserves
<1>8. LedgerOK'
  BY <1>1, <1>2, <1>3, <1>6, <1>7 DEF LedgerOK, BridgeConserves
<1>9. QueuesOK'
  <2>1. \A s \in Requests : Parked(th'[s]) <=> Parked(th[s])
    BY <1>3 DEF Waits, Parked, ParkedAt
  <2>2. \A s \in Requests : Parked(th[s]) => th'[s] = th[s]
    BY <1>3 DEF Waits
  <2>3. \A c \in Bridges, s \in Requests :
          ParkedAt(th'[s], c) <=> ParkedAt(th[s], c) \/ (c = b /\ s = r)
    BY <1>3 DEF Waits, ParkedAt
  <2>4. \A c \in Bridges, s \in Requests :
          Queued(laneq'[c], s) <=> Queued(laneq[c], s) \/ (c = b /\ s = r)
    BY <1>5, <1>6
  <2>5. \A c \in Bridges : Distinct(laneq'[c])
    BY <1>1, <1>5, <1>6 DEF QueuesOK
  <2> QED
    BY <1>1, <1>2, <2>1, <2>2, <2>3, <2>4, <2>5 DEF QueuesOK
<1> QED
  BY <1>3, <1>8, <1>9 DEF LedgerInv

\* r gives up its wait on bridge lane b.
LEMMA BridgeUnparkStep ==
  ASSUME LedgerInv, NEW r \in Requests, NEW rec \in Records, Shape(rec), Goto(r, rec),
         NEW b \in Bridges, ParkedAt(th[r], b), rec.lane = None, ~Waits(rec),
         LaneQueue(b, Without(laneq[b], r)), UNCHANGED <<live, queue>>
  PROVE  LedgerInv' /\ Moves(r, rec)
<1>1. RequestsOK /\ LedgerOK /\ QueuesOK
  BY DEF LedgerInv
<1>2. rec.lane = th[r].lane /\ UNCHANGED live /\ UNCHANGED queue
  BY DEF ParkedAt
<1>3. /\ RequestsOK' /\ th'[r] = rec
      /\ \A s \in Requests : s # r => th'[s] = th[s]
      /\ Tally(live', HeldLanes') /\ Moves(r, rec)
  BY <1>1, <1>2, CountsStand
<1>4. laneq[b] \in Seq(Requests) /\ Distinct(laneq[b])
  BY <1>1 DEF LedgerOK, QueuesOK
<1> DEFINE q == Without(laneq[b], r)
<1>5. /\ q \in Seq(Requests) /\ Distinct(q)
      /\ \A s : Queued(q, s) <=> Queued(laneq[b], s) /\ s # r
      /\ q # <<>> => laneq[b] # <<>>
  BY <1>4, WithoutRemoves
<1> HIDE DEF q
<1>6. /\ laneq' \in [Bridges -> Seq(Requests)] /\ laneq'[b] = q
      /\ \A c \in Bridges : c # b => laneq'[c] = laneq[c]
  BY <1>1, <1>5 DEF LaneQueue, LedgerOK, q
<1>7. LedgerOK'
  BY <1>1, <1>2, <1>3, <1>5, <1>6 DEF LedgerOK, BridgeConserves
<1>8. QueuesOK'
  <2>1. \A s \in Requests : Parked(th'[s]) <=> Parked(th[s])
    BY <1>3 DEF Waits, Parked, ParkedAt
  <2>2. \A s \in Requests : Parked(th[s]) => th'[s] = th[s]
    BY <1>3 DEF Parked, ParkedAt
  <2>3. \A c \in Bridges, s \in Requests :
          ParkedAt(th'[s], c) <=> ParkedAt(th[s], c) /\ ~(c = b /\ s = r)
    BY <1>3 DEF Waits, ParkedAt
  <2>4. \A c \in Bridges, s \in Requests :
          Queued(laneq'[c], s) <=> Queued(laneq[c], s) /\ ~(c = b /\ s = r)
    BY <1>5, <1>6
  <2>5. \A c \in Bridges : Distinct(laneq'[c])
    BY <1>1, <1>5, <1>6 DEF QueuesOK
  <2> QED
    BY <1>1, <1>2, <2>1, <2>2, <2>3, <2>4, <2>5 DEF QueuesOK
<1> QED
  BY <1>3, <1>7, <1>8 DEF LedgerInv

\* The context of r is done; it stays where it is.
LEMMA DoneStep ==
  ASSUME LedgerInv, NEW r \in Requests, NEW rec \in Records, Goto(r, rec),
         rec = [th[r] EXCEPT !.dead = TRUE], UNCHANGED ledger
  PROVE  LedgerInv' /\ Moves(r, rec)
<1>1. RequestsOK /\ LedgerOK /\ QueuesOK
  BY DEF LedgerInv
<1>2. /\ th[r] \in Records /\ Shape(th[r])
      /\ rec.pc = th[r].pc /\ rec.lane = th[r].lane /\ rec.tok = th[r].tok /\ rec.dead = TRUE
  BY <1>1 DEF RequestsOK, Shapes, Records
<1>3. Shape(rec)
  <2>1. rec.at = th[r].at /\ rec.pos = th[r].pos
    BY <1>2 DEF Records
  <2> QED
    BY <1>2, <2>1 DEF Shape
<1>4. UNCHANGED live /\ UNCHANGED laneq /\ UNCHANGED queue
  BY DEF ledger
<1>5. /\ RequestsOK' /\ th'[r] = rec
      /\ \A s \in Requests : s # r => th'[s] = th[s]
      /\ Tally(live', HeldLanes') /\ Moves(r, rec)
  BY <1>1, <1>2, <1>3, <1>4, CountsStand
<1>6. LedgerOK'
  BY <1>1, <1>4, <1>5 DEF LedgerOK, BridgeConserves
<1>7. QueuesOK'
  <2>1. \A s \in Requests : Parked(th'[s]) <=> Parked(th[s])
    BY <1>2, <1>5 DEF Parked
  <2>2. \A b \in Bridges, s \in Requests : ParkedAt(th'[s], b) <=> ParkedAt(th[s], b)
    BY <1>2, <1>5 DEF ParkedAt
  <2>3. \A s \in Requests : ~th'[s].dead => ~th[s].dead
    BY <1>2, <1>5
  <2> QED
    BY <1>1, <1>4, <2>1, <2>2, <2>3 DEF QueuesOK
<1> QED
  BY <1>5, <1>6, <1>7 DEF LedgerInv

-----------------------------------------------------------------------------
(* What a step does to the seats.                                          *)

LEMMA SeatsStand ==
  ASSUME SeatInv, NEW r \in Requests, NEW rec, Moves(r, rec), rec.tok = th[r].tok,
         UNCHANGED seat
  PROVE  SeatInv'
<1>1. \A s \in Requests : HeldSeats'[s] = HeldSeats[s]
  BY DEF HeldSeats, Moves
<1>2. Tally(seat, HeldSeats')
  BY <1>1, TallyStays DEF SeatInv
<1> QED
  BY <1>2 DEF SeatInv

LEMMA SeatTaken ==
  ASSUME SeatInv, NEW r \in Requests, NEW rec, Moves(r, rec),
         th[r].tok = None, rec.tok \in AllLanes, SeatTake(rec.tok)
  PROVE  SeatInv'
<1>1. seat \in [AllLanes -> Nat] /\ Tally(seat, HeldSeats)
  BY DEF SeatInv
<1>2. /\ HeldSeats[r] = None /\ HeldSeats'[r] = rec.tok
      /\ \A s \in Requests : s # r => HeldSeats'[s] = HeldSeats[s]
  BY DEF HeldSeats, Moves
<1>3. seat' = OneMore(seat, rec.tok) /\ seat' \in [AllLanes -> Nat]
  BY <1>1 DEF SeatTake, OneMore
<1>4. Tally(OneMore(seat, rec.tok), HeldSeats')
  BY <1>1, <1>2, TallyTakes
<1> QED
  BY <1>3, <1>4 DEF SeatInv

LEMMA SeatDropped ==
  ASSUME SeatInv, NEW r \in Requests, NEW rec, Moves(r, rec),
         th[r].tok \in AllLanes, rec.tok = None, SeatDrop(th[r].tok)
  PROVE  SeatInv'
<1>1. seat \in [AllLanes -> Nat] /\ Tally(seat, HeldSeats)
  BY DEF SeatInv
<1>2. /\ HeldSeats[r] = th[r].tok /\ HeldSeats'[r] = None
      /\ \A s \in Requests : s # r => HeldSeats'[s] = HeldSeats[s]
  BY DEF HeldSeats, Moves
<1>3. seat' = OneLess(seat, th[r].tok) /\ seat' \in [AllLanes -> Nat]
  BY <1>1 DEF SeatDrop, OneLess
<1>4. Tally(OneLess(seat, th[r].tok), HeldSeats')
  BY <1>1, <1>2, TallyDrops
<1> QED
  BY <1>3, <1>4 DEF SeatInv

\* The deferred release of an admission, whether it took a seat or not.
LEMMA FrameLeft ==
  ASSUME SeatInv, NEW r \in Requests, NEW rec, Moves(r, rec),
         th[r].tok \in AllLanes \cup {None}, rec.tok = None, LeaveFrame(r)
  PROVE  SeatInv'
<1>1. CASE th[r].tok = None
  <2>1. UNCHANGED seat /\ rec.tok = th[r].tok
    BY <1>1 DEF LeaveFrame
  <2> QED
    BY <2>1, SeatsStand
<1>2. CASE th[r].tok # None
  <2>1. SeatDrop(th[r].tok) /\ th[r].tok \in AllLanes
    BY <1>2 DEF LeaveFrame
  <2> QED
    BY <2>1, SeatDropped
<1> QED
  BY <1>1, <1>2

-----------------------------------------------------------------------------
(* Records.                                                                *)

LEMMA IdleOK == Idle \in Records /\ Shape(Idle) /\ ~Waits(Idle) /\ Idle.lane = None /\ Idle.tok = None
<1>1. /\ Idle.pc = "idle" /\ Idle.lane = None /\ Idle.tok = None
  BY DEF Idle
<1>2. Idle \in Records
  BY DEF Idle, Records, PCs
<1> QED
  BY <1>1, <1>2 DEF Shape, Waits, Parked, Walking

\* What is known of a request in the invariant.
LEMMA RequestOK ==
  ASSUME LedgerInv, NEW r \in Requests
  PROVE  /\ th[r] \in Records /\ Shape(th[r])
         /\ th[r].tok \in AllLanes \cup {None} /\ th[r].lane \in AllLanes \cup {None}
BY DEF LedgerInv, RequestsOK, Shapes, Records

\* laneNext, in a record that may also move the resume point.
LEMMA NextOK ==
  ASSUME NEW s \in Records, s.pos > 0
  PROVE  /\ Next1(s) \in Records /\ Shape(Next1(s)) /\ ~Waits(Next1(s))
         /\ Next1(s).lane = None /\ Next1(s).tok = None /\ Next1(s).pc = "walk"
         /\ Next1(s).pos = s.pos
<1>1. Next1(s) \in Records
  BY DEF Next1, Records, PCs
<1>2. Next1(s).lane = None /\ Next1(s).tok = None /\ Next1(s).pc = "walk" /\ Next1(s).pos = s.pos
  BY DEF Next1, Records
<1> QED
  BY <1>1, <1>2 DEF Shape, Waits, Parked

LEMMA AfterNat ==
  ASSUME NEW s \in Records, NEW i
  PROVE  After(s, i) \in Nat /\ After(s, i) > 0
BY DEF After, Records

\* A walk that has no permit and no seat goes on, or comes to its end.
LEMMA HopOK ==
  ASSUME NEW s \in Records, NEW on \in Records, on.pc = "walk", on.lane = None, on.tok = None,
         on.pos > 0
  PROVE  /\ Hop(s, on) \in Records /\ Shape(Hop(s, on)) /\ ~Waits(Hop(s, on))
         /\ Hop(s, on).lane = None /\ Hop(s, on).tok = None
<1>1. CASE ~MayHop(s)
  BY <1>1, IdleOK DEF Hop
<1>2. CASE MayHop(s)
  <2> DEFINE h == s.hops + 1
  <2>1. h \in Nat
    BY DEF Records
  <2>2. Hop(s, on) = [on EXCEPT !.hops = h]
    BY <1>2 DEF Hop
  <2> HIDE DEF h
  <2>3. Hop(s, on) \in Records
    BY <2>1, <2>2 DEF Records
  <2>4. /\ Hop(s, on).pc = "walk" /\ Hop(s, on).lane = None /\ Hop(s, on).tok = None
        /\ Hop(s, on).pos > 0
    BY <2>2 DEF Records
  <2> QED
    BY <2>3, <2>4 DEF Shape, Waits, Parked
<1> QED
  BY <1>1, <1>2

-----------------------------------------------------------------------------
(* The walk.                                                               *)

LEMMA PoolStands ==
  ASSUME PoolOK, UNCHANGED <<pool, jails>>
  PROVE  PoolOK'
BY DEF PoolOK, pool

\* A spill order is a sequence of indexes, also when it is rotated.
LEMMA OrderOK ==
  ASSUME NEW o \in SpillOrders, PoolOK, NEW k \in DOMAIN o \cup {0}
  PROVE  Rotated(o, k) \in Seq(Nat)
<1>1. PICK n \in DOMAIN roster : o \in [1..n -> DOMAIN roster]
  BY DEF SpillOrders
<1>2. n \in Nat \ {0} /\ DOMAIN roster \subseteq Nat /\ DOMAIN o = 1..n
  BY <1>1 DEF PoolOK
<1>3. o \in Seq(Nat) /\ Len(o) = n
  BY <1>1, <1>2
<1>4. \A i \in 1..n : ((i + k - 1) % n) + 1 \in 1..n
  <2> TAKE i \in 1..n
  <2>1. i + k - 1 \in Nat
    BY <1>2
  <2>2. (i + k - 1) % n \in 0..(n - 1)
    BY <1>2, <2>1
  <2> QED
    BY <1>2, <2>2
<1>5. \A i \in 1..n : o[((i + k - 1) % Len(o)) + 1] \in Nat
  <2> TAKE i \in 1..n
  <2> DEFINE j == ((i + k - 1) % n) + 1
  <2>1. j \in 1..n
    BY <1>4
  <2> HIDE DEF j
  <2>2. o[j] \in Nat
    BY <1>3, <2>1
  <2> QED
    BY <1>3, <2>2 DEF j
<1>6. Rotated(o, k) \in [1..n -> Nat]
  BY <1>2, <1>5 DEF Rotated
<1> QED
  BY <1>2, <1>6

LEMMA AcquireKeeps ==
  ASSUME SlotInv, NEW r \in Requests, Acquire(r)
  PROVE  SlotInv'
<1>1. LedgerInv /\ SeatInv /\ PoolOK
  BY DEF SlotInv
<1> DEFINE Scan(o, k) ==
             [Idle EXCEPT !.pc = "scan", !.toks = roster, !.order = Rotated(o, k),
                          !.at = 1, !.pos = 1, !.park = TRUE]
<1>a. \E o \in SpillOrders : \E k \in DOMAIN o \cup {0} : Goto(r, Scan(o, k))
  BY DEF Acquire
<1>b. PICK o \in SpillOrders : \E k \in DOMAIN o \cup {0} : Goto(r, Scan(o, k))
  BY <1>a
<1>2. PICK k \in DOMAIN o \cup {0} : Goto(r, Scan(o, k))
  BY <1>b
<1> DEFINE w == Rotated(o, k)
           rec == [Idle EXCEPT !.pc = "scan", !.toks = roster,
                               !.order = w, !.at = 1, !.pos = 1, !.park = TRUE]
<1>3. w \in Seq(Nat) /\ roster \in Seq(Lanes)
  BY <1>1, OrderOK DEF PoolOK
<1>4. Goto(r, rec)
  BY <1>2
<1> HIDE DEF w
<1>5. rec \in Records
  BY <1>3, IdleOK DEF Records, PCs
<1>6. rec.pc = "scan" /\ rec.lane = None /\ rec.tok = None /\ rec.at > 0 /\ rec.pos > 0
  BY IdleOK DEF Records
<1> HIDE DEF rec
<1>7. Shape(rec) /\ ~Waits(rec)
  BY <1>6 DEF Shape, Waits, Parked
<1>8. At(r, "idle") /\ Shape(th[r])
  BY <1>1, RequestOK DEF Acquire
<1>9. th[r].lane = None /\ th[r].tok = None /\ ~Waits(th[r])
  BY <1>8 DEF At, Shape, Waits, Parked
<1>10. UNCHANGED ledger /\ UNCHANGED seat /\ UNCHANGED <<pool, jails>>
  BY DEF Acquire
<1>11. LedgerInv' /\ Moves(r, rec)
  BY <1>1, <1>4, <1>5, <1>6, <1>7, <1>9, <1>10, QuietStep
<1>12. SeatInv'
  BY <1>1, <1>6, <1>9, <1>10, <1>11, SeatsStand
<1> QED
  BY <1>1, <1>10, <1>11, <1>12, PoolStands DEF SlotInv

\* A step that leaves the ledger and the seats alone.
LEMMA Quietly ==
  ASSUME SlotInv, NEW r \in Requests, NEW rec \in Records, Goto(r, rec), Shape(rec),
         rec.lane = th[r].lane, rec.tok = th[r].tok, ~Waits(th[r]), ~Waits(rec),
         UNCHANGED <<ledger, seat, pool, jails>>
  PROVE  SlotInv'
<1>1. LedgerInv /\ SeatInv /\ PoolOK
  BY DEF SlotInv
<1>2. UNCHANGED ledger /\ UNCHANGED seat /\ UNCHANGED <<pool, jails>>
  OBVIOUS
<1>3. LedgerInv' /\ Moves(r, rec)
  BY <1>1, <1>2, QuietStep
<1>4. SeatInv'
  BY <1>1, <1>2, <1>3, SeatsStand
<1> QED
  BY <1>1, <1>2, <1>3, <1>4, PoolStands DEF SlotInv

LEMMA ScanMissKeeps ==
  ASSUME SlotInv, NEW r \in Requests, ScanMiss(r)
  PROVE  SlotInv'
<1> DEFINE s == th[r]
<1>1. s \in Records /\ Shape(s) /\ s.pc \in {"scan", "rescan"}
  BY RequestOK DEF SlotInv, ScanMiss
<1>2. UNCHANGED <<ledger, seat, pool, jails>>
  BY DEF ScanMiss
<1>3. s.lane = None /\ ~Waits(s)
  BY <1>1 DEF Shape, Waits, Parked
<1>4. \/ Goto(r, [s EXCEPT !.pc = IF @ = "scan" THEN "walk" ELSE "rejoin", !.at = 0])
      \/ Goto(r, [s EXCEPT !.at = @ + 1])
  BY DEF ScanMiss
<1> HIDE DEF s
<1>5. CASE Goto(r, [s EXCEPT !.pc = IF @ = "scan" THEN "walk" ELSE "rejoin", !.at = 0])
  <2> DEFINE p == IF s.pc = "scan" THEN "walk" ELSE "rejoin"
             rec == [s EXCEPT !.pc = p, !.at = 0]
  <2>1. p \in PCs /\ p \in {"walk", "rejoin"} /\ (p = "walk" <=> s.pc = "scan")
    BY DEF PCs
  <2>2. Goto(r, rec)
    BY <1>5
  <2> HIDE DEF p
  <2>3. rec \in Records
    BY <1>1, <2>1 DEF Records
  <2>4. rec.pc = p /\ rec.lane = s.lane /\ rec.tok = s.tok /\ rec.pos = s.pos
    BY <1>1 DEF Records
  <2> HIDE DEF rec
  <2>5. Shape(rec) /\ ~Waits(rec)
    BY <1>1, <1>3, <2>1, <2>4 DEF Shape, Waits, Parked, Walking, PCs
  <2> QED
    BY <1>2, <1>3, <2>2, <2>3, <2>4, <2>5, Quietly DEF s
<1>6. CASE Goto(r, [s EXCEPT !.at = @ + 1])
  <2> DEFINE n == s.at + 1
             rec == [s EXCEPT !.at = n]
  <2>1. n \in Nat /\ n > 0
    BY <1>1 DEF Records
  <2>2. Goto(r, rec)
    BY <1>6
  <2> HIDE DEF n
  <2>3. rec \in Records
    BY <1>1, <2>1 DEF Records
  <2>4. /\ rec.pc = s.pc /\ rec.lane = s.lane /\ rec.tok = s.tok
        /\ rec.pos = s.pos /\ rec.at = n
    BY <1>1 DEF Records
  <2> HIDE DEF rec
  <2>5. Shape(rec) /\ ~Waits(rec)
    BY <1>1, <1>3, <2>1, <2>4 DEF Shape, Waits, Parked
  <2> QED
    BY <1>2, <1>3, <2>2, <2>3, <2>4, <2>5, Quietly DEF s
<1> QED
  BY <1>4, <1>5, <1>6

LEMMA ScanHitKeeps ==
  ASSUME SlotInv, NEW r \in Requests, ScanHit(r)
  PROVE  SlotInv'
<1> DEFINE s == th[r]
           l == s.toks[s.order[s.at]]
           i == s.order[s.at]
<1>1. s \in Records /\ Shape(s) /\ s.pc \in {"scan", "rescan"} /\ s.tok \in AllLanes \cup {None}
  BY RequestOK DEF SlotInv, ScanHit
<1>2. LedgerInv /\ SeatInv /\ PoolOK
  BY DEF SlotInv
<1>3. /\ UNCHANGED <<pool, jails>> /\ l \in open /\ Take(l) /\ s.at <= Len(s.order)
      /\ \/ /\ s.pc = "scan"
            /\ Goto(r, [s EXCEPT !.lane = l, !.idx = i, !.at = 0, !.pc = "admit", !.pos = s.at + 1])
            /\ UNCHANGED seat
         \/ /\ s.pc = "rescan"
            /\ Goto(r, [s EXCEPT !.lane = l, !.idx = i, !.at = 0, !.pc = "retry", !.tok = None])
            /\ LeaveFrame(r)
  BY <1>1 DEF ScanHit, Records
<1>4. l \in Lanes /\ l \in AllLanes /\ l \notin Bridges
  BY <1>2, <1>3, ConstantsAssumption DEF PoolOK, AllLanes
<1>5. i \in Nat
  <2>1. s.order \in Seq(Nat) /\ s.at \in 1..Len(s.order)
    BY <1>1, <1>3 DEF Shape, Records
  <2> QED
    BY <2>1
<1>6. s.lane = None /\ ~Waits(s) /\ s.at \in Nat /\ s.pos > 0
  BY <1>1 DEF Shape, Waits, Parked, Records, Walking, PCs
<1> DEFINE n == s.at + 1
<1>7. n \in Nat /\ n > 0
  BY <1>6
<1> HIDE DEF l, i, n
<1>8. CASE s.pc = "scan"
  <2> DEFINE rec == [s EXCEPT !.lane = l, !.idx = i, !.at = 0, !.pc = "admit", !.pos = n]
  <2>1. Goto(r, rec) /\ UNCHANGED seat
    BY <1>3, <1>8 DEF n
  <2> HIDE DEF s
  <2>2. rec \in Records
    BY <1>1, <1>4, <1>5, <1>7 DEF Records, PCs
  <2>3. rec.pc = "admit" /\ rec.lane = l /\ rec.tok = s.tok /\ rec.pos = n
    BY <1>1 DEF Records
  <2> HIDE DEF rec
  <2>4. Shape(rec) /\ s.tok = None
    BY <1>1, <1>4, <1>7, <1>8, <2>3 DEF Shape
  <2>5. LedgerInv' /\ Moves(r, rec)
    BY <1>2, <1>3, <1>4, <1>6, <2>1, <2>2, <2>3, <2>4, TakeStep DEF s
  <2>6. SeatInv'
    BY <1>2, <2>1, <2>3, <2>5, SeatsStand DEF s
  <2> QED
    BY <1>2, <1>3, <2>5, <2>6, PoolStands DEF SlotInv
<1>9. CASE s.pc = "rescan"
  <2> DEFINE rec == [s EXCEPT !.lane = l, !.idx = i, !.at = 0, !.pc = "retry", !.tok = None]
  <2>1. Goto(r, rec) /\ LeaveFrame(r)
    BY <1>3, <1>9
  <2> HIDE DEF s
  <2>2. rec \in Records
    BY <1>1, <1>4, <1>5 DEF Records, PCs
  <2>3. rec.pc = "retry" /\ rec.lane = l /\ rec.tok = None /\ rec.pos = s.pos
    BY <1>1 DEF Records
  <2> HIDE DEF rec
  <2>4. Shape(rec)
    BY <1>4, <1>6, <2>3 DEF Shape
  <2>5. LedgerInv' /\ Moves(r, rec)
    BY <1>2, <1>3, <1>4, <1>6, <2>1, <2>2, <2>3, <2>4, TakeStep DEF s
  <2>6. SeatInv'
    BY <1>1, <1>2, <2>1, <2>3, <2>5, FrameLeft DEF s
  <2> QED
    BY <1>2, <1>3, <2>5, <2>6, PoolStands DEF SlotInv
<1> QED
  BY <1>1, <1>8, <1>9

\* The rest of the invariant, once the ledger is kept.
LEMMA SeatKeeping ==
  ASSUME SlotInv, NEW r \in Requests, NEW rec, LedgerInv', Moves(r, rec),
         rec.tok = th[r].tok, UNCHANGED seat, UNCHANGED <<pool, jails>>
  PROVE  SlotInv'
BY SeatsStand, PoolStands DEF SlotInv

LEMMA SeatLeaving ==
  ASSUME SlotInv, NEW r \in Requests, NEW rec, LedgerInv', Moves(r, rec),
         rec.tok = None, LeaveFrame(r), UNCHANGED <<pool, jails>>
  PROVE  SlotInv'
<1>1. LedgerInv /\ SeatInv /\ PoolOK
  BY DEF SlotInv
<1>2. th[r].tok \in AllLanes \cup {None}
  BY <1>1, RequestOK
<1>3. SeatInv'
  BY <1>1, <1>2, FrameLeft
<1> QED
  BY <1>1, <1>3, PoolStands DEF SlotInv

LEMMA WalkOnKeeps ==
  ASSUME SlotInv, NEW r \in Requests, WalkOn(r)
  PROVE  SlotInv'
<1> DEFINE s == th[r]
           on == [s EXCEPT !.pos = s.pos + 1]
           jn == [s EXCEPT !.pc = "join"]
<1>1. s \in Records /\ Shape(s) /\ s.pc = "walk"
  BY RequestOK DEF SlotInv, WalkOn, At
<1>2. UNCHANGED <<ledger, seat, pool, jails>>
  BY DEF WalkOn
<1>3. s.lane = None /\ s.tok = None /\ ~Waits(s) /\ s.pos \in Nat /\ s.pos > 0
  BY <1>1 DEF Shape, Waits, Parked, Records, Walking, PCs
<1>4. Goto(r, Idle) \/ Goto(r, on) \/ Goto(r, jn) \/ Goto(r, Hop(s, on))
  BY DEF WalkOn
<1> HIDE DEF s
<1> DEFINE n == s.pos + 1
<1>5. n \in Nat /\ n > 0
  BY <1>3
<1>6. on \in Records /\ on.pc = "walk" /\ on.lane = None /\ on.tok = None /\ on.pos > 0
  <2>1. on = [s EXCEPT !.pos = n]
    OBVIOUS
  <2> HIDE DEF n, on
  <2>2. on \in Records
    BY <1>1, <1>5, <2>1 DEF Records
  <2>3. on.pc = s.pc /\ on.lane = s.lane /\ on.tok = s.tok /\ on.pos = n
    BY <1>1, <2>1 DEF Records
  <2> QED
    BY <1>1, <1>3, <1>5, <2>2, <2>3
<1>7. jn \in Records /\ jn.pc = "join" /\ jn.lane = None /\ jn.tok = None /\ jn.pos > 0
  <2>1. jn \in Records
    BY <1>1 DEF Records, PCs
  <2>2. jn.pc = "join" /\ jn.lane = s.lane /\ jn.tok = s.tok /\ jn.pos = s.pos
    BY <1>1 DEF Records
  <2> QED
    BY <1>3, <2>1, <2>2
<1> HIDE DEF on, jn
<1>8. /\ Hop(s, on) \in Records /\ Shape(Hop(s, on)) /\ ~Waits(Hop(s, on))
      /\ Hop(s, on).lane = None /\ Hop(s, on).tok = None
  BY <1>1, <1>6, HopOK
<1>9. Shape(on) /\ Shape(jn) /\ ~Waits(on) /\ ~Waits(jn)
  BY <1>6, <1>7 DEF Shape, Waits, Parked
<1>10. ASSUME NEW rec \in Records, Goto(r, rec), Shape(rec), ~Waits(rec),
              rec.lane = None, rec.tok = None
       PROVE  SlotInv'
  BY <1>2, <1>3, <1>10, Quietly DEF s
<1> QED
  BY <1>4, <1>6, <1>7, <1>8, <1>9, <1>10, IdleOK

LEMMA WalkTakeKeeps ==
  ASSUME SlotInv, NEW r \in Requests, WalkTake(r)
  PROVE  SlotInv'
<1> DEFINE s == th[r]
           l == s.toks[s.order[s.pos]]
           i == s.order[s.pos]
           n == s.pos + 1
           rec == [s EXCEPT !.pc = "admit", !.lane = l, !.idx = i, !.pos = n]
<1>1. s \in Records /\ Shape(s) /\ s.pc = "walk"
  BY RequestOK DEF SlotInv, WalkTake, At
<1>2. LedgerInv /\ SeatInv /\ PoolOK
  BY DEF SlotInv
<1>3. /\ UNCHANGED seat /\ UNCHANGED <<pool, jails>>
      /\ l \in open /\ Take(l) /\ s.pos <= Len(s.order) /\ Goto(r, rec)
  BY DEF WalkTake
<1>4. l \in Lanes /\ l \in AllLanes /\ l \notin Bridges
  BY <1>2, <1>3, ConstantsAssumption DEF PoolOK, AllLanes
<1>5. s.lane = None /\ s.tok = None /\ ~Waits(s) /\ s.pos \in Nat /\ s.pos > 0
  BY <1>1 DEF Shape, Waits, Parked, Records, Walking, PCs
<1>6. i \in Nat
  <2>1. s.order \in Seq(Nat) /\ s.pos \in 1..Len(s.order)
    BY <1>1, <1>3, <1>5 DEF Records
  <2> QED
    BY <2>1
<1>7. n \in Nat /\ n > 0
  BY <1>5
<1> HIDE DEF l, i, n, s
<1>8. rec \in Records
  BY <1>1, <1>4, <1>6, <1>7 DEF Records, PCs
<1>9. rec.pc = "admit" /\ rec.lane = l /\ rec.tok = s.tok /\ rec.pos = n
  BY <1>1 DEF Records
<1> HIDE DEF rec
<1>10. Shape(rec)
  BY <1>4, <1>5, <1>7, <1>9 DEF Shape
<1>11. LedgerInv' /\ Moves(r, rec)
  BY <1>2, <1>3, <1>4, <1>5, <1>8, <1>9, <1>10, TakeStep DEF s
<1> QED
  BY <1>3, <1>9, <1>11, SeatKeeping DEF s

\* The queue-exhausted signal, wherever it is given.
LEMMA ExhaustedMoves ==
  ASSUME SlotInv, NEW r \in Requests, Exhausted(r),
         th[r].pc \in {"join", "parked", "rejoin", "reparked"}
  PROVE  /\ LeaveFrame(r)
         /\ \E rec \in Records : /\ Goto(r, rec) /\ Shape(rec) /\ ~Waits(rec)
                                 /\ rec.lane = None /\ rec.tok = None
<1> DEFINE s == th[r]
           on == [Next1(s) EXCEPT !.pos = s.pos + 1, !.park = FALSE]
<1>1. s \in Records /\ Shape(s)
  BY RequestOK DEF SlotInv
<1>2. s.pos \in Nat /\ s.pos > 0
  BY <1>1 DEF Records, Shape, Walking, PCs
<1>3. /\ Next1(s) \in Records
      /\ Next1(s).lane = None /\ Next1(s).tok = None /\ Next1(s).pc = "walk"
      /\ Next1(s).pos = s.pos
  BY <1>1, <1>2, NextOK
<1>4. CASE s.pc \in {"join", "parked"}
  <2>1. Goto(r, Hop(s, on)) /\ UNCHANGED seat
    BY <1>4 DEF Exhausted
  <2>2. s.tok = None
    BY <1>1, <1>4 DEF Shape
  <2>3. LeaveFrame(r)
    BY <2>1, <2>2 DEF LeaveFrame
  <2> DEFINE n == s.pos + 1
  <2>4. n \in Nat /\ n > 0
    BY <1>2
  <2>5. on = [Next1(s) EXCEPT !.pos = n, !.park = FALSE]
    OBVIOUS
  <2> HIDE DEF n, on, s
  <2>6. on \in Records
    BY <1>3, <2>4, <2>5 DEF Records
  <2>7. on.pc = "walk" /\ on.lane = None /\ on.tok = None /\ on.pos > 0
    BY <1>3, <2>4, <2>5 DEF Records
  <2>8. /\ Hop(s, on) \in Records /\ Shape(Hop(s, on)) /\ ~Waits(Hop(s, on))
        /\ Hop(s, on).lane = None /\ Hop(s, on).tok = None
    BY <1>1, <2>6, <2>7, HopOK
  <2> QED
    BY <2>1, <2>3, <2>8
<1>5. CASE s.pc \in {"rejoin", "reparked"}
  <2>1. Goto(r, Hop(s, Next1(s))) /\ LeaveFrame(r)
    BY <1>5 DEF Exhausted
  <2> HIDE DEF s
  <2>2. /\ Hop(s, Next1(s)) \in Records /\ Shape(Hop(s, Next1(s))) /\ ~Waits(Hop(s, Next1(s)))
        /\ Hop(s, Next1(s)).lane = None /\ Hop(s, Next1(s)).tok = None
    BY <1>1, <1>2, <1>3, HopOK
  <2> QED
    BY <2>1, <2>2
<1> QED
  BY <1>4, <1>5

LEMMA JoinKeeps ==
  ASSUME SlotInv, NEW r \in Requests, Join(r)
  PROVE  SlotInv'
<1> DEFINE s == th[r]
           p == IF s.pc = "join" THEN "parked" ELSE "reparked"
           rec == [s EXCEPT !.pc = p, !.lane = None, !.idx = 0]
<1>1. s \in Records /\ Shape(s) /\ s.pc \in {"join", "rejoin"}
  BY RequestOK DEF SlotInv, Join
<1>2. LedgerInv /\ SeatInv /\ PoolOK
  BY DEF SlotInv
<1>3. s.lane = None /\ ~Waits(s) /\ s.pos > 0
  BY <1>1 DEF Shape, Waits, Parked, Walking, PCs
<1>4. UNCHANGED <<pool, jails>>
  BY DEF Join
<1>5. CASE Exhausted(r) /\ UNCHANGED ledger
  <2>1. s.pc \in {"join", "parked", "rejoin", "reparked"}
    BY <1>1
  <2>2. LeaveFrame(r)
    BY <1>5, <2>1, ExhaustedMoves
  <2>3. PICK out \in Records : /\ Goto(r, out) /\ Shape(out) /\ ~Waits(out)
                               /\ out.lane = None /\ out.tok = None
    BY <1>5, <2>1, ExhaustedMoves
  <2>4. LedgerInv' /\ Moves(r, out)
    BY <1>2, <1>3, <1>5, <2>3, QuietStep
  <2> QED
    BY <1>4, <2>2, <2>3, <2>4, SeatLeaving
<1>6. CASE /\ queue' = IF At(r, "join") THEN Append(queue, r) ELSE <<r>> \o queue
           /\ Goto(r, rec)
           /\ UNCHANGED <<live, laneq, seat>>
  <2>1. queue' = Append(queue, r) \/ queue' = <<r>> \o queue
    BY <1>6
  <2>2. p \in PCs /\ p = IF s.pc = "join" THEN "parked" ELSE "reparked"
    BY DEF PCs
  <2>3. Goto(r, rec) /\ UNCHANGED seat /\ UNCHANGED <<live, laneq>>
    BY <1>6
  <2> HIDE DEF p, s
  <2>4. rec \in Records
    BY <1>1, <2>2 DEF Records
  <2>5. rec.pc = p /\ rec.lane = None /\ rec.tok = s.tok /\ rec.pos = s.pos
    BY <1>1 DEF Records
  <2> HIDE DEF rec
  <2>6. Shape(rec) /\ Parked(rec)
    BY <1>1, <1>3, <2>2, <2>5 DEF Shape, Parked
  <2>7. LedgerInv' /\ Moves(r, rec)
    BY <1>2, <1>3, <2>1, <2>3, <2>4, <2>6, ParkStep DEF s
  <2> QED
    BY <1>4, <2>3, <2>5, <2>7, SeatKeeping DEF s
<1> QED
  BY <1>5, <1>6 DEF Join

LEMMA WakeKeeps ==
  ASSUME SlotInv, NEW r \in Requests, Wake(r)
  PROVE  SlotInv'
<1> DEFINE s == th[r]
           n == After(s, s.idx)
           adm == [s EXCEPT !.pc = "admit", !.park = FALSE, !.pos = n]
           ret == [s EXCEPT !.pc = "retry", !.tok = None]
<1>1. s \in Records /\ Shape(s) /\ s.lane # None
  BY RequestOK DEF SlotInv, Wake
<1>2. LedgerInv /\ SeatInv /\ PoolOK
  BY DEF SlotInv
<1>3. ~Waits(s)
  BY <1>1 DEF Waits, Parked
<1>4. UNCHANGED ledger /\ UNCHANGED <<pool, jails>>
  BY DEF Wake
<1>5. n \in Nat /\ n > 0
  BY <1>1, AfterNat
<1>6. \/ s.pc = "parked" /\ Goto(r, adm) /\ UNCHANGED seat
      \/ s.pc = "reparked" /\ Goto(r, ret) /\ LeaveFrame(r)
  BY DEF Wake, At
<1> HIDE DEF s, n
<1>7. CASE s.pc = "parked" /\ Goto(r, adm) /\ UNCHANGED seat
  <2>1. adm \in Records
    BY <1>1, <1>5 DEF Records, PCs
  <2>2. adm.pc = "admit" /\ adm.lane = s.lane /\ adm.tok = s.tok /\ adm.pos = n
    BY <1>1 DEF Records
  <2> HIDE DEF adm
  <2>3. Shape(adm) /\ ~Waits(adm)
    BY <1>1, <1>5, <1>7, <2>2 DEF Shape, Waits, Parked
  <2>4. LedgerInv' /\ Moves(r, adm)
    BY <1>2, <1>3, <1>4, <1>7, <2>1, <2>2, <2>3, QuietStep DEF s
  <2> QED
    BY <1>4, <1>7, <2>2, <2>4, SeatKeeping DEF s
<1>8. CASE s.pc = "reparked" /\ Goto(r, ret) /\ LeaveFrame(r)
  <2>1. ret \in Records
    BY <1>1 DEF Records, PCs
  <2>2. ret.pc = "retry" /\ ret.lane = s.lane /\ ret.tok = None /\ ret.pos = s.pos
    BY <1>1 DEF Records
  <2> HIDE DEF ret
  <2>3. Shape(ret) /\ ~Waits(ret)
    BY <1>1, <1>8, <2>2 DEF Shape, Waits, Parked, Walking, PCs
  <2>4. LedgerInv' /\ Moves(r, ret)
    BY <1>2, <1>3, <1>4, <1>8, <2>1, <2>2, <2>3, QuietStep DEF s
  <2> QED
    BY <1>4, <1>8, <2>2, <2>4, SeatLeaving
<1> QED
  BY <1>6, <1>7, <1>8

LEMMA TimeoutKeeps ==
  ASSUME SlotInv, NEW r \in Requests, Timeout(r)
  PROVE  SlotInv'
<1>1. Parked(th[r]) /\ th[r].pc \in {"join", "parked", "rejoin", "reparked"}
  BY DEF Timeout, Parked
<1>2. /\ Exhausted(r) /\ queue' = Without(queue, r) /\ UNCHANGED <<live, laneq>>
      /\ UNCHANGED <<pool, jails>>
  BY DEF Timeout
<1>3. LeaveFrame(r)
  BY <1>1, <1>2, ExhaustedMoves
<1>4. PICK out \in Records : /\ Goto(r, out) /\ Shape(out) /\ ~Waits(out)
                             /\ out.lane = None /\ out.tok = None
  BY <1>1, <1>2, ExhaustedMoves
<1>5. LedgerInv' /\ Moves(r, out)
  BY <1>1, <1>2, <1>4, UnparkStep DEF SlotInv
<1> QED
  BY <1>2, <1>3, <1>4, <1>5, SeatLeaving

LEMMA ParkAbortedKeeps ==
  ASSUME SlotInv, NEW r \in Requests, ParkAborted(r)
  PROVE  SlotInv'
<1>1. /\ Parked(th[r]) /\ Goto(r, Idle) /\ LeaveFrame(r)
      /\ queue' = Without(queue, r) /\ UNCHANGED <<live, laneq>>
      /\ UNCHANGED <<pool, jails>>
  BY DEF ParkAborted, Parked
<1>2. LedgerInv' /\ Moves(r, Idle)
  BY <1>1, IdleOK, UnparkStep DEF SlotInv
<1> QED
  BY <1>1, <1>2, IdleOK, SeatLeaving

-----------------------------------------------------------------------------
(* The admission on a lane, and the end of a turn.                         *)

\* The slot and the seat, if one was taken, are given back in one step.
LEMMA GivesUp ==
  ASSUME SlotInv, NEW r \in Requests, NEW rec \in Records, Shape(rec), ~Waits(rec),
         rec.lane = None, rec.tok = None, th[r].lane \in AllLanes,
         Release(r, rec), LeaveFrame(r), UNCHANGED <<pool, jails>>
  PROVE  SlotInv'
<1>1. LedgerInv' /\ Moves(r, rec)
  BY ReleaseStep DEF SlotInv
<1> QED
  BY <1>1, SeatLeaving

\* A request that holds a lane's slot and its seat.
LEMMA AdmittedHolds ==
  ASSUME SlotInv, NEW r \in Requests, th[r].pc \in {"ensure", "start", "jail"}
  PROVE  /\ th[r] \in Records /\ th[r].lane \in Lanes /\ th[r].lane \in AllLanes
         /\ th[r].tok = th[r].lane /\ ~Waits(th[r]) /\ th[r].pos > 0
<1>1. th[r] \in Records /\ Shape(th[r])
  BY RequestOK DEF SlotInv
<1> QED
  BY <1>1, ConstantsAssumption DEF Shape, Waits, Parked, Walking, PCs, AllLanes

LEMMA AdmitBeginKeeps ==
  ASSUME SlotInv, NEW r \in Requests, AdmitBegin(r)
  PROVE  SlotInv'
<1> DEFINE s == th[r]
           rec == [s EXCEPT !.pc = "ensure", !.tok = s.lane]
<1>1. s \in Records /\ Shape(s) /\ s.pc = "admit"
  BY RequestOK DEF SlotInv, AdmitBegin, At
<1>2. LedgerInv /\ SeatInv /\ PoolOK
  BY DEF SlotInv
<1>3. /\ s.lane \in Lanes /\ s.lane \in AllLanes /\ s.tok = None /\ ~Waits(s)
      /\ s.pos > 0
  BY <1>1 DEF Shape, Waits, Parked, Walking, PCs, AllLanes
<1>4. UNCHANGED <<pool, jails>>
  BY DEF AdmitBegin
<1>5. \/ Goto(r, rec) /\ SeatTake(s.lane) /\ UNCHANGED ledger
      \/ Release(r, Next1(s)) /\ UNCHANGED seat
  BY DEF AdmitBegin
<1>6. CASE Goto(r, rec) /\ SeatTake(s.lane) /\ UNCHANGED ledger
  <2> HIDE DEF s
  <2>1. rec \in Records
    BY <1>1, <1>3 DEF Records, PCs
  <2>2. rec.pc = "ensure" /\ rec.lane = s.lane /\ rec.tok = s.lane /\ rec.pos = s.pos
    BY <1>1 DEF Records
  <2> HIDE DEF rec
  <2>3. Shape(rec) /\ ~Waits(rec)
    BY <1>3, <2>2 DEF Shape, Waits, Parked
  <2>4. LedgerInv' /\ Moves(r, rec)
    BY <1>2, <1>3, <1>6, <2>1, <2>2, <2>3, QuietStep DEF s
  <2>5. SeatInv'
    BY <1>2, <1>3, <1>6, <2>2, <2>4, SeatTaken DEF s
  <2> QED
    BY <1>2, <1>4, <2>4, <2>5, PoolStands DEF SlotInv
<1>7. CASE Release(r, Next1(s)) /\ UNCHANGED seat
  <2>1. /\ Next1(s) \in Records /\ Shape(Next1(s)) /\ ~Waits(Next1(s))
        /\ Next1(s).lane = None /\ Next1(s).tok = None
    BY <1>1, <1>3, NextOK
  <2>2. LeaveFrame(r)
    BY <1>3, <1>7 DEF LeaveFrame
  <2> QED
    BY <1>3, <1>4, <1>7, <2>1, <2>2, GivesUp
<1> QED
  BY <1>5, <1>6, <1>7

LEMMA SessionReadyKeeps ==
  ASSUME SlotInv, NEW r \in Requests, SessionReady(r)
  PROVE  SlotInv'
<1> DEFINE s == th[r]
           rec == [s EXCEPT !.pc = "start"]
<1>1. s.pc = "ensure"
  BY DEF SessionReady, At
<1>2. LedgerInv /\ SeatInv /\ PoolOK
  BY DEF SlotInv
<1>3. /\ s \in Records /\ s.lane \in Lanes /\ s.lane \in AllLanes
      /\ s.tok = s.lane /\ ~Waits(s) /\ s.pos > 0
  BY <1>1, AdmittedHolds
<1>4. PoolOK'
  BY <1>2, <1>3 DEF PoolOK, SessionReady
<1>5. \/ Goto(r, rec) /\ UNCHANGED ledger /\ UNCHANGED seat
      \/ Release(r, Next1(s)) /\ LeaveFrame(r)
  BY DEF SessionReady
<1>6. CASE Goto(r, rec) /\ UNCHANGED ledger /\ UNCHANGED seat
  <2> HIDE DEF s
  <2>1. rec \in Records
    BY <1>3 DEF Records, PCs
  <2>2. rec.pc = "start" /\ rec.lane = s.lane /\ rec.tok = s.tok /\ rec.pos = s.pos
    BY <1>3 DEF Records
  <2> HIDE DEF rec
  <2>3. Shape(rec) /\ ~Waits(rec)
    BY <1>3, <2>2 DEF Shape, Waits, Parked
  <2>4. LedgerInv' /\ Moves(r, rec)
    BY <1>2, <1>3, <1>6, <2>1, <2>2, <2>3, QuietStep DEF s
  <2>5. SeatInv'
    BY <1>2, <1>6, <2>2, <2>4, SeatsStand DEF s
  <2> QED
    BY <1>4, <2>4, <2>5 DEF SlotInv
<1>7. CASE Release(r, Next1(s)) /\ LeaveFrame(r)
  <2>1. /\ Next1(s) \in Records /\ Shape(Next1(s)) /\ ~Waits(Next1(s))
        /\ Next1(s).lane = None /\ Next1(s).tok = None
    BY <1>3, NextOK
  <2>2. LedgerInv' /\ Moves(r, Next1(s))
    BY <1>2, <1>3, <1>7, <2>1, ReleaseStep
  <2>3. th[r].tok \in AllLanes \cup {None}
    BY <1>3
  <2>4. SeatInv'
    BY <1>2, <1>7, <2>1, <2>2, <2>3, FrameLeft
  <2> QED
    BY <1>4, <2>2, <2>4 DEF SlotInv
<1> QED
  BY <1>5, <1>6, <1>7

LEMMA RunReadyKeeps ==
  ASSUME SlotInv, NEW r \in Requests, RunReady(r)
  PROVE  SlotInv'
<1> DEFINE s == th[r]
           l == s.lane
           t == s.tok
           rec == [Idle EXCEPT !.pc = "turn", !.lane = l, !.tok = t]
<1>1. s.pc = "start"
  BY DEF RunReady, At
<1>2. /\ s \in Records /\ s.lane \in AllLanes /\ s.tok = s.lane /\ ~Waits(s) /\ s.pos > 0
  BY <1>1, AdmittedHolds
<1>3. UNCHANGED <<pool, jails>>
  BY DEF RunReady
<1>4. \/ Goto(r, rec) /\ UNCHANGED <<ledger, seat>>
      \/ Release(r, Next1(s)) /\ LeaveFrame(r)
  BY DEF RunReady
<1>5. CASE Goto(r, rec) /\ UNCHANGED <<ledger, seat>>
  <2>1. l \in AllLanes /\ t = l
    BY <1>2
  <2>2. UNCHANGED <<ledger, seat, pool, jails>>
    BY <1>3, <1>5
  <2> HIDE DEF l, t
  <2>3. rec \in Records
    BY <2>1, IdleOK DEF Records, PCs
  <2>4. rec.pc = "turn" /\ rec.lane = l /\ rec.tok = t
    BY IdleOK DEF Records
  <2> HIDE DEF rec
  <2>5. Shape(rec) /\ ~Waits(rec)
    BY <2>1, <2>4 DEF Shape, Waits, Parked, Walking
  <2> QED
    BY <1>2, <1>5, <2>2, <2>3, <2>4, <2>5, Quietly DEF l, t
<1>6. CASE Release(r, Next1(s)) /\ LeaveFrame(r)
  <2>1. /\ Next1(s) \in Records /\ Shape(Next1(s)) /\ ~Waits(Next1(s))
        /\ Next1(s).lane = None /\ Next1(s).tok = None
    BY <1>2, NextOK
  <2> QED
    BY <1>2, <1>3, <1>6, <2>1, GivesUp
<1> QED
  BY <1>4, <1>5, <1>6

LEMMA RefusedKeeps ==
  ASSUME SlotInv, NEW r \in Requests, Refused(r)
  PROVE  SlotInv'
<1>1. th[r].pc \in {"ensure", "start", "jail"} /\ LeaveFrame(r) /\ UNCHANGED <<pool, jails>>
  BY DEF Refused
<1>2. th[r] \in Records /\ th[r].lane \in AllLanes /\ th[r].pos > 0
  BY <1>1, AdmittedHolds
<1>3. /\ Next1(th[r]) \in Records /\ Shape(Next1(th[r])) /\ ~Waits(Next1(th[r]))
      /\ Next1(th[r]).lane = None /\ Next1(th[r]).tok = None
  BY <1>2, NextOK
<1>4. Release(r, Next1(th[r])) \/ Release(r, Idle)
  BY DEF Refused
<1>5. CASE Release(r, Next1(th[r]))
  BY <1>1, <1>2, <1>3, <1>5, GivesUp
<1>6. CASE Release(r, Idle)
  BY <1>1, <1>2, <1>6, IdleOK, GivesUp
<1> QED
  BY <1>4, <1>5, <1>6

LEMMA JailedKeeps ==
  ASSUME SlotInv, NEW r \in Requests, Jailed(r)
  PROVE  SlotInv'
<1> DEFINE s == th[r]
           rec == [s EXCEPT !.pc = "jail"]
<1>1. s.pc \in {"ensure", "start", "jail"}
  BY DEF Jailed
<1>2. LedgerInv /\ SeatInv /\ PoolOK
  BY DEF SlotInv
<1>3. /\ s \in Records /\ s.lane \in Lanes /\ s.tok = s.lane /\ ~Waits(s) /\ s.pos > 0
  BY <1>1, AdmittedHolds
<1>4. Goto(r, rec) /\ UNCHANGED ledger /\ UNCHANGED seat
  BY DEF Jailed
<1>5. PoolOK'
  BY <1>2, ConstantsAssumption DEF PoolOK, Jailed, pool
<1> HIDE DEF s
<1>6. rec \in Records
  BY <1>3 DEF Records, PCs
<1>7. rec.pc = "jail" /\ rec.lane = s.lane /\ rec.tok = s.tok /\ rec.pos = s.pos
  BY <1>3 DEF Records
<1> HIDE DEF rec
<1>8. Shape(rec) /\ ~Waits(rec)
  BY <1>3, <1>7 DEF Shape, Waits, Parked
<1>9. LedgerInv' /\ Moves(r, rec)
  BY <1>2, <1>3, <1>4, <1>6, <1>7, <1>8, QuietStep DEF s
<1>10. SeatInv'
  BY <1>2, <1>4, <1>7, <1>9, SeatsStand DEF s
<1> QED
  BY <1>5, <1>9, <1>10 DEF SlotInv

LEMMA JailEndsKeeps ==
  ASSUME SlotInv, NEW r \in Requests, JailEnds(r)
  PROVE  SlotInv'
<1> DEFINE s == th[r]
           ret == [s EXCEPT !.pc = "retry", !.tok = None]
           scn == [s EXCEPT !.pc = "rescan", !.at = 1, !.lane = None, !.idx = 0]
<1>1. s.pc = "jail" /\ UNCHANGED <<pool, jails>>
  BY DEF JailEnds, At
<1>2. LedgerInv /\ SeatInv /\ PoolOK
  BY DEF SlotInv
<1>3. /\ s \in Records /\ s.lane \in Lanes /\ s.lane \in AllLanes
      /\ s.tok = s.lane /\ ~Waits(s) /\ s.pos > 0
  BY <1>1, AdmittedHolds
<1>4. \/ Goto(r, ret) /\ LeaveFrame(r) /\ UNCHANGED ledger
      \/ Release(r, scn) /\ UNCHANGED seat
  BY DEF JailEnds
<1> HIDE DEF s
<1>5. CASE Goto(r, ret) /\ LeaveFrame(r) /\ UNCHANGED ledger
  <2>1. ret \in Records
    BY <1>3 DEF Records, PCs
  <2>2. ret.pc = "retry" /\ ret.lane = s.lane /\ ret.tok = None /\ ret.pos = s.pos
    BY <1>3 DEF Records
  <2> HIDE DEF ret
  <2>3. Shape(ret) /\ ~Waits(ret)
    BY <1>3, <2>2 DEF Shape, Waits, Parked
  <2>4. LedgerInv' /\ Moves(r, ret)
    BY <1>2, <1>3, <1>5, <2>1, <2>2, <2>3, QuietStep DEF s
  <2> QED
    BY <1>1, <1>5, <2>2, <2>4, SeatLeaving
<1>6. CASE Release(r, scn) /\ UNCHANGED seat
  <2>1. scn \in Records
    BY <1>3 DEF Records, PCs
  <2>2. /\ scn.pc = "rescan" /\ scn.lane = None /\ scn.tok = s.tok
        /\ scn.pos = s.pos /\ scn.at = 1
    BY <1>3 DEF Records
  <2> HIDE DEF scn
  <2>3. Shape(scn) /\ ~Waits(scn)
    BY <1>3, <2>2 DEF Shape, Waits, Parked
  <2>4. LedgerInv' /\ Moves(r, scn)
    BY <1>2, <1>3, <1>6, <2>1, <2>2, <2>3, ReleaseStep DEF s
  <2> QED
    BY <1>1, <1>6, <2>2, <2>4, SeatKeeping DEF s
<1> QED
  BY <1>4, <1>5, <1>6

LEMMA JailAbortedKeeps ==
  ASSUME SlotInv, NEW r \in Requests, JailAborted(r)
  PROVE  SlotInv'
<1>1. /\ th[r].pc \in {"ensure", "start", "jail"}
      /\ Release(r, Idle) /\ LeaveFrame(r) /\ UNCHANGED <<pool, jails>>
  BY DEF JailAborted, At
<1>2. th[r].lane \in AllLanes
  BY <1>1, AdmittedHolds
<1> QED
  BY <1>1, <1>2, IdleOK, GivesUp

LEMMA RetryKeeps ==
  ASSUME SlotInv, NEW r \in Requests, Retry(r)
  PROVE  SlotInv'
<1> DEFINE s == th[r]
           n == After(s, s.idx)
           top == [Next1(s) EXCEPT !.pos = 1, !.park = TRUE]
           fwd == [Next1(s) EXCEPT !.pos = n, !.park = TRUE]
           adm == [s EXCEPT !.pc = "admit", !.pos = n, !.park = TRUE]
<1>1. s \in Records /\ Shape(s) /\ s.pc = "retry"
  BY RequestOK DEF SlotInv, Retry, At
<1>2. LedgerInv /\ SeatInv /\ PoolOK
  BY DEF SlotInv
<1>3. /\ s.lane \in Lanes /\ s.lane \in AllLanes /\ s.tok = None /\ ~Waits(s)
      /\ s.pos > 0
  BY <1>1 DEF Shape, Waits, Parked, Walking, PCs, AllLanes
<1>4. UNCHANGED seat /\ UNCHANGED <<pool, jails>>
  BY DEF Retry
<1>5. LeaveFrame(r)
  BY <1>3, <1>4 DEF LeaveFrame
<1>6. n \in Nat /\ n > 0
  BY <1>1, AfterNat
<1>7. /\ Next1(s) \in Records
      /\ Next1(s).lane = None /\ Next1(s).tok = None /\ Next1(s).pc = "walk"
  BY <1>1, <1>3, NextOK
<1>8. \/ Release(r, Idle) \/ Release(r, top) \/ Release(r, fwd)
      \/ Goto(r, adm) /\ UNCHANGED ledger
  BY DEF Retry
<1> HIDE DEF s, n
<1>9. top \in Records /\ fwd \in Records
  BY <1>6, <1>7 DEF Records
<1>10. /\ top.pc = "walk" /\ top.lane = None /\ top.tok = None /\ top.pos > 0
       /\ fwd.pc = "walk" /\ fwd.lane = None /\ fwd.tok = None /\ fwd.pos > 0
  BY <1>6, <1>7 DEF Records
<1> HIDE DEF top, fwd
<1>11. Shape(top) /\ Shape(fwd) /\ ~Waits(top) /\ ~Waits(fwd)
  BY <1>10 DEF Shape, Waits, Parked
<1>12. CASE Release(r, Idle)
  BY <1>3, <1>4, <1>5, <1>12, IdleOK, GivesUp DEF s
<1>13. CASE Release(r, top)
  BY <1>3, <1>4, <1>5, <1>9, <1>10, <1>11, <1>13, GivesUp DEF s
<1>14. CASE Release(r, fwd)
  BY <1>3, <1>4, <1>5, <1>9, <1>10, <1>11, <1>14, GivesUp DEF s
<1>15. CASE Goto(r, adm) /\ UNCHANGED ledger
  <2>1. adm \in Records
    BY <1>1, <1>6 DEF Records, PCs
  <2>2. adm.pc = "admit" /\ adm.lane = s.lane /\ adm.tok = s.tok /\ adm.pos = n
    BY <1>1 DEF Records
  <2> HIDE DEF adm
  <2>3. Shape(adm) /\ ~Waits(adm)
    BY <1>3, <1>6, <2>2 DEF Shape, Waits, Parked
  <2>4. LedgerInv' /\ Moves(r, adm)
    BY <1>2, <1>3, <1>15, <2>1, <2>2, <2>3, QuietStep DEF s
  <2> QED
    BY <1>4, <2>2, <2>4, SeatKeeping DEF s
<1> QED
  BY <1>8, <1>12, <1>13, <1>14, <1>15

LEMMA EndTurnKeeps ==
  ASSUME SlotInv, NEW r \in Requests, EndTurn(r)
  PROVE  SlotInv'
<1> DEFINE s == th[r]
           rec == [s EXCEPT !.pc = "ending", !.tok = None]
<1>1. s \in Records /\ Shape(s) /\ s.pc = "turn"
  BY RequestOK DEF SlotInv, EndTurn, At
<1>2. LedgerInv /\ SeatInv /\ PoolOK
  BY DEF SlotInv
<1>3. s.lane \in AllLanes /\ s.tok = s.lane /\ ~Waits(s)
  BY <1>1 DEF Shape, Waits, Parked
<1>4. Goto(r, rec) /\ SeatDrop(s.tok) /\ UNCHANGED ledger /\ UNCHANGED <<pool, jails>>
  BY DEF EndTurn
<1> HIDE DEF s
<1>5. rec \in Records
  BY <1>1 DEF Records, PCs
<1>6. rec.pc = "ending" /\ rec.lane = s.lane /\ rec.tok = None
  BY <1>1 DEF Records
<1> HIDE DEF rec
<1>7. Shape(rec) /\ ~Waits(rec)
  BY <1>3, <1>6 DEF Shape, Waits, Parked, Walking
<1>8. LedgerInv' /\ Moves(r, rec)
  BY <1>2, <1>3, <1>4, <1>5, <1>6, <1>7, QuietStep DEF s
<1>9. SeatInv'
  BY <1>2, <1>3, <1>4, <1>6, <1>8, SeatDropped DEF s
<1> QED
  BY <1>2, <1>4, <1>8, <1>9, PoolStands DEF SlotInv

LEMMA EndSlotKeeps ==
  ASSUME SlotInv, NEW r \in Requests, EndSlot(r)
  PROVE  SlotInv'
<1>1. Shape(th[r]) /\ th[r].pc = "ending"
  BY RequestOK DEF SlotInv, EndSlot, At
<1>2. th[r].lane \in AllLanes /\ th[r].tok = None
  BY <1>1 DEF Shape
<1>3. Release(r, Idle) /\ UNCHANGED seat /\ UNCHANGED <<pool, jails>>
  BY DEF EndSlot
<1>4. LeaveFrame(r)
  BY <1>2, <1>3 DEF LeaveFrame
<1> QED
  BY <1>2, <1>3, <1>4, IdleOK, GivesUp

-----------------------------------------------------------------------------
(* Bridge requests.                                                        *)

LEMMA BridgeAcquireKeeps ==
  ASSUME SlotInv, NEW r \in Requests, BridgeAcquire(r)
  PROVE  SlotInv'
<1> DEFINE Got(b) == [Idle EXCEPT !.pc = "badmit", !.lane = b, !.tok = b]
           Wait(b) == [Idle EXCEPT !.pc = "bparked", !.tok = b]
<1>1. Shape(th[r]) /\ th[r].pc = "idle"
  BY RequestOK DEF SlotInv, BridgeAcquire, At
<1>2. LedgerInv /\ SeatInv /\ PoolOK
  BY DEF SlotInv
<1>3. th[r].lane = None /\ th[r].tok = None /\ ~Waits(th[r])
  BY <1>1 DEF Shape, Waits, Parked
<1>4. UNCHANGED <<pool, jails>>
  BY DEF BridgeAcquire
<1>5. PICK b \in Bridges :
        /\ SeatTake(b)
        /\ \/ laneq[b] = <<>> /\ Take(b) /\ Goto(r, Got(b))
           \/ /\ live[b] >= Cap \/ laneq[b] # <<>>
              /\ laneq' = [laneq EXCEPT ![b] = Append(laneq[b], r)]
              /\ Goto(r, Wait(b)) /\ UNCHANGED <<live, queue>>
  BY DEF BridgeAcquire
<1>6. b \in AllLanes
  BY DEF AllLanes
<1>7. CASE laneq[b] = <<>> /\ Take(b) /\ Goto(r, Got(b))
  <2> DEFINE rec == Got(b)
  <2>1. rec \in Records
    BY <1>6, IdleOK DEF Records, PCs
  <2>2. rec.pc = "badmit" /\ rec.lane = b /\ rec.tok = b
    BY IdleOK DEF Records
  <2>3. Goto(r, rec)
    BY <1>7
  <2> HIDE DEF rec
  <2>4. Shape(rec)
    BY <2>2 DEF Shape, Walking
  <2>5. LedgerInv' /\ Moves(r, rec)
    BY <1>2, <1>3, <1>6, <1>7, <2>1, <2>2, <2>3, <2>4, TakeStep
  <2>6. SeatInv'
    BY <1>2, <1>3, <1>5, <1>6, <2>2, <2>5, SeatTaken
  <2> QED
    BY <1>2, <1>4, <2>5, <2>6, PoolStands DEF SlotInv
<1>8. CASE /\ live[b] >= Cap \/ laneq[b] # <<>>
           /\ laneq' = [laneq EXCEPT ![b] = Append(laneq[b], r)]
           /\ Goto(r, Wait(b)) /\ UNCHANGED <<live, queue>>
  <2> DEFINE rec == Wait(b)
  <2>1. rec \in Records
    BY <1>6, IdleOK DEF Records, PCs
  <2>2. rec.pc = "bparked" /\ rec.lane = None /\ rec.tok = b
    BY IdleOK DEF Records
  <2>3. Goto(r, rec) /\ LaneQueue(b, Append(laneq[b], r))
    BY <1>8 DEF LaneQueue
  <2> HIDE DEF rec
  <2>4. Shape(rec) /\ ParkedAt(rec, b)
    BY <2>2 DEF Shape, ParkedAt, Walking
  <2>5. LedgerInv' /\ Moves(r, rec)
    BY <1>2, <1>3, <1>8, <2>1, <2>3, <2>4, BridgeParkStep
  <2>6. SeatInv'
    BY <1>2, <1>3, <1>5, <1>6, <2>2, <2>5, SeatTaken
  <2> QED
    BY <1>2, <1>4, <2>5, <2>6, PoolStands DEF SlotInv
<1> QED
  BY <1>5, <1>7, <1>8

LEMMA BridgeWakeKeeps ==
  ASSUME SlotInv, NEW r \in Requests, BridgeWake(r)
  PROVE  SlotInv'
<1> DEFINE s == th[r]
           rec == [s EXCEPT !.pc = "badmit"]
<1>1. s \in Records /\ Shape(s) /\ s.pc = "bparked" /\ s.lane # None
  BY RequestOK DEF SlotInv, BridgeWake, At
<1>2. s.tok \in Bridges /\ s.lane = s.tok /\ ~Waits(s)
  BY <1>1 DEF Shape, Waits, Parked
<1>3. Goto(r, rec) /\ UNCHANGED <<ledger, seat, pool, jails>>
  BY DEF BridgeWake
<1> HIDE DEF s
<1>4. rec \in Records
  BY <1>1 DEF Records, PCs
<1>5. rec.pc = "badmit" /\ rec.lane = s.lane /\ rec.tok = s.tok
  BY <1>1 DEF Records
<1> HIDE DEF rec
<1>6. Shape(rec) /\ ~Waits(rec)
  BY <1>2, <1>5 DEF Shape, Waits, Parked, Walking
<1> QED
  BY <1>2, <1>3, <1>4, <1>5, <1>6, Quietly DEF s

LEMMA BridgeGivesUpKeeps ==
  ASSUME SlotInv, NEW r \in Requests, BridgeGivesUp(r)
  PROVE  SlotInv'
<1> DEFINE b == th[r].tok
<1>1. Shape(th[r]) /\ th[r].pc = "bparked" /\ th[r].lane = None
  BY RequestOK DEF SlotInv, BridgeGivesUp, At
<1>2. LedgerInv /\ SeatInv /\ PoolOK
  BY DEF SlotInv
<1>3. b \in Bridges /\ b \in AllLanes /\ ParkedAt(th[r], b)
  BY <1>1 DEF Shape, ParkedAt, AllLanes
<1>4. /\ LaneQueue(b, Without(laneq[b], r)) /\ SeatDrop(b) /\ Goto(r, Idle)
      /\ UNCHANGED <<live, queue>> /\ UNCHANGED <<pool, jails>>
  BY DEF BridgeGivesUp, LaneQueue
<1> HIDE DEF b
<1>5. LedgerInv' /\ Moves(r, Idle)
  BY <1>2, <1>3, <1>4, IdleOK, BridgeUnparkStep
<1>6. SeatInv'
  BY <1>2, <1>3, <1>4, <1>5, IdleOK, SeatDropped DEF b
<1> QED
  BY <1>2, <1>4, <1>5, <1>6, PoolStands DEF SlotInv

LEMMA BridgeAdmitKeeps ==
  ASSUME SlotInv, NEW r \in Requests, BridgeAdmit(r)
  PROVE  SlotInv'
<1> DEFINE s == th[r]
           rec == [s EXCEPT !.pc = "turn"]
<1>1. s \in Records /\ Shape(s) /\ s.pc = "badmit"
  BY RequestOK DEF SlotInv, BridgeAdmit, At
<1>2. /\ s.tok \in AllLanes /\ s.lane \in AllLanes /\ s.lane = s.tok /\ ~Waits(s)
      /\ s.tok # None
  BY <1>1, ConstantsAssumption DEF Shape, Waits, Parked, AllLanes
<1>3. UNCHANGED <<pool, jails>>
  BY DEF BridgeAdmit
<1>4. \/ Goto(r, rec) /\ UNCHANGED <<ledger, seat>>
      \/ Release(r, Idle) /\ SeatDrop(s.tok)
  BY DEF BridgeAdmit
<1>5. CASE Goto(r, rec) /\ UNCHANGED <<ledger, seat>>
  <2>1. UNCHANGED <<ledger, seat, pool, jails>>
    BY <1>3, <1>5
  <2> HIDE DEF s
  <2>2. rec \in Records
    BY <1>1 DEF Records, PCs
  <2>3. rec.pc = "turn" /\ rec.lane = s.lane /\ rec.tok = s.tok
    BY <1>1 DEF Records
  <2> HIDE DEF rec
  <2>4. Shape(rec) /\ ~Waits(rec)
    BY <1>2, <2>3 DEF Shape, Waits, Parked, Walking
  <2> QED
    BY <1>2, <1>5, <2>1, <2>2, <2>3, <2>4, Quietly DEF s
<1>6. CASE Release(r, Idle) /\ SeatDrop(s.tok)
  <2>1. LeaveFrame(r)
    BY <1>2, <1>6 DEF LeaveFrame
  <2> QED
    BY <1>2, <1>3, <1>6, <2>1, IdleOK, GivesUp
<1> QED
  BY <1>4, <1>5, <1>6

LEMMA ContextDoneKeeps ==
  ASSUME SlotInv, NEW r \in Requests, ContextDone(r)
  PROVE  SlotInv'
<1> DEFINE rec == [th[r] EXCEPT !.dead = TRUE]
<1>1. LedgerInv /\ SeatInv /\ PoolOK /\ th[r] \in Records
  BY RequestOK DEF SlotInv
<1>2. Goto(r, rec) /\ UNCHANGED ledger /\ UNCHANGED seat /\ UNCHANGED <<pool, jails>>
  BY DEF ContextDone
<1>3. rec \in Records /\ rec.tok = th[r].tok
  BY <1>1 DEF Records
<1>4. LedgerInv' /\ Moves(r, rec)
  BY <1>1, <1>2, <1>3, DoneStep
<1> QED
  BY <1>2, <1>3, <1>4, SeatKeeping

-----------------------------------------------------------------------------
(* The surroundings.                                                       *)

\* A step of the surroundings that leaves the requests alone.
LEMMA Surrounded ==
  ASSUME SlotInv, UNCHANGED <<ledger, seat, th>>, PoolOK'
  PROVE  SlotInv'
<1>1. /\ live' = live /\ laneq' = laneq /\ queue' = queue /\ seat' = seat /\ th' = th
  BY DEF ledger
<1>2. HeldLanes' = HeldLanes /\ HeldSeats' = HeldSeats
  BY <1>1 DEF HeldLanes, HeldSeats
<1>3. LedgerInv'
  BY <1>1, <1>2 DEF SlotInv, LedgerInv, RequestsOK, Shapes, LedgerOK, BridgeConserves, QueuesOK
<1>4. SeatInv'
  BY <1>1, <1>2 DEF SlotInv, SeatInv
<1> QED
  BY <1>3, <1>4 DEF SlotInv

LEMMA RemovedAtSeq ==
  ASSUME roster \in Seq(Lanes), NEW i \in DOMAIN roster
  PROVE  RemovedAt(i) \in Seq(Lanes)
<1>1. Len(roster) - 1 \in Nat /\ i \in Nat
  OBVIOUS
<1>2. RemovedAt(i) \in [1..(Len(roster) - 1) -> Lanes]
  BY <1>1 DEF RemovedAt
<1> QED
  BY <1>1, <1>2

LEMMA MovedSeq ==
  ASSUME roster \in Seq(Lanes), NEW i \in DOMAIN roster, NEW j \in DOMAIN roster
  PROVE  Moved(i, j) \in Seq(Lanes)
<1>1. DOMAIN roster = 1..Len(roster) /\ Len(roster) \in Nat
  OBVIOUS
<1>2. ASSUME NEW k \in DOMAIN roster PROVE Moved(i, j)[k] \in Lanes
  <2>1. CASE k = j
    <3>1. Moved(i, j)[k] = roster[i]
      BY <1>1, <2>1 DEF Moved
    <3> QED
      BY <3>1
  <2>2. CASE i <= k /\ k < j
    <3>1. Moved(i, j)[k] = roster[k + 1] /\ k + 1 \in DOMAIN roster
      BY <1>1, <2>2 DEF Moved
    <3> QED
      BY <3>1
  <2>3. CASE j < k /\ k <= i
    <3>1. Moved(i, j)[k] = roster[k - 1] /\ k - 1 \in DOMAIN roster
      BY <1>1, <2>3 DEF Moved
    <3> QED
      BY <3>1
  <2>4. CASE k # j /\ ~(i <= k /\ k < j) /\ ~(j < k /\ k <= i)
    <3>1. Moved(i, j)[k] = roster[k]
      BY <1>1, <2>4 DEF Moved
    <3> QED
      BY <3>1
  <2> QED
    BY <2>1, <2>2, <2>3, <2>4
<1>3. Moved(i, j) = [k \in DOMAIN roster |-> Moved(i, j)[k]]
  BY DEF Moved
<1>4. Moved(i, j) \in [1..Len(roster) -> Lanes]
  BY <1>1, <1>2, <1>3
<1> QED
  BY <1>1, <1>4

LEMMA SurroundingsKeep ==
  ASSUME SlotInv,
         \/ GateMoves \/ SessionEnds
         \/ RemoveCheck \/ RemoveSwap \/ RemoveAllTokens \/ AddToken \/ Reorder
  PROVE  SlotInv'
<1>1. PoolOK
  BY DEF SlotInv
<1>2. CASE GateMoves
  <2>1. PoolOK' /\ UNCHANGED <<ledger, seat, th>>
    BY <1>1, <1>2, ConstantsAssumption DEF GateMoves, PoolOK
  <2> QED
    BY <2>1, Surrounded
<1>3. CASE SessionEnds
  <2>1. PoolOK' /\ UNCHANGED <<ledger, seat, th>>
    BY <1>1, <1>3 DEF SessionEnds, PoolOK
  <2> QED
    BY <2>1, Surrounded
<1>4. ASSUME RosterEdit PROVE edits' \in 0..MaxEdits
  BY <1>1, <1>4, ConstantsAssumption DEF RosterEdit, PoolOK
<1>5. CASE RemoveCheck
  <2>1. edit' \in [op : {"none", "last", "at"}, at : Nat]
    BY <1>1, <1>5 DEF RemoveCheck, PoolOK
  <2>2. PoolOK' /\ UNCHANGED <<ledger, seat, th>>
    BY <1>1, <1>4, <1>5, <2>1 DEF RemoveCheck, PoolOK
  <2> QED
    BY <2>2, Surrounded
<1>6. CASE RemoveSwap
  <2> DEFINE i == IF edit.op = "last" THEN Len(roster) ELSE edit.at
  <2>1. roster' = (IF i \in DOMAIN roster THEN RemovedAt(i) ELSE roster)
    BY <1>6 DEF RemoveSwap
  <2> HIDE DEF i
  <2>2. roster' \in Seq(Lanes)
    BY <1>1, <2>1, RemovedAtSeq DEF PoolOK
  <2>3. edit' \in [op : {"none", "last", "at"}, at : Nat]
    BY <1>6 DEF RemoveSwap, NoEdit
  <2>4. PoolOK' /\ UNCHANGED <<ledger, seat, th>>
    BY <1>1, <1>6, <2>2, <2>3 DEF RemoveSwap, PoolOK
  <2> QED
    BY <2>4, Surrounded
<1>7. CASE RemoveAllTokens
  <2>1. PoolOK' /\ UNCHANGED <<ledger, seat, th>>
    BY <1>1, <1>4, <1>7 DEF RemoveAllTokens, PoolOK
  <2> QED
    BY <2>1, Surrounded
<1>8. CASE AddToken
  <2>1. PICK l \in spare : roster' = Append(roster, l) /\ spare' = spare \ {l}
    BY <1>8 DEF AddToken
  <2>2. roster' \in Seq(Lanes) /\ spare' \subseteq Lanes
    BY <1>1, <2>1 DEF PoolOK
  <2>3. PoolOK' /\ UNCHANGED <<ledger, seat, th>>
    BY <1>1, <1>4, <1>8, <2>2 DEF AddToken, PoolOK
  <2> QED
    BY <2>3, Surrounded
<1>9. CASE Reorder
  <2>1. PICK i \in DOMAIN roster, j \in DOMAIN roster :
          \/ roster' = [roster EXCEPT ![i] = roster[j], ![j] = roster[i]]
          \/ roster' = Moved(i, j)
    BY <1>9 DEF Reorder
  <2>2. roster' \in Seq(Lanes)
    <3>1. roster \in Seq(Lanes)
      BY <1>1 DEF PoolOK
    <3>2. [roster EXCEPT ![i] = roster[j], ![j] = roster[i]] \in Seq(Lanes)
      BY <3>1
    <3>3. Moved(i, j) \in Seq(Lanes)
      BY <3>1, MovedSeq
    <3> QED
      BY <2>1, <3>2, <3>3
  <2>3. PoolOK' /\ UNCHANGED <<ledger, seat, th>>
    BY <1>1, <1>4, <1>9, <2>2 DEF Reorder, PoolOK
  <2> QED
    BY <2>3, Surrounded
<1> QED
  BY <1>2, <1>3, <1>5, <1>6, <1>7, <1>8, <1>9

-----------------------------------------------------------------------------
(* The theorems.                                                           *)

\* Nobody counts for any lane.
LEMMA NobodyCounts ==
  ASSUME NEW f, \A r \in Requests : f[r] = None,
         NEW n, \A l \in AllLanes : n[l] = 0
  PROVE  Tally(n, f)
<1> SUFFICES ASSUME NEW l \in AllLanes
             PROVE  n[l] = Cardinality({s \in Requests : f[s] = l})
  BY DEF Tally
<1>1. {s \in Requests : f[s] = l} = {}
  BY ConstantsAssumption
<1> QED
  BY <1>1, FS_EmptySet

LEMMA SlotInit ==
  ASSUME Init
  PROVE  SlotInv
<1>1. /\ live = [l \in AllLanes |-> 0] /\ laneq = [b \in Bridges |-> <<>>]
      /\ queue = <<>> /\ seat = [l \in AllLanes |-> 0]
      /\ th = [r \in Requests |-> Idle]
  BY DEF Init
<1>2. \A r \in Requests : th[r] = Idle
  BY <1>1
<1>3. RequestsOK
  BY <1>1, IdleOK DEF RequestsOK, Shapes
<1>4. /\ \A r \in Requests : HeldLanes[r] = None /\ HeldSeats[r] = None
      /\ \A l \in AllLanes : live[l] = 0 /\ seat[l] = 0
  BY <1>1, <1>2, IdleOK DEF HeldLanes, HeldSeats
<1>5. Tally(live, HeldLanes) /\ Tally(seat, HeldSeats)
  BY <1>4, NobodyCounts
<1>6. LedgerOK
  BY <1>1, <1>4, <1>5, ConstantsAssumption DEF LedgerOK, BridgeConserves
<1>7. /\ ~Parked(Idle) /\ \A b \in Bridges : ~ParkedAt(Idle, b)
      /\ \A r : ~Queued(<<>>, r) /\ Distinct(<<>>)
  BY DEF Parked, ParkedAt, Idle, Queued, Distinct
<1>8. QueuesOK
  BY <1>1, <1>2, <1>7 DEF QueuesOK
<1>9. SeatInv
  BY <1>1, <1>5 DEF SeatInv
<1>10. PoolOK
  BY ConstantsAssumption DEF Init, PoolOK, NoEdit
<1> QED
  BY <1>3, <1>6, <1>8, <1>9, <1>10 DEF SlotInv, LedgerInv

LEMMA InsideKeeps ==
  ASSUME SlotInv, NEW r \in Requests, Inside(r)
  PROVE  SlotInv'
<1>1. CASE ScanMiss(r) \/ ScanHit(r) \/ WalkOn(r) \/ WalkTake(r)
  BY <1>1, ScanMissKeeps, ScanHitKeeps, WalkOnKeeps, WalkTakeKeeps
<1>2. CASE Join(r) \/ Wake(r) \/ Timeout(r) \/ ParkAborted(r)
  BY <1>2, JoinKeeps, WakeKeeps, TimeoutKeeps, ParkAbortedKeeps
<1>3. CASE AdmitBegin(r) \/ SessionReady(r) \/ RunReady(r) \/ Refused(r)
  BY <1>3, AdmitBeginKeeps, SessionReadyKeeps, RunReadyKeeps, RefusedKeeps
<1>4. CASE Jailed(r) \/ JailEnds(r) \/ JailAborted(r) \/ Retry(r)
  BY <1>4, JailedKeeps, JailEndsKeeps, JailAbortedKeeps, RetryKeeps
<1>5. CASE BridgeWake(r) \/ BridgeGivesUp(r) \/ BridgeAdmit(r)
  BY <1>5, BridgeWakeKeeps, BridgeGivesUpKeeps, BridgeAdmitKeeps
<1> QED
  BY <1>1, <1>2, <1>3, <1>4, <1>5 DEF Inside

LEMMA SlotStep ==
  ASSUME SlotInv, [Next]_vars
  PROVE  SlotInv'
<1>1. CASE UNCHANGED vars
  <2>1. UNCHANGED <<ledger, seat, th>> /\ UNCHANGED <<pool, jails>>
    BY <1>1 DEF vars
  <2>2. PoolOK'
    BY <2>1, PoolStands DEF SlotInv
  <2> QED
    BY <2>1, <2>2, Surrounded
<1>2. ASSUME NEW r \in Requests,
             \/ Acquire(r) \/ BridgeAcquire(r) \/ Inside(r)
             \/ EndTurn(r) \/ EndSlot(r) \/ ContextDone(r)
      PROVE  SlotInv'
  BY <1>2, AcquireKeeps, BridgeAcquireKeeps, InsideKeeps, EndTurnKeeps, EndSlotKeeps,
     ContextDoneKeeps
<1>3. CASE \/ GateMoves \/ SessionEnds
           \/ RemoveCheck \/ RemoveSwap \/ RemoveAllTokens \/ AddToken \/ Reorder
  BY <1>3, SurroundingsKeep
<1> QED
  BY <1>1, <1>2, <1>3 DEF Next

\* The inductive invariant of the pool's slots.
THEOREM SlotsKept == Spec => []SlotInv
<1>1. Init => SlotInv
  BY SlotInit
<1>2. SlotInv /\ [Next]_vars => SlotInv'
  BY SlotStep
<1> QED
  BY <1>1, <1>2, PTL DEF Spec

\* Every variable of the pool's slots keeps its type.
THEOREM SlotTypeCorrect == Spec => []TypeOK
<1>1. SlotInv => TypeOK
  BY DEF SlotInv, LedgerInv, RequestsOK, LedgerOK, SeatInv, PoolOK, TypeOK
<1> QED
  BY <1>1, SlotsKept, PTL

\* The ledger and the seat counters count exactly what requests hold, and a
\* parked request is queued once: slotPermit.Release, handoffModelQueueLocked,
\* admitOnLane's deferred releases, the jail and every give-up.
THEOREM SlotsAreExact == Spec => []SlotsExact
<1>1. ASSUME SlotInv PROVE LedgerExact
  <2>1. ASSUME NEW l \in AllLanes PROVE live[l] = Cardinality(Holders(l)) /\ live[l] <= Cap
    <3>1. live[l] = Cardinality({r \in Requests : HeldLanes[r] = l}) /\ live[l] <= Cap
      BY <1>1 DEF SlotInv, LedgerInv, LedgerOK, Tally
    <3>2. {r \in Requests : HeldLanes[r] = l} = Holders(l)
      BY DEF HeldLanes, Holders
    <3> QED
      BY <3>1, <3>2
  <2> QED
    BY <2>1 DEF LedgerExact
<1>2. ASSUME SlotInv PROVE SeatExact
  <2>1. ASSUME NEW l \in AllLanes PROVE seat[l] = Cardinality({r \in Requests : th[r].tok = l})
    <3>1. seat[l] = Cardinality({r \in Requests : HeldSeats[r] = l})
      BY <1>2 DEF SlotInv, SeatInv, Tally
    <3>2. {r \in Requests : HeldSeats[r] = l} = {r \in Requests : th[r].tok = l}
      BY DEF HeldSeats
    <3> QED
      BY <3>1, <3>2
  <2>2. ASSUME NEW r \in Requests, th[r].pc \in {"ensure", "start", "jail", "turn", "badmit"}
        PROVE  th[r].tok = th[r].lane /\ th[r].lane # None
    <3>1. Shape(th[r])
      BY <1>2, RequestOK DEF SlotInv
    <3> QED
      BY <2>2, <3>1, ConstantsAssumption DEF Shape, AllLanes
  <2> QED
    BY <2>1, <2>2 DEF SeatExact
<1>3. ASSUME SlotInv PROVE EachWaiterOnce
  <2>1. QueuesOK /\ queue \in Seq(Requests) /\ laneq \in [Bridges -> Seq(Requests)]
    BY <1>3 DEF SlotInv, LedgerInv, LedgerOK
  <2>2. \A i \in DOMAIN queue : queue[i] \in Requests /\ Queued(queue, queue[i])
    BY <2>1 DEF Queued
  <2>3. \A i \in DOMAIN queue : Parked(th[queue[i]])
    BY <2>1, <2>2 DEF QueuesOK
  <2>4. ASSUME NEW b \in Bridges, NEW r \in Requests
        PROVE  (At(r, "bparked") /\ th[r].tok = b /\ th[r].lane = None)
                 <=> \E i \in DOMAIN laneq[b] : laneq[b][i] = r
    BY <2>1 DEF QueuesOK, ParkedAt, Queued, At
  <2>5. ASSUME NEW r \in Requests,
               th[r].pc \in {"parked", "reparked"} /\ th[r].lane = None /\ ~th[r].dead
        PROVE  \E i \in DOMAIN queue : queue[i] = r
    BY <2>1, <2>5 DEF QueuesOK, Parked, Queued
  <2> QED
    BY <2>1, <2>3, <2>4, <2>5 DEF EachWaiterOnce, QueuesOK, Distinct, Parked
<1>4. SlotInv => SlotsExact
  BY <1>1, <1>2, <1>3 DEF SlotsExact
<1> QED
  BY <1>4, SlotsKept, PTL

\* slotPermit.Release hands a bridge slot to a waiter before the ledger: a
\* bridge lane with waiters has no slot free.
THEOREM BridgeNeverIdles == Spec => []BridgeConserves
<1>1. SlotInv => BridgeConserves
  BY DEF SlotInv, LedgerInv, LedgerOK
<1> QED
  BY <1>1, SlotsKept, PTL

-----------------------------------------------------------------------------
(***************************************************************************)
(* The order of the accounts (Ordering)                                    *)
(***************************************************************************)

\* A remainder is what is left after the full days; it starts over after one.
LEMMA Remainder ==
  ASSUME NEW n \in Nat \ {0}, NEW x \in Int
  PROVE  /\ x % n \in 0 .. (n - 1) /\ x \div n \in Int /\ x = n * (x \div n) + (x % n)
OBVIOUS

LEMMA RemainderIs ==
  ASSUME NEW n \in Nat \ {0}, NEW x \in Int, NEW q \in Int, NEW r \in 0 .. (n - 1), x = n * q + r
  PROVE  x % n = r
<1>1. x % n \in 0 .. (n - 1) /\ x \div n \in Int /\ x = n * (x \div n) + (x % n)
  BY Remainder
<1> DEFINE k == x \div n  m == x % n
<1>2. k \in Int /\ m \in 0 .. (n - 1) /\ n * k + m = n * q + r
  BY <1>1
<1> HIDE DEF k, m
<1>3. n * (k - q) = r - m
  BY <1>2
<1>4. CASE k - q >= 1
  <2>1. n * (k - q) >= n
    BY <1>2, <1>4
  <2> QED
    BY <1>2, <1>3, <2>1
<1>5. CASE k - q <= -1
  <2>1. n * (k - q) <= -n
    BY <1>2, <1>5
  <2> QED
    BY <1>2, <1>3, <2>1
<1>6. CASE k = q
  BY <1>2, <1>6 DEF m
<1> QED
  BY <1>2, <1>4, <1>5, <1>6

LEMMA RemainderNear ==
  ASSUME NEW n \in Nat \ {0}, NEW x \in 0 .. (2 * n - 1)
  PROVE  x % n = IF x < n THEN x ELSE x - n
<1>1. CASE x < n
  <2>1. x = n * 0 + x /\ x \in 0 .. (n - 1) /\ 0 \in Int
    BY <1>1
  <2> QED
    BY <1>1, <2>1, RemainderIs
<1>2. CASE ~(x < n)
  <2>1. x = n * 1 + (x - n) /\ x - n \in 0 .. (n - 1) /\ 1 \in Int
    BY <1>2
  <2> QED
    BY <1>2, <2>1, RemainderIs
<1> QED
  BY <1>1, <1>2

\* The order of the failover starts with a slot and names every slot once.
LEMMA AroundIs ==
  ASSUME NEW start \in Tokens
  PROVE  Around(start) \in Seq(Tokens) /\ IsInjective(Around(start)) /\ ToSet(Around(start)) = Tokens
<1>1. Size \in Nat \ {0} /\ Tokens = 1 .. Size /\ start \in 1 .. Size
  BY OrderingAssumption DEF Size
<1> DEFINE at(i) == IF start + i - 2 < Size THEN start + i - 1 ELSE start + i - 1 - Size
<1>2. \A i \in 1 .. Size : 1 + ((start + i - 2) % Size) = at(i)
  <2>1. ASSUME NEW i \in 1 .. Size PROVE 1 + ((start + i - 2) % Size) = at(i)
    <3> DEFINE x == start + i - 2
    <3>1. x \in 0 .. (2 * Size - 1)
      BY <1>1
    <3> HIDE DEF x
    <3>2. x % Size = IF x < Size THEN x ELSE x - Size
      BY <1>1, <3>1, RemainderNear
    <3> QED
      BY <1>1, <3>2 DEF x
  <2> QED
    BY <2>1
<1>3. Around(start) = [i \in 1 .. Size |-> at(i)]
  BY <1>2 DEF Around
<1>4. \A i \in 1 .. Size : at(i) \in 1 .. Size
  BY <1>1
<1>5. \A i, j \in 1 .. Size : at(i) = at(j) => i = j
  BY <1>1
<1>6. ASSUME NEW t \in 1 .. Size PROVE \E i \in 1 .. Size : at(i) = t
  <2>1. CASE t >= start
    <3>1. t - start + 1 \in 1 .. Size /\ at(t - start + 1) = t
      BY <1>1, <2>1
    <3> QED
      BY <3>1
  <2>2. CASE ~(t >= start)
    <3>1. t - start + 1 + Size \in 1 .. Size /\ at(t - start + 1 + Size) = t
      BY <1>1, <2>2
    <3> QED
      BY <3>1
  <2> QED
    BY <2>1, <2>2
<1> DEFINE s == Around(start)
<1>7. s \in Seq(Tokens) /\ DOMAIN s = 1 .. Size /\ \A i \in 1 .. Size : s[i] = at(i)
  BY <1>1, <1>3, <1>4
<1> HIDE DEF s, at
<1>8. IsInjective(s)
  BY <1>5, <1>7 DEF IsInjective
<1>9. ToSet(s) = Tokens
  <2>1. ASSUME NEW t \in Tokens PROVE t \in ToSet(s)
    <3>1. PICK i \in 1 .. Size : at(i) = t
      BY <1>1, <1>6
    <3> QED
      BY <1>7, <3>1 DEF ToSet
  <2>2. ASSUME NEW t \in ToSet(s) PROVE t \in Tokens
    BY <1>1, <1>4, <1>7, <2>2 DEF ToSet
  <2> QED
    BY <2>1, <2>2
<1> QED
  BY <1>7, <1>8, <1>9 DEF s

\* A list in another order names the same, and each as often.
LEMMA RearrangedIs ==
  ASSUME NEW S, NEW s \in Seq(S), NEW w \in Orders(Len(s))
  PROVE  /\ Rearranged(s, w) \in Seq(S) /\ ToSet(Rearranged(s, w)) = ToSet(s)
         /\ IsInjective(s) => IsInjective(Rearranged(s, w))
<1> DEFINE n == Len(s)  q == Rearranged(s, w)
<1>1. n \in Nat /\ DOMAIN s = 1 .. n /\ w \in [1 .. n -> 1 .. n] /\ IsInjective(w)
  BY DEF Orders, IsInjective
<1>2. \A t \in 1 .. n : \E i \in 1 .. n : w[i] = t
  <2>1. w \in Injection(1 .. n, 1 .. n)
    BY <1>1 DEF Injection
  <2>2. IsFiniteSet(1 .. n)
    BY <1>1, FS_Interval
  <2>3. w \in Surjection(1 .. n, 1 .. n)
    BY <2>1, <2>2, FS_Injection
  <2> QED
    BY <2>3 DEF Surjection
<1>3. q = [i \in 1 .. n |-> s[w[i]]]
  BY DEF Rearranged
<1>4. q \in Seq(S) /\ DOMAIN q = 1 .. n /\ \A i \in 1 .. n : q[i] = s[w[i]]
  <2>1. \A i \in 1 .. n : s[w[i]] \in S
    BY <1>1
  <2> QED
    BY <1>1, <1>3, <2>1
<1> HIDE DEF n, q
<1>5. ToSet(q) = ToSet(s)
  BY <1>1, <1>2, <1>4 DEF ToSet
<1>6. IsInjective(s) => IsInjective(q)
  BY <1>1, <1>4 DEF IsInjective
<1> QED
  BY <1>4, <1>5, <1>6 DEF q

LEMMA SortedIs ==
  ASSUME NEW S, NEW s \in Seq(S), NEW before, NEW q \in SliceStable(s, before)
  PROVE  /\ q \in Seq(S) /\ ToSet(q) = ToSet(s)
         /\ IsInjective(s) => IsInjective(q)
<1>1. PICK w \in Orders(Len(s)) : q = Rearranged(s, w)
  <2> DEFINE Less(i, j) == <<s[i], s[j]>> \in before \/ (<<s[j], s[i]>> \notin before /\ i < j)
             sorted == {w \in Orders(Len(s)) : \A i, j \in 1 .. Len(s) : i < j => Less(w[i], w[j])}
             those == IF sorted # {} THEN sorted ELSE Orders(Len(s))
  <2>1. PICK w \in those : q = Rearranged(s, w)
    BY DEF SliceStable
  <2>2. w \in Orders(Len(s))
    OBVIOUS
  <2> QED
    BY <2>1, <2>2
<1> QED
  BY <1>1, RearrangedIs

\* Two lists one after the other.
LEMMA JoinedIs ==
  ASSUME NEW S, NEW s \in Seq(S), NEW q \in Seq(S)
  PROVE  /\ s \o q \in Seq(S) /\ ToSet(s \o q) = ToSet(s) \cup ToSet(q)
         /\ IsInjective(s) /\ IsInjective(q) /\ ToSet(s) \cap ToSet(q) = {} => IsInjective(s \o q)
<1> DEFINE w == s \o q  n == Len(s)  m == Len(q)
<1>1. n \in Nat /\ m \in Nat /\ DOMAIN s = 1 .. n /\ DOMAIN q = 1 .. m
  OBVIOUS
<1>2. w \in Seq(S) /\ DOMAIN w = 1 .. (n + m)
  OBVIOUS
<1>3. \A i \in 1 .. n : w[i] = s[i] /\ i \in DOMAIN w
  OBVIOUS
<1>4. \A i \in 1 .. m : w[n + i] = q[i] /\ n + i \in DOMAIN w
  OBVIOUS
<1>5. \A i \in DOMAIN w : i \in 1 .. n \/ (i - n \in 1 .. m /\ w[i] = q[i - n])
  OBVIOUS
<1> HIDE DEF w, n, m
<1>6. ToSet(w) = ToSet(s) \cup ToSet(q)
  <2>1. ASSUME NEW a \in ToSet(w) PROVE a \in ToSet(s) \cup ToSet(q)
    <3>1. PICK i \in DOMAIN w : a = w[i]
      BY <2>1 DEF ToSet
    <3> QED
      BY <1>1, <1>3, <1>5, <3>1 DEF ToSet
  <2>2. ASSUME NEW a \in ToSet(s) PROVE a \in ToSet(w)
    BY <1>1, <1>3, <2>2 DEF ToSet
  <2>3. ASSUME NEW a \in ToSet(q) PROVE a \in ToSet(w)
    BY <1>1, <1>4, <2>3 DEF ToSet
  <2> QED
    BY <2>1, <2>2, <2>3
<1>7. ASSUME IsInjective(s), IsInjective(q), ToSet(s) \cap ToSet(q) = {} PROVE IsInjective(w)
  <2>1. ASSUME NEW i \in DOMAIN w, NEW j \in DOMAIN w, w[i] = w[j] PROVE i = j
    <3>1. i \in Int /\ j \in Int
      BY <1>1, <1>2
    <3>2. CASE i \in 1 .. n /\ j \in 1 .. n
      BY <1>1, <1>3, <1>7, <2>1, <3>2 DEF IsInjective
    <3>3. CASE i \notin 1 .. n /\ j \notin 1 .. n
      <4>1. i - n = j - n
        BY <1>1, <1>5, <1>7, <2>1, <3>3 DEF IsInjective
      <4> QED
        BY <1>1, <3>1, <4>1
    <3>4. CASE i \in 1 .. n /\ j \notin 1 .. n
      <4>1. w[i] \in ToSet(s) /\ w[j] \in ToSet(q)
        BY <1>1, <1>3, <1>5, <3>4 DEF ToSet
      <4> QED
        BY <1>7, <2>1, <4>1
    <3>5. CASE i \notin 1 .. n /\ j \in 1 .. n
      <4>1. w[j] \in ToSet(s) /\ w[i] \in ToSet(q)
        BY <1>1, <1>3, <1>5, <3>5 DEF ToSet
      <4> QED
        BY <1>7, <2>1, <4>1
    <3> QED
      BY <3>2, <3>3, <3>4, <3>5
  <2> QED
    BY <2>1 DEF IsInjective
<1> QED
  BY <1>2, <1>6, <1>7 DEF w

-----------------------------------------------------------------------------
(* The pass.                                                               *)

PassFields == {"pc", "start", "rotation", "autoRotate", "hot", "order", "reported"}

\* A list of accounts without repetition that names every account eligible so far.
Complete(s) ==
  /\ s \in Seq(Tokens) /\ IsInjective(s)
  /\ \A t \in Tokens : was[t] => t \in ToSet(s)

PassInv ==
  /\ DOMAIN acct = Tokens /\ was = [t \in Tokens |-> was[t]]
  /\ DOMAIN pass = PassFields
  /\ pass.pc \in {"none", "arrange", "demote", "sort", "report", "done"}
  /\ pass.pc # "none" => pass.start \in Tokens /\ pass.rotation \in Rotations
  /\ pass.pc # "done" => \A t \in Tokens : was[t] => eligible(t)
  /\ pass.pc = "arrange" => Complete(pass.hot)
  /\ pass.pc \in {"demote", "sort", "report", "done"} => Complete(pass.order)

LEMMA PassStarts == OrderingInit => PassInv
<1> SUFFICES ASSUME OrderingInit PROVE PassInv
  OBVIOUS
<1>1. acct = [t \in Tokens |-> FreshAccount] /\ pass = NoPass /\ was = [t \in Tokens |-> TRUE]
  BY DEF OrderingInit
<1>2. DOMAIN pass = PassFields /\ pass.pc = "none"
  BY <1>1 DEF NoPass, PassFields
<1>3. \A t \in Tokens : eligible(t)
  BY <1>1 DEF eligible, FreshAccount
<1> QED
  BY <1>1, <1>2, <1>3 DEF PassInv

\* An account that was eligible and still is, is found by whoever looks it up.
LEMMA KeptComplete ==
  ASSUME NEW s \in Seq(Tokens), IsInjective(s), ToSet(s) = Tokens,
         \A t \in Tokens : was[t] => eligible(t)
  PROVE  Complete(KeptAmong(s, Eligible)) /\ ToSet(KeptAmong(s, Eligible)) = Eligible
<1>1. /\ KeptAmong(s, Eligible) \in Seq(Tokens) /\ ToSet(KeptAmong(s, Eligible)) = ToSet(s) \cap Eligible
      /\ IsInjective(KeptAmong(s, Eligible))
  BY KeptIs
<1>2. \A t \in Tokens : was[t] => t \in Eligible
  BY DEF Eligible
<1> QED
  BY <1>1, <1>2 DEF Complete, Eligible

\* Another order of a complete list is complete.
LEMMA CompleteAgain ==
  ASSUME NEW s, Complete(s), NEW q \in Seq(Tokens), IsInjective(q), ToSet(q) = ToSet(s)
  PROVE  Complete(q)
BY DEF Complete

LEMMA ChangeComplete ==
  ASSUME PassInv, NEW t \in Tokens, AccountChanges(t)
  PROVE  PassInv'
<1>1. /\ pass.pc # "done" /\ pass' = pass /\ DOMAIN acct = Tokens /\ was = [u \in Tokens |-> was[u]]
      /\ was' = [was EXCEPT ![t] = @ /\ eligible(t)']
  BY DEF AccountChanges, PassInv
<1>2. PICK a : acct' = [acct EXCEPT ![t] = a]
  BY DEF AccountChanges
<1>3. DOMAIN acct' = Tokens /\ \A u \in Tokens : u # t => acct'[u] = acct[u]
  BY <1>1, <1>2
<1>4. was' = [u \in Tokens |-> IF u = t THEN was[t] /\ eligible(t)' ELSE was[u]]
  BY <1>1
<1>5. \A u \in Tokens : was'[u] => was[u] /\ (u = t => eligible(t)')
  BY <1>4
<1>6. \A u \in Tokens : was'[u] => eligible(u)'
  <2>1. ASSUME NEW u \in Tokens, was'[u] PROVE eligible(u)'
    <3>1. CASE u = t
      BY <1>5, <2>1, <3>1
    <3>2. CASE u # t
      <4>1. eligible(u)
        BY <1>1, <1>5, <2>1 DEF PassInv
      <4> QED
        BY <1>3, <3>2, <4>1 DEF eligible
    <3> QED
      BY <3>1, <3>2
  <2> QED
    BY <2>1
<1>7. was' = [u \in Tokens |-> was'[u]]
  BY <1>4
<1>8. \A s : Complete(s) => Complete(s)'
  BY <1>5 DEF Complete
<1>9. pass.pc = "arrange" => Complete(pass.hot)'
  BY <1>1, <1>8 DEF PassInv
<1>10. pass.pc \in {"demote", "sort", "report", "done"} => Complete(pass.order)'
  BY <1>1, <1>8 DEF PassInv
<1> QED
  BY <1>1, <1>3, <1>6, <1>7, <1>9, <1>10 DEF PassInv, Complete

LEMMA ClassifyComplete ==
  ASSUME PassInv, NEW start \in Tokens, NEW admitting, NEW last,
         Classify(start, admitting, last)
  PROVE  PassInv'
<1> DEFINE HasLive(t) == acct[t].live # "cold" \/ acct[t].refreshing \/ admitting = t
           Match(t) == HasLive(t) /\ (acct[t].live # "other" \/ admitting = t)
           Of(those) == KeptAmong(Around(start), Eligible \cap those)
           matching == {t \in Tokens : Match(t)}
           cold == {t \in Tokens : ~HasLive(t)}
           others == Tokens \ (matching \cup cold)
           Parks(t) == acct[t].refreshing \/ admitting = t
           Before(a, b) ==
             IF Parks(a) # Parks(b) THEN Parks(a)
             ELSE IF acct[a].balance > 0 /\ acct[b].balance > 0 /\ acct[a].balance # acct[b].balance
                    THEN acct[a].balance < acct[b].balance
             ELSE IF last \in {a, b} THEN a = last
             ELSE a < b
           before == {p \in Tokens \X Tokens : Before(p[1], p[2])}
<1>1. PICK hot \in SliceStable(Of(matching), before), rotation \in Rotations, autoRotate \in BOOLEAN :
        pass' = [NoPass EXCEPT !.pc = "arrange", !.start = start, !.rotation = rotation,
                   !.autoRotate = autoRotate, !.hot = hot \o Of(cold) \o Of(others)]
  BY DEF Classify
<1>2. DOMAIN acct = Tokens /\ acct' = acct /\ was' = [t \in Tokens |-> eligible(t)]
  BY DEF Classify, PassInv
<1>3. matching \cap cold = {} /\ matching \cup cold \cup others = Tokens
  OBVIOUS
<1> HIDE DEF matching, cold, before
<1>4. Around(start) \in Seq(Tokens) /\ IsInjective(Around(start)) /\ ToSet(Around(start)) = Tokens
  BY AroundIs
<1>5. \A those : Of(those) \in Seq(Tokens) /\ IsInjective(Of(those)) /\ ToSet(Of(those)) = Tokens \cap Eligible \cap those
  <2>1. ASSUME NEW those
        PROVE  Of(those) \in Seq(Tokens) /\ IsInjective(Of(those)) /\ ToSet(Of(those)) = Tokens \cap (Eligible \cap those)
    BY <1>4, KeptIs
  <2> QED
    BY <2>1
<1> DEFINE s1 == Of(matching)  s2 == Of(cold)  s3 == Of(others)
<1>6. /\ s1 \in Seq(Tokens) /\ IsInjective(s1) /\ ToSet(s1) = Tokens \cap Eligible \cap matching
      /\ s2 \in Seq(Tokens) /\ IsInjective(s2) /\ ToSet(s2) = Tokens \cap Eligible \cap cold
      /\ s3 \in Seq(Tokens) /\ IsInjective(s3) /\ ToSet(s3) = Tokens \cap Eligible \cap others
  BY <1>5
<1>7. hot \in SliceStable(s1, before) /\ pass'.hot = hot \o s2 \o s3
  BY <1>1 DEF NoPass
<1> HIDE DEF s1, s2, s3
<1>8. hot \in Seq(Tokens) /\ IsInjective(hot) /\ ToSet(hot) = ToSet(s1)
  <2>1. hot \in Seq(Tokens) /\ ToSet(hot) = ToSet(s1) /\ (IsInjective(s1) => IsInjective(hot))
    BY ONLY <1>6, <1>7, SortedIs
  <2> QED
    BY <1>6, <2>1
<1> DEFINE q == hot \o s2
<1>9. q \in Seq(Tokens) /\ ToSet(q) = ToSet(hot) \cup ToSet(s2) /\ IsInjective(q)
  <2>1. ToSet(hot) \cap ToSet(s2) = {}
    BY <1>3, <1>6, <1>8
  <2> QED
    BY <1>6, <1>8, <2>1, JoinedIs
<1> HIDE DEF q
<1>10. q \o s3 \in Seq(Tokens) /\ ToSet(q \o s3) = ToSet(q) \cup ToSet(s3) /\ IsInjective(q \o s3)
  <2>1. ToSet(q) \cap ToSet(s3) = {}
    BY <1>3, <1>6, <1>8, <1>9
  <2> QED
    BY <1>6, <1>9, <2>1, JoinedIs
<1>11. pass'.hot = q \o s3
  BY <1>7 DEF q
<1>12. ToSet(q \o s3) = Eligible
  <2>1. Eligible \subseteq Tokens
    BY DEF Eligible
  <2> QED
    BY <1>3, <1>6, <1>8, <1>9, <1>10, <2>1
<1>13. Complete(pass.hot)'
  BY <1>2, <1>10, <1>11, <1>12 DEF Complete, Eligible
<1>14. DOMAIN pass' = PassFields /\ pass'.pc = "arrange" /\ pass'.start = start /\ pass'.rotation = rotation
  BY <1>1 DEF NoPass, PassFields
<1>15. \A t \in Tokens : was'[t] => eligible(t)'
  BY <1>2 DEF eligible
<1>16. was' = [t \in Tokens |-> was'[t]]
  BY <1>2
<1> QED
  BY <1>2, <1>13, <1>14, <1>15, <1>16 DEF PassInv

LEMMA ArrangeComplete ==
  ASSUME PassInv, Arrange
  PROVE  PassInv'
<1>1. PICK order \in Arranged : pass' = [pass EXCEPT !.pc = "demote", !.order = order, !.hot = << >>]
  BY DEF Arrange
<1>2. /\ acct' = acct /\ was' = was /\ pass.pc = "arrange" /\ pass.start \in Tokens /\ pass.rotation \in Rotations
      /\ Complete(pass.hot) /\ \A t \in Tokens : was[t] => eligible(t)
  BY DEF Arrange, PassInv
<1>3. 1 \in Tokens
  BY <1>2, OrderingAssumption
<1> DEFINE judged == KeptAmong(Around(1), Eligible)
           before == {p \in Tokens \X Tokens : Fuller(p[1], p[2])}
<1>4. Complete(judged) /\ Complete(KeptAmong(Around(pass.start), Eligible))
  BY <1>2, <1>3, AroundIs, KeptComplete
<1>5. Arranged = CASE pass.rotation = "drain" -> {pass.hot}
                   [] pass.rotation = "round_robin" -> {KeptAmong(Around(pass.start), Eligible)}
                   [] pass.rotation = "least_used" -> SliceStable(judged, before)
                   [] pass.rotation = "random" -> {Rearranged(judged, w) : w \in Orders(Len(judged))}
  BY DEF Arranged
<1> HIDE DEF judged, before
<1>6. judged \in Seq(Tokens) /\ IsInjective(judged)
  BY <1>4 DEF Complete
<1>7. Complete(order)
  <2>1. CASE pass.rotation = "drain"
    BY <1>1, <1>2, <1>5, <2>1
  <2>2. CASE pass.rotation = "round_robin"
    BY <1>1, <1>4, <1>5, <2>2
  <2>3. CASE pass.rotation = "least_used"
    <3>1. order \in SliceStable(judged, before)
      BY <1>1, <1>5, <2>3
    <3>2. order \in Seq(Tokens) /\ ToSet(order) = ToSet(judged) /\ (IsInjective(judged) => IsInjective(order))
      BY ONLY <1>6, <3>1, SortedIs
    <3> QED
      BY <1>4, <1>6, <3>2, CompleteAgain
  <2>4. CASE pass.rotation = "random"
    <3>1. order \in {Rearranged(judged, w) : w \in Orders(Len(judged))}
      BY <1>1, <1>5, <2>4
    <3>2. PICK w \in Orders(Len(judged)) : order = Rearranged(judged, w)
      BY <3>1
    <3>3. order \in Seq(Tokens) /\ ToSet(order) = ToSet(judged) /\ (IsInjective(judged) => IsInjective(order))
      BY ONLY <1>6, <3>2, RearrangedIs
    <3> QED
      BY <1>4, <1>6, <3>3, CompleteAgain
  <2> QED
    BY <1>2, <2>1, <2>2, <2>3, <2>4 DEF Rotations
<1>8. DOMAIN pass' = PassFields /\ pass'.pc = "demote" /\ pass'.order = order /\ pass'.start = pass.start
      /\ pass'.rotation = pass.rotation
  BY <1>1 DEF PassInv, PassFields
<1>9. Complete(pass.order)'
  BY <1>2, <1>7, <1>8 DEF Complete
<1>10. \A t \in Tokens : was'[t] => eligible(t)'
  BY <1>2 DEF eligible
<1> QED
  BY <1>2, <1>8, <1>9, <1>10 DEF PassInv

LEMMA DemoteComplete ==
  ASSUME PassInv, Demote
  PROVE  PassInv'
<1> DEFINE order == IF pass.autoRotate THEN KeptAmong(pass.order, Tokens \ Spent) \o KeptAmong(pass.order, Spent)
                    ELSE pass.order
<1>1. pass' = [pass EXCEPT !.pc = "sort", !.order = order]
  BY DEF Demote
<1>2. /\ acct' = acct /\ was' = was /\ pass.pc = "demote" /\ pass.start \in Tokens /\ pass.rotation \in Rotations
      /\ Complete(pass.order) /\ \A t \in Tokens : was[t] => eligible(t)
  BY DEF Demote, PassInv
<1> DEFINE s == KeptAmong(pass.order, Tokens \ Spent)  q == KeptAmong(pass.order, Spent)
<1>3. pass.order \in Seq(Tokens) /\ IsInjective(pass.order)
  BY <1>2 DEF Complete
<1>4. s \in Seq(Tokens) /\ ToSet(s) = ToSet(pass.order) \cap (Tokens \ Spent) /\ IsInjective(s)
  BY <1>3, KeptIs
<1>5. q \in Seq(Tokens) /\ ToSet(q) = ToSet(pass.order) \cap Spent /\ IsInjective(q)
  BY <1>3, KeptIs
<1>6. order = IF pass.autoRotate THEN s \o q ELSE pass.order
  OBVIOUS
<1>7. ToSet(pass.order) \subseteq Tokens
  BY <1>3 DEF ToSet
<1> HIDE DEF s, q, order
<1>8. s \o q \in Seq(Tokens) /\ ToSet(s \o q) = ToSet(pass.order) /\ IsInjective(s \o q)
  <2>1. ToSet(s) \cap ToSet(q) = {}
    BY <1>4, <1>5
  <2>2. s \o q \in Seq(Tokens) /\ ToSet(s \o q) = ToSet(s) \cup ToSet(q) /\ IsInjective(s \o q)
    BY <1>4, <1>5, <2>1, JoinedIs
  <2> QED
    BY <1>4, <1>5, <1>7, <2>2
<1>9. Complete(order)
  BY <1>2, <1>6, <1>8, CompleteAgain
<1>10. DOMAIN pass' = PassFields /\ pass'.pc = "sort" /\ pass'.order = order /\ pass'.start = pass.start
       /\ pass'.rotation = pass.rotation
  BY <1>1 DEF PassInv, PassFields
<1>11. Complete(pass.order)'
  BY <1>2, <1>9, <1>10 DEF Complete
<1>12. \A t \in Tokens : was'[t] => eligible(t)'
  BY <1>2 DEF eligible
<1> QED
  BY <1>2, <1>10, <1>11, <1>12 DEF PassInv

LEMMA SortComplete ==
  ASSUME PassInv, Sort
  PROVE  PassInv'
<1>1. /\ acct' = acct /\ was' = was /\ pass.pc = "sort" /\ pass.start \in Tokens /\ pass.rotation \in Rotations
      /\ Complete(pass.order) /\ \A t \in Tokens : was[t] => eligible(t)
  BY DEF Sort, PassInv
<1>2. \E order : /\ Complete(order)
                  /\ \E pc \in {"done", "report"} : pass' = [pass EXCEPT !.pc = pc, !.order = order]
  <2>1. Complete(Around(pass.start))
    BY <1>1, AroundIs DEF Complete
  <2>2. ASSUME pass.order # << >>,
               NEW order \in SliceStable(pass.order, {p \in Tokens \X Tokens : ServesSooner(p[1], p[2])}),
               pass' = [pass EXCEPT !.pc = "report", !.order = order]
        PROVE  Complete(order)
    <3> DEFINE before == {p \in Tokens \X Tokens : ServesSooner(p[1], p[2])}
    <3>1. pass.order \in Seq(Tokens) /\ IsInjective(pass.order) /\ order \in SliceStable(pass.order, before)
      BY <1>1 DEF Complete
    <3> HIDE DEF before
    <3>2. /\ order \in Seq(Tokens) /\ ToSet(order) = ToSet(pass.order)
          /\ (IsInjective(pass.order) => IsInjective(order))
      BY ONLY <3>1, SortedIs
    <3> QED
      BY <1>1, <3>1, <3>2, CompleteAgain
  <2> QED
    BY <2>1, <2>2, Zenon DEF Sort
<1>3. PICK order : /\ Complete(order)
                   /\ \E pc \in {"done", "report"} : pass' = [pass EXCEPT !.pc = pc, !.order = order]
  BY <1>2
<1>4. PICK pc \in {"done", "report"} : pass' = [pass EXCEPT !.pc = pc, !.order = order]
  BY <1>3
<1>5. DOMAIN pass' = PassFields /\ pass'.pc = pc /\ pass'.order = order /\ pass'.start = pass.start
      /\ pass'.rotation = pass.rotation
  BY <1>4 DEF PassInv, PassFields
<1>6. Complete(pass.order)'
  BY <1>1, <1>3, <1>5 DEF Complete
<1>7. \A t \in Tokens : was'[t] => eligible(t)'
  BY <1>1 DEF eligible
<1> QED
  BY <1>1, <1>5, <1>6, <1>7 DEF PassInv

LEMMA ReportComplete ==
  ASSUME PassInv, Report
  PROVE  PassInv'
<1>1. /\ acct' = acct /\ was' = was /\ pass.pc = "report" /\ pass.start \in Tokens /\ pass.rotation \in Rotations
      /\ Complete(pass.order)
  BY DEF Report, PassInv
<1>2. DOMAIN pass' = PassFields /\ pass'.pc = "done" /\ pass'.order = pass.order /\ pass'.start = pass.start
      /\ pass'.rotation = pass.rotation
  BY DEF Report, PassInv, PassFields
<1>3. Complete(pass.order)'
  BY <1>1, <1>2 DEF Complete
<1> QED
  BY <1>1, <1>2, <1>3 DEF PassInv

LEMMA PassStep == PassInv /\ [OrderingNext]_orderingVars => PassInv'
<1> SUFFICES ASSUME PassInv, [OrderingNext]_orderingVars PROVE PassInv'
  OBVIOUS
<1>1. ASSUME acct' = acct, pass' = pass, was' = was PROVE PassInv'
  BY <1>1 DEF PassInv, Complete, eligible
<1>2. ASSUME NEW t \in Tokens, AccountChanges(t) PROVE PassInv'
  BY <1>2, ChangeComplete
<1>3. ASSUME NEW start \in Tokens, NEW admitting \in {0} \cup Tokens, NEW last \in {0} \cup Tokens,
             Classify(start, admitting, last)
      PROVE  PassInv'
  BY <1>3, ClassifyComplete
<1>4. ASSUME Arrange PROVE PassInv'
  BY <1>4, ArrangeComplete
<1>5. ASSUME Demote PROVE PassInv'
  BY <1>5, DemoteComplete
<1>6. ASSUME Sort PROVE PassInv'
  BY <1>6, SortComplete
<1>7. ASSUME Report PROVE PassInv'
  BY <1>7, ReportComplete
<1>8. Quoted \/ HourPasses => PassInv'
  BY <1>1 DEF Quoted, HourPasses
<1>9. UNCHANGED orderingVars => PassInv'
  BY <1>1 DEF orderingVars
<1> QED
  BY <1>2, <1>3, <1>4, <1>5, <1>6, <1>7, <1>8, <1>9 DEF OrderingNext, acquireOrder

LEMMA PassTries == PassInv => EveryEligibleTried
<1> SUFFICES ASSUME PassInv, pass.pc = "done" PROVE EveryEligibleTried
  BY DEF EveryEligibleTried
<1>1. pass.order \in Seq(Tokens) /\ IsInjective(pass.order) /\ \A t \in Tokens : was[t] => t \in ToSet(pass.order)
  BY DEF PassInv, Complete
<1> QED
  BY <1>1 DEF EveryEligibleTried, IsInjective

-----------------------------------------------------------------------------
(* The quote.                                                              *)

AnswerFields == {"price", "discount", "offer", "schedule"}

\* What the server answers with.
Answer(a) ==
  /\ DOMAIN a = AnswerFields /\ DOMAIN a.schedule \subseteq 1 .. MaxHour
  /\ \A o \in a.offer : o.from \in 0 .. DayHours - 1 /\ o.to \in 0 .. DayHours - 1

\* The change that counts at an hour.
Latest(a, m, now) ==
  /\ m \in DOMAIN a.schedule /\ m <= now
  /\ \A b \in DOMAIN a.schedule : b <= now => b <= m

\* What is kept of an answer is what it said at some hour it was parsed at.
QuoteInv ==
  /\ quote.pc \in {"none", "kept"}
  /\ quote.pc = "kept" =>
       /\ DOMAIN quote = {"pc", "answer", "at", "kept"}
       /\ quote.at \in Nat /\ Answer(quote.answer)
       /\ \E l \in 0 .. quote.at : quote.kept = ApplyFreebucksPriceChanges(quote.answer, l)

LEMMA LatestExists ==
  ASSUME NEW a, DOMAIN a.schedule \subseteq 1 .. MaxHour, NEW now \in Nat
  PROVE  (\A h \in DOMAIN a.schedule : ~(h <= now)) \/ \E m : Latest(a, m, now)
<1> DEFINE hours == DOMAIN a.schedule
           due == {h \in hours : h <= now}
           left == {k \in Nat : \E h \in due : k = now - h}
<1>1. hours \subseteq Nat
  BY OrderingAssumption
<1> SUFFICES ASSUME due # {} PROVE \E m : Latest(a, m, now)
  OBVIOUS
<1>2. left \in SUBSET Nat /\ \A h \in due : now - h \in left
  BY <1>1
<1>3. left # {}
  BY <1>2
<1> HIDE DEF left
<1>4. PICK k \in left : \A n \in left : k <= n
  BY <1>2, <1>3, LeastOf
<1>5. PICK m \in due : k = now - m
  BY <1>4 DEF left
<1>6. \A b \in due : b <= m
  <2>1. ASSUME NEW b \in due PROVE b <= m
    <3>1. k <= now - b /\ b \in Nat /\ m \in Nat
      BY <1>1, <1>2, <1>4
    <3> QED
      BY <1>5, <3>1
  <2> QED
    BY <2>1
<1>7. Latest(a, m, now)
  BY <1>6 DEF Latest
<1> QED
  BY <1>7

LEMMA ScheduledIs ==
  ASSUME NEW a, DOMAIN a.schedule \subseteq 1 .. MaxHour, NEW now \in Nat
  PROVE  /\ (\A h \in DOMAIN a.schedule : ~(h <= now)) => Scheduled(a, now) = a.price
         /\ \A m : Latest(a, m, now) => Scheduled(a, now) = Discounted(a.schedule[m], a.discount)
<1> DEFINE due == {at \in DOMAIN a.schedule : at <= now}
<1>1. due = {} => Scheduled(a, now) = a.price
  BY DEF Scheduled, LatestDue
<1>2. ASSUME NEW m, Latest(a, m, now) PROVE Scheduled(a, now) = Discounted(a.schedule[m], a.discount)
  <2>1. m \in due /\ \A b \in due : b <= m
    BY <1>2 DEF Latest
  <2>2. due \subseteq Int
    OBVIOUS
  <2> DEFINE c == CHOOSE at \in due : \A b \in due : b <= at
  <2>3. c \in due /\ \A b \in due : b <= c
    BY <2>1
  <2>4. LatestDue(a.schedule, now) = {c}
    BY <2>1 DEF LatestDue
  <2> HIDE DEF c
  <2>5. c = m
    <3>1. c <= m /\ m <= c /\ c \in Int /\ m \in Int
      BY <2>1, <2>2, <2>3
    <3> QED
      BY <3>1
  <2>6. (CHOOSE at \in {m} : TRUE) = m
    OBVIOUS
  <2> QED
    BY <2>4, <2>5, <2>6 DEF Scheduled
<1> QED
  BY <1>1, <1>2

LEMMA ParsedIs ==
  ASSUME NEW a, Answer(a), NEW l \in Nat, NEW k, k = ApplyFreebucksPriceChanges(a, l)
  PROVE  /\ Answer(k) /\ k.price = Scheduled(a, l) /\ k.discount = a.discount /\ k.offer = a.offer
         /\ DOMAIN k.schedule = {h \in DOMAIN a.schedule : h > l}
         /\ \A h \in DOMAIN k.schedule : k.schedule[h] = a.schedule[h]
<1>1. k = [a EXCEPT !.price = Scheduled(a, l),
                    !.schedule = [at \in {h \in DOMAIN a.schedule : h > l} |-> a.schedule[at]]]
  BY DEF ApplyFreebucksPriceChanges
<1>2. DOMAIN a = AnswerFields
  BY DEF Answer
<1>3. /\ DOMAIN k = AnswerFields /\ k.price = Scheduled(a, l) /\ k.discount = a.discount /\ k.offer = a.offer
      /\ k.schedule = [at \in {h \in DOMAIN a.schedule : h > l} |-> a.schedule[at]]
  BY <1>1, <1>2 DEF AnswerFields
<1> QED
  BY <1>3 DEF Answer

LEMMA ScheduledAgain ==
  ASSUME NEW a, Answer(a), NEW l \in Nat, NEW now \in Nat, l <= now,
         NEW k, k = ApplyFreebucksPriceChanges(a, l)
  PROVE  Scheduled(k, now) = Scheduled(a, now)
<1>1. /\ Answer(k) /\ k.price = Scheduled(a, l) /\ k.discount = a.discount
      /\ DOMAIN k.schedule = {h \in DOMAIN a.schedule : h > l}
      /\ \A h \in DOMAIN k.schedule : k.schedule[h] = a.schedule[h]
  BY ParsedIs
<1>2. DOMAIN a.schedule \subseteq 1 .. MaxHour /\ DOMAIN k.schedule \subseteq 1 .. MaxHour
  BY <1>1 DEF Answer
<1>3. CASE \A h \in DOMAIN a.schedule : ~(h <= now)
  <2>1. Scheduled(a, now) = a.price
    BY <1>2, <1>3, ScheduledIs
  <2>2. \A h \in DOMAIN a.schedule : ~(h <= l)
    BY <1>2, <1>3
  <2>3. Scheduled(a, l) = a.price
    BY <1>2, <2>2, ScheduledIs
  <2>4. \A h \in DOMAIN k.schedule : ~(h <= now)
    BY <1>1, <1>3
  <2>5. Scheduled(k, now) = k.price
    BY <1>2, <2>4, ScheduledIs
  <2> QED
    BY <1>1, <2>1, <2>3, <2>5
<1>4. ASSUME NEW m, Latest(a, m, now) PROVE Scheduled(k, now) = Scheduled(a, now)
  <2>1. Scheduled(a, now) = Discounted(a.schedule[m], a.discount)
    BY <1>2, <1>4, ScheduledIs
  <2>2. m \in DOMAIN a.schedule /\ m \in Int /\ m <= now /\ \A b \in DOMAIN a.schedule : b <= now => b <= m
    BY <1>2, <1>4 DEF Latest
  <2>3. CASE m > l
    <3>1. m \in DOMAIN k.schedule /\ Latest(k, m, now)
      BY <1>1, <2>2, <2>3 DEF Latest
    <3>2. Scheduled(k, now) = Discounted(k.schedule[m], k.discount)
      BY <1>2, <3>1, ScheduledIs
    <3> QED
      BY <1>1, <2>1, <3>1, <3>2
  <2>4. CASE m <= l
    <3>1. Latest(a, m, l)
      BY <1>2, <2>2, <2>4 DEF Latest
    <3>2. Scheduled(a, l) = Discounted(a.schedule[m], a.discount)
      BY <1>2, <3>1, ScheduledIs
    <3>3. \A h \in DOMAIN k.schedule : ~(h <= now)
      BY <1>1, <1>2, <2>2, <2>4
    <3>4. Scheduled(k, now) = k.price
      BY <1>2, <3>3, ScheduledIs
    <3> QED
      BY <1>1, <2>1, <3>2, <3>4
  <2> QED
    BY <2>2, <2>3, <2>4
<1>5. (\A h \in DOMAIN a.schedule : ~(h <= now)) \/ \E m : Latest(a, m, now)
  BY <1>2, LatestExists
<1> QED
  BY <1>3, <1>4, <1>5

\* Parsing what is kept is parsing the answer at the later hour.
LEMMA ParsedAgain ==
  ASSUME NEW a, Answer(a), NEW l \in Nat, NEW n \in Nat, l <= n,
         NEW k, k = ApplyFreebucksPriceChanges(a, l)
  PROVE  ApplyFreebucksPriceChanges(k, n) = ApplyFreebucksPriceChanges(a, n)
<1>1. Scheduled(k, n) = Scheduled(a, n)
  BY ScheduledAgain
<1>2. /\ Answer(k) /\ k.discount = a.discount /\ k.offer = a.offer
      /\ DOMAIN k.schedule = {h \in DOMAIN a.schedule : h > l}
      /\ \A h \in DOMAIN k.schedule : k.schedule[h] = a.schedule[h]
  BY ParsedIs
<1> DEFINE p == ApplyFreebucksPriceChanges(k, n)  q == ApplyFreebucksPriceChanges(a, n)
<1>3. /\ Answer(p) /\ p.price = Scheduled(k, n) /\ p.discount = k.discount /\ p.offer = k.offer
      /\ DOMAIN p.schedule = {h \in DOMAIN k.schedule : h > n}
      /\ \A h \in DOMAIN p.schedule : p.schedule[h] = k.schedule[h]
  BY <1>2, ParsedIs
<1>4. /\ Answer(q) /\ q.price = Scheduled(a, n) /\ q.discount = a.discount /\ q.offer = a.offer
      /\ DOMAIN q.schedule = {h \in DOMAIN a.schedule : h > n}
      /\ \A h \in DOMAIN q.schedule : q.schedule[h] = a.schedule[h]
  BY ParsedIs
<1>5. p.schedule = [at \in {h \in DOMAIN k.schedule : h > n} |-> k.schedule[at]]
  BY <1>2 DEF ApplyFreebucksPriceChanges, Answer, AnswerFields
<1>6. q.schedule = [at \in {h \in DOMAIN a.schedule : h > n} |-> a.schedule[at]]
  BY DEF ApplyFreebucksPriceChanges, Answer, AnswerFields
<1>7. {h \in DOMAIN k.schedule : h > n} = {h \in DOMAIN a.schedule : h > n}
  BY <1>2 DEF Answer
<1>8. p.schedule = q.schedule
  BY <1>2, <1>5, <1>6, <1>7
<1>9. p = [x \in AnswerFields |-> p[x]] /\ q = [x \in AnswerFields |-> q[x]]
  BY <1>2 DEF ApplyFreebucksPriceChanges, Answer
<1>10. \A x \in AnswerFields : p[x] = q[x]
  <2>1. p["price"] = q["price"] /\ p["discount"] = q["discount"] /\ p["offer"] = q["offer"] /\ p["schedule"] = q["schedule"]
    BY <1>1, <1>2, <1>3, <1>4, <1>8
  <2> HIDE DEF p, q
  <2> QED
    BY <2>1 DEF AnswerFields
<1> HIDE DEF p, q
<1>11. p = q
  BY <1>9, <1>10
<1> QED
  BY <1>11 DEF p, q

LEMMA QuoteStep == QuoteInv /\ [OrderingNext]_orderingVars => QuoteInv'
<1> SUFFICES ASSUME QuoteInv, [OrderingNext]_orderingVars PROVE QuoteInv'
  OBVIOUS
<1>1. ASSUME quote' = quote PROVE QuoteInv'
  BY <1>1 DEF QuoteInv
<1>2. ASSUME Quoted PROVE QuoteInv'
  <2>1. PICK price \in Prices, discount \in {0, 1}, offer \in Offers, hours \in SUBSET (1 .. MaxHour) :
          \E schedule \in [hours -> Prices] :
            quote' = [pc |-> "kept",
                      answer |-> [price |-> price, discount |-> discount, offer |-> offer, schedule |-> schedule],
                      at |-> 0,
                      kept |-> ApplyFreebucksPriceChanges(
                        [price |-> price, discount |-> discount, offer |-> offer, schedule |-> schedule], 0)]
    BY <1>2, Zenon DEF Quoted
  <2>2. PICK schedule \in [hours -> Prices] :
            quote' = [pc |-> "kept",
                      answer |-> [price |-> price, discount |-> discount, offer |-> offer, schedule |-> schedule],
                      at |-> 0,
                      kept |-> ApplyFreebucksPriceChanges(
                        [price |-> price, discount |-> discount, offer |-> offer, schedule |-> schedule], 0)]
    BY <2>1
  <2> DEFINE a == [price |-> price, discount |-> discount, offer |-> offer, schedule |-> schedule]
  <2>3. Answer(a)
    <3>1. \A o \in offer : o.from \in 0 .. DayHours - 1 /\ o.to \in 0 .. DayHours - 1
      BY DEF Offers
    <3> QED
      BY <3>1 DEF Answer, AnswerFields
  <2>4. /\ quote'.pc = "kept" /\ DOMAIN quote' = {"pc", "answer", "at", "kept"} /\ quote'.at = 0
        /\ quote'.answer = a /\ quote'.kept = ApplyFreebucksPriceChanges(a, 0)
    BY <2>2
  <2> HIDE DEF a
  <2> QED
    BY <2>3, <2>4 DEF QuoteInv
<1>3. ASSUME HourPasses PROVE QuoteInv'
  <2>1. /\ quote.pc = "kept" /\ DOMAIN quote = {"pc", "answer", "at", "kept"} /\ quote.at \in Nat
        /\ Answer(quote.answer)
    BY <1>3 DEF HourPasses, QuoteInv
  <2>2. PICK l \in 0 .. quote.at : quote.kept = ApplyFreebucksPriceChanges(quote.answer, l)
    BY <2>1 DEF QuoteInv
  <2>3. PICK again \in BOOLEAN :
          quote' = [quote EXCEPT !.at = @ + 1,
                      !.kept = IF again THEN ApplyFreebucksPriceChanges(@, quote.at + 1) ELSE @]
    BY <1>3 DEF HourPasses
  <2>4. /\ quote'.pc = "kept" /\ DOMAIN quote' = {"pc", "answer", "at", "kept"} /\ quote'.at = quote.at + 1
        /\ quote'.answer = quote.answer
        /\ quote'.kept = IF again THEN ApplyFreebucksPriceChanges(quote.kept, quote.at + 1) ELSE quote.kept
    BY <2>1, <2>3
  <2>5. \E m \in 0 .. quote.at + 1 : quote'.kept = ApplyFreebucksPriceChanges(quote.answer, m)
    <3>1. CASE again
      <4>1. quote.at + 1 \in Nat /\ l \in Nat /\ l <= quote.at + 1
        BY <2>1
      <4>2. ApplyFreebucksPriceChanges(quote.kept, quote.at + 1) = ApplyFreebucksPriceChanges(quote.answer, quote.at + 1)
        BY <2>1, <2>2, <4>1, ParsedAgain
      <4>3. quote.at + 1 \in 0 .. quote.at + 1
        BY <2>1
      <4> QED
        BY <2>4, <3>1, <4>2, <4>3
    <3>2. CASE ~again
      BY <2>1, <2>2, <2>4, <3>2
    <3> QED
      BY <3>1, <3>2
  <2> QED
    BY <2>1, <2>4, <2>5 DEF QuoteInv
<1>4. acquireOrder \/ (\E t \in Tokens : AccountChanges(t)) \/ UNCHANGED orderingVars => quote' = quote
  BY DEF acquireOrder, Classify, Arrange, Demote, Sort, Report, AccountChanges, orderingVars
<1> QED
  BY <1>1, <1>2, <1>3, <1>4 DEF OrderingNext

\* The daily window as the server means it: hour after hour from its start, until
\* its end comes round.
InWindow(o, now) ==
  \E k \in 0 .. DayHours - 1 :
    /\ \A i \in 0 .. k : (o.from + i) % DayHours # o.to \/ i = 0
    /\ (o.from + k) % DayHours = now % DayHours

LEMMA OffPeakIs ==
  ASSUME NEW o, o.from \in 0 .. DayHours - 1, o.to \in 0 .. DayHours - 1, NEW now \in Nat
  PROVE  offPeak(o, now) <=> InWindow(o, now)
<1> DEFINE n == DayHours  f == o.from  t == o.to  hour == now % n
           \* how long the window has been open, and how long it is
           since == IF f > hour THEN hour - f + n ELSE hour - f
           long == IF t > f THEN t - f ELSE t - f + n
<1>1. n \in Nat \ {0} /\ f \in 0 .. (n - 1) /\ t \in 0 .. (n - 1)
  BY OrderingAssumption
<1>2. hour \in 0 .. (n - 1) /\ now \div n \in Int /\ now = n * (now \div n) + hour
  BY <1>1, Remainder
<1> DEFINE days == now \div n
           begun == IF f > hour THEN now - hour - n + f ELSE now - hour + f
           sameDay == begun - (begun % n) + t
           over == IF sameDay > begun THEN sameDay ELSE sameDay + n
<1>3. offPeak(o, now) <=> now < over
  BY DEF offPeak
<1>4. begun % n = f
  <2> DEFINE q == IF f > hour THEN days - 1 ELSE days
  <2>1. q \in Int
    BY <1>2
  <2>2. begun = n * q + f
    <3>1. CASE f > hour
      <4>1. n * (days - 1) = n * days - n
        BY <1>1, <1>2
      <4> QED
        BY <1>1, <1>2, <3>1, <4>1
    <3>2. CASE ~(f > hour)
      BY <1>1, <1>2, <3>2
    <3> QED
      BY <3>1, <3>2
  <2>3. begun \in Int
    BY <1>1, <1>2
  <2> HIDE DEF q, begun, days
  <2> QED
    BY <1>1, <2>1, <2>2, <2>3, RemainderIs
<1>5. now < over <=> since < long
  <2>1. now - begun = since /\ begun \in Int
    BY <1>1, <1>2
  <2>2. over = begun + long
    <3>1. sameDay = begun - f + t
      BY <1>4
    <3> HIDE DEF begun, sameDay
    <3> QED
      BY <1>1, <2>1, <3>1
  <2>3. since \in Int /\ long \in Int
    BY <1>1, <1>2
  <2> HIDE DEF begun, over, since, long
  <2> QED
    BY <2>1, <2>2, <2>3
<1>6. since \in 0 .. (n - 1) /\ long \in 1 .. n
  BY <1>1, <1>2
<1>7. \A i \in 0 .. (n - 1) : (f + i) % n = IF f + i < n THEN f + i ELSE f + i - n
  <2>1. ASSUME NEW i \in 0 .. (n - 1) PROVE (f + i) % n = IF f + i < n THEN f + i ELSE f + i - n
    <3> DEFINE x == f + i
    <3>1. x \in 0 .. (2 * n - 1)
      BY <1>1
    <3> HIDE DEF x
    <3>2. x % n = IF x < n THEN x ELSE x - n
      BY <1>1, <3>1, RemainderNear
    <3> QED
      BY <1>1, <3>2 DEF x
  <2> QED
    BY <2>1
<1>8. \A k \in 0 .. (n - 1) : (f + k) % n = hour <=> k = since
  BY <1>1, <1>2, <1>7
<1>9. \A i \in 0 .. (n - 1) : i # 0 => ((f + i) % n = t <=> i = long)
  BY <1>1, <1>7
<1>10. InWindow(o, now) <=> \A i \in 0 .. since : (f + i) % n # t \/ i = 0
  <2> HIDE DEF since, hour
  <2> QED
    BY <1>6, <1>8 DEF InWindow, hour
<1>11. (\A i \in 0 .. since : (f + i) % n # t \/ i = 0) <=> since < long
  <2>1. ASSUME since < long, NEW i \in 0 .. since PROVE (f + i) % n # t \/ i = 0
    <3>1. i \in 0 .. (n - 1) /\ i # long
      BY <1>1, <1>6, <2>1
    <3> QED
      BY <1>9, <3>1
  <2>2. ASSUME ~(since < long) PROVE \E i \in 0 .. since : (f + i) % n = t /\ i # 0
    <3>1. long \in 0 .. since /\ long \in 0 .. (n - 1) /\ long # 0
      BY <1>1, <1>6, <2>2
    <3>2. (f + long) % n = t
      BY <1>9, <3>1
    <3> HIDE DEF long
    <3> QED
      BY <3>1, <3>2
  <2> QED
    BY <2>1, <2>2
<1> QED
  BY <1>3, <1>5, <1>10, <1>11

LEMMA QuoteHolds == QuoteInv => QuoteAsAnnounced
<1> SUFFICES ASSUME QuoteInv, quote.pc = "kept" PROVE QuoteAsAnnounced
  BY DEF QuoteAsAnnounced
<1> DEFINE a == quote.answer  now == quote.at  kept == quote.kept
           due == {h \in DOMAIN a.schedule : h <= now}
           o == CHOOSE x \in a.offer : TRUE
           last == CHOOSE h \in due : due \subseteq 0 .. h
<1>1. now \in Nat /\ Answer(a)
  BY DEF QuoteInv
<1>2. PICK l \in 0 .. now : kept = ApplyFreebucksPriceChanges(a, l)
  BY DEF QuoteInv
<1>3. kept.offer = a.offer /\ kept.discount = a.discount
  <2>1. l \in Nat
    BY <1>1
  <2> HIDE DEF a, kept
  <2> QED
    BY <1>1, <1>2, <2>1, ParsedIs
<1>4. Scheduled(kept, now) = Scheduled(a, now)
  <2>1. l \in Nat /\ l <= now
    BY <1>1
  <2> HIDE DEF a, kept, now
  <2> QED
    BY <1>1, <1>2, <2>1, ScheduledAgain
<1>5. Scheduled(a, now) = IF due = {} THEN a.price ELSE Discounted(a.schedule[last], a.discount)
  <2>1. DOMAIN a.schedule \subseteq 1 .. MaxHour
    BY <1>1 DEF Answer
  <2>2. due = {} => Scheduled(a, now) = a.price
    <3> HIDE DEF a, now
    <3>1. due = {} => \A h \in DOMAIN a.schedule : ~(h <= now)
      OBVIOUS
    <3> QED
      BY <1>1, <2>1, <3>1, ScheduledIs
  <2>3. ASSUME NEW m, Latest(a, m, now) PROVE due # {} /\ last = m
    <3>1. due \subseteq Nat
      BY <2>1
    <3>2. m \in due /\ \A b \in due : b <= m
      BY <2>3 DEF Latest
    <3> HIDE DEF a, now, due
    <3>3. due \subseteq 0 .. m
      BY <3>1, <3>2
    <3>4. last \in due /\ due \subseteq 0 .. last
      BY <3>2, <3>3
    <3> HIDE DEF last
    <3>5. last \in Nat /\ m \in Nat /\ m <= last /\ last <= m
      BY <3>1, <3>2, <3>4
    <3>6. last = m
      BY <3>5
    <3> QED
      BY <3>2, <3>6
  <2>4. due = {} \/ \E m : Latest(a, m, now)
    <3> HIDE DEF a, now
    <3>1. (\A h \in DOMAIN a.schedule : ~(h <= now)) => due = {}
      OBVIOUS
    <3> QED
      BY <1>1, <2>1, <3>1, LatestExists
  <2>5. ASSUME NEW m, Latest(a, m, now)
        PROVE  Scheduled(a, now) = Discounted(a.schedule[m], a.discount)
    <3> HIDE DEF a, now
    <3> QED
      BY <1>1, <2>1, <2>5, ScheduledIs
  <2> HIDE DEF a, now, due, last
  <2> QED
    BY <2>2, <2>3, <2>4, <2>5
<1>6. a.offer # {} => (offPeak(o, now) <=> InWindow(o, now))
  <2>1. a.offer # {} => o \in a.offer
    OBVIOUS
  <2>2. a.offer # {} => o.from \in 0 .. DayHours - 1 /\ o.to \in 0 .. DayHours - 1
    BY <1>1, <2>1 DEF Answer
  <2> HIDE DEF a, now, o
  <2> QED
    BY <1>1, <2>2, OffPeakIs
<1>7. EffectiveFreebucksPrices(kept, now) =
        IF a.offer # {} THEN Discounted(IF InWindow(o, now) THEN o.price ELSE o.regular, a.discount)
        ELSE IF due = {} THEN a.price ELSE Discounted(a.schedule[last], a.discount)
  <2>1. EffectiveFreebucksPrices(kept, now) =
          IF kept.offer = {} THEN Scheduled(kept, now)
          ELSE LET x == CHOOSE x \in kept.offer : TRUE
               IN  Discounted(IF offPeak(x, now) THEN x.price ELSE x.regular, kept.discount)
    BY DEF EffectiveFreebucksPrices
  <2>2. o = CHOOSE x \in a.offer : TRUE
    OBVIOUS
  <2> HIDE DEF a, kept, now, o, due, last
  <2> QED
    BY <1>3, <1>4, <1>5, <1>6, <2>1, <2>2
<1> QED
  BY <1>7 DEF QuoteAsAnnounced, InWindow

(* The failover walks an order that names no account twice and leaves out none that    *)
(* could have served throughout (acquire_order.go), and the price quoted is the one    *)
(* the server announced for the hour, whenever its answer was parsed (quota.go).       *)
THEOREM OrderingPassHonest == OrderingSpec => []PassHonest
<1>1. OrderingInit => PassInv /\ QuoteInv
  BY PassStarts DEF OrderingInit, QuoteInv
<1>2. PassInv /\ QuoteInv /\ [OrderingNext]_orderingVars => (PassInv /\ QuoteInv)'
  BY PassStep, QuoteStep
<1>3. PassInv /\ QuoteInv => PassHonest
  BY PassTries, QuoteHolds DEF PassHonest
<1> QED
  BY <1>1, <1>2, <1>3, PTL DEF OrderingSpec

============================================================================
