---------------------------- MODULE DeskProofs ----------------------------
(***************************************************************************)
(* Proofs about the administrator's desk and what it leaves on disk, for   *)
(* every number of requests, tabs, keys, files and versions, and every     *)
(* value of the limits and bounds.                                         *)
(*                                                                         *)
(* The parts of the desk share no state: each invariant is carried over    *)
(* the steps of its part, and DeskMoves says that a step of the desk is a  *)
(* step of one part that leaves the others as they are.                    *)
(***************************************************************************)
EXTENDS MCDesk, PositionProofs

-----------------------------------------------------------------------------
(* Logins: the throttle.                                                   *)

Allowed == {p \in Posts : post[p].at = "allowed"}
AllowedOf(ip) == {p \in Allowed : post[p].ip = ip}

Attempt == {Idle} \cup [at : {"slot", "allowed"}, ip : IPs]

ThrottleTypeOK ==
  /\ loginClock \in Nat
  /\ DOMAIN fails \subseteq IPs /\ \A ip \in DOMAIN fails : fails[ip].until \in Nat
  /\ global.until \in Nat
  /\ post \in [Posts -> Attempt]
  /\ late \in [IPs \cup {"all"} -> Nat]

\* While a lockout is in force, the passwords compared since it began and those
\* that may still be make fewer than the login surface has slots.
ThrottleInv ==
  /\ ThrottleTypeOK
  /\ Cardinality(Holding) <= LoginSlots
  /\ Locked(global.until) => late["all"] + Cardinality(Allowed) < LoginSlots
  /\ \A ip \in DOMAIN fails :
       Locked(fails[ip].until) => late[ip] + Cardinality(AllowedOf(ip)) < LoginSlots

LEMMA PostsFinite ==
  ASSUME NEW S, S \subseteq Posts
  PROVE  IsFiniteSet(S) /\ Cardinality(S) \in Nat
  BY LoginAssumption, FS_Subset, FS_CardinalityType

LEMMA ThrottleInit == LoginInit => ThrottleInv
<1> SUFFICES ASSUME LoginInit PROVE ThrottleInv
  OBVIOUS
<1>1. Holding = {}
  BY DEF LoginInit, Holding, Idle
<1>2. Cardinality(Holding) = 0
  BY <1>1, FS_EmptySet
<1>3. DOMAIN fails = {} /\ global.until = NoTime /\ loginClock = 1
  BY DEF LoginInit
<1>4. ThrottleTypeOK
  BY <1>3 DEF LoginInit, ThrottleTypeOK, Attempt, NoTime
<1> QED
  BY <1>2, <1>3, <1>4, LoginAssumption DEF ThrottleInv, Locked

\* A request that passes its comparison or leaves the surface.
LEMMA PostLeaves ==
  ASSUME ThrottleTypeOK, NEW p \in Posts, post' = [post EXCEPT ![p] = Idle]
  PROVE  /\ post' \in [Posts -> Attempt]
         /\ Cardinality(Holding') <= Cardinality(Holding)
         /\ Cardinality(Allowed') <= Cardinality(Allowed)
         /\ \A ip : Cardinality(AllowedOf(ip)') <= Cardinality(AllowedOf(ip))
         /\ post[p].at = "allowed" =>
              /\ Cardinality(Allowed') < Cardinality(Allowed)
              /\ \A ip : post[p].ip = ip => Cardinality(AllowedOf(ip)') < Cardinality(AllowedOf(ip))
<1>1. post' \in [Posts -> Attempt] /\ post'[p].at = "idle" /\ \A q \in Posts \ {p} : post'[q] = post[q]
  BY DEF ThrottleTypeOK, Attempt, Idle
<1>2. Holding' \subseteq Holding /\ Allowed' = Allowed \ {p} /\ \A ip : AllowedOf(ip)' = AllowedOf(ip) \ {p}
  <2>1. Holding' \subseteq Holding
    BY <1>1 DEF Holding
  <2>2. Allowed' = Allowed \ {p}
    BY <1>1 DEF Allowed
  <2>3. \A ip : AllowedOf(ip)' = AllowedOf(ip) \ {p}
    BY <1>1, <2>2 DEF AllowedOf, Allowed
  <2> QED
    BY <2>1, <2>2, <2>3
<1>3. Holding \subseteq Posts /\ Allowed \subseteq Posts /\ \A ip : AllowedOf(ip) \subseteq Posts
  BY DEF Holding, Allowed, AllowedOf
<1>4. \A S, T : S \subseteq Posts /\ T \subseteq S => Cardinality(T) <= Cardinality(S)
  BY PostsFinite, FS_Subset
<1>5. \A S : S \subseteq Posts /\ p \in S => Cardinality(S \ {p}) < Cardinality(S)
  BY PostsFinite, FS_RemoveElement
<1>6. post[p].at = "allowed" => p \in Allowed /\ \A ip : post[p].ip = ip => p \in AllowedOf(ip)
  BY DEF Allowed, AllowedOf
<1>7. Cardinality(Allowed') <= Cardinality(Allowed) /\ \A ip : Cardinality(AllowedOf(ip)') <= Cardinality(AllowedOf(ip))
  BY <1>2, <1>3, <1>4
<1>8. Cardinality(Holding') <= Cardinality(Holding)
  BY <1>2, <1>3, <1>4
<1>9. ASSUME post[p].at = "allowed"
      PROVE  /\ Cardinality(Allowed') < Cardinality(Allowed)
             /\ \A ip : post[p].ip = ip => Cardinality(AllowedOf(ip)') < Cardinality(AllowedOf(ip))
  BY <1>2, <1>3, <1>5, <1>6, <1>9
<1> QED
  BY <1>1, <1>7, <1>8, <1>9

\* Fewer requests are let through, no lockout begins, no count goes up.
LEMMA ThrottleMonotone ==
  ASSUME ThrottleInv, ThrottleTypeOK', UNCHANGED <<loginClock, global, late>>,
         DOMAIN fails' \subseteq DOMAIN fails, \A ip \in DOMAIN fails' : fails'[ip] = fails[ip],
         Cardinality(Holding') <= Cardinality(Holding), Cardinality(Allowed') <= Cardinality(Allowed),
         \A ip : Cardinality(AllowedOf(ip)') <= Cardinality(AllowedOf(ip))
  PROVE  ThrottleInv'
<1>1. \A t : Locked(t)' = Locked(t)
  BY DEF Locked
<1>2. /\ Holding \subseteq Posts /\ Allowed \subseteq Posts /\ \A ip : AllowedOf(ip) \subseteq Posts
      /\ Holding' \subseteq Posts /\ Allowed' \subseteq Posts /\ \A ip : AllowedOf(ip)' \subseteq Posts
  BY DEF Holding, Allowed, AllowedOf
<1>3. /\ Cardinality(Holding) \in Nat /\ Cardinality(Allowed) \in Nat /\ \A ip : Cardinality(AllowedOf(ip)) \in Nat
      /\ Cardinality(Holding') \in Nat /\ Cardinality(Allowed') \in Nat /\ \A ip : Cardinality(AllowedOf(ip)') \in Nat
  BY <1>2, PostsFinite
<1>4. late \in [IPs \cup {"all"} -> Nat] /\ DOMAIN fails \subseteq IPs /\ LoginSlots \in Nat
  BY LoginAssumption DEF ThrottleInv, ThrottleTypeOK
<1>5. (Cardinality(Holding) <= LoginSlots)'
  BY <1>3, <1>4 DEF ThrottleInv
<1>6. (Locked(global.until) => late["all"] + Cardinality(Allowed) < LoginSlots)'
  <2>1. Locked(global.until)' => Locked(global.until)
    BY DEF Locked
  <2> QED
    BY <1>3, <1>4, <2>1 DEF ThrottleInv
<1>7. (\A ip \in DOMAIN fails : Locked(fails[ip].until) => late[ip] + Cardinality(AllowedOf(ip)) < LoginSlots)'
  <2> SUFFICES ASSUME NEW ip \in DOMAIN fails', Locked(fails[ip].until)'
               PROVE  late'[ip] + Cardinality(AllowedOf(ip)') < LoginSlots
    OBVIOUS
  <2>1. ip \in DOMAIN fails /\ Locked(fails[ip].until)
    BY DEF Locked
  <2>2. late[ip] + Cardinality(AllowedOf(ip)) < LoginSlots /\ late[ip] \in Nat
    BY <1>4, <2>1 DEF ThrottleInv
  <2> QED
    BY <1>3, <1>4, <2>2
<1> QED
  BY <1>5, <1>6, <1>7 DEF ThrottleInv

LEMMA ThrottleTick ==
  ASSUME ThrottleInv, LoginTick
  PROVE  ThrottleInv'
<1>1. loginClock \in Nat /\ loginClock' = loginClock + 1 /\ UNCHANGED <<fails, global, post, late>>
  BY DEF ThrottleInv, ThrottleTypeOK, LoginTick
<1>2. \A t \in Nat : Locked(t)' => Locked(t)
  BY <1>1 DEF Locked
<1>3. ThrottleTypeOK'
  BY <1>1 DEF ThrottleInv, ThrottleTypeOK
<1>4. Holding' = Holding /\ Allowed' = Allowed /\ \A ip : AllowedOf(ip)' = AllowedOf(ip)
  BY <1>1 DEF Holding, Allowed, AllowedOf
<1>5. Locked(global.until)' => Locked(global.until)
  BY <1>1, <1>2 DEF ThrottleInv, ThrottleTypeOK, Locked
<1>6. \A ip \in DOMAIN fails : Locked(fails[ip].until)' => Locked(fails[ip].until)
  BY <1>1, <1>2 DEF ThrottleInv, ThrottleTypeOK, Locked
<1>7. fails' = fails /\ global' = global /\ late' = late
  BY <1>1
<1>8. (Locked(global.until) => late["all"] + Cardinality(Allowed) < LoginSlots)'
  BY <1>4, <1>5, <1>7 DEF ThrottleInv
<1>9. (\A ip \in DOMAIN fails : Locked(fails[ip].until) => late[ip] + Cardinality(AllowedOf(ip)) < LoginSlots)'
  BY <1>4, <1>6, <1>7 DEF ThrottleInv
<1>10. (Cardinality(Holding) <= LoginSlots)'
  BY <1>4 DEF ThrottleInv
<1> QED
  BY <1>3, <1>8, <1>9, <1>10 DEF ThrottleInv

LEMMA ThrottleEnters ==
  ASSUME ThrottleInv, NEW p \in Posts, NEW ip \in IPs, tryLogin(p, ip)
  PROVE  ThrottleInv'
<1>1. post \in [Posts -> Attempt] /\ post[p] = Idle /\ post' = [post EXCEPT ![p] = [at |-> "slot", ip |-> ip]]
      /\ UNCHANGED <<loginClock, fails, global, late>> /\ Cardinality(Holding) < LoginSlots
  BY DEF ThrottleInv, ThrottleTypeOK, tryLogin
<1>2. ThrottleTypeOK'
  BY <1>1 DEF ThrottleInv, ThrottleTypeOK, Attempt
<1>3. Holding' = Holding \cup {p} /\ Allowed' = Allowed /\ \A i : AllowedOf(i)' = AllowedOf(i)
  BY <1>1 DEF Holding, Allowed, AllowedOf, Idle
<1>4. Cardinality(Holding') <= LoginSlots
  <2>1. Holding \subseteq Posts
    BY DEF Holding
  <2>2. IsFiniteSet(Holding) /\ Cardinality(Holding) \in Nat
    BY <2>1, PostsFinite
  <2>3. Cardinality(Holding \cup {p}) = Cardinality(Holding) \/ Cardinality(Holding \cup {p}) = Cardinality(Holding) + 1
    BY <2>2, FS_AddElement
  <2>4. Cardinality(Holding \cup {p}) \in Nat
    BY <2>1, PostsFinite
  <2> QED
    BY <1>1, <1>3, <2>2, <2>3, <2>4, LoginAssumption
<1>5. \A t : Locked(t)' = Locked(t)
  BY <1>1 DEF Locked
<1> QED
  BY <1>1, <1>2, <1>3, <1>4, <1>5 DEF ThrottleInv, Locked

LEMMA ThrottleAllows ==
  ASSUME ThrottleInv, NEW p \in Posts, allow(p)
  PROVE  ThrottleInv'
<1> DEFINE a == post[p].ip
           known == a \in DOMAIN fails
           locked == Locked(global.until) \/ (known /\ Locked(fails[a].until))
<1>1. /\ post \in [Posts -> Attempt] /\ post[p].at = "slot" /\ UNCHANGED <<loginClock, global, late>>
      /\ post' = [post EXCEPT ![p] = IF locked THEN Idle ELSE [@ EXCEPT !.at = "allowed"]]
      /\ fails' = IF ~locked /\ known /\ fails[a].until /= NoTime THEN WithoutKeys(fails, {a}) ELSE fails
  BY DEF ThrottleInv, ThrottleTypeOK, allow
<1>2. \A t : Locked(t)' = Locked(t)
  BY <1>1 DEF Locked
<1>3. CASE locked
  <2>1. post' = [post EXCEPT ![p] = Idle] /\ fails' = fails
    BY <1>1, <1>3
  <2>2. ThrottleTypeOK'
    BY <1>1, <2>1, PostLeaves DEF ThrottleInv, ThrottleTypeOK
  <2>3. /\ Cardinality(Holding') <= Cardinality(Holding) /\ Cardinality(Allowed') <= Cardinality(Allowed)
        /\ \A ip : Cardinality(AllowedOf(ip)') <= Cardinality(AllowedOf(ip))
    BY <2>1, PostLeaves DEF ThrottleInv
  <2> QED
    BY <1>1, <1>2, <2>1, <2>2, <2>3, ThrottleMonotone
<1>4. CASE ~locked
  <2>1. post' = [post EXCEPT ![p].at = "allowed"] /\ DOMAIN fails' \subseteq DOMAIN fails
        /\ (\A ip \in DOMAIN fails' : fails'[ip] = fails[ip])
        /\ (a \in DOMAIN fails' => fails'[a].until = NoTime)
    BY <1>1, <1>4 DEF WithoutKeys
  <2>2. a \in IPs /\ post[p] \in [at : {"slot", "allowed"}, ip : IPs]
    BY <1>1 DEF Attempt, Idle
  <2>3. ThrottleTypeOK'
    <3>1. post' \in [Posts -> Attempt]
      BY <1>1, <2>1, <2>2 DEF Attempt
    <3>2. \A ip \in DOMAIN fails' : fails'[ip].until \in Nat
      BY <2>1 DEF ThrottleInv, ThrottleTypeOK
    <3> QED
      BY <1>1, <2>1, <3>1, <3>2 DEF ThrottleInv, ThrottleTypeOK
  <2>4. Holding' = Holding /\ \A ip : ip # a => AllowedOf(ip)' = AllowedOf(ip)
    BY <1>1, <2>1, <2>2 DEF Holding, Allowed, AllowedOf
  <2>5. ~Locked(global.until)' /\ \A ip \in DOMAIN fails' : Locked(fails[ip].until)' => ip # a /\ Locked(fails[ip].until)
    BY <1>1, <1>2, <1>4, <2>1 DEF Locked
  <2>6. (\A ip \in DOMAIN fails : Locked(fails[ip].until) => late[ip] + Cardinality(AllowedOf(ip)) < LoginSlots)'
    BY <1>1, <2>1, <2>4, <2>5 DEF ThrottleInv
  <2> QED
    BY <1>1, <2>3, <2>4, <2>5, <2>6 DEF ThrottleInv
<1> QED
  BY <1>3, <1>4

LEMMA ThrottleSucceeds ==
  ASSUME ThrottleInv, NEW p \in Posts, LoginSucceeds(p)
  PROVE  ThrottleInv'
<1>1. post' = [post EXCEPT ![p] = Idle] /\ fails' = WithoutKeys(fails, {post[p].ip}) /\ UNCHANGED <<loginClock, global, late>>
  BY DEF LoginSucceeds
<1>2. DOMAIN fails' \subseteq DOMAIN fails /\ \A ip \in DOMAIN fails' : fails'[ip] = fails[ip]
  BY <1>1 DEF WithoutKeys
<1>3. /\ post' \in [Posts -> Attempt] /\ Cardinality(Holding') <= Cardinality(Holding)
      /\ Cardinality(Allowed') <= Cardinality(Allowed) /\ \A ip : Cardinality(AllowedOf(ip)') <= Cardinality(AllowedOf(ip))
  BY <1>1, PostLeaves DEF ThrottleInv
<1>4. ThrottleTypeOK'
  BY <1>1, <1>2, <1>3 DEF ThrottleInv, ThrottleTypeOK
<1> QED
  BY <1>1, <1>2, <1>3, <1>4, ThrottleMonotone

\* Counting a failure for the process.
LEMMA CountedGloballyOK ==
  ASSUME ThrottleInv
  PROVE  CountedGlobally(global).until \in Nat
<1> DEFINE rolled == global.window = NoTime \/ loginClock - global.window >= GlobalWindow
           h == [global EXCEPT !.window = IF rolled THEN loginClock ELSE @, !.fails = (IF rolled THEN 0 ELSE @) + 1]
<1>1. h.until = global.until
  OBVIOUS
<1>2. Doubled(h.level + 1) \in Nat
  BY LoginAssumption DEF Doubled
<1> QED
  BY <1>1, <1>2 DEF CountedGlobally, ThrottleInv, ThrottleTypeOK

LEMMA ThrottleFails ==
  ASSUME ThrottleInv, NEW p \in Posts, recordFail(p)
  PROVE  ThrottleInv'
<1>0. PICK a : a = post[p].ip
  OBVIOUS
<1> DEFINE e == Counted(IF a \in DOMAIN fails THEN fails[a] ELSE [count |-> 0, until |-> NoTime])
           g == CountedGlobally(global)
<1>1. PICK m \in MakeRoom(a) : fails' = WithKey(m, a, e)
  BY <1>0 DEF recordFail
<1>2. /\ post[p].at = "allowed" /\ post' = [post EXCEPT ![p] = Idle] /\ loginClock' = loginClock /\ global' = g
      /\ late' = [late EXCEPT !["all"] = IF g.until = global.until /\ Locked(g.until) THEN @ + 1 ELSE 0,
                              ![a] = IF a \in DOMAIN fails /\ e.until = fails[a].until /\ Locked(e.until) THEN @ + 1 ELSE 0]
  BY <1>0 DEF recordFail
<1>3. a \in IPs /\ a # "all" /\ loginClock \in Nat
  <2>1. post[p] \in Attempt /\ post[p].at = "allowed"
    BY <1>2 DEF ThrottleInv, ThrottleTypeOK
  <2> QED
    BY <1>0, <2>1, LoginAssumption DEF ThrottleInv, ThrottleTypeOK, Attempt, Idle
<1>4. e.until \in Nat
  BY LoginAssumption DEF Counted, ThrottleInv, ThrottleTypeOK, NoTime
<1>5. g.until \in Nat
  BY CountedGloballyOK
<1> HIDE DEF e, g
<1>6. /\ DOMAIN fails' \subseteq DOMAIN fails \cup {a} /\ a \in DOMAIN fails' /\ fails'[a] = e
      /\ \A k \in DOMAIN fails' : k # a => k \in DOMAIN fails /\ fails'[k] = fails[k]
  <2>1. DOMAIN m \subseteq DOMAIN fails /\ \A k \in DOMAIN m : m[k] = fails[k]
    BY DEF MakeRoom, WithoutKeys
  <2> QED
    BY <1>1, <2>1 DEF WithKey
<1>7. /\ post' \in [Posts -> Attempt] /\ Cardinality(Holding') <= Cardinality(Holding)
      /\ Cardinality(Allowed') < Cardinality(Allowed)
      /\ \A ip : Cardinality(AllowedOf(ip)') <= Cardinality(AllowedOf(ip))
      /\ Cardinality(AllowedOf(a)') < Cardinality(AllowedOf(a))
  BY <1>0, <1>2, PostLeaves DEF ThrottleInv
<1>8. /\ late' \in [IPs \cup {"all"} -> Nat]
      /\ \A k \in IPs \ {a} : late'[k] = late[k]
      /\ late'["all"] = (IF g.until = global.until /\ Locked(g.until) THEN late["all"] + 1 ELSE 0)
      /\ late'[a] = (IF a \in DOMAIN fails /\ e.until = fails[a].until /\ Locked(e.until) THEN late[a] + 1 ELSE 0)
  <2> DEFINE U == IF g.until = global.until /\ Locked(g.until) THEN late["all"] + 1 ELSE 0
             V == IF a \in DOMAIN fails /\ e.until = fails[a].until /\ Locked(e.until) THEN late[a] + 1 ELSE 0
  <2>1. late \in [IPs \cup {"all"} -> Nat]
    BY DEF ThrottleInv, ThrottleTypeOK
  <2>2. late' = [late EXCEPT !["all"] = U, ![a] = V]
    BY <1>2, <1>3, <2>1
  <2>3. U \in Nat /\ V \in Nat
    BY <1>3, <2>1
  <2> HIDE DEF U, V
  <2>4. late' \in [IPs \cup {"all"} -> Nat] /\ late'["all"] = U /\ late'[a] = V /\ \A k \in IPs \ {a} : late'[k] = late[k]
    BY <1>3, <2>1, <2>2, <2>3, LoginAssumption
  <2> QED
    BY <2>4 DEF U, V
<1>9. /\ Holding \subseteq Posts /\ Allowed \subseteq Holding /\ \A ip : AllowedOf(ip) \subseteq Allowed
      /\ Holding' \subseteq Posts /\ Allowed' \subseteq Posts /\ \A ip : AllowedOf(ip)' \subseteq Posts
  BY DEF Holding, Allowed, AllowedOf
<1>10. /\ Cardinality(Holding) \in Nat /\ Cardinality(Allowed) \in Nat /\ \A ip : Cardinality(AllowedOf(ip)) \in Nat
       /\ Cardinality(Holding') \in Nat /\ Cardinality(Allowed') \in Nat /\ \A ip : Cardinality(AllowedOf(ip)') \in Nat
       /\ Cardinality(Allowed) <= Cardinality(Holding) /\ \A ip : Cardinality(AllowedOf(ip)) <= Cardinality(Allowed)
  <2>1. Allowed \subseteq Posts /\ \A ip : AllowedOf(ip) \subseteq Posts
    BY <1>9
  <2> QED
    BY <1>9, <2>1, PostsFinite, FS_Subset
<1>11. ThrottleTypeOK'
  <2>1. \A ip \in DOMAIN fails' : fails'[ip].until \in Nat
    BY <1>4, <1>6 DEF ThrottleInv, ThrottleTypeOK
  <2> QED
    BY <1>2, <1>3, <1>5, <1>6, <1>7, <1>8, <2>1 DEF ThrottleInv, ThrottleTypeOK
<1>12. (Cardinality(Holding) <= LoginSlots)'
  BY <1>7, <1>10, LoginAssumption DEF ThrottleInv
<1>13. Cardinality(Allowed) <= LoginSlots /\ LoginSlots \in Nat
  BY <1>10, LoginAssumption DEF ThrottleInv
<1>14. \A t : Locked(t)' = Locked(t)
  BY <1>2 DEF Locked
<1>15. (Locked(global.until) => late["all"] + Cardinality(Allowed) < LoginSlots)'
  <2> SUFFICES ASSUME Locked(g.until) PROVE late'["all"] + Cardinality(Allowed') < LoginSlots
    BY <1>2 DEF Locked
  <2>1. CASE g.until = global.until
    <3>1. late["all"] + Cardinality(Allowed) < LoginSlots /\ late["all"] \in Nat
      BY <2>1 DEF ThrottleInv, ThrottleTypeOK
    <3>2. late'["all"] = late["all"] + 1
      BY <1>8, <2>1
    <3> QED
      BY <1>7, <1>10, <1>13, <3>1, <3>2
  <2>2. CASE g.until # global.until
    BY <1>7, <1>8, <1>10, <1>13, <2>2
  <2> QED
    BY <2>1, <2>2
<1>16. (\A ip \in DOMAIN fails : Locked(fails[ip].until) => late[ip] + Cardinality(AllowedOf(ip)) < LoginSlots)'
  <2> SUFFICES ASSUME NEW ip \in DOMAIN fails', Locked(fails'[ip].until)
               PROVE  late'[ip] + Cardinality(AllowedOf(ip)') < LoginSlots
    BY <1>14 DEF Locked
  <2>1. CASE ip # a
    <3>1. ip \in DOMAIN fails /\ fails'[ip] = fails[ip] /\ ip \in IPs
      BY <1>6, <2>1 DEF ThrottleInv, ThrottleTypeOK
    <3>2. late[ip] + Cardinality(AllowedOf(ip)) < LoginSlots /\ late[ip] \in Nat /\ late'[ip] = late[ip]
      BY <1>8, <2>1, <3>1 DEF ThrottleInv, ThrottleTypeOK
    <3> QED
      BY <1>7, <1>10, <1>13, <3>2
  <2>2. CASE ip = a /\ a \in DOMAIN fails /\ e.until = fails[a].until
    <3>1. Locked(e.until)
      BY <1>6, <2>2
    <3>2. late[a] + Cardinality(AllowedOf(a)) < LoginSlots /\ late[a] \in Nat /\ late'[a] = late[a] + 1
      BY <1>3, <1>8, <2>2, <3>1 DEF ThrottleInv, ThrottleTypeOK
    <3> QED
      BY <1>7, <1>10, <1>13, <2>2, <3>2
  <2>3. CASE ip = a /\ ~(a \in DOMAIN fails /\ e.until = fails[a].until)
    <3>1. late'[a] = 0
      BY <1>8, <2>3
    <3> QED
      BY <1>7, <1>10, <1>13, <2>3, <3>1
  <2> QED
    BY <2>1, <2>2, <2>3
<1> QED
  BY <1>11, <1>12, <1>15, <1>16 DEF ThrottleInv

LEMMA ThrottleStep ==
  ASSUME ThrottleInv, ThrottleNext
  PROVE  ThrottleInv'
<1>1. ASSUME NEW p \in Posts, allow(p) PROVE ThrottleInv'
  BY <1>1, ThrottleAllows
<1>2. ASSUME NEW p \in Posts, recordFail(p) PROVE ThrottleInv'
  BY <1>2, ThrottleFails
<1>3. ASSUME NEW p \in Posts, LoginSucceeds(p) PROVE ThrottleInv'
  BY <1>3, ThrottleSucceeds
<1>4. ASSUME NEW p \in Posts, NEW ip \in IPs, tryLogin(p, ip) PROVE ThrottleInv'
  BY <1>4, ThrottleEnters
<1>5. CASE LoginTick
  BY <1>5, ThrottleTick
<1> QED
  BY <1>1, <1>2, <1>3, <1>4, <1>5 DEF ThrottleNext

-----------------------------------------------------------------------------
(* Logins: the flows.                                                      *)

FlowState == [done : BOOLEAN, completing : BOOLEAN, old : BOOLEAN, index : Nat, adds : Nat]
TabState == {Idle} \cup [at : {"found", "polling", "adding"}, fp : Fingerprints, flow : Nat]

FlowTypeOK ==
  /\ \E k \in Nat : Flows = 1..k
  /\ \A n \in Flows : flow[n] \in FlowState
  /\ \A fp \in DOMAIN loginFlows : loginFlows[fp] \in Flows
  /\ tab \in [Tabs -> TabState]
  /\ \A t \in Tabs : tab[t].at # "idle" => tab[t].flow \in Flows

\* The polls that have claimed their flow and not finished with it.
Claiming(t) == tab[t].at \in {"polling", "adding"}

\* A flow has one claim at a time, and none once its token has been added.
FlowInv ==
  /\ FlowTypeOK
  /\ \A t, u \in Tabs : Claiming(t) /\ Claiming(u) /\ tab[t].flow = tab[u].flow => t = u
  /\ \A t \in Tabs : Claiming(t) =>
       LET f == flow[tab[t].flow] IN f.completing /\ f.adds = 0 /\ (f.done <=> tab[t].at = "adding")
  /\ \A n \in Flows : flow[n].adds = 0 \/ (flow[n].adds = 1 /\ flow[n].done)

LEMMA FlowInit == LoginInit => FlowInv
<1> SUFFICES ASSUME LoginInit PROVE FlowInv
  OBVIOUS
<1>1. Flows = {} /\ DOMAIN loginFlows = {} /\ \A t \in Tabs : tab[t] = Idle
  BY DEF LoginInit, Flows
<1>2. Flows = 1..0
  BY <1>1
<1>3. tab \in [Tabs -> TabState]
  BY DEF LoginInit, TabState
<1> QED
  BY <1>1, <1>2, <1>3 DEF FlowInv, FlowTypeOK, Claiming, Idle

LEMMA FlowStarts ==
  ASSUME FlowInv, NEW fp \in Fingerprints, handleLoginStart(fp)
  PROVE  FlowInv'
<1>1. PICK k \in Nat : Flows = 1..k
  BY DEF FlowInv, FlowTypeOK
<1>2. Cardinality(Flows) + 1 = k + 1
  <2>1. Cardinality(1..k) = IF 1 > k THEN 0 ELSE k - 1 + 1
    BY FS_Interval
  <2> QED
    BY <1>1, <2>1
<1> DEFINE n == k + 1
<1>3. flow' = WithKey(flow, n, NewFlow) /\ loginFlows' = WithKey(loginFlows, fp, n) /\ tab' = tab
  BY <1>2 DEF handleLoginStart
<1>4. Flows' = 1..n /\ n \notin Flows /\ n \in Nat /\ Flows \subseteq Flows'
  BY <1>1, <1>3 DEF WithKey, Flows
<1>5. flow'[n] = NewFlow /\ \A m \in Flows : flow'[m] = flow[m]
  BY <1>3, <1>4 DEF WithKey, Flows
<1>6. \A f \in DOMAIN loginFlows' : loginFlows'[f] \in Flows'
  BY <1>3, <1>4 DEF WithKey, FlowInv, FlowTypeOK
<1>7. \A m \in Flows' : m = n \/ m \in Flows
  BY <1>1, <1>4
<1> HIDE DEF n
<1>8. FlowTypeOK'
  <2>1. NewFlow \in FlowState
    BY DEF NewFlow, FlowState
  <2>2. \A m \in Flows' : flow'[m] \in FlowState
    BY <1>5, <1>7, <2>1 DEF FlowInv, FlowTypeOK
  <2> QED
    BY <1>3, <1>4, <1>6, <2>2 DEF FlowInv, FlowTypeOK
<1>9. \A t \in Tabs : Claiming(t)' <=> Claiming(t)
  BY <1>3 DEF Claiming
<1>10. (\A t \in Tabs : Claiming(t) =>
         LET f == flow[tab[t].flow] IN f.completing /\ f.adds = 0 /\ (f.done <=> tab[t].at = "adding"))'
  <2> SUFFICES ASSUME NEW t \in Tabs, Claiming(t)
               PROVE  LET f == flow'[tab[t].flow] IN f.completing /\ f.adds = 0 /\ (f.done <=> tab[t].at = "adding")
    BY <1>3, <1>9
  <2>1. tab[t].flow \in Flows
    BY DEF Claiming, FlowInv, FlowTypeOK
  <2> QED
    BY <1>5, <2>1 DEF FlowInv
<1>11. (\A m \in Flows : flow[m].adds = 0 \/ (flow[m].adds = 1 /\ flow[m].done))'
  <2>1. \A m \in Flows' : flow'[m].adds = 0 \/ (flow'[m].adds = 1 /\ flow'[m].done)
    BY <1>5, <1>7 DEF NewFlow, FlowInv
  <2> QED
    BY <2>1
<1> QED
  BY <1>3, <1>8, <1>9, <1>10, <1>11 DEF FlowInv

\* Flows are forgotten or looked up: no flow changes and no claim begins.
LEMMA FlowRests ==
  ASSUME FlowInv, flow' = flow, tab' \in [Tabs -> TabState],
         \A t \in Tabs : tab'[t].at # "idle" => tab'[t].flow \in Flows,
         \A t \in Tabs : tab'[t] = tab[t] \/ tab'[t].at \in {"idle", "found"},
         \A fp \in DOMAIN loginFlows' : loginFlows'[fp] \in Flows
  PROVE  FlowInv'
<1>1. Flows' = Flows
  BY DEF Flows
<1>2. FlowTypeOK'
  BY <1>1 DEF FlowInv, FlowTypeOK
<1>3. \A t \in Tabs : Claiming(t)' => Claiming(t) /\ tab'[t] = tab[t]
  BY DEF Claiming
<1> QED
  BY <1>1, <1>2, <1>3 DEF FlowInv

\* One flow changes, and one tab at most.
LEMMA FlowMoves ==
  ASSUME FlowInv, NEW n \in Flows, NEW f \in FlowState, flow' = [flow EXCEPT ![n] = f],
         tab' \in [Tabs -> TabState],
         \A t \in Tabs : tab'[t].at # "idle" => tab'[t].flow \in Flows,
         \A fp \in DOMAIN loginFlows' : loginFlows'[fp] \in Flows,
         \A t \in Tabs : tab[t].at # "idle" /\ tab'[t].at # "idle" => tab'[t].flow = tab[t].flow,
         \A t, u \in Tabs : Claiming(t)' /\ Claiming(u)' /\ tab'[t].flow = n /\ tab'[u].flow = n => t = u,
         \A t \in Tabs : Claiming(t)' /\ tab'[t].flow # n => tab'[t] = tab[t],
         \A t \in Tabs : Claiming(t)' /\ tab'[t].flow = n =>
           f.completing /\ f.adds = 0 /\ (f.done <=> tab'[t].at = "adding"),
         f.adds = 0 \/ (f.adds = 1 /\ f.done)
  PROVE  FlowInv'
<1>1. Flows' = Flows /\ flow'[n] = f /\ \A m \in Flows \ {n} : flow'[m] = flow[m]
  BY DEF Flows
<1>2. FlowTypeOK'
  <2>1. \A m \in Flows' : flow'[m] \in FlowState
    BY <1>1 DEF FlowInv, FlowTypeOK
  <2> QED
    BY <1>1, <2>1 DEF FlowInv, FlowTypeOK
<1>3. \A t \in Tabs : Claiming(t)' => tab'[t].flow \in Flows
  BY DEF Claiming
<1>4. \A t \in Tabs : Claiming(t)' /\ tab'[t].flow # n => Claiming(t)
  BY DEF Claiming
<1>5. (\A t, u \in Tabs : Claiming(t) /\ Claiming(u) /\ tab[t].flow = tab[u].flow => t = u)'
  <2> SUFFICES ASSUME NEW t \in Tabs, NEW u \in Tabs, Claiming(t)', Claiming(u)', tab'[t].flow = tab'[u].flow
               PROVE  t = u
    BY DEF Claiming
  <2>1. CASE tab'[t].flow = n
    BY <2>1
  <2>2. CASE tab'[t].flow # n
    <3>1. tab'[t] = tab[t] /\ tab'[u] = tab[u] /\ Claiming(t) /\ Claiming(u)
      BY <1>4, <2>2
    <3> QED
      BY <3>1 DEF FlowInv
  <2> QED
    BY <2>1, <2>2
<1>6. (\A t \in Tabs : Claiming(t) =>
         LET e == flow[tab[t].flow] IN e.completing /\ e.adds = 0 /\ (e.done <=> tab[t].at = "adding"))'
  <2> SUFFICES ASSUME NEW t \in Tabs, Claiming(t)'
               PROVE  LET e == flow'[tab'[t].flow] IN e.completing /\ e.adds = 0 /\ (e.done <=> tab'[t].at = "adding")
    BY DEF Claiming
  <2>1. CASE tab'[t].flow = n
    BY <1>1, <2>1
  <2>2. CASE tab'[t].flow # n
    <3>1. tab'[t] = tab[t] /\ Claiming(t) /\ tab[t].flow \in Flows /\ tab[t].flow # n
      BY <1>3, <1>4, <2>2
    <3>2. flow'[tab[t].flow] = flow[tab[t].flow]
      BY <1>1, <3>1
    <3> QED
      BY <3>1, <3>2 DEF FlowInv
  <2> QED
    BY <2>1, <2>2
<1>7. (\A m \in Flows : flow[m].adds = 0 \/ (flow[m].adds = 1 /\ flow[m].done))'
  BY <1>1 DEF FlowInv
<1> QED
  BY <1>2, <1>5, <1>6, <1>7 DEF FlowInv

\* A poll moves on, and the flow it is about changes.
PollMoves(t, n, f, s) ==
  /\ flow' = [flow EXCEPT ![n] = f] /\ tab' = [tab EXCEPT ![t] = s]
  /\ s.at # "idle" => s.flow = n
  /\ \A fp \in DOMAIN loginFlows' : loginFlows'[fp] \in Flows
  /\ f.adds = 0 \/ (f.adds = 1 /\ f.done)
  /\ s.at \in {"polling", "adding"} => f.completing /\ f.adds = 0 /\ (f.done <=> s.at = "adding")
  /\ \A u \in Tabs \ {t} : Claiming(u) /\ tab[u].flow = n =>
       /\ s.at \notin {"polling", "adding"}
       /\ f.completing /\ f.adds = 0 /\ (f.done <=> tab[u].at = "adding")

LEMMA TabMoves ==
  ASSUME FlowInv, NEW t \in Tabs, NEW n \in Flows, n = tab[t].flow, tab[t].at # "idle",
         NEW f \in FlowState, NEW s \in TabState, PollMoves(t, n, f, s)
  PROVE  FlowInv'
<1>0. /\ flow' = [flow EXCEPT ![n] = f] /\ tab' = [tab EXCEPT ![t] = s]
      /\ s.at # "idle" => s.flow = n
      /\ \A fp \in DOMAIN loginFlows' : loginFlows'[fp] \in Flows
      /\ f.adds = 0 \/ (f.adds = 1 /\ f.done)
      /\ s.at \in {"polling", "adding"} => f.completing /\ f.adds = 0 /\ (f.done <=> s.at = "adding")
      /\ \A u \in Tabs \ {t} : Claiming(u) /\ tab[u].flow = n =>
           /\ s.at \notin {"polling", "adding"}
           /\ f.completing /\ f.adds = 0 /\ (f.done <=> tab[u].at = "adding")
  BY DEF PollMoves
<1>1. /\ tab' \in [Tabs -> TabState] /\ tab'[t] = s
      /\ \A u \in Tabs \ {t} : tab'[u] = tab[u]
  BY <1>0 DEF FlowInv, FlowTypeOK
<1>2. \A u \in Tabs : tab'[u].at # "idle" => tab'[u].flow \in Flows
  BY <1>0, <1>1 DEF FlowInv, FlowTypeOK
<1>3. \A u \in Tabs \ {t} : Claiming(u)' <=> Claiming(u)
  BY <1>0, <1>1 DEF Claiming
<1>4. Claiming(t)' <=> s.at \in {"polling", "adding"}
  BY <1>0, <1>1 DEF Claiming
<1>5. Claiming(t)' => tab'[t].flow = n
  BY <1>0, <1>1, <1>4
<1>6. \A u \in Tabs : tab[u].at # "idle" /\ tab'[u].at # "idle" => tab'[u].flow = tab[u].flow
  BY <1>0, <1>1
<1>7. \A u, v \in Tabs : Claiming(u)' /\ Claiming(v)' /\ tab'[u].flow = n /\ tab'[v].flow = n => u = v
  <2> SUFFICES ASSUME NEW u \in Tabs, NEW v \in Tabs, Claiming(u)', Claiming(v)', tab'[u].flow = n, tab'[v].flow = n, u # v
               PROVE  FALSE
    OBVIOUS
  <2>1. u # t /\ v # t
    BY <1>0, <1>1, <1>3, <1>4
  <2> QED
    BY <1>0, <1>1, <1>3, <2>1 DEF FlowInv
<1>8. \A u \in Tabs : Claiming(u)' /\ tab'[u].flow # n => tab'[u] = tab[u]
  BY <1>1, <1>5
<1>9. \A u \in Tabs : Claiming(u)' /\ tab'[u].flow = n =>
         f.completing /\ f.adds = 0 /\ (f.done <=> tab'[u].at = "adding")
  BY <1>0, <1>1, <1>3, <1>4
<1>10. n \in Flows /\ f \in FlowState /\ flow' = [flow EXCEPT ![n] = f]
       /\ (f.adds = 0 \/ (f.adds = 1 /\ f.done)) /\ \A fp \in DOMAIN loginFlows' : loginFlows'[fp] \in Flows
  BY <1>0
<1> QED
  BY ONLY FlowInv, <1>1, <1>2, <1>6, <1>7, <1>8, <1>9, <1>10, FlowMoves

LEMMA FlowStep ==
  ASSUME FlowInv, FlowNext
  PROVE  FlowInv'
<1>1. CASE pruneLoginFlows
  BY <1>1, FlowRests DEF pruneLoginFlows, WithoutKeys, FlowInv, FlowTypeOK
<1>2. ASSUME NEW fp \in Fingerprints, handleLoginStart(fp) PROVE FlowInv'
  BY <1>2, FlowStarts
<1>3. ASSUME NEW t \in Tabs, NEW fp \in Fingerprints, StatusFinds(t, fp) PROVE FlowInv'
  <2>1. tab[t] = Idle /\ fp \in DOMAIN loginFlows /\ tab' = [tab EXCEPT ![t] = [at |-> "found", fp |-> fp, flow |-> loginFlows[fp]]]
        /\ flow' = flow /\ loginFlows' = loginFlows
    BY <1>3 DEF StatusFinds
  <2>2. loginFlows[fp] \in Flows /\ Flows \subseteq Nat /\ tab \in [Tabs -> TabState]
    BY <2>1 DEF FlowInv, FlowTypeOK
  <2>3. tab' \in [Tabs -> TabState]
    BY <2>1, <2>2 DEF TabState
  <2>4. \A u \in Tabs : (tab'[u].at # "idle" => tab'[u].flow \in Flows) /\ (tab'[u] = tab[u] \/ tab'[u].at \in {"idle", "found"})
    BY <2>1, <2>2 DEF FlowInv, FlowTypeOK
  <2> QED
    BY <2>1, <2>3, <2>4, FlowRests DEF FlowInv, FlowTypeOK
<1>4. ASSUME NEW n \in Flows, FlowAges(n) PROVE FlowInv'
  <2> DEFINE f == [flow[n] EXCEPT !.old = TRUE]
  <2>1. flow' = [flow EXCEPT ![n] = f] /\ tab' = tab /\ loginFlows' = loginFlows
    BY <1>4 DEF FlowAges
  <2>2. f \in FlowState /\ f.completing = flow[n].completing /\ f.adds = flow[n].adds /\ f.done = flow[n].done
    BY DEF FlowState, FlowInv, FlowTypeOK
  <2> HIDE DEF f
  <2>3. \A t \in Tabs : Claiming(t)' <=> Claiming(t)
    BY <2>1 DEF Claiming
  <2>4. \A t \in Tabs : Claiming(t)' /\ tab'[t].flow = n =>
           f.completing /\ f.adds = 0 /\ (f.done <=> tab'[t].at = "adding")
    BY <2>1, <2>2, <2>3 DEF FlowInv
  <2>5. f.adds = 0 \/ (f.adds = 1 /\ f.done)
    BY <2>2 DEF FlowInv
  <2>6. \A t, u \in Tabs : Claiming(t)' /\ Claiming(u)' /\ tab'[t].flow = n /\ tab'[u].flow = n => t = u
    BY <2>1, <2>3 DEF FlowInv
  <2>7. /\ tab' \in [Tabs -> TabState]
        /\ \A t \in Tabs : tab'[t].at # "idle" => tab'[t].flow \in Flows
        /\ \A fp \in DOMAIN loginFlows' : loginFlows'[fp] \in Flows
    BY <2>1 DEF FlowInv, FlowTypeOK
  <2> QED
    BY <2>1, <2>2, <2>4, <2>5, <2>6, <2>7, FlowMoves
<1>5. ASSUME NEW t \in Tabs, StatusClaims(t) \/ PollPending(t) \/ PollCompleted(t) \/ FlowAdds(t) PROVE FlowInv'
  <2>1. PICK n : n = tab[t].flow
    OBVIOUS
  <2>0. FlowInv /\ t \in Tabs
    OBVIOUS
  <2>2. tab[t].at \in {"found", "polling", "adding"} /\ tab[t] \in TabState
    BY <1>5 DEF StatusClaims, PollPending, PollCompleted, FlowAdds, FlowInv, FlowTypeOK
  <2>3. n \in Flows /\ n \in Nat /\ flow[n] \in FlowState
    BY <2>1, <2>2 DEF FlowInv, FlowTypeOK
  <2>4. tab[t] \in [at : {"found", "polling", "adding"}, fp : Fingerprints, flow : Nat] /\ Idle \in TabState
    BY <2>2 DEF TabState, Idle
  <2>5. \A fp \in DOMAIN loginFlows : loginFlows[fp] \in Flows
    BY DEF FlowInv, FlowTypeOK
  <2>6. Claiming(t) => /\ \A u \in Tabs \ {t} : ~(Claiming(u) /\ tab[u].flow = n)
                      /\ flow[n].completing /\ flow[n].adds = 0 /\ (flow[n].done <=> tab[t].at = "adding")
    BY <2>1 DEF FlowInv
  <2>7. \A u \in Tabs : Claiming(u) /\ tab[u].flow = n =>
          flow[n].completing /\ flow[n].adds = 0 /\ (flow[n].done <=> tab[u].at = "adding")
    BY DEF FlowInv
  <2>8. flow[n].adds = 0 \/ (flow[n].adds = 1 /\ flow[n].done)
    BY <2>3 DEF FlowInv
  <2>9. CASE StatusClaims(t)
    <3> DEFINE f == [flow[n] EXCEPT !.completing = TRUE]
               s == IF flow[n].done \/ flow[n].completing THEN Idle ELSE [tab[t] EXCEPT !.at = "polling"]
    <3>1. flow' = [flow EXCEPT ![n] = f] /\ tab' = [tab EXCEPT ![t] = s] /\ loginFlows' = loginFlows
      BY <2>1, <2>9 DEF StatusClaims
    <3>2. f \in FlowState /\ f.completing /\ f.adds = flow[n].adds /\ f.done = flow[n].done
      BY <2>3 DEF FlowState
    <3>3. s \in TabState /\ (s.at # "idle" => s.at = "polling" /\ s.flow = n /\ ~flow[n].done /\ ~flow[n].completing)
      BY <2>1, <2>4 DEF TabState, Idle
    <3> HIDE DEF f, s
    <3>4. s.at \in {"polling", "adding"} => f.completing /\ f.adds = 0 /\ (f.done <=> s.at = "adding")
      BY <2>8, <3>2, <3>3
    <3>5. \A u \in Tabs \ {t} : Claiming(u) /\ tab[u].flow = n =>
            /\ s.at \notin {"polling", "adding"}
            /\ f.completing /\ f.adds = 0 /\ (f.done <=> tab[u].at = "adding")
      BY <2>7, <3>2, <3>3
    <3>9. PollMoves(t, n, f, s)
      BY <2>0, <2>1, <2>2, <2>3, <2>5, <2>8, <3>1, <3>2, <3>3, <3>4, <3>5 DEF PollMoves
    <3>10. FlowInv /\ t \in Tabs /\ n \in Flows /\ n = tab[t].flow /\ tab[t].at # "idle" /\ f \in FlowState /\ s \in TabState
      BY <2>0, <2>1, <2>2, <2>3, <2>5, <2>8, <3>1, <3>2, <3>3, <3>4, <3>5
    <3> QED
      BY ONLY <3>9, <3>10, TabMoves
  <2>10. CASE PollPending(t)
    <3> DEFINE f == [flow[n] EXCEPT !.completing = FALSE]
    <3>1. flow' = [flow EXCEPT ![n] = f] /\ tab' = [tab EXCEPT ![t] = Idle] /\ loginFlows' = loginFlows /\ Claiming(t)
      BY <2>1, <2>10 DEF PollPending, Claiming
    <3>2. f \in FlowState /\ f.adds = flow[n].adds /\ f.done = flow[n].done /\ Idle.at = "idle"
      BY <2>3 DEF FlowState, Idle
    <3> HIDE DEF f
    <3>9. PollMoves(t, n, f, Idle)
      BY <2>0, <2>1, <2>2, <2>3, <2>4, <2>5, <2>6, <2>8, <3>1, <3>2 DEF PollMoves
    <3>10. FlowInv /\ t \in Tabs /\ n \in Flows /\ n = tab[t].flow /\ tab[t].at # "idle" /\ f \in FlowState /\ Idle \in TabState
      BY <2>0, <2>1, <2>2, <2>3, <2>4, <2>5, <2>6, <2>8, <3>1, <3>2
    <3> QED
      BY ONLY <3>9, <3>10, TabMoves
  <2>11. CASE PollCompleted(t)
    <3> DEFINE f == [flow[n] EXCEPT !.done = TRUE]
               s == [tab[t] EXCEPT !.at = "adding"]
    <3>1. flow' = [flow EXCEPT ![n] = f] /\ tab' = [tab EXCEPT ![t] = s] /\ Claiming(t)
          /\ loginFlows' = WithKey(loginFlows, tab[t].fp, n)
      BY <2>1, <2>11 DEF PollCompleted, Claiming
    <3>2. f \in FlowState /\ f.adds = flow[n].adds /\ f.completing = flow[n].completing /\ f.done
      BY <2>3 DEF FlowState
    <3>3. s \in TabState /\ s.at = "adding" /\ s.flow = n
      BY <2>1, <2>4 DEF TabState
    <3>4. \A fp \in DOMAIN loginFlows' : loginFlows'[fp] \in Flows
      BY <2>3, <2>5, <3>1 DEF WithKey
    <3> HIDE DEF f, s
    <3>9. PollMoves(t, n, f, s)
      BY <2>0, <2>1, <2>2, <2>3, <2>6, <3>1, <3>2, <3>3, <3>4 DEF PollMoves
    <3>10. FlowInv /\ t \in Tabs /\ n \in Flows /\ n = tab[t].flow /\ tab[t].at # "idle" /\ f \in FlowState /\ s \in TabState
      BY <2>0, <2>1, <2>2, <2>3, <2>6, <3>1, <3>2, <3>3, <3>4
    <3> QED
      BY ONLY <3>9, <3>10, TabMoves
  <2>12. CASE FlowAdds(t)
    <3>1. tab' = [tab EXCEPT ![t] = Idle] /\ loginFlows' = loginFlows /\ Claiming(t) /\ tab[t].at = "adding"
      BY <2>12 DEF FlowAdds, Claiming
    <3>2. flow[n].adds = 0 /\ flow[n].done
      BY <2>6, <3>1
    <3>3. PICK f \in FlowState : flow' = [flow EXCEPT ![n] = f] /\ f.adds = 1 /\ f.done
      <4> DEFINE added == [flow[n] EXCEPT !.adds = @ + 1, !.index = flow[n].adds + 1]
                 lost == [flow[n] EXCEPT !.adds = @ + 1, !.completing = FALSE]
      <4>1. flow' = [flow EXCEPT ![n] = added] \/ flow' = [flow EXCEPT ![n] = lost]
        BY <2>1, <2>12 DEF FlowAdds
      <4>2. /\ added \in FlowState /\ added.adds = 1 /\ added.done
            /\ lost \in FlowState /\ lost.adds = 1 /\ lost.done
        <5>1. flow[n].adds + 1 = 1
          BY <3>2
        <5>2. added = [flow[n] EXCEPT !.adds = 1, !.index = 1] /\ lost = [flow[n] EXCEPT !.adds = 1, !.completing = FALSE]
          BY <5>1, <3>2
        <5>3. ASSUME NEW r \in FlowState
              PROVE  /\ [r EXCEPT !.adds = 1, !.index = 1] \in FlowState
                     /\ [r EXCEPT !.adds = 1, !.index = 1].adds = 1
                     /\ [r EXCEPT !.adds = 1, !.index = 1].done = r.done
          BY DEF FlowState
        <5>4. ASSUME NEW r \in FlowState
              PROVE  /\ [r EXCEPT !.adds = 1, !.completing = FALSE] \in FlowState
                     /\ [r EXCEPT !.adds = 1, !.completing = FALSE].adds = 1
                     /\ [r EXCEPT !.adds = 1, !.completing = FALSE].done = r.done
          BY DEF FlowState
        <5>5. added \in FlowState /\ added.adds = 1 /\ added.done
          BY <2>3, <3>2, <5>2, <5>3
        <5>6. lost \in FlowState /\ lost.adds = 1 /\ lost.done
          BY <2>3, <3>2, <5>2, <5>4
        <5> QED
          BY <5>5, <5>6
      <4>3. added \in FlowState /\ added.adds = 1 /\ added.done
        BY <4>2
      <4>4. lost \in FlowState /\ lost.adds = 1 /\ lost.done
        BY <4>2
      <4> HIDE DEF added, lost
      <4>5. CASE flow' = [flow EXCEPT ![n] = added]
        BY ONLY <4>3, <4>5
      <4>6. CASE flow' = [flow EXCEPT ![n] = lost]
        BY ONLY <4>4, <4>6
      <4> QED
        BY <4>1, <4>5, <4>6
    <3>4. Idle.at = "idle"
      BY DEF Idle
    <3>9. PollMoves(t, n, f, Idle)
      BY <2>0, <2>1, <2>2, <2>3, <2>4, <2>5, <2>6, <3>1, <3>3, <3>4 DEF PollMoves
    <3>10. FlowInv /\ t \in Tabs /\ n \in Flows /\ n = tab[t].flow /\ tab[t].at # "idle" /\ f \in FlowState /\ Idle \in TabState
      BY <2>0, <2>1, <2>2, <2>3, <2>4, <2>5, <2>6, <3>1, <3>3, <3>4
    <3> QED
      BY ONLY <3>9, <3>10, TabMoves
  <2> QED
    BY <1>5, <2>9, <2>10, <2>11, <2>12
<1> QED
  BY <1>1, <1>2, <1>3, <1>4, <1>5 DEF FlowNext

-----------------------------------------------------------------------------
(* The .env file.                                                          *)

EnvContent == [there : BOOLEAN, lines : SUBSET (EnvKeys \X EnvValues)]
EnvSteps == {"idle", "rename", "aside", "again", "restore", "clean"}

EnvTypeOK ==
  /\ env \in EnvContent /\ aside \in EnvContent
  /\ write \in [at : EnvSteps, tries : Nat, before : EnvContent, after : EnvContent, ok : BOOLEAN, undo : BOOLEAN]

\* Until the new content is in place the old one is in the file or, while the file
\* is gone, beside it: the file is moved aside only while it holds the old one.
EnvInv ==
  /\ EnvTypeOK
  /\ write.at # "idle" => ~write.ok
  /\ write.at = "aside" => env.there
  /\ write.at \in {"rename", "aside", "again", "restore"} /\ write.before.there =>
       env = write.before \/ (~env.there /\ aside = write.before)
  /\ write.at = "clean" => env = write.after
  /\ OneCopySurvives

LEMMA EnvInit == EnvFileInit => EnvInv
<1> SUFFICES ASSUME EnvFileInit PROVE EnvInv
  OBVIOUS
<1>1. env \in EnvContent /\ aside \in EnvContent
  <2>1. Missing \in EnvContent /\ \A k \in EnvKeys, v \in EnvValues : FileWith({<<k, v>>}) \in EnvContent
    BY DEF EnvContent, Missing, FileWith
  <2> QED
    <3>1. aside = Missing /\ (env = Missing \/ \E k \in EnvKeys, v \in EnvValues : env = FileWith({<<k, v>>}))
      BY DEF EnvFileInit
    <3> QED
      BY <2>1, <3>1
<1> QED
  BY <1>1 DEF EnvFileInit, EnvInv, EnvTypeOK, EnvSteps, OneCopySurvives

LEMMA EnvUpdates ==
  ASSUME EnvInv, updateEnvKeys
  PROVE  EnvInv'
<1>1. PICK k \in EnvKeys, v \in EnvValues :
        write' = [at |-> "rename", tries |-> 0, before |-> env,
                  after |-> FileWith(ApplyEnvUpdates(env.lines, {<<k, v>>})), ok |-> FALSE, undo |-> FALSE]
  BY DEF updateEnvKeys
<1>2. FileWith(ApplyEnvUpdates(env.lines, {<<k, v>>})) \in EnvContent
  BY DEF EnvInv, EnvTypeOK, EnvContent, FileWith, ApplyEnvUpdates
<1>3. env' = env /\ aside' = aside
  BY DEF updateEnvKeys
<1> QED
  BY <1>1, <1>2, <1>3 DEF EnvInv, EnvTypeOK, EnvSteps, OneCopySurvives

LEMMA EnvRestores ==
  ASSUME EnvInv, restoreEnvFile
  PROVE  EnvInv'
<1>1. CASE write.before.there
  <2>1. /\ write' = [at |-> "rename", tries |-> 0, before |-> env, after |-> write.before, ok |-> FALSE, undo |-> TRUE]
        /\ env' = env /\ aside' = aside
    BY <1>1 DEF restoreEnvFile
  <2>2. EnvTypeOK'
    BY <2>1 DEF EnvInv, EnvTypeOK, EnvSteps
  <2> QED
    BY <2>1, <2>2 DEF EnvInv, OneCopySurvives
<1>2. CASE ~write.before.there
  <2>1. env' = Missing /\ aside' = aside /\ write' = [write EXCEPT !.undo = TRUE, !.before = Missing, !.after = Missing]
        /\ write.at = "idle"
    BY <1>2 DEF restoreEnvFile
  <2>2. Missing \in EnvContent /\ ~Missing.there
    BY DEF Missing, EnvContent
  <2> QED
    BY <2>1, <2>2 DEF EnvInv, EnvTypeOK, EnvSteps, OneCopySurvives
<1> QED
  BY <1>1, <1>2

LEMMA EnvStep ==
  ASSUME EnvInv, EnvFileNext
  PROVE  EnvInv'
<1> USE DEF EnvInv, EnvTypeOK, EnvSteps, OneCopySurvives, Goes
<1>1. CASE updateEnvKeys
  BY <1>1, EnvUpdates
<1>2. CASE restoreEnvFile
  BY <1>2, EnvRestores
<1>3. CASE Rename
  BY <1>3 DEF Rename
<1>4. CASE MoveAside
  <2>1. ~Missing.there /\ Missing \in EnvContent
    BY DEF Missing, EnvContent
  <2> QED
    BY <1>4, <2>1 DEF MoveAside
<1>5. CASE RenameAgain
  BY <1>5 DEF RenameAgain
<1>6. CASE Restore
  <2>1. Missing \in EnvContent
    BY DEF Missing, EnvContent
  <2> QED
    <3>1. /\ write.at = "restore"
          /\ write' = [write EXCEPT !.tries = write.tries + 1,
                                     !.at = IF write.tries + 1 < RenameAttempts THEN "rename" ELSE "idle"]
          /\ (UNCHANGED <<env, aside>> \/ (~env.there /\ aside.there /\ env' = aside /\ aside' = Missing))
      BY <1>6 DEF Restore
    <3>2. EnvTypeOK'
      <4>1. env' \in EnvContent /\ aside' \in EnvContent
        BY <2>1, <3>1
      <4>2. write.tries + 1 \in Nat
        OBVIOUS
      <4>3. write' = [write EXCEPT !.tries = write.tries + 1, !.at = "rename"]
            \/ write' = [write EXCEPT !.tries = write.tries + 1, !.at = "idle"]
        BY <3>1
      <4> QED
        BY <4>1, <4>2, <4>3
    <3>3. /\ write'.at \in {"rename", "idle"} /\ ~write'.ok /\ write'.before = write.before
          /\ (write.before.there => env' = write.before \/ (~env'.there /\ aside' = write.before))
      BY <3>1
    <3> HIDE DEF EnvTypeOK
    <3> QED
      BY <3>2, <3>3
<1>7. CASE Clean
  <2>1. Missing \in EnvContent
    BY DEF Missing, EnvContent
  <2> QED
    BY <1>7, <2>1 DEF Clean
<1>8. CASE Died
  BY <1>8 DEF Died
<1> QED
  BY <1>1, <1>2, <1>3, <1>4, <1>5, <1>6, <1>7, <1>8 DEF EnvFileNext

LEMMA EnvStutters ==
  ASSUME EnvInv, UNCHANGED envVars
  PROVE  EnvInv'
  BY DEF envVars, EnvInv, EnvTypeOK, OneCopySurvives

-----------------------------------------------------------------------------
(* The update of the binary.                                               *)

Runs == 1..MaxRuns
Binary == {"installed", "published"}
UpdateSteps ==
  {"idle", "release", "download", "verify", "extract", "stage", "helper", "clear", "move", "install", "done"}

UpdateTypeOK ==
  /\ windows \in BOOLEAN
  /\ exe \in Binary \cup {NoFile} /\ old \in Binary \cup {NoFile}
  /\ tmp \in [Runs -> {NoFile, "published"}]
  /\ update \in [at : UpdateSteps, spent : Nat, loading : Nat, archive : {NoFile, "published", "other"}, why : {update.why}]
  /\ helpers \subseteq Runs \X Nat
  /\ runs \in Nat /\ (update.at # "idle" => runs \in Runs)

\* What is unpacked is what was published; what a step is about to move is there.
UpdateInv ==
  /\ UpdateTypeOK
  /\ update.at \in {"extract", "stage"} => update.archive = "published"
  /\ update.at \in {"clear", "move", "install"} => ~windows /\ tmp[runs] = "published"
  /\ update.at = "done" => ~windows
  /\ update.at = "helper" => windows
  /\ helpers # {} => windows
  /\ windows => exe # NoFile
  /\ update.at \notin {"idle", "install"} => exe # NoFile
  /\ update.at = "install" => old # NoFile
  /\ update.at = "done" => exe = "published"
  /\ update.at # "idle" => update.why = NoFile
  /\ BinaryKept

LEMMA UpdateStarts == UpdateInit => UpdateInv
<1> SUFFICES ASSUME UpdateInit PROVE UpdateInv
  OBVIOUS
<1> QED
  <2>1. /\ windows \in BOOLEAN /\ exe = "installed" /\ old = "none" /\ tmp = [r \in Runs |-> "none"]
        /\ update = [at |-> "idle", spent |-> 0, loading |-> 0, archive |-> "none", why |-> "none"]
        /\ helpers = {} /\ runs = 0
    BY DEF UpdateInit, NoUpdate, NoFile, Runs
  <2>2. UpdateTypeOK
    <3>1. update \in [at : UpdateSteps, spent : Nat, loading : Nat, archive : {NoFile, "published", "other"}, why : {update.why}]
      BY <2>1 DEF UpdateSteps, NoFile
    <3>2. tmp \in [Runs -> {NoFile, "published"}] /\ helpers \subseteq Runs \X Nat
      BY <2>1 DEF NoFile
    <3> QED
      BY <2>1, <3>1, <3>2 DEF UpdateTypeOK, NoFile, Binary
  <2>3. BinaryKept
    BY <2>1 DEF BinaryKept, NoFile
  <2> QED
    BY <2>1, <2>2, <2>3 DEF UpdateInv, NoFile

\* Steps of the update that touch no file.
LEMMA UpdateWaits ==
  ASSUME UpdateInv, Run \/ Wait \/ Release \/ downloadURL \/ verifyChecksum \/ extractBinaryFromArchive
  PROVE  UpdateInv'
<1> USE DEF UpdateInv, UpdateTypeOK, UpdateSteps, NoUpdate, NoFile, Binary, BinaryKept, Runs, Continue, Exit, files
<1>1. CASE Run
  BY <1>1, UpdateAssumption DEF Run
<1>2. CASE Wait
  BY <1>2 DEF Wait
<1>3. CASE Release
  BY <1>3 DEF Release
<1>4. CASE downloadURL
  BY <1>4 DEF downloadURL
<1>5. CASE verifyChecksum
  <2>1. UNCHANGED <<windows, exe, old, tmp, helpers, runs>> /\ update.at = "verify"
    BY <1>5 DEF verifyChecksum
  <2>2. CASE update.archive = "published" /\ Continue("extract")
    BY <2>1, <2>2
  <2>3. CASE Exit("refused")
    BY <2>1, <2>3
  <2>4. CASE Exit("no time to verify")
    BY <2>1, <2>4
  <2> QED
    BY <1>5, <2>2, <2>3, <2>4 DEF verifyChecksum
<1>6. CASE extractBinaryFromArchive
  BY <1>6 DEF extractBinaryFromArchive
<1> QED
  BY <1>1, <1>2, <1>3, <1>4, <1>5, <1>6

LEMMA UpdateSwaps ==
  ASSUME UpdateInv, Stage \/ Clear \/ Move \/ Install \/ Done \/ Launch
  PROVE  UpdateInv'
<1> USE DEF UpdateInv, UpdateTypeOK, UpdateSteps, NoUpdate, NoFile, Binary, BinaryKept, Runs, Continue, Exit
<1>1. CASE Stage
  BY <1>1 DEF Stage
<1>2. CASE Clear
  BY <1>2 DEF Clear
<1>3. CASE Move
  BY <1>3 DEF Move
<1>4. CASE Install
  BY <1>4 DEF Install
<1>5. CASE Done
  BY <1>5 DEF Done
<1>6. CASE Launch
  BY <1>6 DEF Launch
<1> QED
  BY <1>1, <1>2, <1>3, <1>4, <1>5, <1>6

LEMMA UpdateHelped ==
  ASSUME UpdateInv, NEW h \in helpers, Helper(h)
  PROVE  UpdateInv'
<1> USE DEF UpdateInv, UpdateTypeOK, UpdateSteps, NoFile, Binary, BinaryKept
<1>1. h \in Runs \X Nat /\ windows /\ h[1] \in Runs /\ h[2] \in Nat
  OBVIOUS
<1>2. UNCHANGED <<windows, old, update, runs>>
  BY DEF Helper
<1>3. CASE tmp[h[1]] # NoFile /\ exe' = tmp[h[1]] /\ tmp' = [tmp EXCEPT ![h[1]] = NoFile] /\ helpers' = helpers \ {h}
  BY <1>1, <1>2, <1>3
<1>4. CASE /\ helpers' = (helpers \ {h}) \cup (IF h[2] + 1 < SwapTries THEN {<<h[1], h[2] + 1>>} ELSE {})
           /\ UNCHANGED <<exe, tmp>>
  <2>1. helpers' \subseteq Runs \X Nat
    BY <1>1, <1>4
  <2> QED
    BY <1>1, <1>2, <1>4, <2>1
<1> QED
  BY <1>3, <1>4 DEF Helper

LEMMA UpdateStep ==
  ASSUME UpdateInv, UpdateNext
  PROVE  UpdateInv'
<1>1. CASE Run \/ Wait \/ Release \/ downloadURL \/ verifyChecksum \/ extractBinaryFromArchive
  BY <1>1, UpdateWaits
<1>2. CASE Stage \/ Clear \/ Move \/ Install \/ Done \/ Launch
  BY <1>2, UpdateSwaps
<1>3. ASSUME NEW h \in helpers, Helper(h) PROVE UpdateInv'
  BY <1>3, UpdateHelped
<1>4. CASE Killed
  BY <1>4 DEF Killed, UpdateInv, UpdateTypeOK, UpdateSteps, NoUpdate, NoFile, Binary, BinaryKept, files
<1> QED
  BY <1>1, <1>2, <1>3, <1>4 DEF UpdateNext

LEMMA UpdateStutters ==
  ASSUME UpdateInv, UNCHANGED updateVars
  PROVE  UpdateInv'
  BY DEF updateVars, UpdateInv, UpdateTypeOK, BinaryKept

-----------------------------------------------------------------------------
(* The migration of the database.                                          *)

MigrateSteps == {"down", "refused", "baseline", "seed", "up", "stamp", "chmod", "open", "failed"}

MigrateTypeOK ==
  /\ schema \in [objects : SUBSET Int, stamp : Int, recorded : SUBSET Int, tight : BOOLEAN]
  /\ opening \in [at : MigrateSteps, base : Nat, next : Nat]

\* The file holds the objects of the versions up to k, and the rows of those up to
\* j: no row precedes its objects, and a baseline stays below what is there.
Migrating(k, j) ==
  /\ k \in 0..Latest /\ j \in -1..k
  /\ schema.objects = 1..k
  /\ schema.recorded = NoTable \/ schema.recorded = 0..j
  /\ schema.stamp \in 0..k
  /\ opening.at # "refused"
  /\ opening.at \in {"baseline", "seed"} => opening.base \in 0..k
  /\ opening.at = "baseline" => opening.next = 0
  /\ opening.at = "seed" => opening.next \in 0..opening.base /\ schema.recorded = 0..(opening.next - 1)
  /\ opening.at = "up" => j >= 0 /\ schema.recorded = 0..j
  /\ opening.at \in {"stamp", "chmod", "open"} => schema.recorded = 0..j /\ j = Latest
  /\ opening.at \in {"chmod", "open"} => schema.stamp = Latest
  /\ opening.at = "open" => schema.tight

MigrateInv ==
  /\ MigrateTypeOK
  /\ \/ schema = Unknown /\ opening.at \in {"down", "refused"}
     \/ \E k \in 0..Latest : \E j \in -1..k : Migrating(k, j)

LEMMA MigrateStarts == MigrateInit => MigrateInv
<1> SUFFICES ASSUME MigrateInit PROVE MigrateInv
  OBVIOUS
<1> USE MigrateAssumption
<1>1. opening = [at |-> "down", base |-> 0, next |-> 0] /\ opening \in [at : MigrateSteps, base : Nat, next : Nat]
  BY DEF MigrateInit, Down, MigrateSteps
<1>2. CASE schema = Unknown
  <2>1. schema = [objects |-> 1..Latest, stamp |-> Latest + 1, recorded |-> {-1}, tight |-> FALSE]
    BY <1>2 DEF Unknown, NewFile, NoTable
  <2> QED
    BY <1>1, <1>2, <2>1 DEF MigrateInv, MigrateTypeOK
<1>3. CASE schema = NewFile
  <2>1. schema = [objects |-> {}, stamp |-> 0, recorded |-> {-1}, tight |-> FALSE]
    BY <1>3 DEF NewFile, NoTable
  <2>2. Migrating(0, -1)
    BY <1>1, <2>1 DEF Migrating, NoTable
  <2>3. 0 \in 0..Latest /\ -1 \in -1..0
    OBVIOUS
  <2> QED
    BY <1>1, <2>1, <2>2, <2>3 DEF MigrateInv, MigrateTypeOK
<1>4. CASE schema \in Known
  <2>1. PICK k \in 1..Latest : schema.objects = 1..k
    BY <1>4 DEF Known, Legacy
  <2>2. /\ schema \in [objects : {1..m : m \in 1..Latest}, stamp : 0..Latest, recorded : {{-1}}, tight : BOOLEAN]
        /\ schema.stamp = 0 \/ schema.objects \in {1..schema.stamp, 1..(schema.stamp + 1)}
    BY <1>4 DEF Known, Legacy, NoTable
  <2>3. schema.stamp \in 0..k
    <3>1. \A s \in 0..Latest : 1..k = 1..s => s = k
      <4> SUFFICES ASSUME NEW s \in 0..Latest, 1..k = 1..s PROVE s = k
        OBVIOUS
      <4>1. k \in 1..s /\ (s >= 1 => s \in 1..k)
        BY <2>1
      <4> QED
        BY <2>1, <4>1
    <3>2. \A s \in 0..Latest : 1..k = 1..(s + 1) => s < k
      <4> SUFFICES ASSUME NEW s \in 0..Latest, 1..k = 1..(s + 1) PROVE s < k
        OBVIOUS
      <4>1. s + 1 \in 1..k
        OBVIOUS
      <4> QED
        BY <2>1, <4>1
    <3> QED
      BY <2>1, <2>2, <3>1, <3>2
  <2>4. schema.recorded = {-1} /\ schema.objects \subseteq Int
    BY <2>1, <2>2
  <2>5. Migrating(k, -1)
    BY <1>1, <2>1, <2>3, <2>4 DEF Migrating, NoTable
  <2>6. MigrateTypeOK
    BY <1>1, <2>2, <2>4 DEF MigrateTypeOK
  <2>7. k \in 0..Latest /\ -1 \in -1..k
    BY <2>1
  <2> QED
    BY <2>5, <2>6, <2>7 DEF MigrateInv
<1> QED
  BY <1>2, <1>3, <1>4 DEF MigrateInit

\* The baseline is the version of objects the file has.
LEMMA BaselineBelow ==
  ASSUME NEW k \in 0..Latest, NEW j \in -1..k, Migrating(k, j)
  PROVE  baselineVersion(schema.stamp) \in 0..k
<1>1. \A n \in Nat : hasTable(n) => n \in 0..k
  BY DEF hasTable, Migrating
<1>2. schema.stamp \in 0..k
  BY DEF Migrating
<1> QED
  BY <1>1, <1>2 DEF baselineVersion

LEMMA MigrateOpens ==
  ASSUME MigrateInv, OpenWithStatus
  PROVE  MigrateInv'
<1> USE MigrateAssumption
<1>1. schema' = schema /\ opening.at = "down"
  BY DEF OpenWithStatus
<1>2. CASE schema = Unknown
  <2>1. schema.stamp = Latest + 1
    BY <1>2 DEF Unknown, NewFile
  <2>2. opening' = [opening EXCEPT !.at = "refused"]
    BY <2>1 DEF OpenWithStatus, Proceed
  <2> QED
    BY <1>1, <1>2, <2>2 DEF MigrateInv, MigrateTypeOK, MigrateSteps
<1>3. ASSUME NEW k \in 0..Latest, NEW j \in -1..k, Migrating(k, j) PROVE MigrateInv'
  <2>1. schema.stamp \in 0..Latest
    BY <1>3 DEF Migrating
  <2>2. CASE schema.stamp = Latest /\ gooseAtLatest
    <3>1. opening' = [opening EXCEPT !.at = "stamp"]
      BY <2>1, <2>2 DEF OpenWithStatus, Proceed
    <3>2. schema.recorded = 0..j /\ j = Latest
      <4>1. Latest \in schema.recorded
        BY <2>2 DEF gooseAtLatest
      <4>2. schema.recorded = 0..j
        BY <1>3, <4>1 DEF Migrating, NoTable
      <4> QED
        BY <4>1, <4>2
    <3>3. Migrating(k, j)'
      BY <1>1, <1>3, <3>1, <3>2 DEF Migrating, MigrateInv, MigrateTypeOK
    <3> QED
      BY <1>1, <3>1, <3>3 DEF MigrateInv, MigrateTypeOK, MigrateSteps
  <2>3. CASE ~(schema.stamp = Latest /\ gooseAtLatest)
    <3>1. opening' = [at |-> "baseline", base |-> baselineVersion(schema.stamp), next |-> 0]
      BY <2>1, <2>3 DEF OpenWithStatus
    <3>2. baselineVersion(schema.stamp) \in 0..k
      BY <1>3, BaselineBelow
    <3>3. Migrating(k, j)'
      BY <1>1, <1>3, <3>1, <3>2 DEF Migrating
    <3> QED
      BY <1>1, <3>1, <3>2, <3>3 DEF MigrateInv, MigrateTypeOK, MigrateSteps
  <2> QED
    BY <2>2, <2>3
<1> QED
  BY <1>2, <1>3 DEF MigrateInv

\* Every other step starts from a file that is not refused.
LEMMA MigrateWorks ==
  ASSUME NEW k \in 0..Latest, NEW j \in -1..k, MigrateTypeOK, Migrating(k, j),
         Baseline \/ Seed \/ Up \/ Stamp \/ Chmod
  PROVE  MigrateInv'
<1> USE MigrateAssumption
<1>1. CASE Baseline
  <2> DEFINE rows0 == IF schema.recorded = NoTable THEN {} ELSE schema.recorded
  <2>1. opening.at = "baseline" /\ opening.base \in 0..k /\ opening.next = 0
    BY <1>1 DEF Baseline, Migrating
  <2>2. \/ rows0 = {}
        \/ rows0 = 0..j /\ j >= 0 /\ rows0 # {}
    BY DEF Migrating
  <2>3. CASE opening.base > 0 /\ rows0 = {}
    <3>1. schema' = [schema EXCEPT !.recorded = {}] /\ opening' = [opening EXCEPT !.at = "seed"]
      BY <1>1, <2>3 DEF Baseline, Proceed
    <3>2. {} = 0..(0 - 1) /\ -1 \in -1..k
      OBVIOUS
    <3>3. Migrating(k, -1)'
      BY <2>1, <2>3, <3>1, <3>2 DEF Migrating, MigrateTypeOK
    <3> QED
      BY <3>1, <3>2, <3>3 DEF MigrateInv, MigrateTypeOK, MigrateSteps
  <2>4. CASE opening.base > 0 /\ rows0 = 0..j /\ j >= 0 /\ rows0 # {}
    <3>1. schema' = [schema EXCEPT !.recorded = 0..j] /\ opening' = [opening EXCEPT !.at = "up"]
      BY <1>1, <2>4 DEF Baseline, Proceed
    <3>2. Migrating(k, j)'
      BY <2>1, <2>4, <3>1 DEF Migrating, MigrateTypeOK
    <3> QED
      BY <3>1, <3>2 DEF MigrateInv, MigrateTypeOK, MigrateSteps
  <2>5. CASE opening.base = 0
    <3>1. schema' = [schema EXCEPT !.recorded = rows0 \cup {0}] /\ opening' = [opening EXCEPT !.at = "up"]
      BY <1>1, <2>5 DEF Baseline, Proceed
    <3>2. PICK i \in -1..k : i >= 0 /\ rows0 \cup {0} = 0..i
      <4>1. CASE rows0 = {}
        <5>1. rows0 \cup {0} = 0..0 /\ 0 \in -1..k
          BY <4>1
        <5> QED
          BY <5>1
      <4>2. CASE rows0 = 0..j /\ j >= 0
        <5>1. rows0 \cup {0} = 0..j
          BY <4>2
        <5> QED
          BY <4>2, <5>1
      <4> QED
        BY <2>2, <4>1, <4>2
    <3> HIDE DEF rows0
    <3>3. Migrating(k, i)'
      BY <2>1, <3>1, <3>2 DEF Migrating, MigrateTypeOK
    <3> QED
      BY <3>1, <3>2, <3>3 DEF MigrateInv, MigrateTypeOK, MigrateSteps
  <2>6. opening.base = 0 \/ opening.base > 0
    BY <2>1
  <2> QED
    BY <2>2, <2>3, <2>4, <2>5, <2>6
<1>2. CASE Seed
  <2>1. /\ opening.at = "seed" /\ opening.base \in 0..k /\ opening.next \in 0..opening.base
        /\ schema.recorded = 0..(opening.next - 1)
        /\ schema' = [schema EXCEPT !.recorded = schema.recorded \cup {opening.next}]
    BY <1>2 DEF Seed, Migrating
  <2>2. PICK i \in 0..k : i = opening.next
    BY <2>1
  <2>3. schema.recorded \cup {i} = 0..i
    BY <2>1, <2>2
  <2>4. schema' = [schema EXCEPT !.recorded = 0..i]
    BY <2>1, <2>2, <2>3
  <2>5. CASE opening.next < opening.base
    <3>1. opening' = [opening EXCEPT !.next = i + 1] /\ i + 1 \in 0..opening.base /\ i + 1 - 1 = i
      BY <1>2, <2>1, <2>2, <2>5 DEF Seed
    <3>2. Migrating(k, i)'
      BY <2>1, <2>2, <2>4, <3>1 DEF Migrating, MigrateTypeOK
    <3> QED
      BY <2>2, <2>4, <3>1, <3>2 DEF MigrateInv, MigrateTypeOK, MigrateSteps
  <2>6. CASE ~(opening.next < opening.base)
    <3>1. opening' = [opening EXCEPT !.at = "up"]
      BY <1>2, <2>6 DEF Seed, Proceed
    <3>2. Migrating(k, i)'
      BY <2>1, <2>2, <2>4, <3>1 DEF Migrating, MigrateTypeOK
    <3> QED
      BY <2>2, <2>4, <3>1, <3>2 DEF MigrateInv, MigrateTypeOK, MigrateSteps
  <2> QED
    BY <2>5, <2>6
<1>3. CASE Up
  <2>1. opening.at = "up" /\ j >= 0 /\ schema.recorded = 0..j /\ schema.objects = 1..k
    BY <1>3 DEF Up, Migrating
  <2>2. Pending = (j + 1)..Latest
    BY <2>1 DEF Pending
  <2>3. CASE Pending = {}
    <3>1. schema' = schema /\ opening' = [opening EXCEPT !.at = "stamp"]
      BY <1>3, <2>3 DEF Up, Proceed
    <3>2. j = Latest
      BY <2>2, <2>3
    <3>3. Migrating(k, j)'
      BY <2>1, <3>1, <3>2 DEF Migrating, MigrateTypeOK
    <3> QED
      BY <3>1, <3>3 DEF MigrateInv, MigrateTypeOK, MigrateSteps
  <2>4. CASE Pending # {}
    <3> DEFINE v == CHOOSE n \in Pending : \A m \in Pending : n <= m
    <3>1. v = j + 1 /\ j + 1 <= Latest
      <4>1. j + 1 \in Pending /\ j + 1 <= Latest /\ \A m \in Pending : j + 1 <= m
        BY <2>2, <2>4
      <4>2. v \in Pending /\ \A m \in Pending : v <= m
        BY <4>1
      <4>3. v <= j + 1 /\ j + 1 <= v /\ v \in Int
        BY <2>2, <4>1, <4>2
      <4> QED
        BY <4>1, <4>3
    <3>2. CASE v \in Adding /\ hasTable(v)
      <4>1. schema' = schema /\ opening' = [opening EXCEPT !.at = "failed"]
        BY <1>3, <2>4, <3>2 DEF Up, Proceed
      <4>2. Migrating(k, j)'
        BY <4>1 DEF Migrating, MigrateTypeOK
      <4> QED
        BY <4>1, <4>2 DEF MigrateInv, MigrateTypeOK, MigrateSteps
    <3>3. CASE ~(v \in Adding /\ hasTable(v))
      <4>1. schema' = [schema EXCEPT !.objects = schema.objects \cup {v}, !.recorded = schema.recorded \cup {v}]
            /\ opening' = opening
        BY <1>3, <2>4, <3>3 DEF Up
      <4> HIDE DEF v
      <4>2. schema.recorded \cup {v} = 0..(j + 1)
        BY <2>1, <3>1
      <4>3. PICK i \in 0..Latest : i >= k /\ i >= j + 1 /\ schema.objects \cup {v} = 1..i
        <5>1. CASE j + 1 <= k
          <6>1. schema.objects \cup {v} = 1..k
            BY <2>1, <3>1, <5>1
          <6> QED
            BY <5>1, <6>1
        <5>2. CASE j = k
          <6>1. schema.objects \cup {v} = 1..(k + 1) /\ k + 1 \in 0..Latest
            BY <2>1, <3>1, <5>2
          <6> QED
            BY <5>2, <6>1
        <5> QED
          BY <5>1, <5>2
      <4>4. PICK n : n = j + 1
        OBVIOUS
      <4>5. /\ schema'.objects = 1..i /\ schema'.recorded = 0..n
            /\ schema'.stamp = schema.stamp /\ schema'.tight = schema.tight
        BY <4>1, <4>2, <4>3, <4>4 DEF MigrateTypeOK
      <4>6. n \in 0..i /\ n \in -1..i
        BY <4>3, <4>4, <2>1
      <4>7. Migrating(i, n)'
        BY <2>1, <4>1, <4>3, <4>5, <4>6 DEF Migrating
      <4>8. schema' \in [objects : SUBSET Int, stamp : Int, recorded : SUBSET Int, tight : BOOLEAN]
        <5>1. schema.objects \cup {v} \subseteq Int /\ schema.recorded \cup {v} \subseteq Int
          BY <4>2, <4>3
        <5> QED
          BY <4>1, <5>1 DEF MigrateTypeOK
      <4> QED
        BY <4>1, <4>3, <4>6, <4>7, <4>8 DEF MigrateInv, MigrateTypeOK, MigrateSteps
    <3> QED
      BY <3>2, <3>3
  <2> QED
    BY <2>3, <2>4
<1>4. CASE Stamp
  <2>1. schema' = [schema EXCEPT !.stamp = Latest] /\ opening' = [opening EXCEPT !.at = "chmod"] /\ opening.at = "stamp"
    BY <1>4 DEF Stamp, Proceed
  <2>2. Migrating(k, j)'
    BY <2>1 DEF Migrating, MigrateTypeOK
  <2> QED
    BY <2>1, <2>2 DEF MigrateInv, MigrateTypeOK, MigrateSteps
<1>5. CASE Chmod
  <2>1. opening.at = "chmod"
        /\ \/ schema' = [schema EXCEPT !.tight = TRUE] /\ opening' = [opening EXCEPT !.at = "open"]
           \/ schema' = schema /\ opening' = [opening EXCEPT !.at = "failed"]
    BY <1>5 DEF Chmod, Proceed
  <2>2. Migrating(k, j)'
    BY <2>1 DEF Migrating, MigrateTypeOK
  <2> QED
    BY <2>1, <2>2 DEF MigrateInv, MigrateTypeOK, MigrateSteps
<1> QED
  BY <1>1, <1>2, <1>3, <1>4, <1>5

LEMMA MigrateStep ==
  ASSUME MigrateInv, MigrateNext
  PROVE  MigrateInv'
<1>1. CASE OpenWithStatus
  BY <1>1, MigrateOpens
<1>2. CASE Baseline \/ Seed \/ Up \/ Stamp \/ Chmod
  <2>1. opening.at \notin {"down", "refused"}
    BY <1>2 DEF Baseline, Seed, Up, Stamp, Chmod
  <2> QED
    BY <1>2, <2>1, MigrateWorks DEF MigrateInv
<1>3. CASE OpeningDies
  <2>1. schema' = schema /\ opening' = [at |-> "down", base |-> 0, next |-> 0]
    BY <1>3 DEF OpeningDies, Down
  <2>2. MigrateTypeOK'
    BY <2>1 DEF MigrateInv, MigrateTypeOK, MigrateSteps
  <2>3. ASSUME NEW k \in 0..Latest, NEW j \in -1..k, Migrating(k, j) PROVE Migrating(k, j)'
    BY <2>1, <2>3 DEF Migrating
  <2>4. schema = Unknown => schema' = Unknown /\ opening'.at = "down"
    BY <2>1 DEF Unknown, NewFile, NoTable
  <2> QED
    BY <2>2, <2>3, <2>4 DEF MigrateInv, Unknown, NewFile
<1> QED
  BY <1>1, <1>2, <1>3 DEF MigrateNext

LEMMA MigrateStutters ==
  ASSUME MigrateInv, UNCHANGED migrateVars
  PROVE  MigrateInv'
  BY DEF migrateVars, MigrateInv, MigrateTypeOK, Migrating, Unknown, NewFile, NoTable

LEMMA MigrateOpened == MigrateInv => OpenedIsLatest
<1> SUFFICES ASSUME MigrateInv PROVE OpenedIsLatest
  OBVIOUS
<1> USE MigrateAssumption
<1>1. CASE schema = Unknown /\ opening.at \in {"down", "refused"}
  BY <1>1 DEF OpenedIsLatest, Unknown, NewFile, NoTable
<1>2. ASSUME NEW k \in 0..Latest, NEW j \in -1..k, Migrating(k, j) PROVE OpenedIsLatest
  <2>1. opening.at = "open" => schema.objects = 1..Latest /\ gooseAtLatest /\ schema.stamp = Latest /\ schema.tight
    <3> SUFFICES ASSUME opening.at = "open"
                 PROVE  schema.objects = 1..Latest /\ gooseAtLatest /\ schema.stamp = Latest /\ schema.tight
      OBVIOUS
    <3>1. schema.recorded = 0..j /\ j = Latest /\ k = Latest
      BY <1>2 DEF Migrating
    <3> QED
      BY <1>2, <3>1 DEF Migrating, gooseAtLatest
  <2>2. schema.recorded \ {-1, 0} \subseteq schema.objects
    BY <1>2 DEF Migrating, NoTable
  <2> QED
    BY <2>1, <2>2 DEF OpenedIsLatest
<1> QED
  BY <1>1, <1>2 DEF MigrateInv

-----------------------------------------------------------------------------
(* What a boot carries over.                                               *)

Persist == ToSet(PersistTables)
History == ToSet(HistoryTables)
Sources == ToSet(SessionFiles)
CarrySteps == {"down", "state", "marker", "json", "bak", "history", "up"}

BootTypeOK ==
  /\ boot \in [step : CarrySteps, files : Seq(Old \cup Sources), tables : Seq(Persist \cup History),
               left : SUBSET (Hashes \cup Gone), tries : Nat]
  /\ boot.step \in {"state", "history"} => boot.files \in Seq(Old)
  /\ boot.step \in {"json", "bak"} => boot.files \in Seq(Sources)
  /\ boot.left # {} => boot.files # <<>>

CarryTypeOK ==
  /\ DOMAIN main = Plain /\ main = [t \in Plain |-> main[t]]
  /\ rows \in [Hashes -> Old \cup Sources \cup {"live", NoOne}]
  /\ legacy \in [Old -> [holds : SUBSET (Persist \cup History), marker : BOOLEAN]]
  /\ json \in [Sources -> SUBSET (Hashes \cup Gone)] /\ bak \in [Sources -> SUBSET (Hashes \cup Gone)]
  /\ held \subseteq Hashes
  /\ BootTypeOK

\* The history has one origin over all its tables, an operator's table one.
OneOrigin ==
  /\ \A t, u \in History : \A f \in main[t] \cap Old, g \in main[u] \cap Old : f = g
  /\ \A t \in Plain : \A f, g \in main[t] \cap Old : f = g

\* Settings that came with their marker have set it.
MarkedFirst ==
  \A f \in main["settings"] \cap Old : legacy[f].marker => marker /\ "env" \notin main["settings"]

\* While a file is attached: what is still to be copied holds nothing of another.
Copying ==
  boot.tables # <<>> =>
    /\ boot.step \in {"state", "history"} /\ boot.files # <<>>
    /\ boot.step = "state" =>
         /\ ToSet(boot.tables) \subseteq Persist
         /\ \A t \in ToSet(boot.tables) \ {"sessions_persist"} : main[t] \subseteq {Head(boot.files)}
         /\ \A t \in Persist : Bare(t) /\ t \in legacy[Head(boot.files)].holds => t \in ToSet(boot.tables)
    /\ boot.step = "history" =>
         /\ ToSet(boot.tables) \subseteq History
         /\ \A t \in History : main[t] \subseteq {Head(boot.files)}

\* A table is left empty only by files that hold nothing for it or have failed.
Visited ==
  boot.step = "state" =>
    \A f \in Old \ ToSet(boot.files) : \A t \in Persist : Bare(t) /\ t \in legacy[f].holds => f \in failed

\* The sessions of the file that is being imported are in the table or to come.
Imported ==
  boot.step = "json" /\ boot.tries = 1 =>
    boot.files # <<>> /\ \A h \in json[Head(boot.files)] \cap Hashes : h \in boot.left \/ rows[h] # NoOne

HeldSomewhere == \A h \in held \ ended : rows[h] # NoOne \/ \E j \in Sources : h \in json[j]

CarryInv == CarryTypeOK /\ OneOrigin /\ MarkedFirst /\ Copying /\ Visited /\ Imported /\ HeldSomewhere

\* The tables of the database but one are plain; the two kinds do not meet.
LEMMA TablesApart ==
  /\ Persist \cap History = {} /\ Plain = (Persist \cup History) \ {"sessions_persist"}
  /\ "settings" \in Plain /\ "settings" \in Persist /\ "sessions_persist" \in Persist
  /\ History \subseteq Plain /\ "settings" \notin History
  BY CarryAssumption DEF Persist, History, Plain

LEMMA NamesApart ==
  /\ "env" \notin Old /\ "live" \notin Old /\ NoOne \notin Old /\ NoOne \notin Sources /\ NoOne \notin Hashes
  /\ NoOne # "live" /\ OldFiles \in Seq(Old) /\ SessionFiles \in Seq(Sources) /\ SessionFiles # <<>>
  /\ PersistTables \in Seq(Persist) /\ HistoryTables \in Seq(History)
  BY CarryAssumption DEF Old, Sources, NoOne, Persist, History

LEMMA CarryStarts == CarryInit => CarryInv
<1> SUFFICES ASSUME CarryInit PROVE CarryInv
  OBVIOUS
<1>1. /\ main = [t \in Plain |-> {}] /\ rows = [h \in Hashes |-> NoOne] /\ boot = Still
      /\ held = (UNION Range(json)) \ Gone
  BY DEF CarryInit
<1>2. PICK l \in AllLayouts : legacy = l.legacy /\ json = l.json /\ bak = l.bak
  BY LayoutsAssumption DEF CarryInit
<1>3. /\ json \in [Sources -> {Gone} \cup (SUBSET Hashes \ {{}})] /\ bak \in [Sources -> {Gone, Hashes}]
      /\ legacy \in [Old -> {[holds |-> ts, marker |-> FALSE] : ts \in {{}, History}}
                              \cup [holds : {Persist \cup History}, marker : BOOLEAN]]
  BY <1>2 DEF AllLayouts, Sources, Persist, History
<1>4. legacy \in [Old -> [holds : SUBSET (Persist \cup History), marker : BOOLEAN]]
  <2>1. ASSUME NEW f \in Old PROVE legacy[f] \in [holds : SUBSET (Persist \cup History), marker : BOOLEAN]
    <3>1. CASE legacy[f] \in [holds : {Persist \cup History}, marker : BOOLEAN]
      BY <3>1
    <3>2. CASE legacy[f] \in {[holds |-> ts, marker |-> FALSE] : ts \in {{}, History}}
      <4>1. PICK ts \in {{}, History} : legacy[f] = [holds |-> ts, marker |-> FALSE]
        BY <3>2
      <4> QED
        BY <4>1
    <3> QED
      BY <1>3, <3>1, <3>2
  <2> QED
    BY <1>3, <2>1
<1>5. /\ boot \in [step : CarrySteps, files : Seq(Old \cup Sources), tables : Seq(Persist \cup History),
                   left : SUBSET (Hashes \cup Gone), tries : Nat]
      /\ boot.step = "down" /\ boot.tables = <<>> /\ boot.left = {}
  <2>1. <<>> \in Seq(Old \cup Sources) /\ <<>> \in Seq(Persist \cup History)
    BY EmptySeq
  <2> QED
    BY <1>1, <2>1 DEF Still, CarrySteps
<1>6. held \subseteq Hashes /\ \A h \in held : \E j \in Sources : h \in json[j]
  <2>1. ASSUME NEW h \in held PROVE h \in Hashes /\ \E j \in Sources : h \in json[j]
    <3>1. PICK j \in Sources : h \in json[j] /\ h # NoOne
      <4>1. h # NoOne /\ \E s \in Range(json) : h \in s
        <5>1. h \in (UNION Range(json)) /\ h \notin {NoOne}
          BY <1>1, <2>1 DEF Gone
        <5> QED
          BY <5>1
      <4> QED
        BY <1>3, <4>1 DEF Range
    <3> QED
      BY <1>3, <3>1 DEF Gone
  <2> QED
    BY <2>1
<1>7. CarryTypeOK
  <2>1. json \in [Sources -> SUBSET (Hashes \cup Gone)] /\ bak \in [Sources -> SUBSET (Hashes \cup Gone)]
    BY <1>3
  <2> QED
    BY <1>1, <1>4, <1>5, <1>6, <2>1 DEF CarryTypeOK, BootTypeOK
<1>8. OneOrigin /\ MarkedFirst
  BY <1>1, TablesApart DEF OneOrigin, MarkedFirst
<1> QED
  BY <1>5, <1>6, <1>7, <1>8 DEF CarryInv, Copying, Visited, Imported, HeldSomewhere

\* The walk goes on to the next file.
LEMMA WalkGoesOn ==
  ASSUME BootTypeOK, boot.files # <<>>, boot.step \in {"state", "history", "json", "bak"}, NextFile
  PROVE  /\ BootTypeOK' /\ boot'.step = boot.step /\ boot'.files = Tail(boot.files)
         /\ boot'.tables = <<>> /\ boot'.left = {} /\ boot'.tries = 0
<1>1. boot' = [boot EXCEPT !.files = Tail(boot.files), !.tables = <<>>, !.left = {}, !.tries = 0]
  BY DEF NextFile
<1>2. <<>> \in Seq(Persist \cup History)
  BY EmptySeq
<1>3. Tail(boot.files) \in Seq(Old \cup Sources)
  BY HeadAndTail DEF BootTypeOK
<1>4. boot.step \in {"state", "history"} => Tail(boot.files) \in Seq(Old)
  BY HeadAndTail DEF BootTypeOK
<1>5. boot.step \in {"json", "bak"} => Tail(boot.files) \in Seq(Sources)
  BY HeadAndTail DEF BootTypeOK
<1> QED
  BY <1>1, <1>2, <1>3, <1>4, <1>5 DEF BootTypeOK

\* A step of the boot is entered with its files.
LEMMA BootEnters ==
  ASSUME NEW step \in CarrySteps, NEW batch \in Seq(Old \cup Sources), Enter(step, batch),
         step \in {"state", "history"} => batch \in Seq(Old),
         step \in {"json", "bak"} => batch \in Seq(Sources)
  PROVE  /\ BootTypeOK' /\ boot'.step = step /\ boot'.files = batch
         /\ boot'.tables = <<>> /\ boot'.left = {} /\ boot'.tries = 0
<1>1. boot' = [step |-> step, files |-> batch, tables |-> <<>>, left |-> {}, tries |-> 0]
  BY DEF Enter, Still
<1>2. <<>> \in Seq(Persist \cup History)
  BY EmptySeq
<1> QED
  BY <1>1, <1>2 DEF BootTypeOK

\* What a walk wants of a file.
LEMMA WantedIs ==
  ASSUME CarryTypeOK, NEW f \in Old, NEW step \in {"state", "history"}
  PROVE  LET want == Wanted(f, step) IN
         /\ want \in Seq(Persist \cup History)
         /\ step = "state" =>
              ToSet(want) = {t \in Persist : Bare(t) /\ t \in legacy[f].holds}
         /\ step = "history" => ToSet(want) \subseteq History /\ (want # <<>> => \A t \in History : Bare(t))
         /\ want = <<>> => ToSet(want) = {}
<1>1. legacy[f].holds \subseteq Persist \cup History
  BY DEF CarryTypeOK
<1>2. CASE step = "state"
  <2> DEFINE those == {t \in legacy[f].holds \cap Persist : Bare(t)}
  <2>1. Wanted(f, step) = KeptAmong(PersistTables, those)
    BY <1>2 DEF Wanted, Persist
  <2>2. PersistTables \in Seq(Persist) /\ ToSet(PersistTables) = Persist
    BY NamesApart DEF Persist
  <2>3. KeptAmong(PersistTables, those) \in Seq(Persist) /\ ToSet(KeptAmong(PersistTables, those)) = Persist \cap those
    BY <2>2, KeptIs
  <2>4. Persist \cap those = {t \in Persist : Bare(t) /\ t \in legacy[f].holds}
    OBVIOUS
  <2> HIDE DEF those
  <2> QED
    BY <1>2, <2>1, <2>3, <2>4, SeqMonotonic DEF ToSet
<1>3. CASE step = "history" /\ \A t \in History : Bare(t)
  <2>1. Wanted(f, step) = KeptAmong(HistoryTables, legacy[f].holds)
    BY <1>3 DEF Wanted, History
  <2>2. HistoryTables \in Seq(History) /\ ToSet(HistoryTables) = History
    BY NamesApart DEF History
  <2>3. Wanted(f, step) \in Seq(History) /\ ToSet(Wanted(f, step)) \subseteq History
    BY <2>1, <2>2, KeptIs
  <2>4. \A q \in Seq(History) : q \in Seq(Persist \cup History)
    BY SeqMonotonic
  <2> QED
    BY <1>3, <2>3, <2>4 DEF ToSet
<1>4. CASE step = "history" /\ ~\A t \in History : Bare(t)
  <2>1. Wanted(f, step) = <<>>
    BY <1>4 DEF Wanted, History
  <2>2. <<>> \in Seq(Persist \cup History) /\ ToSet(<<>>) = {}
    BY EmptySeq DEF ToSet
  <2> QED
    BY <1>4, <2>1, <2>2
<1> QED
  BY <1>2, <1>3, <1>4

\* No row moves.
LEMMA CarryRests ==
  ASSUME CarryInv, UNCHANGED <<store, oldFiles, past, ended>>, BootTypeOK', Copying', Visited', Imported'
  PROVE  CarryInv'
<1>1. /\ main' = main /\ rows' = rows /\ marker' = marker /\ json' = json /\ bak' = bak
      /\ legacy' = legacy /\ held' = held /\ ended' = ended
  BY DEF store, oldFiles, past
<1>2. CarryTypeOK'
  BY <1>1 DEF CarryInv, CarryTypeOK
<1>3. OneOrigin'
  BY <1>1 DEF CarryInv, OneOrigin
<1>4. MarkedFirst'
  BY <1>1 DEF CarryInv, MarkedFirst
<1>5. HeldSomewhere'
  BY <1>1 DEF CarryInv, HeldSomewhere
<1> QED
  BY <1>2, <1>3, <1>4, <1>5 DEF CarryInv

LEMMA BareRests ==
  ASSUME UNCHANGED store
  PROVE  \A t : Bare(t)' = Bare(t)
  BY DEF store, Bare

\* A file of the walk is done: it had nothing that is wanted, or it has failed.
LEMMA FilePassed ==
  ASSUME CarryInv, boot.files # <<>>, boot.step \in {"state", "history"}, NextFile,
         UNCHANGED <<store, oldFiles, past, ended>>, failed \subseteq failed',
         boot.step = "state" =>
           \A t \in Persist : Bare(t) /\ t \in legacy[Head(boot.files)].holds => Head(boot.files) \in failed'
  PROVE  CarryInv'
<1>1. /\ BootTypeOK' /\ boot'.step = boot.step /\ boot'.files = Tail(boot.files)
      /\ boot'.tables = <<>> /\ boot'.left = {} /\ boot'.tries = 0
  BY WalkGoesOn DEF CarryInv, CarryTypeOK
<1>2. Copying' /\ Imported'
  BY <1>1 DEF Copying, Imported
<1>3. Visited'
  <2> SUFFICES ASSUME boot.step = "state", NEW f \in Old, f \notin ToSet(Tail(boot.files)), NEW t \in Persist,
                      Bare(t), t \in legacy[f].holds
               PROVE  f \in failed'
    BY <1>1, BareRests DEF Visited, past
  <2>1. ToSet(boot.files) = ToSet(Tail(boot.files)) \cup {Head(boot.files)}
    BY HeadAndTail DEF CarryInv, CarryTypeOK, BootTypeOK
  <2>2. CASE f = Head(boot.files)
    BY <2>2
  <2>3. CASE f # Head(boot.files)
    BY <2>1, <2>3 DEF CarryInv, Visited
  <2> QED
    BY <2>2, <2>3
<1> QED
  BY <1>1, <1>2, <1>3, CarryRests

LEMMA CarryAttaches ==
  ASSUME CarryInv, NEW step \in {"state", "history"}, Attach(step)
  PROVE  CarryInv'
<1>1. /\ boot.step = step /\ boot.files # <<>> /\ boot.tables = <<>>
      /\ UNCHANGED <<store, oldFiles, past, ended>> /\ UNCHANGED <<legacy, held>>
  BY DEF Attach, At, past
<1>2. PICK p : p = Head(boot.files)
  OBVIOUS
<1>3. p \in Old
  BY <1>1, <1>2, HeadAndTail DEF CarryInv, CarryTypeOK, BootTypeOK
<1>4. PICK want : want = Wanted(p, step)
  OBVIOUS
<1>5. /\ want \in Seq(Persist \cup History)
      /\ step = "state" => ToSet(want) = {t \in Persist : Bare(t) /\ t \in legacy[p].holds}
      /\ step = "history" => ToSet(want) \subseteq History /\ (want # <<>> => \A t \in History : Bare(t))
      /\ want = <<>> => ToSet(want) = {}
  BY <1>3, <1>4, WantedIs DEF CarryInv
<1>6. CASE want = <<>> /\ NextFile /\ UNCHANGED failed
  <2>1. step = "state" => \A t \in Persist : ~(Bare(t) /\ t \in legacy[p].holds)
    BY <1>5, <1>6
  <2> QED
    BY <1>1, <1>2, <1>6, <2>1, FilePassed
<1>7. CASE want # <<>> /\ boot' = [boot EXCEPT !.tables = want] /\ UNCHANGED failed
  <2>1. BootTypeOK'
    BY <1>1, <1>5, <1>7 DEF CarryInv, CarryTypeOK, BootTypeOK
  <2>2. boot'.tables = want /\ boot'.files = boot.files /\ boot'.step = step /\ boot'.left = boot.left /\ boot'.tries = boot.tries
    BY <1>1, <1>7 DEF CarryInv, CarryTypeOK, BootTypeOK
  <2>3. Visited' /\ Imported'
    BY <1>1, <1>7, <2>2, BareRests DEF CarryInv, Visited, Imported
  <2>4. Copying'
    <3>1. \A t \in History : Bare(t) => main[t] \subseteq {p}
      BY TablesApart DEF Bare
    <3>2. \A t \in Persist \ {"sessions_persist"} : Bare(t) => main[t] \subseteq {p}
      BY DEF Bare
    <3>3. \A t : Bare(t)' = Bare(t)
      BY <1>1, BareRests
    <3>4. main' = main /\ legacy' = legacy
      BY <1>1 DEF store
    <3>5. CASE step = "state"
      <4>1. ToSet(want) \subseteq Persist /\ \A t \in ToSet(want) \ {"sessions_persist"} : main[t] \subseteq {p}
        BY <1>5, <3>2, <3>5
      <4>2. \A t \in Persist : Bare(t) /\ t \in legacy[p].holds => t \in ToSet(want)
        BY <1>5, <3>5
      <4> QED
        BY <1>1, <1>2, <2>2, <3>3, <3>4, <3>5, <4>1, <4>2 DEF Copying
    <3>6. CASE step = "history"
      <4>1. ToSet(want) \subseteq History /\ \A t \in History : main[t] \subseteq {p}
        BY <1>5, <1>7, <3>1, <3>6
      <4> QED
        BY <1>1, <1>2, <2>2, <3>4, <3>6, <4>1 DEF Copying
    <3> QED
      BY <3>5, <3>6
  <2> QED
    BY <1>1, <2>1, <2>3, <2>4, CarryRests
<1>8. CASE Fails
  BY <1>1, <1>8, FilePassed DEF Fails
<1> QED
  BY <1>2, <1>4, <1>6, <1>7, <1>8 DEF Attach

LEMMA CarryBusy ==
  ASSUME CarryInv, NEW step \in {"state", "history"}, CopyBusy(step)
  PROVE  CarryInv'
<1>1. /\ boot.step = step /\ boot.files # <<>> /\ UNCHANGED <<store, oldFiles, past, ended, failed>>
      /\ boot' = [boot EXCEPT !.tables = <<>>, !.tries = boot.tries + 1]
  BY DEF CopyBusy, At
<1>2. <<>> \in Seq(Persist \cup History)
  BY EmptySeq
<1>3. BootTypeOK' /\ boot'.tables = <<>> /\ boot'.files = boot.files /\ boot'.step = step
  <2>1. BootTypeOK /\ boot.tries + 1 \in Nat
    BY DEF CarryInv, CarryTypeOK, BootTypeOK
  <2>2. /\ boot' \in [step : CarrySteps, files : Seq(Old \cup Sources), tables : Seq(Persist \cup History),
                      left : SUBSET (Hashes \cup Gone), tries : Nat]
        /\ boot'.tables = <<>> /\ boot'.files = boot.files /\ boot'.step = boot.step /\ boot'.left = boot.left
    BY <1>1, <1>2, <2>1 DEF BootTypeOK
  <2> QED
    BY <1>1, <2>1, <2>2 DEF BootTypeOK
<1>4. Copying' /\ Imported'
  BY <1>3 DEF Copying, Imported
<1>5. Visited'
  <2>1. failed' = failed /\ legacy' = legacy
    BY <1>1 DEF past
  <2> QED
    BY <1>1, <1>3, <2>1, BareRests DEF CarryInv, Visited
<1> QED
  BY <1>1, <1>3, <1>4, <1>5, CarryRests

\* A table that has been copied into is not bare, and no other becomes so.
LEMMA CopyBares ==
  ASSUME CarryTypeOK, NEW p \in Old, NEW t \in Persist \cup History, Copy(p, t)
  PROVE  /\ \A u \in Persist \cup History : Bare(u)' => Bare(u) /\ u # t
         /\ DOMAIN main' = Plain /\ main' = [u \in Plain |-> main'[u]]
         /\ rows' \in [Hashes -> Old \cup Sources \cup {"live", NoOne}]
         /\ \A h \in Hashes : rows[h] # NoOne => rows'[h] # NoOne
         /\ \A u \in Plain : u # t => main'[u] = main[u]
         /\ t \in Plain => main'[t] = main[t] \cup {p}
         /\ marker => marker'
         /\ t = "settings" /\ legacy[p].marker => marker'
<1>1. CASE t = "sessions_persist"
  <2>1. rows' = [h \in Hashes |-> IF rows[h] = NoOne THEN p ELSE rows[h]] /\ main' = main /\ marker' = marker
    BY <1>1 DEF Copy
  <2>2. rows' \in [Hashes -> Old \cup Sources \cup {"live", NoOne}] /\ \A h \in Hashes : rows'[h] # NoOne
    BY <2>1, NamesApart DEF CarryTypeOK
  <2>3. ~Bare(t)'
    <3>1. DOMAIN rows' = Hashes /\ NoOne \notin Range(rows')
      BY <2>2 DEF Range
    <3> QED
      BY <1>1, <3>1 DEF Bare
  <2>4. \A u : u # t => Bare(u)' = Bare(u)
    BY <1>1, <2>1 DEF Bare
  <2>5. t \notin Plain /\ t # "settings"
    BY <1>1, TablesApart
  <2> QED
    BY <2>1, <2>2, <2>3, <2>4, <2>5 DEF CarryTypeOK
<1>2. CASE t # "sessions_persist"
  <2>1. t \in Plain
    BY <1>2, TablesApart
  <2>2. /\ main' = [main EXCEPT ![t] = main[t] \cup {p}] /\ rows' = rows
        /\ marker' = (marker \/ (t = "settings" /\ legacy[p].marker))
    BY <1>2 DEF Copy
  <2>3. DOMAIN main' = Plain /\ main'[t] = main[t] \cup {p} /\ (\A u \in Plain \ {t} : main'[u] = main[u])
        /\ main' = [u \in Plain |-> main'[u]]
    BY <2>1, <2>2 DEF CarryTypeOK
  <2>4. \A u \in Persist \cup History : Bare(u)' => Bare(u) /\ u # t
    <3> SUFFICES ASSUME NEW u \in Persist \cup History, Bare(u)' PROVE Bare(u) /\ u # t
      OBVIOUS
    <3>1. CASE u = "sessions_persist"
      BY <1>2, <2>2, <3>1 DEF Bare
    <3>2. CASE u # "sessions_persist"
      <4>1. u \in Plain /\ main'[u] = {}
        BY <3>2, TablesApart DEF Bare
      <4>2. u # t
        BY <2>3, <4>1
      <4> QED
        BY <2>3, <3>2, <4>1, <4>2 DEF Bare
    <3> QED
      BY <3>1, <3>2
  <2> QED
    BY <2>1, <2>2, <2>3, <2>4 DEF CarryTypeOK
<1> QED
  BY <1>1, <1>2

LEMMA CarryCopies ==
  ASSUME CarryInv, NEW step \in {"state", "history"}, CopyTable(step)
  PROVE  CarryInv'
<1>1. /\ boot.step = step /\ boot.files # <<>> /\ boot.tables # <<>>
      /\ json' = json /\ bak' = bak /\ legacy' = legacy /\ held' = held /\ ended' = ended
      /\ UNCHANGED <<oldFiles, past, ended>>
  BY DEF CopyTable, At, oldFiles, past
<1>2. PICK p, t : p = Head(boot.files) /\ t = Head(boot.tables)
  OBVIOUS
<1>3. /\ p \in Old /\ t \in Persist \cup History /\ t \in ToSet(boot.tables)
      /\ Tail(boot.tables) \in Seq(Persist \cup History)
      /\ ToSet(boot.tables) = ToSet(Tail(boot.tables)) \cup {t}
      /\ Len(boot.tables) = 1 => ToSet(boot.tables) = {t}
  BY <1>1, <1>2, HeadAndTail DEF CarryInv, CarryTypeOK, BootTypeOK
<1>4. /\ step = "state" =>
           /\ ToSet(boot.tables) \subseteq Persist
           /\ \A u \in ToSet(boot.tables) \ {"sessions_persist"} : main[u] \subseteq {p}
           /\ \A u \in Persist : Bare(u) /\ u \in legacy[p].holds => u \in ToSet(boot.tables)
      /\ step = "history" =>
           /\ ToSet(boot.tables) \subseteq History
           /\ \A u \in History : main[u] \subseteq {p}
  BY <1>1, <1>2 DEF CarryInv, Copying
<1>5. CASE Fails /\ UNCHANGED store
  BY <1>1, <1>5, FilePassed DEF Fails
<1>6. CASE /\ Copy(p, t) /\ UNCHANGED failed
           /\ IF Len(boot.tables) = 1 THEN NextFile ELSE boot' = [boot EXCEPT !.tables = Tail(boot.tables)]
  <2>1. CarryTypeOK
    BY DEF CarryInv
  <2>2. /\ \A u \in Persist \cup History : Bare(u)' => Bare(u) /\ u # t
        /\ DOMAIN main' = Plain /\ main' = [u \in Plain |-> main'[u]]
        /\ rows' \in [Hashes -> Old \cup Sources \cup {"live", NoOne}]
        /\ \A h \in Hashes : rows[h] # NoOne => rows'[h] # NoOne
        /\ \A u \in Plain : u # t => main'[u] = main[u]
        /\ t \in Plain => main'[t] = main[t] \cup {p}
        /\ marker => marker'
        /\ t = "settings" /\ legacy[p].marker => marker'
    BY <1>3, <1>6, <2>1, CopyBares
  <2>3. /\ BootTypeOK' /\ boot'.step = step /\ boot'.left \in {{}, boot.left}
        /\ \/ Len(boot.tables) = 1 /\ boot'.files = Tail(boot.files) /\ boot'.tables = <<>>
           \/ Len(boot.tables) # 1 /\ boot'.files = boot.files /\ boot'.tables = Tail(boot.tables)
    <3>1. CASE Len(boot.tables) = 1
      BY <1>1, <1>6, <2>1, <3>1, WalkGoesOn DEF CarryTypeOK
    <3>2. CASE Len(boot.tables) # 1
      BY <1>1, <1>3, <1>6, <2>1, <3>2 DEF CarryTypeOK, BootTypeOK
    <3> QED
      BY <3>1, <3>2
  <2>4. CarryTypeOK'
    BY <1>1, <2>1, <2>2, <2>3 DEF CarryTypeOK
  <2>5. \A u \in Plain : main'[u] = main[u] \/ (u = t /\ main'[u] \subseteq {p})
    <3>1. t \in Plain => main[t] \subseteq {p}
      BY <1>3, <1>4, TablesApart
    <3> QED
      BY <2>2, <3>1
  <2>6. OneOrigin'
    <3>1. \A u \in Plain : \A f, g \in main'[u] \cap Old : f = g
      BY <2>5 DEF CarryInv, OneOrigin
    <3>2. \A u, v \in History : \A f \in main'[u] \cap Old, g \in main'[v] \cap Old : f = g
      <4>1. CASE step = "state"
        <5>1. t \in Persist
          BY <1>3, <1>4, <4>1
        <5>2. \A u \in History : main'[u] = main[u]
          BY <2>2, <5>1, TablesApart
        <5> QED
          BY <5>2 DEF CarryInv, OneOrigin
      <4>2. CASE step = "history"
        <5>1. \A u \in History : main'[u] \subseteq {p}
          BY <1>4, <2>5, <4>2, TablesApart
        <5> QED
          BY <5>1
      <4> QED
        BY <4>1, <4>2
    <3> QED
      BY <3>1, <3>2 DEF OneOrigin
  <2>7. MarkedFirst'
    <3>1. CASE t = "settings"
      <4>1. main'["settings"] \subseteq {p} \/ main'["settings"] = main["settings"]
        BY <2>5, TablesApart
      <4>2. main'["settings"] = main["settings"] \cup {p}
        BY <2>2, <3>1, TablesApart
      <4>3. main'["settings"] \subseteq {p}
        <5>1. main["settings"] \subseteq {p}
          BY <1>3, <1>4, <3>1, TablesApart
        <5> QED
          BY <4>2, <5>1
      <4> QED
        BY <1>1, <1>3, <2>2, <3>1, <4>3, NamesApart DEF MarkedFirst
    <3>2. CASE t # "settings"
      <4>1. main'["settings"] = main["settings"]
        BY <2>2, <3>2, TablesApart
      <4> QED
        BY <1>1, <2>2, <4>1 DEF CarryInv, MarkedFirst
    <3> QED
      BY <3>1, <3>2
  <2>8. Copying'
    <3> SUFFICES ASSUME Len(boot.tables) # 1 PROVE Copying'
      BY <2>3 DEF Copying
    <3>1. boot'.files = boot.files /\ boot'.tables = Tail(boot.tables) /\ boot'.step = step
      BY <2>3
    <3>2. CASE step = "state"
      <4>1. ToSet(Tail(boot.tables)) \subseteq Persist
        BY <1>3, <1>4, <3>2
      <4>2. \A u \in ToSet(Tail(boot.tables)) \ {"sessions_persist"} : main'[u] \subseteq {p}
        BY <1>3, <1>4, <2>5, <3>2, TablesApart
      <4>3. \A u \in Persist : Bare(u)' /\ u \in legacy[p].holds => u \in ToSet(Tail(boot.tables))
        BY <1>3, <1>4, <2>2, <3>2
      <4> QED
        BY <1>1, <1>2, <3>1, <3>2, <4>1, <4>2, <4>3 DEF Copying
    <3>3. CASE step = "history"
      <4>1. ToSet(Tail(boot.tables)) \subseteq History
        BY <1>3, <1>4, <3>3
      <4>2. \A u \in History : main'[u] \subseteq {p}
        BY <1>4, <2>5, <3>3, TablesApart
      <4> QED
        BY <1>1, <1>2, <3>1, <3>3, <4>1, <4>2 DEF Copying
    <3> QED
      BY <3>2, <3>3
  <2>9. Visited'
    <3> SUFFICES ASSUME step = "state", NEW f \in Old, f \notin ToSet(boot'.files), NEW u \in Persist,
                        Bare(u)', u \in legacy[f].holds
                 PROVE  f \in failed
      BY <1>1, <1>6, <2>3 DEF Visited
    <3>1. Bare(u) /\ u # t
      BY <2>2
    <3>2. CASE f \notin ToSet(boot.files)
      BY <1>1, <3>1, <3>2 DEF CarryInv, Visited
    <3>3. CASE f \in ToSet(boot.files)
      <4>1. Len(boot.tables) = 1 /\ boot'.files = Tail(boot.files)
        BY <2>3, <3>3
      <4>2. f = p
        BY <1>1, <1>2, <2>1, <3>3, <4>1, HeadAndTail DEF CarryTypeOK, BootTypeOK
      <4> QED
        BY <1>3, <1>4, <3>1, <4>1, <4>2
    <3> QED
      BY <3>2, <3>3
  <2>10. Imported' /\ HeldSomewhere'
    <3>1. Imported'
      BY <2>3 DEF Imported
    <3>2. HeldSomewhere'
      BY <1>1, <2>1, <2>2 DEF CarryInv, CarryTypeOK, HeldSomewhere
    <3> QED
      BY <3>1, <3>2
  <2> QED
    BY <2>4, <2>6, <2>7, <2>8, <2>9, <2>10 DEF CarryInv
<1> QED
  BY <1>2, <1>5, <1>6 DEF CopyTable

\* A step without files of the older databases is entered.
LEMMA CarryEnters ==
  ASSUME CarryInv, NEW step \in CarrySteps \ {"state"}, NEW batch \in Seq(Old \cup Sources), Enter(step, batch),
         step = "history" => batch \in Seq(Old),
         step \in {"json", "bak"} => batch \in Seq(Sources)
  PROVE  /\ BootTypeOK' /\ Copying' /\ Visited' /\ Imported'
         /\ (UNCHANGED <<store, oldFiles, past, ended>> => CarryInv')
<1>1. /\ BootTypeOK' /\ boot'.step = step /\ boot'.files = batch
      /\ boot'.tables = <<>> /\ boot'.left = {} /\ boot'.tries = 0
  BY BootEnters
<1>2. Copying' /\ Visited' /\ Imported'
  BY <1>1 DEF Copying, Visited, Imported
<1> QED
  BY <1>1, <1>2, CarryRests

LEMMA NoFiles == <<>> \in Seq(Old \cup Sources) /\ <<>> \in Seq(Sources)
  BY EmptySeq

LEMMA OldFilesListed ==
  /\ OldFiles \in Seq(Old \cup Sources) /\ OldFiles \in Seq(Old) /\ ToSet(OldFiles) = Old
<1>1. Seq(Old) \subseteq Seq(Old \cup Sources)
  BY SeqMonotonic
<1> QED
  BY <1>1, NamesApart DEF Old

LEMMA PresentListed ==
  ASSUME CarryTypeOK
  PROVE  Present \in Seq(Sources) /\ Present \in Seq(Old \cup Sources)
<1>1. SessionFiles \in Seq(Sources)
  BY NamesApart
<1>2. Present \in Seq(Sources)
  BY <1>1, KeptIs DEF Present
<1>3. Seq(Sources) \subseteq Seq(Old \cup Sources)
  BY SeqMonotonic
<1> QED
  BY <1>2, <1>3

LEMMA CarryBegins == ASSUME CarryInv, Start PROVE CarryInv'
<1>1. Enter("state", OldFiles) /\ UNCHANGED <<store, oldFiles, past, ended>> /\ "state" \in CarrySteps
  BY DEF Start, CarrySteps
<1>2. /\ BootTypeOK' /\ boot'.step = "state" /\ boot'.files = OldFiles
      /\ boot'.tables = <<>> /\ boot'.left = {} /\ boot'.tries = 0
  BY <1>1, OldFilesListed, BootEnters
<1>3. Copying' /\ Imported' /\ Visited'
  BY <1>2, OldFilesListed DEF Copying, Imported, Visited
<1> QED
  BY <1>1, <1>2, <1>3, CarryRests

LEMMA CarryEnv == ASSUME CarryInv, ImportEnv \/ SetMarker PROVE CarryInv'
<1> USE DEF CarrySteps
<1>1. CarryTypeOK /\ Present \in Seq(Sources) /\ Present \in Seq(Old \cup Sources)
  BY PresentListed DEF CarryInv
<1>2. CASE Enter("json", Present) /\ UNCHANGED <<store, oldFiles, past, ended>>
  BY <1>1, <1>2, CarryEnters
<1>3. CASE /\ main' = [main EXCEPT !["settings"] = @ \cup {"env"}] /\ Enter("marker", <<>>)
           /\ ~marker /\ UNCHANGED <<rows, marker, oldFiles, past, ended>>
  <2>1. BootTypeOK' /\ Copying' /\ Visited' /\ Imported'
    BY <1>3, NoFiles, CarryEnters
  <2>2. /\ DOMAIN main' = Plain /\ main' = [t \in Plain |-> main'[t]]
        /\ \A t \in Plain : main'[t] \cap Old = main[t] \cap Old
    BY <1>1, <1>3, NamesApart, TablesApart DEF CarryTypeOK
  <2>3. CarryTypeOK'
    BY <1>1, <1>3, <2>1, <2>2 DEF CarryTypeOK, oldFiles, past
  <2>4. OneOrigin'
    BY <2>2, TablesApart DEF CarryInv, OneOrigin
  <2>5. MarkedFirst'
    BY <1>3, <2>2, TablesApart DEF CarryInv, MarkedFirst, past
  <2>6. HeldSomewhere'
    BY <1>3 DEF CarryInv, HeldSomewhere, oldFiles, past
  <2> QED
    BY <2>1, <2>3, <2>4, <2>5, <2>6 DEF CarryInv
<1>4. CASE marker' = TRUE /\ Enter("json", Present) /\ UNCHANGED <<main, rows, oldFiles, past, ended>>
  <2>1. BootTypeOK' /\ Copying' /\ Visited' /\ Imported'
    BY <1>1, <1>4, CarryEnters
  <2>2. CarryTypeOK' /\ OneOrigin' /\ MarkedFirst' /\ HeldSomewhere'
    BY <1>1, <1>4, <2>1 DEF CarryInv, CarryTypeOK, OneOrigin, MarkedFirst, HeldSomewhere, oldFiles, past
  <2> QED
    BY <2>1, <2>2 DEF CarryInv
<1> QED
  BY <1>2, <1>3, <1>4 DEF ImportEnv, SetMarker, store

LEMMA CarryReads == ASSUME CarryInv, ReadSessions PROVE CarryInv'
<1>1. /\ boot.step = "json" /\ boot.files # <<>> /\ boot.left = {} /\ CarryTypeOK
      /\ UNCHANGED <<store, oldFiles, past, ended>>
  BY DEF ReadSessions, At, CarryInv
<1>2. PICK p : p = Head(boot.files)
  OBVIOUS
<1>3. p \in Sources
  BY <1>1, <1>2, HeadAndTail DEF CarryTypeOK, BootTypeOK
<1>4. boot.tables = <<>>
  BY <1>1 DEF CarryInv, Copying
<1>5. CASE boot' = [boot EXCEPT !.left = json[p], !.tries = 1]
  <2>1. json[p] \in SUBSET (Hashes \cup Gone) /\ json' = json
    BY <1>1, <1>3 DEF CarryTypeOK, oldFiles
  <2>2. /\ BootTypeOK' /\ boot'.step = "json" /\ boot'.files = boot.files
        /\ boot'.tables = <<>> /\ boot'.left = json[p]
    BY <1>1, <1>4, <1>5, <2>1 DEF CarryTypeOK, BootTypeOK
  <2>3. Copying' /\ Visited'
    BY <2>2 DEF Copying, Visited
  <2>4. Imported'
    BY <1>1, <1>2, <2>1, <2>2 DEF Imported
  <2> QED
    BY <1>1, <2>2, <2>3, <2>4, CarryRests
<1>6. CASE NextFile
  <2>1. BootTypeOK' /\ boot'.step = "json" /\ boot'.tables = <<>> /\ boot'.tries = 0
    BY <1>1, <1>6, WalkGoesOn DEF CarryTypeOK
  <2>2. Copying' /\ Visited' /\ Imported'
    BY <2>1 DEF Copying, Visited, Imported
  <2> QED
    BY <1>1, <2>1, <2>2, CarryRests
<1> QED
  BY <1>2, <1>5, <1>6 DEF ReadSessions

LEMMA CarryImports == ASSUME CarryInv, ImportSession PROVE CarryInv'
<1>1. /\ boot.step \in {"json", "bak"} /\ boot.left # {} /\ boot.files # <<>> /\ CarryTypeOK
      /\ main' = main /\ marker' = marker /\ UNCHANGED <<oldFiles, past, ended>>
  BY DEF ImportSession, CarryInv, CarryTypeOK, BootTypeOK
<1>2. PICK p : p = Head(boot.files)
  OBVIOUS
<1>3. p \in Sources
  BY <1>1, <1>2, HeadAndTail DEF CarryTypeOK, BootTypeOK
<1>4. boot.tables = <<>>
  BY <1>1 DEF CarryInv, Copying
<1>5. CASE \E h \in boot.left : /\ rows' = [rows EXCEPT ![h] = p]
                                /\ boot' = [boot EXCEPT !.left = boot.left \ {h}]
  <2>1. PICK h \in boot.left : rows' = [rows EXCEPT ![h] = p] /\ boot' = [boot EXCEPT !.left = boot.left \ {h}]
    BY <1>5
  <2>2. /\ BootTypeOK' /\ boot'.step = boot.step /\ boot'.files = boot.files
        /\ boot'.tables = <<>> /\ boot'.left = boot.left \ {h} /\ boot'.tries = boot.tries
    BY <1>1, <1>4, <2>1 DEF CarryTypeOK, BootTypeOK
  <2>3. /\ rows' \in [Hashes -> Old \cup Sources \cup {"live", NoOne}]
        /\ \A k \in Hashes : rows'[k] = (IF k = h THEN p ELSE rows[k])
    BY <1>1, <1>3, <2>1 DEF CarryTypeOK
  <2>4. Copying' /\ Visited'
    BY <1>1, <2>2 DEF Copying, Visited
  <2>5. Imported'
    BY <1>1, <1>3, <2>2, <2>3, NamesApart DEF CarryInv, Imported, oldFiles
  <2>6. CarryTypeOK'
    BY <1>1, <2>2, <2>3 DEF CarryTypeOK, oldFiles, past
  <2>7. OneOrigin' /\ MarkedFirst'
    BY <1>1 DEF CarryInv, OneOrigin, MarkedFirst, past
  <2>8. HeldSomewhere'
    BY <1>1, <1>3, <2>3, NamesApart DEF CarryInv, CarryTypeOK, HeldSomewhere, oldFiles, past
  <2> QED
    BY <2>4, <2>5, <2>6, <2>7, <2>8 DEF CarryInv
<1>6. CASE NextFile /\ UNCHANGED rows
  <2>1. BootTypeOK' /\ boot'.step = boot.step /\ boot'.tables = <<>> /\ boot'.tries = 0
    BY <1>1, <1>6, WalkGoesOn DEF CarryTypeOK
  <2>2. Copying' /\ Visited' /\ Imported'
    BY <1>1, <2>1 DEF Copying, Visited, Imported
  <2> QED
    BY <1>1, <1>6, <2>1, <2>2, CarryRests DEF store
<1> QED
  BY <1>2, <1>5, <1>6 DEF ImportSession

LEMMA CarryArchives == ASSUME CarryInv, Archive PROVE CarryInv'
<1>1. /\ boot.step = "json" /\ boot.files # <<>> /\ boot.left = {} /\ boot.tries = 1 /\ CarryTypeOK
      /\ NextFile /\ UNCHANGED <<store, past, ended>>
  BY DEF Archive, At, CarryInv
<1>2. PICK p : p = Head(boot.files)
  OBVIOUS
<1>3. p \in Sources
  BY <1>1, <1>2, HeadAndTail DEF CarryTypeOK, BootTypeOK
<1>4. BootTypeOK' /\ Copying' /\ Visited' /\ Imported'
  <2>1. BootTypeOK' /\ boot'.step = "json" /\ boot'.tables = <<>> /\ boot'.tries = 0
    BY <1>1, WalkGoesOn DEF CarryTypeOK
  <2> QED
    BY <2>1 DEF Copying, Visited, Imported
<1>5. CASE UNCHANGED oldFiles
  BY <1>1, <1>4, <1>5, CarryRests
<1>6. CASE bak' = [bak EXCEPT ![p] = json[p]] /\ json' = [json EXCEPT ![p] = Gone]
  <2>1. /\ json' \in [Sources -> SUBSET (Hashes \cup Gone)] /\ bak' \in [Sources -> SUBSET (Hashes \cup Gone)]
        /\ \A j \in Sources \ {p} : json'[j] = json[j]
    BY <1>1, <1>3, <1>6 DEF CarryTypeOK
  <2>2. CarryTypeOK'
    BY <1>1, <1>4, <2>1 DEF CarryTypeOK, store, past
  <2>3. OneOrigin' /\ MarkedFirst'
    BY <1>1 DEF CarryInv, OneOrigin, MarkedFirst, store, past
  <2>4. HeldSomewhere'
    <3> SUFFICES ASSUME NEW h \in held \ ended, rows[h] = NoOne
                 PROVE  \E j \in Sources : h \in json'[j]
      BY <1>1 DEF HeldSomewhere, store, past
    <3>1. h \in Hashes
      BY <1>1 DEF CarryTypeOK
    <3>2. PICK j \in Sources : h \in json[j]
      BY DEF CarryInv, HeldSomewhere
    <3>3. h \notin json[p]
      BY <1>1, <1>2, <3>1 DEF CarryInv, Imported
    <3> QED
      BY <2>1, <3>2, <3>3
  <2> QED
    BY <1>4, <2>2, <2>3, <2>4 DEF CarryInv
<1> QED
  BY <1>2, <1>5, <1>6 DEF Archive

LEMMA CarryReconsults == ASSUME CarryInv, Reconsult \/ Reconsulted \/ Serving \/ Die PROVE CarryInv'
<1> USE DEF CarrySteps
<1>1. UNCHANGED <<store, oldFiles, past, ended>> /\ CarryTypeOK
  BY DEF Reconsult, Reconsulted, Serving, Die, CarryInv
<1>2. CASE Enter("history", OldFiles)
  BY <1>1, <1>2, OldFilesListed, CarryEnters
<1>3. CASE Enter("up", <<>>)
  BY <1>1, <1>3, NoFiles, CarryEnters
<1>4. CASE Die
  <2>1. boot' = [step |-> "down", files |-> <<>>, tables |-> <<>>, left |-> {}, tries |-> 0]
    BY <1>4 DEF Die, Still
  <2>2. <<>> \in Seq(Persist \cup History)
    BY EmptySeq
  <2>3. BootTypeOK' /\ Copying' /\ Visited' /\ Imported'
    BY <2>1, <2>2, NoFiles DEF BootTypeOK, Copying, Visited, Imported
  <2> QED
    BY <1>1, <2>3, CarryRests
<1>5. CASE boot' = [Still EXCEPT !.step = "bak", !.files = <<Head(SessionFiles)>>, !.left = bak[Head(SessionFiles)]]
  <2>1. PICK j \in Sources : j = Head(SessionFiles)
    BY NamesApart, HeadAndTail
  <2>2. <<j>> \in Seq(Sources) /\ <<j>> \in Seq(Old \cup Sources) /\ <<j>> # <<>>
    BY <2>1
  <2>3. <<>> \in Seq(Persist \cup History)
    BY EmptySeq
  <2>4. bak[j] \in SUBSET (Hashes \cup Gone)
    BY <1>1, <2>1 DEF CarryTypeOK
  <2>5. boot' = [step |-> "bak", files |-> <<j>>, tables |-> <<>>, left |-> bak[j], tries |-> 0]
    BY <1>5, <2>1 DEF Still
  <2>6. BootTypeOK'
    BY <2>2, <2>3, <2>4, <2>5 DEF BootTypeOK
  <2>7. Copying' /\ Visited' /\ Imported'
    BY <2>5 DEF Copying, Visited, Imported
  <2> QED
    BY <1>1, <2>6, <2>7, CarryRests
<1> QED
  BY <1>2, <1>3, <1>4, <1>5 DEF Reconsult, Reconsulted, Serving

LEMMA CarryLives == ASSUME CarryInv, Live PROVE CarryInv'
<1>1. /\ boot.step = "up" /\ CarryTypeOK /\ boot' = boot
      /\ marker' = marker /\ legacy' = legacy /\ held' = held /\ json' = json /\ bak' = bak
  BY DEF Live, CarryInv, oldFiles, past
<1>2. Copying' /\ Visited' /\ Imported'
  BY <1>1 DEF CarryInv, Copying, Visited, Imported
<1>3. CASE \E t \in Plain : main' = [main EXCEPT ![t] = @ \cup {"live"}] /\ UNCHANGED <<rows, ended>>
  <2>1. PICK t \in Plain : main' = [main EXCEPT ![t] = @ \cup {"live"}] /\ rows' = rows /\ ended' = ended
    BY <1>3
  <2>2. /\ DOMAIN main' = Plain /\ main' = [u \in Plain |-> main'[u]]
        /\ \A u \in Plain : main'[u] \cap Old = main[u] \cap Old /\ ("env" \in main'[u] => "env" \in main[u])
    BY <1>1, <2>1, NamesApart DEF CarryTypeOK
  <2>3. CarryTypeOK'
    BY <1>1, <2>1, <2>2 DEF CarryTypeOK, BootTypeOK
  <2>4. OneOrigin' /\ MarkedFirst'
    BY <1>1, <2>2, TablesApart DEF CarryInv, OneOrigin, MarkedFirst
  <2>5. HeldSomewhere'
    BY <1>1, <2>1 DEF CarryInv, HeldSomewhere
  <2> QED
    BY <1>2, <2>3, <2>4, <2>5 DEF CarryInv
<1>4. CASE \E h \in Hashes : /\ main' = main
                             /\ \/ rows' = [rows EXCEPT ![h] = "live"] /\ ended' = ended
                                \/ rows' = [rows EXCEPT ![h] = NoOne] /\ ended' = ended \cup {h}
  <2>1. PICK h \in Hashes : /\ main' = main
                            /\ \/ rows' = [rows EXCEPT ![h] = "live"] /\ ended' = ended
                               \/ rows' = [rows EXCEPT ![h] = NoOne] /\ ended' = ended \cup {h}
    BY <1>4
  <2>2. /\ rows' \in [Hashes -> Old \cup Sources \cup {"live", NoOne}]
        /\ \A k \in Hashes \ {h} : rows'[k] = rows[k]
        /\ (rows'[h] # NoOne \/ h \in ended')
        /\ ended \subseteq ended'
    BY <1>1, <2>1, NamesApart DEF CarryTypeOK
  <2>3. CarryTypeOK' /\ OneOrigin' /\ MarkedFirst'
    <3>1. CarryTypeOK'
      BY <1>1, <2>1, <2>2 DEF CarryTypeOK, BootTypeOK
    <3>2. OneOrigin' /\ MarkedFirst'
      BY <1>1, <2>1 DEF CarryInv, OneOrigin, MarkedFirst
    <3> QED
      BY <3>1, <3>2
  <2>4. HeldSomewhere'
    BY <1>1, <2>2 DEF CarryInv, CarryTypeOK, HeldSomewhere
  <2> QED
    BY <1>2, <2>3, <2>4 DEF CarryInv
<1> QED
  BY <1>3, <1>4 DEF Live

LEMMA CarryStep == ASSUME CarryInv, CarryNext PROVE CarryInv'
<1>1. CASE Start
  BY <1>1, CarryBegins
<1>2. CASE \E step \in {"state", "history"} : Attach(step) \/ CopyTable(step) \/ CopyBusy(step)
  BY <1>2, CarryAttaches, CarryCopies, CarryBusy
<1>3. CASE ImportEnv \/ SetMarker
  BY <1>3, CarryEnv
<1>4. CASE ReadSessions \/ ImportSession \/ Archive
  BY <1>4, CarryReads, CarryImports, CarryArchives
<1>5. CASE Reconsult \/ Reconsulted \/ Serving \/ Die
  BY <1>5, CarryReconsults
<1>6. CASE Live
  BY <1>6, CarryLives
<1> QED
  BY <1>1, <1>2, <1>3, <1>4, <1>5, <1>6 DEF CarryNext

LEMMA CarryStutters == ASSUME CarryInv, UNCHANGED carryVars PROVE CarryInv'
<1>1. UNCHANGED <<store, oldFiles, past, ended>> /\ boot' = boot /\ failed' = failed
  BY DEF carryVars, store, oldFiles, past
<1>2. BootTypeOK'
  BY <1>1 DEF CarryInv, CarryTypeOK, BootTypeOK
<1>3. Copying'
  BY <1>1, BareRests DEF CarryInv, Copying, store, past
<1>4. Visited' /\ Imported'
  BY <1>1, BareRests DEF CarryInv, Visited, Imported, store, oldFiles, past
<1> QED
  BY <1>1, <1>2, <1>3, <1>4, CarryRests

\* Pairwise equal: at most one.
LEMMA AtMostOne ==
  ASSUME NEW S, \A f, g \in S : f = g
  PROVE  Cardinality(S) <= 1
<1>1. CASE S = {}
  BY <1>1, FS_EmptySet
<1>2. CASE S # {}
  <2>1. PICK f : S = {f}
    BY <1>2
  <2>2. Cardinality({f}) = 1
    BY FS_Singleton
  <2> QED
    BY <2>1, <2>2
<1> QED
  BY <1>1, <1>2

LEMMA CarryKeeps == CarryInv => ErasNeverMeet /\ NothingStranded
<1> SUFFICES ASSUME CarryInv PROVE ErasNeverMeet /\ NothingStranded
  OBVIOUS
<1>1. Cardinality((UNION {main[t] : t \in History}) \cap Old) <= 1
  <2>1. \A f, g \in (UNION {main[t] : t \in History}) \cap Old : f = g
    BY DEF CarryInv, OneOrigin
  <2> QED
    BY <2>1, AtMostOne
<1>2. \A t \in Plain : Cardinality(main[t] \cap Old) <= 1
  BY AtMostOne DEF CarryInv, OneOrigin
<1>3. \A f \in main["settings"] \cap Old : legacy[f].marker => "env" \notin main["settings"]
  BY DEF CarryInv, MarkedFirst
<1>4. Walked("state") => \A t \in Persist : Bare(t) => \A f \in Old : t \in legacy[f].holds => f \in failed
  <2> SUFFICES ASSUME Walked("state") PROVE \A t \in Persist : Bare(t) => \A f \in Old : t \in legacy[f].holds => f \in failed
    OBVIOUS
  <2>1. ToSet(boot.files) = {} /\ boot.step = "state"
    BY EmptySeq DEF Walked, ToSet
  <2> QED
    BY <2>1 DEF CarryInv, Visited
<1>5. \A h \in held \ ended : rows[h] # NoOne \/ \E j \in DOMAIN json : h \in json[j]
  BY DEF CarryInv, CarryTypeOK, HeldSomewhere
<1> QED
  BY <1>1, <1>2, <1>3, <1>4, <1>5 DEF ErasNeverMeet, NothingStranded, History, Persist

-----------------------------------------------------------------------------
(* The caches: the schemas.                                                *)

\* A list without repetitions has as many elements as it is long.
LEMMA ListCounts ==
  ASSUME NEW S, NEW q \in Seq(S), IsInjective(q)
  PROVE  IsFiniteSet(ToSet(q)) /\ Cardinality(ToSet(q)) = Len(q)
<1>1. Len(q) \in Nat /\ DOMAIN q = 1..Len(q) /\ q \in [1..Len(q) -> ToSet(q)]
  BY DEF ToSet
<1>2. q \in Bijection(1..Len(q), ToSet(q))
  BY <1>1 DEF Bijection, Injection, Surjection, IsInjective, ToSet
<1>3. ExistsBijection(1..Len(q), ToSet(q))
  BY <1>2 DEF ExistsBijection
<1> QED
  BY <1>1, <1>3, FS_CountingElements, FS_NatBijection

LEMMA ListAdds ==
  ASSUME NEW S, NEW q \in Seq(S), IsInjective(q), NEW e \in S, e \notin ToSet(q)
  PROVE  /\ Append(q, e) \in Seq(S) /\ IsInjective(Append(q, e)) /\ ToSet(Append(q, e)) = ToSet(q) \cup {e}
         /\ Len(Append(q, e)) = Len(q) + 1
<1> DEFINE w == Append(q, e)
<1>1. /\ Len(q) \in Nat /\ DOMAIN q = 1..Len(q) /\ w \in Seq(S) /\ Len(w) = Len(q) + 1
      /\ DOMAIN w = 1..(Len(q) + 1) /\ (\A i \in 1..Len(q) : w[i] = q[i]) /\ w[Len(q) + 1] = e
  BY AppendProperties
<1> HIDE DEF w
<1>2. IsInjective(w)
  <2> SUFFICES ASSUME NEW i \in DOMAIN w, NEW j \in DOMAIN w, w[i] = w[j] PROVE i = j
    BY DEF IsInjective
  <2>1. \A k \in 1..Len(q) : q[k] # e
    BY <1>1 DEF ToSet
  <2> QED
    BY <1>1, <2>1 DEF IsInjective
<1>3. ToSet(w) = ToSet(q) \cup {e}
  <2>1. \A i \in DOMAIN w : w[i] \in ToSet(q) \cup {e}
    BY <1>1 DEF ToSet
  <2>2. \A i \in DOMAIN q : q[i] \in ToSet(w)
    BY <1>1 DEF ToSet
  <2>3. e \in ToSet(w)
    BY <1>1 DEF ToSet
  <2> QED
    BY <2>1, <2>2, <2>3 DEF ToSet
<1> QED
  BY <1>1, <1>2, <1>3 DEF w

LEMMA ListDrops ==
  ASSUME NEW S, NEW q \in Seq(S), IsInjective(q), q # <<>>
  PROVE  /\ Tail(q) \in Seq(S) /\ IsInjective(Tail(q)) /\ ToSet(Tail(q)) = ToSet(q) \ {Head(q)}
         /\ Len(Tail(q)) = Len(q) - 1 /\ Head(q) \in ToSet(q)
<1>1. /\ Len(q) \in Nat \ {0} /\ DOMAIN q = 1..Len(q) /\ Head(q) = q[1] /\ Tail(q) \in Seq(S)
      /\ Len(Tail(q)) = Len(q) - 1 /\ \A i \in 1..(Len(q) - 1) : Tail(q)[i] = q[i + 1]
  BY EmptySeq, HeadTailProperties
<1>2. DOMAIN Tail(q) = 1..(Len(q) - 1)
  BY <1>1
<1>3. IsInjective(Tail(q))
  BY <1>1, <1>2 DEF IsInjective
<1>4. Head(q) \notin ToSet(Tail(q))
  <2>1. \A i \in 1..(Len(q) - 1) : i + 1 \in DOMAIN q /\ 1 \in DOMAIN q /\ i + 1 # 1
    BY <1>1
  <2>2. \A i \in 1..(Len(q) - 1) : q[i + 1] # q[1]
    BY <2>1 DEF IsInjective
  <2> QED
    BY <1>1, <1>2, <2>2 DEF ToSet
<1>5. ToSet(q) = ToSet(Tail(q)) \cup {Head(q)} /\ Head(q) \in ToSet(q)
  BY HeadAndTail
<1> QED
  BY <1>1, <1>3, <1>4, <1>5

\* The order names every schema that is cached, once.
SchemaInv ==
  /\ order \in Seq(Schemas) /\ IsInjective(order) /\ ToSet(order) = schemas
  /\ Len(order) <= SchemaMax
  /\ normalizer \in [Normalizers -> Schemas \cup {NoKey}]

LEMMA SchemaStarts == CachesInit => SchemaInv
<1> SUFFICES ASSUME CachesInit PROVE SchemaInv
  OBVIOUS
<1>1. order = <<>> /\ schemas = {} /\ normalizer = [n \in Normalizers |-> NoKey]
  BY DEF CachesInit
<1>2. order \in Seq(Schemas) /\ IsInjective(order) /\ ToSet(order) = {} /\ Len(order) = 0
  BY <1>1, EmptySeq DEF IsInjective, ToSet
<1> QED
  BY <1>1, <1>2, SchemaAssumption DEF SchemaInv

LEMMA SchemaStep ==
  ASSUME SchemaInv, SchemaNext
  PROVE  SchemaInv'
<1>1. PICK n \in Normalizers : schemaCachePut(n) \/ \E k \in Schemas : schemaCacheGet(n, k) \/ schemaCacheMiss(n, k)
  BY DEF SchemaNext
<1>2. /\ IsFiniteSet(schemas) /\ Cardinality(schemas) = Len(order) /\ Len(order) \in Nat
  BY ListCounts DEF SchemaInv
<1>3. ASSUME NEW k \in Schemas, schemaCacheGet(n, k) PROVE SchemaInv'
  <2> DEFINE rest == KeptAmong(order, ToSet(order) \ {k})
  <2>1. /\ k \in schemas /\ order' = Append(rest, k) /\ schemas' = schemas /\ normalizer' = normalizer
    BY <1>3 DEF schemaCacheGet
  <2>2. /\ rest \in Seq(Schemas) /\ ToSet(rest) = schemas \ {k} /\ IsInjective(rest)
    BY KeptIs DEF SchemaInv
  <2> HIDE DEF rest
  <2>3. /\ order' \in Seq(Schemas) /\ IsInjective(order') /\ ToSet(order') = schemas'
    BY <2>1, <2>2, ListAdds
  <2>4. Len(order') = Len(order)
    BY <1>2, <2>1, <2>3, ListCounts
  <2> QED
    BY <2>1, <2>3, <2>4 DEF SchemaInv
<1>4. ASSUME NEW k \in Schemas, schemaCacheMiss(n, k) PROVE SchemaInv'
  BY <1>4 DEF schemaCacheMiss, SchemaInv
<1>5. CASE schemaCachePut(n)
  <2>1. PICK k : k = normalizer[n]
    OBVIOUS
  <2>2. k \in Schemas /\ normalizer' = [normalizer EXCEPT ![n] = NoKey]
    BY <1>5, <2>1 DEF schemaCachePut, SchemaInv
  <2>3. normalizer' \in [Normalizers -> Schemas \cup {NoKey}]
    BY <2>2 DEF SchemaInv
  <2>4. CASE k \in schemas
    BY <1>5, <2>1, <2>3, <2>4 DEF schemaCachePut, SchemaInv
  <2>5. CASE k \notin schemas /\ Len(order) >= SchemaMax
    <3>1. schemas' = (schemas \ {Head(order)}) \cup {k} /\ order' = Append(Tail(order), k)
      BY <1>2, <1>5, <2>1, <2>5 DEF schemaCachePut
    <3>2. order # <<>>
      BY <2>5, EmptySeq, SchemaAssumption
    <3>3. /\ Tail(order) \in Seq(Schemas) /\ IsInjective(Tail(order)) /\ ToSet(Tail(order)) = schemas \ {Head(order)}
          /\ Len(Tail(order)) = Len(order) - 1
      BY <3>2, ListDrops DEF SchemaInv
    <3>4. /\ order' \in Seq(Schemas) /\ IsInjective(order') /\ ToSet(order') = schemas'
          /\ Len(order') = Len(Tail(order)) + 1
      BY <2>2, <2>5, <3>1, <3>3, ListAdds
    <3> QED
      BY <1>2, <2>3, <3>3, <3>4 DEF SchemaInv
  <2>6. CASE k \notin schemas /\ ~(Len(order) >= SchemaMax)
    <3>1. schemas' = schemas \cup {k} /\ order' = Append(order, k)
      BY <1>2, <1>5, <2>1, <2>6 DEF schemaCachePut
    <3>2. /\ order' \in Seq(Schemas) /\ IsInjective(order') /\ ToSet(order') = schemas'
          /\ Len(order') = Len(order) + 1
      BY <2>2, <2>6, <3>1, ListAdds DEF SchemaInv
    <3> QED
      BY <1>2, <2>3, <2>6, <3>2, SchemaAssumption DEF SchemaInv
  <2> QED
    BY <2>4, <2>5, <2>6
<1> QED
  BY <1>1, <1>3, <1>4, <1>5

LEMMA SchemaRests ==
  ASSUME SchemaInv, UNCHANGED schemaVars
  PROVE  SchemaInv'
  BY DEF SchemaInv, schemaVars

LEMMA SchemaKeeps == SchemaInv => SchemaIndexed
  BY ListCounts DEF SchemaInv, SchemaIndexed

-----------------------------------------------------------------------------
(* The caches: the rate limiter.                                           *)

BucketOK(c) == buckets[c].tokens \in Nat /\ buckets[c].seen \in Nat /\ buckets[c].seen <= cacheClock

\* What an address was granted and has left does not exceed what it has earned.
Earned(c) ==
  /\ spent[c] \in [since : Nat, grants : Nat] /\ spent[c].since <= buckets[c].seen
  /\ spent[c].grants * Token + buckets[c].tokens
       <= TopBurst * Token + (buckets[c].seen - spent[c].since) * TopRate

\* By the time it was told, the rate has brought what it lacks.
Told(c) ==
  /\ limit.rate > 0
  /\ refused[c] \in Nat /\ buckets[c].seen <= refused[c]
  /\ buckets[c].tokens + (refused[c] - buckets[c].seen) * limit.rate >= Token

LimiterInv ==
  /\ cacheClock \in Nat /\ limit \in Rates
  /\ \A c \in DOMAIN buckets : BucketOK(c)
  /\ DOMAIN spent \subseteq DOMAIN buckets /\ \A c \in DOMAIN spent : Earned(c)
  /\ DOMAIN refused \subseteq DOMAIN buckets /\ \A c \in DOMAIN refused : Told(c)

\* The highest rate and burst are those of some configuration, and above all.
LEMMA Tops ==
  /\ TopRate \in Nat /\ TopBurst \in Nat
  /\ \A l \in Rates : l.rate <= TopRate /\ l.burst <= TopBurst
<1>1. PICK high \in Rates : \A l \in Rates : l.rate <= high.rate
  BY LimiterAssumption
<1>2. PICK wide \in Rates : \A l \in Rates : l.burst <= wide.burst
  BY LimiterAssumption
<1>3. \E r \in {l.rate : l \in Rates} : \A l \in Rates : l.rate <= r
  BY <1>1
<1>4. \E b \in {l.burst : l \in Rates} : \A l \in Rates : l.burst <= b
  BY <1>2
<1>5. TopRate \in {l.rate : l \in Rates} /\ \A l \in Rates : l.rate <= TopRate
  BY <1>3 DEF TopRate
<1>6. TopBurst \in {l.burst : l \in Rates} /\ \A l \in Rates : l.burst <= TopBurst
  BY <1>4 DEF TopBurst
<1> QED
  BY <1>5, <1>6, LimiterAssumption

LEMMA TimesNat == ASSUME NEW i \in Nat, NEW j \in Nat PROVE i * j \in Nat
  OBVIOUS

LEMMA TimesMore ==
  ASSUME NEW i \in Nat, NEW j \in Nat, NEW k \in Nat, i <= j
  PROVE  i * k <= j * k /\ k * i <= k * j
<1>1. PICK d \in Nat : j = i + d
  <2>1. j - i \in Nat /\ j = i + (j - i)
    OBVIOUS
  <2> QED
    BY <2>1
<1>2. j * k = i * k + d * k /\ k * j = k * i + k * d
  BY <1>1
<1>3. d * k \in Nat /\ k * d \in Nat /\ i * k \in Nat /\ k * i \in Nat
  BY TimesNat
<1> QED
  BY <1>2, <1>3

LEMMA TimesSum ==
  ASSUME NEW i \in Nat, NEW j \in Nat, NEW k \in Nat
  PROVE  (i + j) * k = i * k + j * k
  OBVIOUS

\* The time an address is told to wait brings what it lacks.
LEMMA WaitBrings ==
  ASSUME NEW m \in Nat, NEW r \in Nat \ {0}
  PROVE  CeilDiv(m, r) \in Nat /\ CeilDiv(m, r) * r >= m
<1> DEFINE q == (m + r - 1) \div r
<1>1. q \in Nat /\ q * r <= m + r - 1 /\ m + r - 1 < q * r + r
  OBVIOUS
<1> HIDE DEF q
<1>2. q * r \in Nat
  BY <1>1, TimesNat
<1>3. q * r >= m
  BY <1>1, <1>2
<1> QED
  BY <1>1, <1>3 DEF q, CeilDiv

LEMMA RefillIs ==
  ASSUME LimiterInv, NEW c \in DOMAIN buckets
  PROVE  /\ Refilled(c) \in Nat /\ limit.burst * Token \in Nat /\ (cacheClock - buckets[c].seen) * limit.rate \in Nat
         /\ Refilled(c) <= limit.burst * Token
         /\ Refilled(c) <= buckets[c].tokens + (cacheClock - buckets[c].seen) * limit.rate
         /\ Refilled(c) = limit.burst * Token
              \/ Refilled(c) = buckets[c].tokens + (cacheClock - buckets[c].seen) * limit.rate
<1>1. limit.rate \in Nat /\ limit.burst \in Nat /\ Token \in Nat
  BY LimiterAssumption DEF LimiterInv
<1>2. buckets[c].tokens \in Nat /\ cacheClock - buckets[c].seen \in Nat
  BY DEF LimiterInv, BucketOK
<1>3. PICK full \in Nat : full = limit.burst * Token
  BY <1>1, TimesNat
<1>4. PICK more \in Nat : more = (cacheClock - buckets[c].seen) * limit.rate
  BY <1>1, <1>2, TimesNat
<1>5. Refilled(c) = IF full < buckets[c].tokens + more THEN full ELSE buckets[c].tokens + more
  BY <1>3, <1>4 DEF Refilled, Least
<1> QED
  BY <1>2, <1>3, <1>4, <1>5

\* A refill is earned, too.
LEMMA RefillEarned ==
  ASSUME LimiterInv, NEW c \in DOMAIN spent
  PROVE  spent[c].grants * Token + Refilled(c) <= TopBurst * Token + (cacheClock - spent[c].since) * TopRate
<1>1. c \in DOMAIN buckets /\ BucketOK(c) /\ Earned(c) /\ limit \in Rates
  BY DEF LimiterInv
<1>2. limit.rate \in Nat /\ limit.rate <= TopRate /\ TopRate \in Nat /\ TopBurst \in Nat /\ Token \in Nat
  BY <1>1, LimiterAssumption, Tops
<1>3. PICK d \in Nat, e \in Nat : d = cacheClock - buckets[c].seen /\ e = buckets[c].seen - spent[c].since
  BY <1>1 DEF BucketOK, Earned, LimiterInv
<1>4. cacheClock - spent[c].since = d + e
  BY <1>1, <1>3 DEF BucketOK, Earned, LimiterInv
<1>5. (d + e) * TopRate = d * TopRate + e * TopRate /\ d * limit.rate <= d * TopRate
  BY <1>2, <1>3, TimesSum, TimesMore
<1>6. d * TopRate \in Nat /\ e * TopRate \in Nat /\ d * limit.rate \in Nat /\ TopBurst * Token \in Nat
      /\ spent[c].grants * Token \in Nat
  BY <1>1, <1>2, <1>3, TimesNat DEF Earned
<1>7. PICK g \in Nat, t \in Nat, r \in Nat, dT \in Nat, eT \in Nat, dr \in Nat :
        /\ g = spent[c].grants * Token /\ t = TopBurst * Token /\ r = buckets[c].tokens
        /\ dT = d * TopRate /\ eT = e * TopRate /\ dr = d * limit.rate
  BY <1>1, <1>6 DEF BucketOK
<1>8. g + r <= t + eT
  BY <1>1, <1>3, <1>7 DEF Earned
<1>9. Refilled(c) \in Nat /\ Refilled(c) <= r + dr
  BY <1>1, <1>3, <1>7, RefillIs
<1>10. dr <= dT
  BY <1>5, <1>7
<1>11. g + Refilled(c) <= t + (dT + eT)
  BY <1>8, <1>9, <1>10
<1> QED
  BY <1>4, <1>5, <1>7, <1>11

LEMMA LimiterStarts == CachesInit => LimiterInv
  BY DEF CachesInit, LimiterInv, Empty

LEMMA LimiterRests ==
  ASSUME LimiterInv, UNCHANGED <<cacheClock, limiterVars>>
  PROVE  LimiterInv'
  BY DEF LimiterInv, limiterVars, BucketOK, Earned, Told

LEMMA LimiterTicks ==
  ASSUME LimiterInv, CacheTick
  PROVE  LimiterInv'
<1>1. cacheClock' = cacheClock + 1 /\ UNCHANGED limiterVars
  BY DEF CacheTick
<1> QED
  BY <1>1 DEF LimiterInv, limiterVars, BucketOK, Earned, Told

LEMMA PruneKeeps ==
  ASSUME NEW kept \in pruneOldest
  PROVE  DOMAIN kept \subseteq DOMAIN buckets /\ \A c \in DOMAIN kept : kept[c] = buckets[c]
<1> DEFINE fresh == Drop(buckets, {c \in DOMAIN buckets : buckets[c].seen < cacheClock - StaleAfter})
<1>1. DOMAIN fresh \subseteq DOMAIN buckets /\ \A c \in DOMAIN fresh : fresh[c] = buckets[c]
  BY DEF Drop
<1>2. \/ kept = buckets
      \/ kept = fresh
      \/ \E gone \in SUBSET DOMAIN fresh : kept = Drop(fresh, gone)
  <2> DEFINE size == Cardinality(DOMAIN fresh)
             drop == IF size \div 2 = 0 THEN 1 ELSE size \div 2
             halves == {g \in SUBSET DOMAIN fresh : Cardinality(g) = drop}
  <2>1. kept \in (IF Cardinality(DOMAIN buckets) < MaxClients THEN {buckets}
                  ELSE IF size < MaxClients THEN {fresh}
                  ELSE {Drop(fresh, gone) : gone \in halves})
    BY DEF pruneOldest
  <2>2. halves \subseteq SUBSET DOMAIN fresh
    OBVIOUS
  <2> HIDE DEF halves, size, fresh
  <2> QED
    BY <2>1, <2>2
<1> HIDE DEF fresh
<1>3. \A gone \in SUBSET DOMAIN fresh :
        DOMAIN Drop(fresh, gone) \subseteq DOMAIN fresh /\ \A c \in DOMAIN Drop(fresh, gone) : Drop(fresh, gone)[c] = fresh[c]
  BY DEF Drop
<1> QED
  BY <1>1, <1>2, <1>3

LEMMA LimiterAdmits ==
  ASSUME LimiterInv, NEW c \in Clients, AllowNew(c)
  PROVE  LimiterInv'
<1>1. PICK kept \in pruneOldest :
        /\ buckets' = Set(kept, c, [tokens |-> limit.burst * Token - Token, seen |-> cacheClock])
        /\ spent' = Set(Drop(spent, DOMAIN spent \ DOMAIN kept), c, [since |-> cacheClock, grants |-> 1])
        /\ refused' = Drop(refused, DOMAIN refused \ DOMAIN kept)
  BY DEF AllowNew
<1>2. c \notin DOMAIN buckets /\ limit.rate > 0 /\ cacheClock' = cacheClock /\ limit' = limit
  BY DEF AllowNew
<1>3. DOMAIN kept \subseteq DOMAIN buckets /\ \A d \in DOMAIN kept : kept[d] = buckets[d]
  BY PruneKeeps
<1>4. /\ DOMAIN buckets' = DOMAIN kept \cup {c} /\ \A d \in DOMAIN kept : buckets'[d] = buckets[d]
      /\ buckets'[c] = [tokens |-> limit.burst * Token - Token, seen |-> cacheClock]
  BY <1>1, <1>2, <1>3 DEF Set
<1>5. /\ DOMAIN spent' = (DOMAIN spent \cap DOMAIN kept) \cup {c}
      /\ \A d \in DOMAIN spent \cap DOMAIN kept : spent'[d] = spent[d]
      /\ spent'[c] = [since |-> cacheClock, grants |-> 1]
  BY <1>1, <1>2, <1>3 DEF Set, Drop
<1>6. DOMAIN refused' = DOMAIN refused \cap DOMAIN kept /\ \A d \in DOMAIN refused' : refused'[d] = refused[d]
  BY <1>1 DEF Drop
<1>7. PICK full \in Nat : full = limit.burst * Token /\ full >= Token /\ full <= TopBurst * Token
  <2>1. limit.burst \in Nat /\ 1 <= limit.burst /\ limit.burst <= TopBurst /\ Token \in Nat /\ TopBurst \in Nat
    BY <1>2, LimiterAssumption, Tops DEF LimiterInv
  <2>2. 1 * Token <= limit.burst * Token /\ limit.burst * Token <= TopBurst * Token /\ limit.burst * Token \in Nat
    BY <2>1, TimesMore, TimesNat
  <2>3. 1 * Token = Token
    BY <2>1
  <2> QED
    BY <2>2, <2>3
<1>8. Token \in Nat /\ TopBurst * Token \in Nat /\ cacheClock \in Nat /\ TopRate \in Nat
  BY LimiterAssumption, Tops, TimesNat DEF LimiterInv
<1>9. BucketOK(c)' /\ Earned(c)'
  <2>1. buckets'[c].tokens = full - Token /\ buckets'[c].seen = cacheClock
    BY <1>4, <1>7
  <2>2. BucketOK(c)'
    BY <1>2, <1>7, <1>8, <2>1 DEF BucketOK
  <2>3. spent'[c].since = cacheClock /\ spent'[c].grants = 1
    BY <1>5
  <2>4. (cacheClock - cacheClock) * TopRate = 0 /\ 1 * Token = Token
    BY <1>8
  <2>5. 1 * Token + (full - Token) <= TopBurst * Token + (cacheClock - cacheClock) * TopRate
    BY <1>7, <1>8, <2>4
  <2> QED
    BY <1>5, <1>8, <2>1, <2>2, <2>3, <2>5 DEF Earned
<1>10. \A d \in DOMAIN buckets' : BucketOK(d)'
  <2>1. ASSUME NEW d \in DOMAIN kept PROVE BucketOK(d)'
    BY <1>2, <1>3, <1>4 DEF LimiterInv, BucketOK
  <2> QED
    BY <1>4, <1>9, <2>1
<1>11. DOMAIN spent' \subseteq DOMAIN buckets' /\ \A d \in DOMAIN spent' : Earned(d)'
  BY <1>4, <1>5, <1>9 DEF LimiterInv, Earned
<1>12. DOMAIN refused' \subseteq DOMAIN buckets' /\ \A d \in DOMAIN refused' : Told(d)'
  BY <1>2, <1>4, <1>6 DEF LimiterInv, Told
<1> QED
  BY <1>2, <1>10, <1>11, <1>12 DEF LimiterInv

LEMMA LimiterGrants ==
  ASSUME LimiterInv, NEW c \in Clients, Allow(c)
  PROVE  LimiterInv'
<1>1. /\ c \in DOMAIN buckets /\ Refilled(c) >= Token /\ cacheClock' = cacheClock /\ limit' = limit
      /\ buckets' = [buckets EXCEPT ![c] = [tokens |-> Refilled(c) - Token, seen |-> cacheClock]]
      /\ spent' = [spent EXCEPT ![c].grants = @ + 1]
      /\ refused' = Drop(refused, {c})
  BY DEF Allow
<1>2. PICK r \in Nat : r = Refilled(c)
  BY <1>1, RefillIs
<1>3. Token \in Nat /\ cacheClock \in Nat
  BY LimiterAssumption DEF LimiterInv
<1>4. /\ DOMAIN buckets' = DOMAIN buckets /\ \A d \in DOMAIN buckets : d # c => buckets'[d] = buckets[d]
      /\ buckets'[c] = [tokens |-> r - Token, seen |-> cacheClock]
  BY <1>1, <1>2
<1>5. DOMAIN spent' = DOMAIN spent /\ \A d \in DOMAIN spent : d # c => spent'[d] = spent[d]
  BY <1>1
<1>6. DOMAIN refused' = DOMAIN refused \ {c} /\ \A d \in DOMAIN refused' : refused'[d] = refused[d]
  BY <1>1 DEF Drop
<1>7. BucketOK(c)'
  BY <1>1, <1>2, <1>3, <1>4 DEF BucketOK
<1>8. c \in DOMAIN spent => Earned(c)'
  <2> SUFFICES ASSUME c \in DOMAIN spent PROVE Earned(c)'
    OBVIOUS
  <2>1. Earned(c) /\ BucketOK(c)
    BY <1>1 DEF LimiterInv
  <2>2. /\ spent'[c] \in [since : Nat, grants : Nat]
        /\ spent'[c].grants = spent[c].grants + 1 /\ spent'[c].since = spent[c].since
    BY <1>1, <2>1 DEF Earned
  <2>3. (spent[c].grants + 1) * Token = spent[c].grants * Token + Token /\ spent[c].grants * Token \in Nat
    BY <1>3, <2>1, TimesNat DEF Earned
  <2>4. spent[c].grants * Token + r <= TopBurst * Token + (cacheClock - spent[c].since) * TopRate
    BY <1>2, RefillEarned
  <2>5. TopBurst * Token \in Nat /\ (cacheClock - spent[c].since) * TopRate \in Nat
    <3>1. cacheClock - spent[c].since \in Nat
      BY <2>1 DEF Earned, BucketOK, LimiterInv
    <3> QED
      BY <1>3, <3>1, Tops, TimesNat
  <2>6. (spent[c].grants + 1) * Token + (r - Token) <= TopBurst * Token + (cacheClock - spent[c].since) * TopRate
    BY <1>3, <2>3, <2>4, <2>5
  <2>7. spent[c].since <= cacheClock
    BY <2>1 DEF Earned, BucketOK, LimiterInv
  <2> QED
    BY <1>4, <2>2, <2>1, <2>6, <2>7 DEF Earned
<1>9. \A d \in DOMAIN buckets' : BucketOK(d)'
  BY <1>1, <1>4, <1>7 DEF LimiterInv, BucketOK
<1>10. DOMAIN spent' \subseteq DOMAIN buckets' /\ \A d \in DOMAIN spent' : Earned(d)'
  BY <1>4, <1>5, <1>8 DEF LimiterInv, Earned
<1>11. DOMAIN refused' \subseteq DOMAIN buckets' /\ \A d \in DOMAIN refused' : Told(d)'
  BY <1>1, <1>4, <1>6 DEF LimiterInv, Told
<1> QED
  BY <1>1, <1>9, <1>10, <1>11 DEF LimiterInv

LEMMA LimiterRefuses ==
  ASSUME LimiterInv, NEW c \in Clients, Refuse(c)
  PROVE  LimiterInv'
<1>1. /\ c \in DOMAIN buckets /\ Refilled(c) < Token /\ cacheClock' = cacheClock /\ limit' = limit
      /\ limit.rate > 0 /\ spent' = spent
      /\ buckets' = [buckets EXCEPT ![c] = [tokens |-> Refilled(c), seen |-> cacheClock]]
      /\ refused' = Set(refused, c, cacheClock + retryAfter(Token - Refilled(c)))
  BY DEF Refuse
<1>2. PICK r \in Nat : r = Refilled(c)
  BY <1>1, RefillIs
<1>3. Token \in Nat /\ cacheClock \in Nat /\ limit.rate \in Nat \ {0}
  BY <1>1, LimiterAssumption DEF LimiterInv
<1>4. /\ DOMAIN buckets' = DOMAIN buckets /\ \A d \in DOMAIN buckets : d # c => buckets'[d] = buckets[d]
      /\ buckets'[c] = [tokens |-> r, seen |-> cacheClock]
  BY <1>1, <1>2
<1>5. PICK w \in Nat : w = retryAfter(Token - r) /\ w * limit.rate >= Token - r
  <2>1. PICK m \in Nat : m = Token - r
    BY <1>1, <1>2, <1>3
  <2>2. PICK q \in Nat : q = CeilDiv(m, limit.rate) /\ q * limit.rate >= m
    BY <1>3, WaitBrings
  <2>3. CASE q < 1
    <3>1. retryAfter(m) = 1 /\ q = 0
      BY <2>2, <2>3 DEF retryAfter
    <3>2. 0 * limit.rate = 0 /\ 1 * limit.rate \in Nat
      BY <1>3
    <3>3. 1 * limit.rate >= m
      BY <2>2, <3>1, <3>2
    <3> QED
      BY <2>1, <3>1, <3>3
  <2>4. CASE ~(q < 1)
    BY <2>1, <2>2, <2>4 DEF retryAfter
  <2> QED
    BY <2>3, <2>4
<1>6. DOMAIN refused' = DOMAIN refused \cup {c} /\ refused'[c] = cacheClock + w
      /\ \A d \in DOMAIN refused : d # c => refused'[d] = refused[d]
  BY <1>1, <1>2, <1>5 DEF Set
<1>7. BucketOK(c)'
  BY <1>1, <1>3, <1>4 DEF BucketOK
<1>8. c \in DOMAIN spent => Earned(c)'
  <2> SUFFICES ASSUME c \in DOMAIN spent PROVE Earned(c)'
    OBVIOUS
  <2>1. Earned(c) /\ BucketOK(c)
    BY <1>1 DEF LimiterInv
  <2>2. spent[c].grants * Token + r <= TopBurst * Token + (cacheClock - spent[c].since) * TopRate
    BY <1>2, RefillEarned
  <2>3. spent[c].since <= cacheClock
    BY <2>1 DEF Earned, BucketOK, LimiterInv
  <2> QED
    BY <1>1, <1>4, <2>1, <2>2, <2>3 DEF Earned
<1>9. Told(c)'
  <2>1. (cacheClock + w) - cacheClock = w /\ w * limit.rate \in Nat
    BY <1>3, <1>5, TimesNat
  <2>2. r + ((cacheClock + w) - cacheClock) * limit.rate >= Token
    BY <1>3, <1>5, <2>1
  <2> QED
    BY <1>1, <1>3, <1>4, <1>6, <2>2 DEF Told
<1>10. \A d \in DOMAIN buckets' : BucketOK(d)'
  BY <1>1, <1>4, <1>7 DEF LimiterInv, BucketOK
<1>11. DOMAIN spent' \subseteq DOMAIN buckets' /\ \A d \in DOMAIN spent' : Earned(d)'
  BY <1>1, <1>4, <1>8 DEF LimiterInv, Earned
<1>12. DOMAIN refused' \subseteq DOMAIN buckets' /\ \A d \in DOMAIN refused' : Told(d)'
  BY <1>1, <1>4, <1>6, <1>9 DEF LimiterInv, Told
<1> QED
  BY <1>1, <1>10, <1>11, <1>12 DEF LimiterInv

LEMMA LimiterStep ==
  ASSUME LimiterInv, LimiterNext
  PROVE  LimiterInv'
<1>1. CASE \E l \in Rates : SetRate(l)
  BY <1>1 DEF SetRate, LimiterInv, BucketOK, Earned, Empty
<1> QED
  BY <1>1, LimiterTicks, LimiterAdmits, LimiterGrants, LimiterRefuses DEF LimiterNext

LEMMA LimiterKeeps == LimiterInv => RateHonest
<1> SUFFICES ASSUME LimiterInv PROVE RateHonest
  OBVIOUS
<1>1. ASSUME NEW c \in DOMAIN spent
      PROVE  spent[c].grants * Token <= TopBurst * Token + (cacheClock - spent[c].since) * TopRate
  <2>1. c \in DOMAIN buckets /\ Earned(c) /\ BucketOK(c)
    BY DEF LimiterInv
  <2>2. cacheClock - spent[c].since \in Nat
    BY <2>1 DEF LimiterInv, Earned, BucketOK
  <2>3. /\ spent[c].grants * Token \in Nat /\ TopBurst * Token \in Nat
        /\ (cacheClock - spent[c].since) * TopRate \in Nat /\ Refilled(c) \in Nat
    BY <2>1, <2>2, LimiterAssumption, Tops, TimesNat, RefillIs DEF Earned
  <2>4. spent[c].grants * Token + Refilled(c) <= TopBurst * Token + (cacheClock - spent[c].since) * TopRate
    BY RefillEarned
  <2> QED
    BY <2>3, <2>4
<1>2. ASSUME NEW c \in DOMAIN refused, cacheClock >= refused[c]
      PROVE  Refilled(c) >= Token
  <2>1. c \in DOMAIN buckets /\ Told(c) /\ BucketOK(c) /\ cacheClock \in Nat
    BY DEF LimiterInv
  <2>2. limit.rate \in Nat /\ limit.burst \in Nat /\ 1 <= limit.burst /\ Token \in Nat
    BY <2>1, LimiterAssumption DEF LimiterInv, Told
  <2>3. 1 * Token <= limit.burst * Token /\ 1 * Token = Token
    BY <2>2, TimesMore
  <2>4. PICK d \in Nat, e \in Nat : d = refused[c] - buckets[c].seen /\ e = cacheClock - buckets[c].seen /\ d <= e
    <3>1. refused[c] \in Nat /\ buckets[c].seen \in Nat /\ buckets[c].seen <= refused[c]
      BY <2>1 DEF Told, BucketOK
    <3>2. /\ refused[c] - buckets[c].seen \in Nat /\ cacheClock - buckets[c].seen \in Nat
          /\ refused[c] - buckets[c].seen <= cacheClock - buckets[c].seen
      BY <1>2, <2>1, <3>1
    <3> QED
      BY <3>2
  <2>5. d * limit.rate <= e * limit.rate /\ d * limit.rate \in Nat /\ e * limit.rate \in Nat
    BY <2>2, <2>4, TimesMore, TimesNat
  <2>6. buckets[c].tokens + d * limit.rate >= Token /\ buckets[c].tokens \in Nat
    BY <2>1, <2>4 DEF Told, BucketOK
  <2>7. buckets[c].tokens + e * limit.rate >= Token
    BY <2>2, <2>5, <2>6
  <2>8. Refilled(c) = limit.burst * Token \/ Refilled(c) = buckets[c].tokens + e * limit.rate
    BY <2>1, <2>4, RefillIs
  <2>9. CASE Refilled(c) = limit.burst * Token
    <3>1. limit.burst * Token \in Nat
      BY <2>2, TimesNat
    <3> QED
      BY <2>2, <2>3, <2>9, <3>1
  <2> QED
    BY <2>7, <2>8, <2>9
<1> QED
  BY <1>1, <1>2 DEF RateHonest

-----------------------------------------------------------------------------
(* The caches: the reasoning.                                              *)

EntryOf(turn, shape, t) ==
  [turn |-> turn, ids |-> IdsOf(turn) \ {NoContent}, hash |-> hashKey(turn.content, shape, turn.calls),
   bind |-> bindKeyFor(turn.content, CanonicalToolKey(turn.calls)), created |-> t]
Entries == {EntryOf(turn, shape, t) : turn \in Turns, shape \in Shapes \cup {NoShape}, t \in Nat}

Lookup == [at : {"look", "evict", "found"}, turn : Turns, shape : Shapes, call : Nat, found : Nat]

Falls(q) == \A i, j \in DOMAIN q : i < j => q[i] > q[j]

\* Entries get older, and none is of the future.
Aging ==
  /\ \A n \in DOMAIN stored : stored[n].created \in Nat /\ stored[n].created <= cacheClock
  /\ \A n, k \in DOMAIN stored : n < k => stored[n].created <= stored[k].created

\* The indexes lead to entries that are held, under the keys these were put with.
Leads(nodes, ids, hashes) ==
  /\ \A id \in DOMAIN ids : ids[id] \in nodes /\ id \in stored[ids[id]].ids
  /\ \A k \in DOMAIN hashes : hashes[k] \in nodes /\ stored[hashes[k]].hash = k

\* An entry that its id does not lead to is expired, or a newer one has the id.
Newest(nodes, ids) ==
  \A n \in nodes : \A id \in stored[n].ids :
    \/ Expired(n)
    \/ \E k \in nodes : n < k /\ id \in stored[k].ids
    \/ id \in DOMAIN ids /\ ids[id] = n

\* What was found is an entry of the same turn.
Finds(r) ==
  replay[r].at = "found" =>
    /\ replay[r].found \in DOMAIN stored
    /\ stored[replay[r].found].turn.content = Asked(r).content
    /\ CanonicalToolKey(stored[replay[r].found].turn.calls) = CanonicalToolKey(Asked(r).calls)

ReasoningInv ==
  /\ cacheClock \in Nat
  /\ stored \in Seq(Entries) /\ Aging
  /\ lru \in Seq(Nat) /\ ToSet(lru) \subseteq DOMAIN stored /\ Falls(lru) /\ Len(lru) <= MaxReasoning
  /\ Leads(ToSet(lru), byToolID, byHash) /\ Newest(ToSet(lru), byToolID)
  /\ replay \in [Replays -> {Waiting} \cup Lookup]
  /\ \A r \in Replays : Finds(r)

LEMMA ReasoningStarts == CachesInit => ReasoningInv
<1> SUFFICES ASSUME CachesInit PROVE ReasoningInv
  OBVIOUS
<1>1. /\ cacheClock = 1 /\ stored = <<>> /\ lru = <<>> /\ byToolID = Empty /\ byHash = Empty
      /\ replay = [r \in Replays |-> Waiting]
  BY DEF CachesInit
<1>2. stored \in Seq(Entries) /\ DOMAIN stored = {} /\ lru \in Seq(Nat) /\ DOMAIN lru = {} /\ Len(lru) = 0 /\ ToSet(lru) = {}
  BY <1>1, EmptySeq DEF ToSet
<1>3. DOMAIN byToolID = {} /\ DOMAIN byHash = {}
  BY <1>1 DEF Empty
<1>4. \A r \in Replays : replay[r].at = "idle"
  BY <1>1 DEF Waiting
<1> QED
  BY <1>1, <1>2, <1>3, <1>4, ReasoningAssumption DEF ReasoningInv, Aging, Falls, Leads, Newest, Finds

\* A turn with a call id has a canonical key.
LEMMA CanonicalIs ==
  ASSUME NEW turn \in Turns, CanonicalToolKey(turn.calls) = <<>>
  PROVE  IdsOf(turn) \ {NoContent} = {}
<1> DEFINE those == {i \in DOMAIN turn.calls : turn.calls[i].id /= NoContent}
<1>1. turn.calls \in Seq(ToSet(turn.calls)) /\ those \in SUBSET DOMAIN turn.calls
  BY ReasoningAssumption
<1>2. ToSet(Picked(turn.calls, those)) = {turn.calls[i] : i \in those}
  BY <1>1, PickedIs
<1>3. Picked(turn.calls, those) = <<>>
  BY DEF CanonicalToolKey
<1>4. ToSet(<<>>) = {}
  BY DEF ToSet
<1>5. those = {}
  BY <1>2, <1>3, <1>4
<1> QED
  BY <1>5 DEF IdsOf

\* An entry the id leads to, and its binding to the turn that is replayed.
LEMMA BoundIs ==
  ASSUME ReasoningInv, NEW r \in Replays, replay[r] \in Lookup, NEW n \in DOMAIN stored,
         NEW id \in stored[n].ids, bound(n, r)
  PROVE  /\ stored[n].turn.content = Asked(r).content
         /\ CanonicalToolKey(stored[n].turn.calls) = CanonicalToolKey(Asked(r).calls)
<1>1. stored[n] \in Entries
  BY DEF ReasoningInv
<1>2. PICK turn \in Turns : /\ stored[n].turn = turn /\ stored[n].ids = IdsOf(turn) \ {NoContent}
                            /\ stored[n].bind = bindKeyFor(turn.content, CanonicalToolKey(turn.calls))
  BY <1>1 DEF Entries, EntryOf
<1>3. CanonicalToolKey(turn.calls) # <<>>
  BY <1>2, CanonicalIs
<1>4. stored[n].bind = <<turn.content, CanonicalToolKey(turn.calls)>>
  BY <1>2, <1>3 DEF bindKeyFor
<1>5. stored[n].bind # NoKey
  BY <1>4 DEF NoKey
<1>6. bindKeyFor(Asked(r).content, CanonicalToolKey(Asked(r).calls)) = <<turn.content, CanonicalToolKey(turn.calls)>>
  BY <1>4, <1>5 DEF bound
<1>7. <<Asked(r).content, CanonicalToolKey(Asked(r).calls)>> = <<turn.content, CanonicalToolKey(turn.calls)>>
  BY <1>4, <1>5, <1>6 DEF bindKeyFor
<1> QED
  BY <1>2, <1>7

LEMMA HashIs ==
  ASSUME ReasoningInv, NEW r \in Replays, replay[r] \in Lookup, NEW n \in DOMAIN stored,
         stored[n].hash = hashKey(Asked(r).content, replay[r].shape, Asked(r).calls)
  PROVE  /\ stored[n].turn.content = Asked(r).content
         /\ CanonicalToolKey(stored[n].turn.calls) = CanonicalToolKey(Asked(r).calls)
<1>1. stored[n] \in Entries /\ replay[r].shape # NoShape
  BY ReasoningAssumption DEF ReasoningInv, Lookup
<1>2. PICK turn \in Turns, shape \in Shapes \cup {NoShape} :
        stored[n].turn = turn /\ stored[n].hash = hashKey(turn.content, shape, turn.calls)
  BY <1>1 DEF Entries, EntryOf
<1>3. stored[n].hash = <<Asked(r).content, replay[r].shape, Asked(r).calls>>
  BY <1>1 DEF hashKey
<1>4. stored[n].hash # NoKey
  BY <1>3 DEF NoKey
<1>5. stored[n].hash = <<turn.content, shape, IF shape = NoShape THEN << >> ELSE turn.calls>>
  BY <1>2, <1>4 DEF hashKey
<1>6. turn.content = Asked(r).content /\ shape = replay[r].shape /\ (IF shape = NoShape THEN << >> ELSE turn.calls) = Asked(r).calls
  BY <1>3, <1>5
<1> QED
  BY <1>1, <1>2, <1>6

\* What an eviction leaves, when no older entry that is not expired stays.
LEMMA EvictLeaves ==
  ASSUME ReasoningInv, NEW ns,
         \A n \in ToSet(lru) \ ns : \A k \in ToSet(lru) \cap ns : n < k => Expired(n)
  PROVE  LET kept == evictNodes(ns) IN
         /\ kept.lru \in Seq(Nat) /\ ToSet(kept.lru) = ToSet(lru) \ ns /\ Falls(kept.lru)
         /\ \A m \in 0..Len(lru) : (\A i \in (m + 1)..Len(lru) : lru[i] \in ns) => Len(kept.lru) <= m
         /\ Leads(ToSet(lru) \ ns, kept.ids, kept.hashes) /\ Newest(ToSet(lru) \ ns, kept.ids)
<1> DEFINE stay == {i \in DOMAIN lru : lru[i] \in ToSet(lru) \ ns}
           left == Picked(lru, stay)
           gone == {id \in DOMAIN byToolID : byToolID[id] \in ns /\ id \in stored[byToolID[id]].ids}
           lost == {k \in DOMAIN byHash : byHash[k] \in ns /\ stored[byHash[k]].hash = k}
<1>1. evictNodes(ns) = [lru |-> left, ids |-> Drop(byToolID, gone), hashes |-> Drop(byHash, lost)]
  BY DEF evictNodes, KeptAmong
<1>2. lru \in Seq(Nat) /\ stay \in SUBSET DOMAIN lru /\ Len(lru) \in Nat /\ DOMAIN lru = 1..Len(lru)
  BY DEF ReasoningInv
<1>3. /\ left \in Seq(Nat) /\ Len(left) = Cardinality(stay) /\ ToSet(left) = {lru[i] : i \in stay}
      /\ \A n \in DOMAIN left : NthOf(stay, n) \in stay /\ left[n] = lru[NthOf(stay, n)]
      /\ \A n, k \in DOMAIN left : n < k => NthOf(stay, n) < NthOf(stay, k)
  <2> HIDE DEF stay
  <2> QED
    BY ONLY <1>2, PickedIs
<1>4. ToSet(left) = ToSet(lru) \ ns
  <2>1. {lru[i] : i \in stay} = ToSet(lru) \ ns
    BY DEF ToSet
  <2> QED
    BY <1>3, <2>1
<1>5. Falls(left)
  BY <1>2, <1>3 DEF ReasoningInv, Falls
<1>6. ASSUME NEW m \in 0..Len(lru), \A i \in (m + 1)..Len(lru) : lru[i] \in ns
      PROVE  Len(left) <= m
  <2>1. stay \subseteq 1..m
    <3> SUFFICES ASSUME NEW i \in stay PROVE i \in 1..m
      OBVIOUS
    <3>1. i \in 1..Len(lru) /\ lru[i] \notin ns
      BY <1>2
    <3> QED
      BY <1>2, <1>6, <3>1
  <2>2. IsFiniteSet(1..m) /\ Cardinality(1..m) = m
    BY FS_Interval
  <2>3. Cardinality(stay) <= m
    BY <2>1, <2>2, FS_Subset
  <2> QED
    BY <1>3, <2>3
<1>7. /\ DOMAIN Drop(byToolID, gone) = DOMAIN byToolID \ gone
      /\ \A id \in DOMAIN byToolID \ gone : Drop(byToolID, gone)[id] = byToolID[id]
      /\ DOMAIN Drop(byHash, lost) = DOMAIN byHash \ lost
      /\ \A k \in DOMAIN byHash \ lost : Drop(byHash, lost)[k] = byHash[k]
  BY DEF Drop
<1>8. Leads(ToSet(lru) \ ns, Drop(byToolID, gone), Drop(byHash, lost))
  BY <1>7 DEF ReasoningInv, Leads
<1>9. Newest(ToSet(lru) \ ns, Drop(byToolID, gone))
  <2> SUFFICES ASSUME NEW n \in ToSet(lru) \ ns, NEW id \in stored[n].ids, ~Expired(n)
               PROVE  \/ \E k \in ToSet(lru) \ ns : n < k /\ id \in stored[k].ids
                      \/ id \in DOMAIN byToolID \ gone /\ byToolID[id] = n
    BY <1>7 DEF Newest
  <2>1. (\E k \in ToSet(lru) : n < k /\ id \in stored[k].ids) \/ (id \in DOMAIN byToolID /\ byToolID[id] = n)
    BY DEF ReasoningInv, Newest
  <2>2. ASSUME NEW k \in ToSet(lru), n < k PROVE k \notin ns
    BY <2>2
  <2> QED
    BY <2>1, <2>2
<1> HIDE DEF left, stay, gone, lost
<1> QED
  BY <1>1, <1>3, <1>4, <1>5, <1>6, <1>8, <1>9

\* Where a lookup stands, and what it finds.
LEMMA LookupMoves ==
  ASSUME ReasoningInv, NEW r \in Replays, NEW new \in {Waiting} \cup Lookup, replay' = [replay EXCEPT ![r] = new],
         UNCHANGED stored,
         new.at = "found" =>
           /\ new.found \in DOMAIN stored
           /\ stored[new.found].turn.content = new.turn.content
           /\ CanonicalToolKey(stored[new.found].turn.calls) = CanonicalToolKey(new.turn.calls)
  PROVE  replay' \in [Replays -> {Waiting} \cup Lookup] /\ \A q \in Replays : Finds(q)'
<1>1. /\ replay' \in [Replays -> {Waiting} \cup Lookup] /\ replay'[r] = new
      /\ \A q \in Replays : q # r => replay'[q] = replay[q]
  BY DEF ReasoningInv
<1>2. ASSUME NEW q \in Replays, q # r PROVE Finds(q)'
  BY <1>1, <1>2 DEF ReasoningInv, Finds, Asked
<1>3. Finds(r)'
  BY <1>1 DEF Finds, Asked
<1> QED
  BY <1>1, <1>2, <1>3

LEMMA LookupRests ==
  ASSUME ReasoningInv, UNCHANGED <<cacheClock, stored, lru, byToolID, byHash>>,
         replay' \in [Replays -> {Waiting} \cup Lookup], \A q \in Replays : Finds(q)'
  PROVE  ReasoningInv'
  BY DEF ReasoningInv, Aging, Falls, Leads, Newest, Expired

\* A lookup that has not ended is of a turn.
LEMMA LookupIs ==
  ASSUME ReasoningInv, NEW r \in Replays, replay[r].at \in {"look", "evict"}
  PROVE  replay[r] \in Lookup
<1>1. replay[r] \in {Waiting} \cup Lookup
  BY DEF ReasoningInv
<1>2. Waiting.at = "idle"
  BY DEF Waiting
<1> QED
  BY <1>1, <1>2

LEMMA EvictKeeps ==
  ASSUME ReasoningInv, NEW n, Expired(n), n \in ToSet(lru), UNCHANGED <<cacheClock, stored>>,
         lru' = evictNodes({n}).lru, byToolID' = evictNodes({n}).ids, byHash' = evictNodes({n}).hashes,
         replay' \in [Replays -> {Waiting} \cup Lookup], \A q \in Replays : Finds(q)'
  PROVE  ReasoningInv'
<1>1. \A k \in ToSet(lru) : k < n => Expired(k)
  <2> SUFFICES ASSUME NEW k \in ToSet(lru), k < n PROVE Expired(k)
    OBVIOUS
  <2>1. stored[k].created \in Nat /\ stored[n].created \in Nat /\ stored[k].created <= stored[n].created /\ cacheClock \in Nat
    BY DEF ReasoningInv, Aging
  <2>2. cacheClock - stored[n].created > ReasoningTTL
    BY DEF Expired
  <2> QED
    BY <2>1, <2>2, ReasoningAssumption DEF Expired
<1>2. \A k \in ToSet(lru) \ {n} : \A m \in ToSet(lru) \cap {n} : k < m => Expired(k)
  BY <1>1
<1>3. PICK ns : ns = {n}
  OBVIOUS
<1>4. /\ lru' \in Seq(Nat) /\ ToSet(lru') = ToSet(lru) \ ns /\ Falls(lru')
      /\ \A m \in 0..Len(lru) : (\A i \in (m + 1)..Len(lru) : lru[i] \in ns) => Len(lru') <= m
      /\ Leads(ToSet(lru) \ ns, byToolID', byHash') /\ Newest(ToSet(lru) \ ns, byToolID')
  BY <1>2, <1>3, EvictLeaves
<1>5. Len(lru') <= Len(lru) /\ Len(lru) \in Nat /\ Len(lru') \in Nat
  <2>1. Len(lru) \in Nat /\ Len(lru') \in Nat
    BY <1>4 DEF ReasoningInv
  <2>2. Len(lru) \in 0..Len(lru) /\ \A i \in (Len(lru) + 1)..Len(lru) : lru[i] \in ns
    BY <2>1
  <2> QED
    BY <1>4, <2>1, <2>2
<1>6. Leads(ToSet(lru), byToolID, byHash)' /\ Newest(ToSet(lru), byToolID)'
  <2>1. PICK nodes : nodes = ToSet(lru) \ ns /\ nodes = ToSet(lru')
    BY <1>4
  <2>2. Leads(nodes, byToolID', byHash') /\ Newest(nodes, byToolID')
    BY <1>4, <2>1
  <2>3. stored' = stored /\ \A k : Expired(k)' = Expired(k)
    BY DEF Expired
  <2>4. Leads(ToSet(lru), byToolID, byHash)'
    BY <2>1, <2>2, <2>3 DEF Leads
  <2>5. Newest(ToSet(lru), byToolID)'
    BY <2>1, <2>2, <2>3 DEF Newest
  <2> QED
    BY <2>4, <2>5
<1>7. Falls(lru)'
  BY <1>4 DEF Falls
<1>8. Len(lru') <= MaxReasoning /\ ToSet(lru') \subseteq DOMAIN stored
  <2>1. Len(lru) <= MaxReasoning /\ MaxReasoning \in Nat /\ ToSet(lru) \subseteq DOMAIN stored
    BY ReasoningAssumption DEF ReasoningInv
  <2>2. Len(lru') <= MaxReasoning
    BY <1>5, <2>1
  <2>3. ToSet(lru') \subseteq DOMAIN stored
    BY <1>4, <2>1
  <2> QED
    BY <2>2, <2>3
<1> QED
  BY <1>4, <1>6, <1>7, <1>8 DEF ReasoningInv, Aging

LEMMA LookupSteps ==
  ASSUME ReasoningInv, NEW r \in Replays,
         getByToolIDBound(r) \/ ToolIDMissed(r) \/ ToolIDExpired(r) \/ lookupByToolID(r) \/ GetByHash(r)
  PROVE  ReasoningInv'
<1>1. replay[r] \in Lookup /\ cacheClock' = cacheClock /\ stored' = stored
  BY LookupIs DEF getByToolIDBound, ToolIDMissed, ToolIDExpired, lookupByToolID, GetByHash, LookingUp
<1>2. PICK p \in Lookup : p = replay[r]
  BY <1>1
<1>3. /\ [p EXCEPT !.call = p.call + 1] \in Lookup /\ [p EXCEPT !.call = p.call + 1].at = p.at
      /\ [p EXCEPT !.at = "evict"] \in Lookup /\ [p EXCEPT !.at = "evict"].at = "evict"
      /\ [p EXCEPT !.at = "look", !.call = p.call + 1] \in Lookup /\ [p EXCEPT !.at = "look", !.call = p.call + 1].at = "look"
      /\ Waiting.at = "idle"
  <2>1. p \in [at : {"look", "evict", "found"}, turn : Turns, shape : Shapes, call : Nat, found : Nat]
    BY DEF Lookup
  <2>2. p.call + 1 \in Nat
    BY <2>1
  <2>3. [p EXCEPT !.call = p.call + 1] \in Lookup /\ [p EXCEPT !.call = p.call + 1].at = p.at
    BY <2>1, <2>2 DEF Lookup
  <2>4. [p EXCEPT !.at = "evict"] \in Lookup /\ [p EXCEPT !.at = "evict"].at = "evict"
    BY <2>1 DEF Lookup
  <2>5. /\ [p EXCEPT !.at = "look", !.call = p.call + 1] \in Lookup
        /\ [p EXCEPT !.at = "look", !.call = p.call + 1].at = "look"
    BY <2>1, <2>2 DEF Lookup
  <2> QED
    BY <2>3, <2>4, <2>5 DEF Waiting
<1>4. \A k \in Nat : /\ [p EXCEPT !.at = "found", !.found = k] \in Lookup
                     /\ [p EXCEPT !.at = "found", !.found = k].found = k
                     /\ [p EXCEPT !.at = "found", !.found = k].turn = p.turn
  BY DEF Lookup
<1>5. Leads(ToSet(lru), byToolID, byHash) /\ ToSet(lru) \subseteq DOMAIN stored /\ DOMAIN stored \subseteq Nat
  BY DEF ReasoningInv
<1>6. CASE getByToolIDBound(r)
  <2>1. PICK n : n = byToolID[CallID(r)]
    OBVIOUS
  <2>2. p.at = "look" /\ n \in DOMAIN stored /\ n \in Nat /\ CallID(r) \in stored[n].ids
    BY <1>2, <1>5, <1>6, <2>1 DEF getByToolIDBound, LookingUp, Leads
  <2>3. CASE bound(n, r)
    <3>1. replay' = [replay EXCEPT ![r] = [p EXCEPT !.at = "found", !.found = n]]
      BY <1>2, <1>6, <2>1, <2>3 DEF getByToolIDBound, ReasoningInv
    <3>2. /\ stored[n].turn.content = p.turn.content
          /\ CanonicalToolKey(stored[n].turn.calls) = CanonicalToolKey(p.turn.calls)
      BY <1>2, <2>2, <2>3, BoundIs DEF Asked
    <3>3. replay' \in [Replays -> {Waiting} \cup Lookup] /\ \A q \in Replays : Finds(q)'
      BY <1>1, <1>4, <2>2, <3>1, <3>2, LookupMoves
    <3> QED
      BY <1>6, <3>3, LookupRests DEF getByToolIDBound
  <2>4. CASE ~bound(n, r)
    <3>1. replay' = [replay EXCEPT ![r] = [p EXCEPT !.call = p.call + 1]]
      BY <1>2, <1>6, <2>1, <2>4 DEF getByToolIDBound, Step, ReasoningInv
    <3>2. replay' \in [Replays -> {Waiting} \cup Lookup] /\ \A q \in Replays : Finds(q)'
      BY <1>1, <1>3, <2>2, <3>1, LookupMoves
    <3> QED
      BY <1>6, <3>2, LookupRests DEF getByToolIDBound
  <2> QED
    BY <2>3, <2>4
<1>7. CASE ToolIDMissed(r)
  <2>1. replay' = [replay EXCEPT ![r] = [p EXCEPT !.call = p.call + 1]] /\ p.at = "look"
    BY <1>2, <1>7 DEF ToolIDMissed, Step, LookingUp, ReasoningInv
  <2>2. replay' \in [Replays -> {Waiting} \cup Lookup] /\ \A q \in Replays : Finds(q)'
    BY <1>1, <1>3, <2>1, LookupMoves
  <2> QED
    BY <1>7, <2>2, LookupRests DEF ToolIDMissed
<1>8. CASE ToolIDExpired(r)
  <2>1. replay' = [replay EXCEPT ![r] = [p EXCEPT !.at = "evict"]]
    BY <1>2, <1>8 DEF ToolIDExpired, ReasoningInv
  <2>2. replay' \in [Replays -> {Waiting} \cup Lookup] /\ \A q \in Replays : Finds(q)'
    BY <1>1, <1>3, <2>1, LookupMoves
  <2> QED
    BY <1>8, <2>2, LookupRests DEF ToolIDExpired
<1>9. CASE lookupByToolID(r)
  <2>1. replay' = [replay EXCEPT ![r] = [p EXCEPT !.at = "look", !.call = p.call + 1]]
    BY <1>2, <1>9 DEF lookupByToolID, ReasoningInv
  <2>2. replay' \in [Replays -> {Waiting} \cup Lookup] /\ \A q \in Replays : Finds(q)'
    BY <1>1, <1>3, <2>1, LookupMoves
  <2>3. CASE CallID(r) \in DOMAIN byToolID /\ Expired(byToolID[CallID(r)])
    <3>1. PICK n : n = byToolID[CallID(r)]
      OBVIOUS
    <3>2. n \in ToSet(lru) /\ Expired(n)
      BY <1>5, <2>3, <3>1 DEF Leads
    <3>3. lru' = evictNodes({n}).lru /\ byToolID' = evictNodes({n}).ids /\ byHash' = evictNodes({n}).hashes
      BY <1>9, <2>3, <3>1 DEF lookupByToolID
    <3> QED
      BY <1>1, <2>2, <3>2, <3>3, EvictKeeps
  <2>4. CASE ~(CallID(r) \in DOMAIN byToolID /\ Expired(byToolID[CallID(r)]))
    BY <1>1, <1>9, <2>2, <2>4, LookupRests DEF lookupByToolID
  <2> QED
    BY <2>3, <2>4
<1>10. CASE GetByHash(r)
  <2>1. PICK k : k = hashKey(Asked(r).content, replay[r].shape, Asked(r).calls)
    OBVIOUS
  <2>2. CASE k \in DOMAIN byHash /\ Expired(byHash[k])
    <3>1. PICK n : n = byHash[k]
      OBVIOUS
    <3>2. n \in ToSet(lru) /\ Expired(n)
      BY <1>5, <2>2, <3>1 DEF Leads
    <3>3. /\ lru' = evictNodes({n}).lru /\ byToolID' = evictNodes({n}).ids /\ byHash' = evictNodes({n}).hashes
          /\ replay' = [replay EXCEPT ![r] = Waiting]
      BY <1>10, <2>1, <2>2, <3>1 DEF GetByHash
    <3>4. replay' \in [Replays -> {Waiting} \cup Lookup] /\ \A q \in Replays : Finds(q)'
      BY <1>1, <1>3, <3>3, LookupMoves
    <3> QED
      BY <1>1, <3>2, <3>3, <3>4, EvictKeeps
  <2>3. CASE k \in DOMAIN byHash /\ ~Expired(byHash[k])
    <3>1. PICK n : n = byHash[k]
      OBVIOUS
    <3>2. n \in DOMAIN stored /\ n \in Nat /\ stored[n].hash = k
      BY <1>5, <2>3, <3>1 DEF Leads
    <3>3. UNCHANGED <<lru, byToolID, byHash>> /\ replay' = [replay EXCEPT ![r] = [p EXCEPT !.at = "found", !.found = n]]
      BY <1>2, <1>10, <2>1, <2>3, <3>1 DEF GetByHash, ReasoningInv
    <3>4. /\ stored[n].turn.content = p.turn.content
          /\ CanonicalToolKey(stored[n].turn.calls) = CanonicalToolKey(p.turn.calls)
      BY <1>2, <2>1, <3>2, HashIs DEF Asked
    <3>5. replay' \in [Replays -> {Waiting} \cup Lookup] /\ \A q \in Replays : Finds(q)'
      BY <1>1, <1>4, <3>2, <3>3, <3>4, LookupMoves
    <3> QED
      BY <1>1, <3>3, <3>5, LookupRests
  <2>4. CASE k \notin DOMAIN byHash
    <3>1. UNCHANGED <<lru, byToolID, byHash>> /\ replay' = [replay EXCEPT ![r] = Waiting]
      BY <1>10, <2>1, <2>4 DEF GetByHash
    <3>2. replay' \in [Replays -> {Waiting} \cup Lookup] /\ \A q \in Replays : Finds(q)'
      BY <1>1, <1>3, <3>1, LookupMoves
    <3> QED
      BY <1>1, <3>1, <3>2, LookupRests
  <2> QED
    BY <2>2, <2>3, <2>4
<1> QED
  BY <1>6, <1>7, <1>8, <1>9, <1>10

\* The newest entries that are kept when one more is stored.
LEMMA RoomMade ==
  ASSUME ReasoningInv
  PROVE  \E m \in 0..Len(lru) : m < MaxReasoning /\ Evicted = evictNodes({lru[i] : i \in (m + 1)..Len(lru)})
<1> DEFINE aged == {i \in DOMAIN lru : \A j \in i..Len(lru) : Expired(lru[j])}
           left == Len(lru) - Cardinality(aged)
           m == IF left >= MaxReasoning THEN MaxReasoning - 1 ELSE left
<1>1. Evicted = evictNodes({lru[i] : i \in (m + 1)..Len(lru)})
  BY DEF Evicted
<1>2. Len(lru) \in Nat /\ DOMAIN lru = 1..Len(lru) /\ MaxReasoning \in Nat \ {0}
  BY ReasoningAssumption DEF ReasoningInv
<1>3. Cardinality(aged) \in Nat /\ Cardinality(aged) <= Len(lru)
  <2>1. aged \in SUBSET (1..Len(lru))
    BY <1>2
  <2> HIDE DEF aged
  <2>2. IsFiniteSet(1..Len(lru)) /\ Cardinality(1..Len(lru)) = Len(lru)
    <3>1. IsFiniteSet(1..Len(lru)) /\ Cardinality(1..Len(lru)) = IF 1 > Len(lru) THEN 0 ELSE Len(lru) - 1 + 1
      BY ONLY <1>2, FS_Interval
    <3> QED
      BY <1>2, <3>1
  <2>3. Cardinality(aged) <= Len(lru)
    BY <2>1, <2>2, FS_Subset
  <2> QED
    BY <1>2, <2>1, <2>3, PositionsFinite
<1> HIDE DEF aged
<1>4. m \in 0..Len(lru) /\ m < MaxReasoning
  BY <1>2, <1>3
<1> QED
  BY <1>1, <1>4

\* A new entry in front of a list.
LEMMA InFront ==
  ASSUME NEW q \in Seq(Nat), NEW e \in Nat
  PROVE  /\ <<e>> \o q \in Seq(Nat) /\ Len(<<e>> \o q) = Len(q) + 1 /\ ToSet(<<e>> \o q) = ToSet(q) \cup {e}
         /\ Falls(q) /\ (\A k \in ToSet(q) : k < e) => Falls(<<e>> \o q)
<1> DEFINE w == <<e>> \o q
<1>1. /\ w \in Seq(Nat) /\ Len(q) \in Nat /\ DOMAIN q = 1..Len(q) /\ Len(w) = Len(q) + 1 /\ DOMAIN w = 1..(Len(q) + 1)
      /\ w[1] = e /\ \A i \in 1..Len(q) : w[i + 1] = q[i]
  OBVIOUS
<1> HIDE DEF w
<1>2. \A i \in DOMAIN w : i = 1 \/ (i - 1 \in DOMAIN q /\ w[i] = q[i - 1])
  <2> SUFFICES ASSUME NEW i \in DOMAIN w, i # 1 PROVE i - 1 \in DOMAIN q /\ w[i] = q[i - 1]
    OBVIOUS
  <2>1. i - 1 \in 1..Len(q) /\ (i - 1) + 1 = i
    BY <1>1
  <2> QED
    BY <1>1, <2>1
<1>3. ToSet(w) = ToSet(q) \cup {e}
  <2>1. \A i \in DOMAIN w : w[i] \in ToSet(q) \cup {e}
    BY <1>1, <1>2 DEF ToSet
  <2>2. \A i \in DOMAIN q : i + 1 \in DOMAIN w /\ w[i + 1] = q[i]
    BY <1>1
  <2>3. 1 \in DOMAIN w
    BY <1>1
  <2>4. \A i \in DOMAIN q : q[i] \in ToSet(w)
    BY <2>2 DEF ToSet
  <2>5. e \in ToSet(w)
    BY <1>1, <2>3 DEF ToSet
  <2> QED
    BY <2>1, <2>4, <2>5 DEF ToSet
<1>4. ASSUME Falls(q), \A k \in ToSet(q) : k < e PROVE Falls(w)
  <2> SUFFICES ASSUME NEW i \in DOMAIN w, NEW j \in DOMAIN w, i < j PROVE w[i] > w[j]
    BY DEF Falls
  <2>1. j # 1 /\ j - 1 \in DOMAIN q /\ w[j] = q[j - 1] /\ q[j - 1] \in ToSet(q) /\ q[j - 1] \in Nat
    BY <1>1, <1>2 DEF ToSet
  <2>2. CASE i = 1
    BY <1>1, <1>4, <2>1, <2>2
  <2>3. CASE i # 1
    <3>1. i - 1 \in DOMAIN q /\ w[i] = q[i - 1] /\ i - 1 < j - 1
      BY <1>1, <1>2, <2>3
    <3> QED
      BY <1>4, <2>1, <3>1 DEF Falls
  <2> QED
    BY <2>2, <2>3
<1> QED
  BY <1>1, <1>3, <1>4 DEF w

LEMMA ReasoningPuts ==
  ASSUME ReasoningInv, NEW turn \in Turns, NEW shape \in Shapes \cup {NoShape}, put(turn, shape)
  PROVE  ReasoningInv'
<1>1. PICK m \in 0..Len(lru) : m < MaxReasoning /\ Evicted = evictNodes({lru[i] : i \in (m + 1)..Len(lru)})
  BY RoomMade
<1>2. PICK ns : ns = {lru[i] : i \in (m + 1)..Len(lru)}
  OBVIOUS
<1>3. PICK kept, ids, hashes : kept = evictNodes(ns).lru /\ ids = evictNodes(ns).ids /\ hashes = evictNodes(ns).hashes
  OBVIOUS
<1>4. PICK n : n = Len(stored) + 1
  OBVIOUS
<1>5. PICK e : e = [turn |-> turn, ids |-> IdsOf(turn) \ {NoContent}, hash |-> hashKey(turn.content, shape, turn.calls),
                    bind |-> bindKeyFor(turn.content, CanonicalToolKey(turn.calls)), created |-> cacheClock]
  OBVIOUS
<1>6. /\ stored' = Append(stored, e) /\ cacheClock' = cacheClock /\ replay' = replay
      /\ lru' = <<n>> \o kept
      /\ byToolID' = [id \in DOMAIN ids \cup (IdsOf(turn) \ {NoContent}) |-> IF id \in IdsOf(turn) THEN n ELSE ids[id]]
      /\ byHash' = IF e.hash = NoKey THEN hashes ELSE Set(hashes, e.hash, n)
  BY <1>1, <1>2, <1>3, <1>4, <1>5 DEF put
<1>7. /\ lru \in Seq(Nat) /\ Len(lru) \in Nat /\ DOMAIN lru = 1..Len(lru) /\ Falls(lru) /\ cacheClock \in Nat
      /\ stored \in Seq(Entries) /\ Len(stored) \in Nat /\ DOMAIN stored = 1..Len(stored) /\ ToSet(lru) \subseteq DOMAIN stored
  BY DEF ReasoningInv
<1>8. \A l \in ToSet(lru) \ ns : \A k \in ToSet(lru) \cap ns : ~(l < k)
  <2> SUFFICES ASSUME NEW l \in ToSet(lru) \ ns, NEW k \in ToSet(lru) \cap ns, l < k PROVE FALSE
    OBVIOUS
  <2>1. PICK i \in DOMAIN lru : lru[i] = l
    BY DEF ToSet
  <2>2. PICK j \in (m + 1)..Len(lru) : lru[j] = k
    BY <1>2
  <2>3. ~(i \in (m + 1)..Len(lru))
    BY <1>2, <2>1
  <2>4. i < j /\ j \in DOMAIN lru
    BY <1>7, <2>2, <2>3
  <2>5. lru[i] > lru[j] /\ lru[i] \in Nat /\ lru[j] \in Nat
    BY <1>7, <2>4 DEF Falls
  <2> QED
    BY <2>1, <2>2, <2>5
<1>9. /\ kept \in Seq(Nat) /\ ToSet(kept) = ToSet(lru) \ ns /\ Falls(kept) /\ Len(kept) <= m
      /\ Leads(ToSet(lru) \ ns, ids, hashes) /\ Newest(ToSet(lru) \ ns, ids)
  <2>1. \A l \in ToSet(lru) \ ns : \A k \in ToSet(lru) \cap ns : l < k => Expired(l)
    BY <1>8
  <2>2. \A i \in (m + 1)..Len(lru) : lru[i] \in ns
    BY <1>2
  <2> QED
    BY <1>3, <2>1, <2>2, EvictLeaves
<1>10. PICK nodes : nodes = ToSet(kept)
  OBVIOUS
<1>11. /\ n \in Nat /\ DOMAIN stored' = DOMAIN stored \cup {n} /\ n \notin DOMAIN stored /\ stored'[n] = e
       /\ \A k \in DOMAIN stored : stored'[k] = stored[k] /\ k < n /\ k \in Nat
       /\ nodes \subseteq DOMAIN stored
  BY <1>4, <1>6, <1>7, <1>9, <1>10, AppendProperties
<1>12. stored' \in Seq(Entries)
  <2>1. e \in Entries
    <3>1. PICK t \in Nat : t = cacheClock
      BY <1>7
    <3>2. e = EntryOf(turn, shape, t)
      BY <1>5, <3>1 DEF EntryOf
    <3> QED
      BY <3>2 DEF Entries
  <2> QED
    BY <1>6, <1>7, <2>1
<1>13. e.created = cacheClock /\ e.ids = IdsOf(turn) \ {NoContent}
  BY <1>5
<1>14. Aging'
  BY <1>6, <1>7, <1>11, <1>13 DEF ReasoningInv, Aging
<1>15. /\ lru' \in Seq(Nat) /\ ToSet(lru') = nodes \cup {n} /\ Falls(lru') /\ Len(lru') = Len(kept) + 1
  BY <1>6, <1>9, <1>10, <1>11, InFront
<1>16. Falls(lru)' /\ Len(lru') <= MaxReasoning
  <2>1. Falls(lru)'
    BY <1>15 DEF Falls
  <2>2. Len(kept) \in Nat /\ Len(kept) + 1 <= MaxReasoning
    BY <1>1, <1>7, <1>9, ReasoningAssumption
  <2> QED
    BY <1>15, <2>1, <2>2
<1>17. Leads(nodes, ids, hashes) /\ Newest(nodes, ids)
  BY <1>9, <1>10
<1>18. Leads(ToSet(lru), byToolID, byHash)'
  <2>1. ASSUME NEW id \in DOMAIN byToolID' PROVE byToolID'[id] \in nodes \cup {n} /\ id \in stored'[byToolID'[id]].ids
    <3>1. NoContent \notin DOMAIN ids
      <4> SUFFICES ASSUME NoContent \in DOMAIN ids PROVE FALSE
        OBVIOUS
      <4>1. PICK k : k = ids[NoContent]
        OBVIOUS
      <4>2. k \in DOMAIN stored /\ NoContent \in stored[k].ids
        BY <1>11, <1>17, <4>1 DEF Leads
      <4>3. stored[k] \in Entries
        BY <1>7, <4>2
      <4> QED
        BY <4>2, <4>3 DEF Entries, EntryOf
    <3>2. CASE id \in IdsOf(turn)
      <4>1. byToolID'[id] = n /\ id # NoContent
        BY <1>6, <2>1, <3>1, <3>2
      <4> QED
        BY <1>11, <1>13, <3>2, <4>1
    <3>3. CASE id \notin IdsOf(turn)
      <4>1. byToolID'[id] = ids[id] /\ id \in DOMAIN ids
        BY <1>6, <2>1, <3>3
      <4>2. ids[id] \in nodes /\ id \in stored[ids[id]].ids
        BY <1>17, <4>1 DEF Leads
      <4> QED
        BY <1>11, <4>1, <4>2
    <3> QED
      BY <3>2, <3>3
  <2>2. ASSUME NEW k \in DOMAIN byHash' PROVE byHash'[k] \in nodes \cup {n} /\ stored'[byHash'[k]].hash = k
    <3>1. \/ e.hash = k /\ byHash'[k] = n
          \/ k \in DOMAIN hashes /\ byHash'[k] = hashes[k]
      BY <1>6, <2>2 DEF Set
    <3>2. CASE e.hash = k /\ byHash'[k] = n
      BY <1>11, <3>2
    <3>3. CASE k \in DOMAIN hashes /\ byHash'[k] = hashes[k]
      <4>1. hashes[k] \in nodes /\ stored[hashes[k]].hash = k
        BY <1>17, <3>3 DEF Leads
      <4> QED
        BY <1>11, <3>3, <4>1
    <3> QED
      BY <3>1, <3>2, <3>3
  <2> QED
    BY <1>15, <2>1, <2>2 DEF Leads
<1>19. Newest(ToSet(lru), byToolID)'
  <2> SUFFICES ASSUME NEW k \in nodes \cup {n}, NEW id \in stored'[k].ids
               PROVE  \/ Expired(k)'
                      \/ \E l \in nodes \cup {n} : k < l /\ id \in stored'[l].ids
                      \/ id \in DOMAIN byToolID' /\ byToolID'[id] = k
    BY <1>15 DEF Newest
  <2>1. CASE k = n
    BY <1>6, <1>11, <1>13, <2>1
  <2>2. CASE k # n /\ id \in IdsOf(turn) \ {NoContent}
    BY <1>11, <1>13, <2>2
  <2>3. CASE k # n /\ id \notin IdsOf(turn) \ {NoContent}
    <3>1. k \in nodes /\ k \in DOMAIN stored /\ id \in stored[k].ids
      BY <1>11, <2>3
    <3>2. id # NoContent /\ id \notin IdsOf(turn)
      <4>1. stored[k] \in Entries
        BY <1>7, <3>1
      <4>2. id # NoContent
        BY <3>1, <4>1 DEF Entries, EntryOf
      <4> QED
        BY <2>3, <4>2
    <3>3. Expired(k) \/ (\E l \in nodes : k < l /\ id \in stored[l].ids) \/ (id \in DOMAIN ids /\ ids[id] = k)
      BY <1>17, <3>1 DEF Newest
    <3>4. Expired(k) => Expired(k)'
      BY <1>6, <1>11, <3>1 DEF Expired
    <3>5. (\E l \in nodes : k < l /\ id \in stored[l].ids) => \E l \in nodes \cup {n} : k < l /\ id \in stored'[l].ids
      BY <1>11
    <3>6. id \in DOMAIN ids => id \in DOMAIN byToolID' /\ byToolID'[id] = ids[id]
      BY <1>6, <3>2
    <3> QED
      BY <3>3, <3>4, <3>5, <3>6
  <2> QED
    BY <2>1, <2>2, <2>3
<1>20. replay' \in [Replays -> {Waiting} \cup Lookup] /\ \A r \in Replays : Finds(r)'
  <2>1. ASSUME NEW r \in Replays PROVE Finds(r)'
    BY <1>6, <1>11 DEF ReasoningInv, Finds, Asked
  <2> QED
    BY <1>6, <2>1 DEF ReasoningInv
<1> QED
  BY <1>6, <1>7, <1>11, <1>12, <1>14, <1>15, <1>16, <1>18, <1>19, <1>20 DEF ReasoningInv

LEMMA ReasoningTicks ==
  ASSUME ReasoningInv, CacheTick
  PROVE  ReasoningInv'
<1>1. cacheClock' = cacheClock + 1 /\ UNCHANGED <<stored, lru, byToolID, byHash, replay>>
  BY DEF CacheTick, reasoningVars
<1>2. cacheClock \in Nat /\ \A n \in DOMAIN stored : stored[n].created \in Nat
  BY DEF ReasoningInv, Aging
<1>3. \A n \in DOMAIN stored : Expired(n) => Expired(n)'
  BY <1>1, <1>2, ReasoningAssumption DEF Expired
<1>4. Newest(ToSet(lru), byToolID)'
  <2>1. ToSet(lru) \subseteq DOMAIN stored /\ ToSet(lru') = ToSet(lru)
    BY <1>1 DEF ReasoningInv
  <2> QED
    BY <1>1, <1>3, <2>1 DEF ReasoningInv, Newest
<1>5. Aging' /\ Falls(lru)' /\ Leads(ToSet(lru), byToolID, byHash)'
  BY <1>1, <1>2 DEF ReasoningInv, Aging, Falls, Leads
<1>6. \A r \in Replays : Finds(r)'
  BY <1>1 DEF ReasoningInv, Finds, Asked
<1> QED
  BY <1>1, <1>2, <1>4, <1>5, <1>6 DEF ReasoningInv

LEMMA ReasoningRests ==
  ASSUME ReasoningInv, UNCHANGED <<cacheClock, reasoningVars>>
  PROVE  ReasoningInv'
<1>1. UNCHANGED <<cacheClock, stored, lru, byToolID, byHash>> /\ replay' = replay
  BY DEF reasoningVars
<1>2. \A r \in Replays : Finds(r)'
  BY <1>1 DEF ReasoningInv, Finds, Asked
<1> QED
  BY <1>1, <1>2, LookupRests DEF ReasoningInv

LEMMA ReasoningStep ==
  ASSUME ReasoningInv, ReasoningNext
  PROVE  ReasoningInv'
<1>1. ASSUME NEW r \in Replays, NEW turn \in Turns, NEW shape \in Shapes, normalizeMessages(r, turn, shape)
      PROVE  ReasoningInv'
  <2>1. PICK new : new = [at |-> "look", turn |-> turn, shape |-> shape, call |-> 1, found |-> 0]
    OBVIOUS
  <2>2. new \in Lookup /\ new.at = "look"
    BY <2>1 DEF Lookup
  <2>3. replay' = [replay EXCEPT ![r] = new] /\ UNCHANGED <<cacheClock, stored, lru, byToolID, byHash>>
    BY <1>1, <2>1 DEF normalizeMessages
  <2>4. replay' \in [Replays -> {Waiting} \cup Lookup] /\ \A q \in Replays : Finds(q)'
    BY <2>2, <2>3, LookupMoves
  <2> QED
    BY <2>3, <2>4, LookupRests
<1>2. CASE CacheTick
  BY <1>2, ReasoningTicks
<1>3. CASE \E turn \in Turns, shape \in Shapes \cup {NoShape} : put(turn, shape)
  BY <1>3, ReasoningPuts
<1>4. CASE \E r \in Replays : getByToolIDBound(r) \/ ToolIDMissed(r) \/ ToolIDExpired(r) \/ lookupByToolID(r) \/ GetByHash(r)
  BY <1>4, LookupSteps
<1> QED
  BY <1>1, <1>2, <1>3, <1>4 DEF ReasoningNext

LEMMA ReasoningKeeps == ReasoningInv => RestoredOwn /\ ReasoningIndexed
<1> SUFFICES ASSUME ReasoningInv PROVE RestoredOwn /\ ReasoningIndexed
  OBVIOUS
<1>1. RestoredOwn
  BY DEF ReasoningInv, Finds, RestoredOwn
<1>2. lru \in Seq(Nat) /\ Len(lru) \in Nat /\ DOMAIN lru = 1..Len(lru) /\ Falls(lru)
  BY DEF ReasoningInv
<1>3. \A k \in ToSet(lru) : Contains(lru, k)
  BY <1>2 DEF ToSet, Contains
<1>4. ASSUME NEW i \in DOMAIN lru, NEW id \in stored[lru[i]].ids,
             ~Expired(lru[i]), \A j \in 1..(i - 1) : id \notin stored[lru[j]].ids
      PROVE  id \in DOMAIN byToolID /\ byToolID[id] = lru[i]
  <2>1. PICK n : n = lru[i]
    OBVIOUS
  <2>2. n \in ToSet(lru) /\ n \in Nat
    BY <1>2, <2>1 DEF ToSet
  <2>3. ASSUME NEW k \in ToSet(lru), n < k PROVE id \notin stored[k].ids
    <3>1. PICK j \in DOMAIN lru : lru[j] = k
      BY DEF ToSet
    <3>2. ~(i < j) /\ i # j
      BY <1>2, <2>1, <2>2, <2>3, <3>1 DEF Falls
    <3> QED
      BY <1>2, <1>4, <3>1, <3>2
  <2> QED
    BY <1>4, <2>1, <2>2, <2>3 DEF ReasoningInv, Newest
<1>5. ReasoningIndexed
  BY <1>3, <1>4 DEF ReasoningInv, Leads, ReasoningIndexed
<1> QED
  BY <1>1, <1>5

-----------------------------------------------------------------------------
(* The caches together.                                                    *)

CachesInv == ReasoningInv /\ SchemaInv /\ LimiterInv

\* A step of one of the caches leaves the others, but for the clock.
LEMMA CachesMove ==
  ASSUME [CachesNext]_cachesVars
  PROVE  /\ CacheTick \/ ReasoningNext \/ UNCHANGED <<cacheClock, reasoningVars>>
         /\ SchemaNext \/ UNCHANGED schemaVars
         /\ CacheTick \/ LimiterNext \/ UNCHANGED <<cacheClock, limiterVars>>
<1>1. CASE UNCHANGED cachesVars
  BY <1>1 DEF cachesVars
<1>2. CASE CacheTick
  BY <1>2 DEF CacheTick
<1>3. CASE ReasoningNext
  <2>1. CacheTick \/ UNCHANGED <<cacheClock, schemaVars, limiterVars>>
    BY <1>3 DEF ReasoningNext, put, normalizeMessages, getByToolIDBound, ToolIDMissed, ToolIDExpired,
                lookupByToolID, GetByHash
  <2> QED
    BY <1>2, <1>3, <2>1
<1>4. CASE SchemaNext
  <2>1. UNCHANGED <<cacheClock, reasoningVars, limiterVars>>
    BY <1>4 DEF SchemaNext, schemaCacheGet, schemaCacheMiss, schemaCachePut
  <2> QED
    BY <1>4, <2>1
<1>5. CASE LimiterNext
  <2>1. CacheTick \/ UNCHANGED <<cacheClock, reasoningVars, schemaVars>>
    BY <1>5 DEF LimiterNext, AllowNew, Allow, Refuse, SetRate
  <2> QED
    BY <1>2, <1>5, <2>1
<1> QED
  BY <1>1, <1>3, <1>4, <1>5 DEF CachesNext

LEMMA CachesStep ==
  ASSUME CachesInv, [CachesNext]_cachesVars
  PROVE  CachesInv'
<1>1. ReasoningInv'
  BY CachesMove, ReasoningTicks, ReasoningStep, ReasoningRests DEF CachesInv
<1>2. SchemaInv'
  BY CachesMove, SchemaStep, SchemaRests DEF CachesInv
<1>3. LimiterInv'
  BY CachesMove, LimiterTicks, LimiterStep, LimiterRests DEF CachesInv
<1> QED
  BY <1>1, <1>2, <1>3 DEF CachesInv

-----------------------------------------------------------------------------
(* The administrator's saves.                                              *)

\* The lists, layers, configurations and edits there are.
LineHeld(v) == v = Absent \/ v \in Seq(Tokens)
ListHeld(v) == v \in Seq(Tokens)
IsLayer(f) == f = [k \in Keys |-> f[k]] /\ LineHeld(f["AUTH_TOKENS"])
IsRows(r) == r = [k \in Keys \cup {"migrated"} |-> r[k]] /\ LineHeld(r["AUTH_TOKENS"])
IsConfig(c) == c = [k \in Keys |-> c[k]] /\ ListHeld(c["AUTH_TOKENS"])
IsEdit(e) == DOMAIN e \subseteq Keys /\ ("AUTH_TOKENS" \in DOMAIN e => ListHeld(e["AUTH_TOKENS"]))

\* What a load of file f and rows r gives in deployment d, and that it gives c.
Effective(d, f, r, k) == Else(d.pins, k, Else(r, k, Else(f, k, Default[k])))
Loaded(d, f, r) ==
  [k \in Keys |-> IF k = "AUTH_TOKENS" THEN Dedupe(Effective(d, f, r, k)) ELSE Effective(d, f, r, k)]
Agree(d, f, r, c) == \A k \in Keys : Loaded(d, f, r)[k] = c[k] \/ (k = "AUTH_TOKENS" /\ d.database)

SaveHeld ==
  \/ save = Free
  \/ save.op = "sync" /\ ListHeld(save.tokens)
  \/ /\ save = [op |-> "dual", want |-> save.want, edit |-> save.edit, file |-> save.file,
                rows |-> save.rows, left |-> save.left]
     /\ IsLayer(save.file) /\ IsRows(save.rows)
     /\ IsEdit(save.edit) /\ save.left \subseteq DOMAIN save.edit

WizardHeld ==
  \/ wizard = NoWizard
  \/ /\ wizard = [at |-> wizard.at, file |-> wizard.file, tokens |-> wizard.tokens]
     /\ wizard.at \in {"adding", "written"}
     /\ IsLayer(wizard.file) /\ ListHeld(wizard.tokens)

AdminHeld ==
  /\ deployment \in Deployments
  /\ IsLayer(envFile) /\ IsRows(settings)
  /\ IsConfig(cfg)
  /\ stale # Absent => ListHeld(stale.tokens)
  /\ SaveHeld /\ WizardHeld

\* What agrees with the configuration in force while nothing was torn or raced:
\* both layers; during a save what it will put back, and during a wizard's
\* completion the file that the wizard will put back.
Tied ==
  /\ ~live => save = Free /\ wizard = NoWizard
  /\ live /\ ~torn /\ ~raced =>
       /\ save = Free \/ wizard = NoWizard
       /\ wizard.at = "adding" => wizard.file = envFile
       /\ wizard.at = "written" => Agree(deployment, wizard.file, settings, cfg)
       /\ save.op = "dual" => Agree(deployment, save.file, save.rows, cfg)
       /\ wizard.at # "written" /\ save.op # "dual" => Agree(deployment, envFile, settings, cfg)

AdminInv == AdminHeld /\ Tied

LEMMA DedupeTwice ==
  ASSUME NEW s \in Seq(Tokens)
  PROVE  Dedupe(s) \in Seq(Tokens) /\ Dedupe(Dedupe(s)) = Dedupe(s)
<1> DEFINE I == {i \in DOMAIN s : \A j \in 1..(i - 1) : s[j] # s[i]}
           q == Picked(s, I)
<1>1. I \in SUBSET DOMAIN s /\ Dedupe(s) = q
  BY DEF Dedupe
<1>2. \A i \in I : \A j \in 1..(i - 1) : s[j] # s[i]
  OBVIOUS
<1> HIDE DEF I
<1>3. /\ q \in Seq(Tokens)
      /\ \A n \in DOMAIN q : NthOf(I, n) \in I /\ q[n] = s[NthOf(I, n)]
      /\ \A n, k \in DOMAIN q : n < k => NthOf(I, n) < NthOf(I, k)
  BY <1>1, PickedIs
<1> HIDE DEF q
<1>4. ASSUME NEW k \in DOMAIN q, NEW n \in 1..(k - 1) PROVE q[n] # q[k]
  <2>1. n \in DOMAIN q /\ n < k
    BY <1>3
  <2>2. NthOf(I, n) < NthOf(I, k) /\ NthOf(I, n) \in DOMAIN s /\ NthOf(I, k) \in DOMAIN s
    BY <1>1, <1>3, <2>1
  <2>3. NthOf(I, n) \in 1..(NthOf(I, k) - 1)
    BY <2>2
  <2> QED
    BY <1>2, <1>3, <2>1, <2>3
<1>5. {k \in DOMAIN q : \A n \in 1..(k - 1) : q[n] # q[k]} = DOMAIN q
  BY <1>4
<1>6. Dedupe(q) = q
  BY <1>3, <1>5, PickedAll DEF Dedupe
<1> QED
  BY <1>1, <1>3, <1>6

LEMMA WithTokenListed ==
  ASSUME NEW s \in Seq(Tokens), NEW t \in Tokens
  PROVE  WithToken(s, t) \in Seq(Tokens)
  BY DEF WithToken

LEMMA WithoutListed ==
  ASSUME NEW s \in Seq(Tokens), NEW t
  PROVE  Without(s, t) \in Seq(Tokens)
<1> DEFINE I == {i \in DOMAIN s : s[i] # t}
<1>1. I \in SUBSET DOMAIN s /\ Without(s, t) = Picked(s, I)
  BY DEF Without
<1> HIDE DEF I
<1> QED
  BY <1>1, PickedIs

LEMMA PartListed ==
  ASSUME NEW S, NEW s \in Seq(S), NEW i \in 1..Len(s)
  PROVE  /\ RemoveAt(s, i) \in Seq(S) /\ Len(RemoveAt(s, i)) = Len(s) - 1
         /\ Front(s) \in Seq(S)
<1>1. Len(s) \in Nat
  OBVIOUS
<1>2. SubSeq(s, 1, i - 1) \in Seq(S) /\ Len(SubSeq(s, 1, i - 1)) = i - 1
  OBVIOUS
<1>3. SubSeq(s, i + 1, Len(s)) \in Seq(S) /\ Len(SubSeq(s, i + 1, Len(s))) = Len(s) - i
  OBVIOUS
<1>4. Front(s) \in Seq(S)
  BY DEF Front
<1> DEFINE l == SubSeq(s, 1, i - 1)
           m == SubSeq(s, i + 1, Len(s))
<1> HIDE DEF l, m
<1>5. l \in Seq(S) /\ m \in Seq(S) /\ Len(l) = i - 1 /\ Len(m) = Len(s) - i
  BY <1>2, <1>3 DEF l, m
<1>6. l \o m \in Seq(S) /\ Len(l \o m) = Len(s) - 1
  BY <1>1, <1>5
<1>7. RemoveAt(s, i) = l \o m
  BY DEF RemoveAt, l, m
<1> QED
  BY <1>4, <1>6, <1>7

LEMMA OrderListed ==
  ASSUME NEW S, NEW s \in Seq(S), NEW i \in 1..Len(s), NEW j \in 1..Len(s)
  PROVE  Swapped(s, i, j) \in Seq(S) /\ Moved(s, i, j) \in Seq(S)
<1>1. Swapped(s, i, j) \in Seq(S)
  BY DEF Swapped
<1> DEFINE w == RemoveAt(s, i)
<1>2. w \in Seq(S) /\ Len(w) = Len(s) - 1
  BY PartListed
<1> HIDE DEF w
<1>3. SubSeq(w, 1, j - 1) \in Seq(S) /\ SubSeq(w, j, Len(w)) \in Seq(S) /\ <<s[i]>> \in Seq(S)
  BY <1>2
<1>4. InsertAt(w, j, s[i]) \in Seq(S)
  BY <1>3 DEF InsertAt
<1> QED
  BY <1>1, <1>4 DEF Moved, w

LEMMA LoadIs == \A f, r : LoadOpts(f, r) = Loaded(deployment, f, r)
  BY DEF LoadOpts, Layered, Loaded, Effective

LEMMA DeploymentIs ==
  ASSUME NEW d \in Deployments
  PROVE  IsLayer(d.seed) /\ LineHeld(d.pins["AUTH_TOKENS"])
  BY AdminAssumption DEF IsLayer, LineHeld

\* A load gives a configuration.
LEMMA LoadTyped ==
  ASSUME NEW d \in Deployments, NEW f, NEW r,
         LineHeld(f["AUTH_TOKENS"]), LineHeld(r["AUTH_TOKENS"])
  PROVE  IsConfig(Loaded(d, f, r))
<1>1. Loaded(d, f, r) = [k \in Keys |-> Loaded(d, f, r)[k]]
  BY DEF Loaded
<1>2. "AUTH_TOKENS" \in Keys /\ Default["AUTH_TOKENS"] = <<>> /\ <<>> \in Seq(Tokens)
  BY DEF Keys, Default
<1>3. LineHeld(d.pins["AUTH_TOKENS"])
  BY DeploymentIs
<1>4. Effective(d, f, r, "AUTH_TOKENS") \in Seq(Tokens)
  BY <1>2, <1>3 DEF LineHeld, Effective, Else
<1>5. Loaded(d, f, r)["AUTH_TOKENS"] = Dedupe(Effective(d, f, r, "AUTH_TOKENS"))
  BY <1>2 DEF Loaded
<1>6. ListHeld(Loaded(d, f, r)["AUTH_TOKENS"])
  BY <1>4, <1>5, DedupeTwice DEF ListHeld
<1> QED
  BY <1>1, <1>6 DEF IsConfig

\* The rows that the first boot writes are the configuration it has loaded: the
\* next load gives the same.
LEMMA ImportAgrees ==
  ASSUME NEW d \in Deployments, NEW f, NEW r, NEW s,
         LineHeld(f["AUTH_TOKENS"]), LineHeld(r["AUTH_TOKENS"]),
         \A k \in Keys : s[k] = Loaded(d, f, r)[k]
  PROVE  Agree(d, f, s, Loaded(d, f, r))
<1> SUFFICES ASSUME NEW k \in Keys, ~(k = "AUTH_TOKENS" /\ d.database)
             PROVE  Loaded(d, f, s)[k] = Loaded(d, f, r)[k]
  BY DEF Agree
<1>1. CASE k # "AUTH_TOKENS"
  <2>1. s[k] = Effective(d, f, r, k) /\ Loaded(d, f, r)[k] = Effective(d, f, r, k)
        /\ Loaded(d, f, s)[k] = Effective(d, f, s, k)
    BY <1>1 DEF Loaded
  <2>2. Effective(d, f, s, k) = Effective(d, f, r, k)
    BY <2>1 DEF Effective, Else
  <2> QED
    BY <2>1, <2>2
<1>2. CASE k = "AUTH_TOKENS"
  <2> DEFINE v == Effective(d, f, r, k)
  <2>1. s[k] = Dedupe(v) /\ Loaded(d, f, r)[k] = Dedupe(v) /\ Loaded(d, f, s)[k] = Dedupe(Effective(d, f, s, k))
    BY <1>2 DEF Loaded
  <2>2. v \in Seq(Tokens)
    <3>1. Default[k] = <<>> /\ <<>> \in Seq(Tokens)
      BY <1>2 DEF Keys, Default
    <3>2. LineHeld(d.pins[k])
      BY <1>2, DeploymentIs
    <3> QED
      BY <1>2, <3>1, <3>2 DEF LineHeld, Effective, Else
  <2> HIDE DEF v
  <2>3. Dedupe(v) \in Seq(Tokens) /\ Dedupe(Dedupe(v)) = Dedupe(v) /\ Absent \notin Seq(Tokens)
    BY <2>2, DedupeTwice, AdminAssumption
  <2>4. CASE d.pins[k] = Absent
    <3>1. Effective(d, f, s, k) = Dedupe(v)
      BY <2>1, <2>3, <2>4 DEF Effective, Else
    <3> QED
      BY <2>1, <2>3, <3>1
  <2>5. CASE d.pins[k] # Absent
    <3>1. Effective(d, f, s, k) = d.pins[k] /\ v = d.pins[k]
      BY <2>5 DEF Effective, Else, v
    <3> QED
      BY <2>1, <3>1
  <2> QED
    BY <2>4, <2>5
<1> QED
  BY <1>1, <1>2

LEMMA AgreeSame == \A d, f, r : Agree(d, f, r, Loaded(d, f, r))
  BY DEF Agree

LEMMA AdminStarts == AdminInit => AdminInv
<1> SUFFICES ASSUME AdminInit PROVE AdminInv
  OBVIOUS
<1>1. IsLayer(envFile)
  BY DeploymentIs DEF AdminInit
<1>2. IsRows(settings)
  <2>1. settings = [k \in Keys \cup {"migrated"} |-> IF k \in Keys THEN Absent ELSE FALSE]
    BY DEF AdminInit
  <2> QED
    BY <2>1 DEF IsRows, LineHeld, Keys
<1>3. IsConfig(cfg)
  <2>1. Default["AUTH_TOKENS"] = <<>> /\ <<>> \in Seq(Tokens)
    BY DEF Keys, Default
  <2>2. Default = [k \in Keys |-> Default[k]]
    BY DEF Default
  <2> QED
    BY <2>1, <2>2 DEF AdminInit, IsConfig, ListHeld
<1>4. AdminHeld
  BY <1>1, <1>2, <1>3 DEF AdminInit, AdminHeld, SaveHeld, WizardHeld
<1> QED
  BY <1>4 DEF AdminInit, AdminInv, Tied

\* What a step has to keep: the types of what it changed, and the tie.
LEMMA AdminRests ==
  ASSUME AdminInv, UNCHANGED <<deployment, envFile, settings, live, cfg, save, stale, wizard, torn, raced>>
  PROVE  AdminInv'
  BY DEF AdminInv, AdminHeld, SaveHeld, WizardHeld, Tied

LEMMA MigrateTyped ==
  ASSUME NEW db \in Seq(Tokens), NEW list \in Seq(Tokens)
  PROVE  MigrateFromEnv(db, list) \in Seq(Tokens)
<1>1. PICK both : both = db \o list
  OBVIOUS
<1>2. both \in Seq(Tokens)
  BY <1>1
<1> QED
  BY <1>1, <1>2, DedupeTwice DEF MigrateFromEnv

LEMMA ServeKeeps == ASSUME AdminInv, tokenDB \in Seq(Tokens), Serve PROVE AdminInv'
<1> DEFINE d == deployment
           c == Loaded(d, envFile, settings)
<1>1. /\ d \in Deployments /\ IsLayer(envFile) /\ IsRows(settings)
      /\ save = Free /\ wizard = NoWizard
  BY DEF AdminInv, AdminHeld, Tied, Serve
<1>2. LineHeld(envFile["AUTH_TOKENS"]) /\ LineHeld(settings["AUTH_TOKENS"])
  BY <1>1 DEF IsLayer, IsRows
<1>3. IsConfig(c)
  BY <1>1, <1>2, LoadTyped
<1>4. /\ settings' = BootRows(settings, c)
      /\ cfg' = BootList(MigrateFromEnv(tokenDB, c["AUTH_TOKENS"]), c)
      /\ UNCHANGED <<deployment, envFile, save, stale, wizard>> /\ live'
  BY LoadIs, Zenon DEF Serve, Boot
<1> HIDE DEF c
<1>5. /\ IsRows(settings')
      /\ Agree(d, envFile, settings', c)
  <2>1. CASE d.settings /\ ~settings.migrated
    <3>1. settings' = [k \in Keys \cup {"migrated"} |-> IF k \in Keys THEN c[k] ELSE TRUE]
      BY <1>1, <1>4, <2>1 DEF BootRows, IsRows
    <3>2. \A k \in Keys : settings'[k] = c[k]
      BY <3>1
    <3>3. "AUTH_TOKENS" \in Keys
      BY DEF Keys
    <3>4. IsRows(settings')
      BY <1>3, <3>1, <3>2, <3>3 DEF IsRows, IsConfig, ListHeld, LineHeld
    <3>5. PICK s : s = settings'
      OBVIOUS
    <3>6. Agree(d, envFile, s, c)
      BY <1>1, <1>2, <3>2, <3>5, ImportAgrees DEF c
    <3> QED
      BY <3>4, <3>5, <3>6
  <2>2. CASE ~(d.settings /\ ~settings.migrated)
    <3>1. settings' = settings
      BY <1>4, <2>2 DEF BootRows
    <3> QED
      BY <1>1, <3>1, AgreeSame DEF c
  <2> QED
    BY <2>1, <2>2
<1>6. IsConfig(cfg') /\ Agree(d, envFile, settings', cfg')
  <2> DEFINE db == MigrateFromEnv(tokenDB, c["AUTH_TOKENS"])
  <2>1. cfg' = BootList(db, c) /\ db \in Seq(Tokens)
    BY <1>3, <1>4, MigrateTyped DEF IsConfig, ListHeld
  <2> HIDE DEF db
  <2>2. CASE cfg' = c
    BY <1>3, <1>5, <2>2
  <2>3. CASE cfg' # c
    <3>1. d.database /\ cfg' = [c EXCEPT !["AUTH_TOKENS"] = db]
      BY <2>1, <2>3 DEF BootList
    <3>2. c = [k \in Keys |-> c[k]] /\ "AUTH_TOKENS" \in Keys
      BY <1>3 DEF IsConfig, Keys
    <3>3. cfg' = [k \in Keys |-> IF k = "AUTH_TOKENS" THEN db ELSE c[k]]
      BY <3>1, <3>2
    <3> QED
      BY <1>5, <2>1, <3>1, <3>2, <3>3 DEF IsConfig, ListHeld, Agree
  <2> QED
    BY <2>2, <2>3
<1>7. AdminHeld'
  BY <1>1, <1>4, <1>5, <1>6 DEF AdminInv, AdminHeld, SaveHeld, WizardHeld, Serve
<1> QED
  BY <1>1, <1>4, <1>6, <1>7 DEF AdminInv, Tied, Free, NoWizard

LEMMA CrashKeeps == ASSUME AdminInv, Crash PROVE AdminInv'
<1>1. IsConfig(Default)
  <2>1. Default["AUTH_TOKENS"] = <<>> /\ <<>> \in Seq(Tokens)
    BY DEF Keys, Default
  <2>2. Default = [k \in Keys |-> Default[k]]
    BY DEF Default
  <2> QED
    BY <2>1, <2>2 DEF IsConfig, ListHeld
<1>2. /\ UNCHANGED <<deployment, envFile, settings>> /\ ~live' /\ save' = Free /\ stale' = Absent
      /\ wizard' = NoWizard /\ cfg' = Default
  BY DEF Crash
<1> QED
  BY <1>1, <1>2 DEF AdminInv, AdminHeld, SaveHeld, WizardHeld, Tied

\* A token handler takes the lock with a list it wants persisted.
LEMMA LockKeeps ==
  ASSUME AdminInv, NEW op, Lock(op), op.op = "sync", ListHeld(op.tokens)
  PROVE  AdminInv'
<1>1. /\ save = Free /\ save' = op /\ raced' = (raced \/ wizard # NoWizard) /\ live
      /\ UNCHANGED <<deployment, envFile, settings, live, cfg, stale, wizard, torn>>
  BY DEF Lock
<1>2. AdminHeld'
  BY <1>1 DEF AdminInv, AdminHeld, SaveHeld, WizardHeld
<1> QED
  BY <1>1, <1>2 DEF AdminInv, Tied, Free, NoWizard

LEMMA HandlersKeep ==
  ASSUME AdminInv,
         \/ \E i \in Slots : handleTokenRemove(i)
         \/ \E t \in Tokens : handleTokenAdd(t) \/ handleTokenRemoveSpecific(t)
         \/ handleTokenRemoveLast
         \/ \E i, j \in Slots : handleTokenSwap(i, j)
  PROVE  AdminInv'
<1> DEFINE l == cfg["AUTH_TOKENS"]
           d == deployment
<1>1. l \in Seq(Tokens)
  BY DEF AdminInv, AdminHeld, IsConfig, ListHeld
<1> HIDE DEF l
<1>2. ASSUME NEW i \in Slots, handleTokenRemove(i) PROVE AdminInv'
  <2>1. Len(l) = TokenCount /\ i \in 1..TokenCount
    BY <1>2 DEF handleTokenRemove, InStep, l
  <2>2. RemoveAt(l, i) \in Seq(Tokens)
    BY <1>1, <2>1, PartListed
  <2>3. PICK op : op = [op |-> "sync", tokens |-> RemoveAt(l, i), undo |-> "add", token |-> l[i]]
    OBVIOUS
  <2>4. Lock(op)
    BY <1>2, <2>3 DEF handleTokenRemove, l
  <2> QED
    BY <2>2, <2>3, <2>4, LockKeeps DEF ListHeld
<1>3. ASSUME NEW t \in Tokens, handleTokenAdd(t) PROVE AdminInv'
  <2>1. WithToken(l, t) \in Seq(Tokens)
    BY <1>1, WithTokenListed
  <2>2. PICK op : op = [op |-> "sync", tokens |-> WithToken(l, t), undo |-> "removeLast", token |-> t]
    OBVIOUS
  <2>3. Lock(op)
    BY <1>3, <2>2 DEF handleTokenAdd, l
  <2> QED
    BY <2>1, <2>2, <2>3, LockKeeps DEF ListHeld
<1>4. ASSUME NEW t \in Tokens, handleTokenRemoveSpecific(t) PROVE AdminInv'
  <2>1. Without(l, t) \in Seq(Tokens)
    BY <1>1, WithoutListed
  <2>2. PICK op : op = [op |-> "sync", tokens |-> Without(l, t), undo |-> "add", token |-> t]
    OBVIOUS
  <2>3. Lock(op)
    BY <1>4, <2>2 DEF handleTokenRemoveSpecific, l
  <2> QED
    BY <2>1, <2>2, <2>3, LockKeeps DEF ListHeld
<1>5. ASSUME handleTokenRemoveLast PROVE AdminInv'
  <2>1. Front(l) \in Seq(Tokens)
    <3>1. l \in Seq(Tokens) => SubSeq(l, 1, Len(l) - 1) \in Seq(Tokens)
      OBVIOUS
    <3> QED
      BY <1>1, <3>1 DEF Front
  <2>2. PICK op : op = [op |-> "sync", tokens |-> Front(l), undo |-> "add", token |-> Last(l)]
    OBVIOUS
  <2>3. Lock(op)
    BY <1>5, <2>2 DEF handleTokenRemoveLast, l
  <2> QED
    BY <2>1, <2>2, <2>3, LockKeeps DEF ListHeld
<1>6. ASSUME NEW i \in Slots, NEW j \in Slots, handleTokenSwap(i, j) PROVE AdminInv'
  <2>1. Len(l) = TokenCount /\ i \in 1..TokenCount /\ j \in 1..TokenCount
    BY <1>6 DEF handleTokenSwap, InStep, l
  <2>2. Swapped(l, i, j) \in Seq(Tokens) /\ Moved(l, i, j) \in Seq(Tokens)
    BY <1>1, <2>1, OrderListed
  <2>3. \E w \in {Swapped(l, i, j), Moved(l, i, j)}, u \in {"swap", "move"} :
          Lock([op |-> "sync", tokens |-> w, undo |-> u, i |-> i, j |-> j])
    BY <1>6 DEF handleTokenSwap, l
  <2>4. PICK w \in {Swapped(l, i, j), Moved(l, i, j)}, u \in {"swap", "move"} :
          Lock([op |-> "sync", tokens |-> w, undo |-> u, i |-> i, j |-> j])
    BY <2>3
  <2>5. PICK op : op = [op |-> "sync", tokens |-> w, undo |-> u, i |-> i, j |-> j]
    OBVIOUS
  <2>6. Lock(op) /\ op.op = "sync" /\ op.tokens = w
    BY <2>4, <2>5
  <2> QED
    BY <2>2, <2>4, <2>6, LockKeeps DEF ListHeld
<1> QED
  BY <1>2, <1>3, <1>4, <1>5, <1>6

LEMMA SyncSave ==
  ASSUME AdminInv, save.op = "sync"
  PROVE  ListHeld(save.tokens) /\ save # Free
  BY DEF AdminInv, AdminHeld, SaveHeld, Free

LEMMA DualSave ==
  ASSUME AdminInv, save.op = "dual"
  PROVE  /\ save = [op |-> "dual", want |-> save.want, edit |-> save.edit, file |-> save.file,
                    rows |-> save.rows, left |-> save.left]
         /\ IsLayer(save.file) /\ IsRows(save.rows)
         /\ IsEdit(save.edit) /\ save.left \subseteq DOMAIN save.edit
         /\ save # Free
  BY DEF AdminInv, AdminHeld, SaveHeld, Free

\* The list in force of a deployment with a token database is replaced.
LEMMA DatabaseSyncs ==
  ASSUME AdminInv, NEW tokens, syncDatabase(tokens), ListHeld(tokens)
  PROVE  /\ deployment.database /\ UNCHANGED <<envFile, settings>>
         /\ IsConfig(cfg')
         /\ \A f, r : Agree(deployment, f, r, cfg) => Agree(deployment, f, r, cfg')
<1>1. /\ deployment.database /\ cfg' = [cfg EXCEPT !["AUTH_TOKENS"] = tokens]
      /\ UNCHANGED <<envFile, settings>>
  BY DEF syncDatabase
<1>2. cfg = [k \in Keys |-> cfg[k]] /\ "AUTH_TOKENS" \in Keys
  BY DEF AdminInv, AdminHeld, IsConfig, Keys
<1>3. cfg' = [k \in Keys |-> IF k = "AUTH_TOKENS" THEN tokens ELSE cfg[k]]
  BY <1>1, <1>2
<1> QED
  BY <1>1, <1>2, <1>3 DEF IsConfig, ListHeld, Agree

LEMMA LineWritten ==
  ASSUME NEW f, IsLayer(f), NEW tokens, LineHeld(tokens)
  PROVE  IsLayer([f EXCEPT !["AUTH_TOKENS"] = tokens])
<1> DEFINE g == [f EXCEPT !["AUTH_TOKENS"] = tokens]
<1>1. f = [k \in Keys |-> f[k]] /\ "AUTH_TOKENS" \in Keys
  BY DEF IsLayer, Keys
<1>2. g = [k \in Keys |-> IF k = "AUTH_TOKENS" THEN tokens ELSE f[k]]
  BY <1>1
<1> QED
  BY <1>1, <1>2 DEF IsLayer

LEMMA PersistKeeps == ASSUME AdminInv, TokensPersisted PROVE AdminInv'
<1>1. /\ save.op = "sync" /\ save' = Free /\ live /\ syncTokens(save.tokens)
      /\ UNCHANGED <<deployment, live, stale, wizard, torn, raced>>
  BY DEF TokensPersisted
<1>2. ListHeld(save.tokens) /\ save # Free
  BY <1>1, SyncSave
<1>3. PICK tokens : tokens = save.tokens
  OBVIOUS
<1>4. CASE syncDatabase(tokens)
  <2>1. /\ UNCHANGED <<envFile, settings>> /\ IsConfig(cfg')
        /\ \A f, r : Agree(deployment, f, r, cfg) => Agree(deployment, f, r, cfg')
    BY <1>2, <1>3, <1>4, DatabaseSyncs
  <2>2. AdminHeld'
    BY <1>1, <2>1 DEF AdminInv, AdminHeld, SaveHeld, WizardHeld
  <2> QED
    BY <1>1, <1>2, <2>1, <2>2 DEF AdminInv, Tied, Free, NoWizard
<1>5. CASE syncFile(tokens)
  <2> DEFINE written == [envFile EXCEPT !["AUTH_TOKENS"] = tokens]
  <2>1. envFile' = written /\ UNCHANGED settings /\ cfg' = LoadOpts(written, settings)
    BY <1>5 DEF syncFile, applyReloadedConfig
  <2>2. IsLayer(written)
    BY <1>2, <1>3, LineWritten DEF AdminInv, AdminHeld, ListHeld, LineHeld
  <2> HIDE DEF written
  <2>3. cfg' = Loaded(deployment, written, settings)
    BY <2>1, LoadIs
  <2>4. deployment \in Deployments /\ LineHeld(written["AUTH_TOKENS"])
        /\ LineHeld(settings["AUTH_TOKENS"])
    BY <2>2 DEF AdminInv, AdminHeld, IsLayer, IsRows
  <2>5. IsConfig(cfg') /\ Agree(deployment, written, settings, cfg')
    BY <2>3, <2>4, LoadTyped, AgreeSame
  <2>6. AdminHeld'
    BY <1>1, <2>1, <2>2, <2>5 DEF AdminInv, AdminHeld, SaveHeld, WizardHeld
  <2> QED
    BY <1>1, <1>2, <2>1, <2>5, <2>6 DEF AdminInv, Tied, Free, NoWizard
<1> QED
  BY <1>1, <1>3, <1>4, <1>5 DEF syncTokens

LEMMA RefuseKeeps == ASSUME AdminInv, TokensRefused PROVE AdminInv'
<1>1. /\ save.op = "sync" /\ save' = Free /\ live
      /\ UNCHANGED <<deployment, live, stale, wizard, torn, raced>> /\ syncTokensFails(save.tokens)
  BY DEF TokensRefused
<1>2. UNCHANGED <<envFile, settings, cfg>>
  BY <1>1 DEF syncTokensFails, syncDatabaseFails, syncFileFails
<1>3. save # Free
  BY <1>1, SyncSave
<1>4. AdminHeld'
  BY <1>1, <1>2 DEF AdminInv, AdminHeld, SaveHeld, WizardHeld
<1> QED
  BY <1>1, <1>2, <1>3, <1>4 DEF AdminInv, Tied, Free, NoWizard

LEMMA AskKeeps == ASSUME AdminInv, NEW mode, ModeAsked(mode) PROVE AdminInv'
<1>1. /\ stale' = [mode |-> mode, tokens |-> cfg["AUTH_TOKENS"]]
      /\ UNCHANGED <<deployment, envFile, settings, live, cfg, save, wizard, torn, raced>>
  BY DEF ModeAsked
<1>2. ListHeld(stale'.tokens)
  BY <1>1 DEF AdminInv, AdminHeld, IsConfig
<1>3. AdminHeld'
  BY <1>1, <1>2 DEF AdminInv, AdminHeld, SaveHeld, WizardHeld
<1> QED
  BY <1>1, <1>3 DEF AdminInv, Tied

\* A save of both layers begins: what it would put back agrees.
LEMMA DualKeeps ==
  ASSUME AdminInv, NEW want, NEW edit, IsEdit(edit), dualWrite(want, edit),
         stale' = stale \/ stale' = Absent
  PROVE  AdminInv'
<1> DEFINE left == IF deployment.settings THEN DOMAIN edit ELSE {}
<1>1. /\ live /\ save = Free
      /\ save' = [op |-> "dual", want |-> want, edit |-> edit, file |-> envFile, rows |-> settings, left |-> left]
      /\ envFile' = Over(envFile, edit) /\ raced' = (raced \/ wizard # NoWizard)
      /\ UNCHANGED <<deployment, settings, live, cfg, wizard, torn>>
  BY DEF dualWrite
<1>2. left \subseteq DOMAIN edit
  OBVIOUS
<1> HIDE DEF left
<1>3. envFile = [k \in Keys |-> envFile[k]] /\ LineHeld(envFile["AUTH_TOKENS"]) /\ "AUTH_TOKENS" \in Keys
  BY DEF AdminInv, AdminHeld, IsLayer, Keys
<1>4. envFile' = [k \in Keys |-> IF k \in DOMAIN edit THEN edit[k] ELSE envFile[k]]
  BY <1>1, <1>3 DEF Over
<1>5. IsLayer(envFile')
  BY <1>3, <1>4 DEF IsLayer, IsEdit, LineHeld, ListHeld
<1>6. SaveHeld'
  BY <1>1, <1>2 DEF AdminInv, AdminHeld, SaveHeld
<1>7. AdminHeld'
  BY <1>1, <1>5, <1>6 DEF AdminInv, AdminHeld, WizardHeld
<1>8. ASSUME live, ~torn, ~raced' PROVE wizard = NoWizard /\ Agree(deployment, envFile, settings, cfg)
  <2>1. wizard = NoWizard /\ ~raced
    BY <1>1, <1>8
  <2>2. wizard.at # "written" /\ save.op # "dual"
    BY <1>1, <2>1 DEF Free, NoWizard
  <2> QED
    BY <1>8, <2>1, <2>2 DEF AdminInv, Tied
<1> QED
  BY <1>1, <1>7, <1>8 DEF AdminInv, Tied, NoWizard

LEMMA SavesBegin ==
  ASSUME AdminInv,
         \/ handleModeSwitch
         \/ \E pw \in Passwords : handleAdminChangePassword(pw)
         \/ \E b \in BOOLEAN : handleAdminRequireLogin(b)
  PROVE  AdminInv'
<1>1. CASE handleModeSwitch
  <2>1. stale # Absent /\ stale' = Absent /\ dualWrite(stale.mode, ModeEdit)
    BY <1>1 DEF handleModeSwitch
  <2>2. ListHeld(stale.tokens)
    BY <2>1 DEF AdminInv, AdminHeld
  <2>3. IsEdit(ModeEdit)
    <3>1. CASE stale.mode = "bridge"
      <4>1. ModeEdit = [k \in {"AUTH_TOKENS"} |-> <<>>] /\ <<>> \in Seq(Tokens)
        BY <3>1 DEF ModeEdit
      <4> QED
        BY <4>1 DEF IsEdit, ListHeld, Keys
    <3>2. CASE stale.mode # "bridge"
      <4>1. ModeEdit = [k \in {"AUTH_TOKENS", "BRIDGE_ENABLED"} |->
                          IF k = "AUTH_TOKENS" THEN stale.tokens ELSE stale.mode = "hybrid"]
        BY <3>2 DEF ModeEdit
      <4> QED
        BY <2>2, <4>1 DEF IsEdit, Keys
    <3> QED
      BY <3>1, <3>2
  <2>4. PICK want, edit : want = stale.mode /\ edit = ModeEdit
    OBVIOUS
  <2>5. dualWrite(want, edit) /\ IsEdit(edit)
    BY <2>1, <2>3, <2>4
  <2> QED
    BY <2>1, <2>5, DualKeeps
<1>2. ASSUME NEW pw \in Passwords, handleAdminChangePassword(pw) PROVE AdminInv'
  <2>1. PICK edit : edit = [k \in {"ADMIN_TOKEN", "DASHBOARD_REQUIRE_LOGIN"} |-> IF k = "ADMIN_TOKEN" THEN pw ELSE TRUE]
    OBVIOUS
  <2>2. dualWrite("password", edit) /\ stale' = stale
    BY <1>2, <2>1 DEF handleAdminChangePassword
  <2>3. IsEdit(edit)
    BY <2>1 DEF IsEdit, Keys
  <2> QED
    BY <2>2, <2>3, DualKeeps
<1>3. ASSUME NEW b \in BOOLEAN, handleAdminRequireLogin(b) PROVE AdminInv'
  <2>1. PICK edit : edit = [k \in {"DASHBOARD_REQUIRE_LOGIN"} |-> b]
    OBVIOUS
  <2>2. dualWrite("login", edit) /\ stale' = stale
    BY <1>3, <2>1 DEF handleAdminRequireLogin
  <2>3. IsEdit(edit)
    BY <2>1 DEF IsEdit, Keys
  <2> QED
    BY <2>2, <2>3, DualKeeps
<1> QED
  BY <1>1, <1>2, <1>3

LEMMA RowKeeps == ASSUME AdminInv, NEW k \in Keys, SetRow(k) PROVE AdminInv'
<1>1. /\ live /\ save.op = "dual" /\ k \in save.left
      /\ settings' = [settings EXCEPT ![k] = save.edit[k]] /\ save' = [save EXCEPT !.left = @ \ {k}]
      /\ UNCHANGED <<deployment, envFile, live, cfg, stale, wizard, torn, raced>>
  BY DEF SetRow
<1>2. /\ save = [op |-> "dual", want |-> save.want, edit |-> save.edit, file |-> save.file,
                 rows |-> save.rows, left |-> save.left]
      /\ IsLayer(save.file) /\ IsRows(save.rows)
      /\ IsEdit(save.edit) /\ save.left \subseteq DOMAIN save.edit
      /\ save # Free
  BY <1>1, DualSave
<1>3. save' = [op |-> "dual", want |-> save.want, edit |-> save.edit, file |-> save.file,
               rows |-> save.rows, left |-> save.left \ {k}]
  BY <1>1, <1>2
<1>4. settings = [l \in Keys \cup {"migrated"} |-> settings[l]] /\ LineHeld(settings["AUTH_TOKENS"])
  BY DEF AdminInv, AdminHeld, IsRows
<1>5. settings' = [l \in Keys \cup {"migrated"} |-> IF l = k THEN save.edit[k] ELSE settings[l]]
  BY <1>1, <1>4
<1>6. IsRows(settings')
  BY <1>1, <1>2, <1>4, <1>5 DEF IsRows, IsEdit, LineHeld, ListHeld, Keys
<1>7. SaveHeld'
  BY <1>1, <1>2, <1>3 DEF SaveHeld
<1>8. AdminHeld'
  BY <1>1, <1>6, <1>7 DEF AdminInv, AdminHeld, WizardHeld
<1>9. ASSUME live, ~torn, ~raced PROVE wizard = NoWizard /\ Agree(deployment, save.file, save.rows, cfg)
  BY <1>1, <1>2, <1>9 DEF AdminInv, Tied
<1> QED
  BY <1>1, <1>3, <1>8, <1>9 DEF AdminInv, Tied, NoWizard

LEMMA RowFails == ASSUME AdminInv, SetRowFails PROVE AdminInv'
<1>1. /\ live /\ save.op = "dual" /\ envFile' = save.file /\ save' = Free
      /\ torn' = (torn \/ settings # save.rows)
      /\ UNCHANGED <<deployment, settings, live, cfg, stale, wizard, raced>>
  BY DEF SetRowFails
<1>2. IsLayer(save.file) /\ save # Free
  BY <1>1, DualSave
<1>3. AdminHeld'
  BY <1>1, <1>2 DEF AdminInv, AdminHeld, SaveHeld, WizardHeld
<1>4. ASSUME live, ~torn', ~raced
      PROVE  wizard = NoWizard /\ settings = save.rows /\ Agree(deployment, save.file, save.rows, cfg)
  <2>1. ~torn /\ settings = save.rows
    BY <1>1, <1>4
  <2> QED
    BY <1>1, <1>2, <1>4, <2>1 DEF AdminInv, Tied
<1> QED
  BY <1>1, <1>3, <1>4 DEF AdminInv, Tied, Free, NoWizard

LEMMA DualApplies == ASSUME AdminInv, DualApplied PROVE AdminInv'
<1>1. /\ live /\ save.op = "dual" /\ save' = Free /\ cfg' = LoadOpts(envFile, settings)
      /\ UNCHANGED <<deployment, envFile, settings, live, stale, wizard, torn, raced>>
  BY DEF DualApplied, applyReloadedConfig
<1>2. save # Free
  BY <1>1, DualSave
<1>3. deployment \in Deployments /\ LineHeld(envFile["AUTH_TOKENS"])
      /\ LineHeld(settings["AUTH_TOKENS"])
  BY DEF AdminInv, AdminHeld, IsLayer, IsRows
<1>4. cfg' = Loaded(deployment, envFile, settings)
  BY <1>1, LoadIs
<1>5. IsConfig(cfg') /\ Agree(deployment, envFile, settings, cfg')
  BY <1>3, <1>4, LoadTyped, AgreeSame
<1>6. AdminHeld'
  BY <1>1, <1>5 DEF AdminInv, AdminHeld, SaveHeld, WizardHeld
<1> QED
  BY <1>1, <1>2, <1>5, <1>6 DEF AdminInv, Tied, Free, NoWizard

LEMMA DualRefuses == ASSUME AdminInv, DualRefused PROVE AdminInv'
<1>1. /\ live /\ save.op = "dual" /\ save' = Free /\ envFile' = save.file /\ settings' = save.rows
      /\ UNCHANGED <<deployment, live, cfg, stale, wizard, torn, raced>>
  BY DEF DualRefused
<1>2. IsLayer(save.file) /\ IsRows(save.rows) /\ save # Free
  BY <1>1, DualSave
<1>3. AdminHeld'
  BY <1>1, <1>2 DEF AdminInv, AdminHeld, SaveHeld, WizardHeld
<1>4. ASSUME live, ~torn, ~raced PROVE wizard = NoWizard /\ Agree(deployment, save.file, save.rows, cfg)
  BY <1>1, <1>2, <1>4 DEF AdminInv, Tied
<1> QED
  BY <1>1, <1>3, <1>4 DEF AdminInv, Tied, Free, NoWizard

\* A handler that writes one layer and applies what the load gives.
LEMMA ApplyKeeps ==
  ASSUME AdminInv, NEW f, NEW r, IsLayer(f), IsRows(r), Applied(f, r)
  PROVE  AdminInv'
<1>1. /\ live /\ save = Free /\ cfg' = LoadOpts(f, r) /\ envFile' = f /\ settings' = r
      /\ raced' = (raced \/ wizard # NoWizard)
      /\ UNCHANGED <<deployment, live, save, stale, wizard, torn>>
  BY DEF Applied, applyReloadedConfig
<1>2. deployment \in Deployments /\ LineHeld(f["AUTH_TOKENS"]) /\ LineHeld(r["AUTH_TOKENS"])
  BY DEF AdminInv, AdminHeld, IsLayer, IsRows
<1>3. cfg' = Loaded(deployment, f, r)
  BY <1>1, LoadIs
<1>4. IsConfig(cfg') /\ Agree(deployment, f, r, cfg')
  BY <1>2, <1>3, LoadTyped, AgreeSame
<1>5. AdminHeld'
  BY <1>1, <1>4 DEF AdminInv, AdminHeld, SaveHeld, WizardHeld
<1>6. ~raced' => wizard = NoWizard
  BY <1>1
<1> QED
  BY <1>1, <1>4, <1>5, <1>6 DEF AdminInv, Tied, Free, NoWizard

LEMMA AppliesKeep ==
  ASSUME AdminInv,
         \/ \E l \in Lists : handleConfigSave(l)
         \/ handleReload
         \/ \E b \in BOOLEAN : handleSettingsPost("BRIDGE_ENABLED", b)
         \/ \E k \in Keys : handleSettingsDelete(k)
  PROVE  AdminInv'
<1>1. IsLayer(envFile) /\ IsRows(settings)
  BY DEF AdminInv, AdminHeld
<1>2. ASSUME NEW l \in Lists, handleConfigSave(l) PROVE AdminInv'
  <2>1. l \in Seq(Tokens)
    <3>1. CASE l = <<>>
      BY <3>1
    <3>2. CASE \E t \in Tokens : l = <<t>>
      BY <3>2
    <3>3. CASE l \in Tokens \X Tokens
      <4>1. PICK s \in Tokens, t \in Tokens : l = <<s, t>>
        BY <3>3
      <4> QED
        BY <4>1
    <3> QED
      BY <3>1, <3>2, <3>3 DEF Lists
  <2>2. PICK f : f = [envFile EXCEPT !["AUTH_TOKENS"] = l]
    OBVIOUS
  <2>3. IsLayer(f)
    BY <1>1, <2>1, <2>2, LineWritten DEF LineHeld
  <2>4. PICK r : r = settings
    OBVIOUS
  <2>5. Applied(f, r) /\ IsRows(r)
    BY <1>1, <1>2, <2>2, <2>4 DEF handleConfigSave
  <2> QED
    BY <2>3, <2>5, ApplyKeeps
<1>3. ASSUME handleReload PROVE AdminInv'
  <2>1. PICK f, r : f = envFile /\ r = settings
    OBVIOUS
  <2>2. Applied(f, r) /\ IsLayer(f) /\ IsRows(r)
    BY <1>1, <1>3, <2>1 DEF handleReload
  <2> QED
    BY <2>2, ApplyKeeps
<1>4. ASSUME NEW k \in Keys, NEW v, k = "AUTH_TOKENS" => v = Absent, Applied(envFile, [settings EXCEPT ![k] = v])
      PROVE  AdminInv'
  <2>1. PICK f, r : f = envFile /\ r = [settings EXCEPT ![k] = v]
    OBVIOUS
  <2>2. settings = [l \in Keys \cup {"migrated"} |-> settings[l]] /\ LineHeld(settings["AUTH_TOKENS"])
    BY <1>1 DEF IsRows
  <2>3. r = [l \in Keys \cup {"migrated"} |-> IF l = k THEN v ELSE settings[l]] /\ "AUTH_TOKENS" \in Keys
    BY <2>1, <2>2 DEF Keys
  <2>4. IsRows(r)
    BY <1>4, <2>2, <2>3 DEF IsRows, LineHeld
  <2>5. Applied(f, r) /\ IsLayer(f)
    BY <1>1, <1>4, <2>1
  <2> QED
    BY <2>4, <2>5, ApplyKeeps
<1>5. ASSUME NEW b \in BOOLEAN, handleSettingsPost("BRIDGE_ENABLED", b) PROVE AdminInv'
  <2>1. Applied(envFile, [settings EXCEPT !["BRIDGE_ENABLED"] = b]) /\ "BRIDGE_ENABLED" \in Keys
    BY <1>5 DEF handleSettingsPost, Keys
  <2> QED
    BY <1>4, <2>1
<1>6. ASSUME NEW k \in Keys, handleSettingsDelete(k) PROVE AdminInv'
  <2>1. Applied(envFile, [settings EXCEPT ![k] = Absent])
    BY <1>6 DEF handleSettingsDelete
  <2> QED
    BY <1>4, <2>1
<1> QED
  BY <1>2, <1>3, <1>5, <1>6

LEMMA WizardAdds == ASSUME AdminInv, NEW t \in Tokens, addTokenPersist(t) PROVE AdminInv'
<1> DEFINE tokens == IF BridgeMode(cfg) THEN <<t>> ELSE WithToken(cfg["AUTH_TOKENS"], t)
<1>1. /\ live /\ wizard = NoWizard
      /\ wizard' = [at |-> "adding", file |-> envFile, tokens |-> tokens]
      /\ raced' = (raced \/ save # Free)
      /\ UNCHANGED <<deployment, envFile, settings, live, cfg, save, stale, torn>>
  BY DEF addTokenPersist
<1>2. ListHeld(tokens)
  <2>1. cfg["AUTH_TOKENS"] \in Seq(Tokens)
    BY DEF AdminInv, AdminHeld, IsConfig, ListHeld
  <2>2. <<t>> \in Seq(Tokens)
    OBVIOUS
  <2> QED
    BY <2>1, <2>2, WithTokenListed DEF ListHeld
<1> HIDE DEF tokens
<1>3. WizardHeld'
  BY <1>1, <1>2 DEF AdminInv, AdminHeld, WizardHeld
<1>4. AdminHeld'
  BY <1>1, <1>3 DEF AdminInv, AdminHeld, SaveHeld
<1>5. ASSUME live, ~torn, ~raced' PROVE save = Free /\ Agree(deployment, envFile, settings, cfg)
  <2>1. save = Free /\ ~raced
    BY <1>1, <1>5
  <2>2. wizard.at # "written" /\ save.op # "dual"
    BY <1>1, <2>1 DEF Free, NoWizard
  <2> QED
    BY <1>5, <2>1, <2>2 DEF AdminInv, Tied
<1> QED
  BY <1>1, <1>4, <1>5 DEF AdminInv, Tied, Free

LEMMA WizardIs ==
  ASSUME AdminInv, wizard.at \in {"adding", "written"}
  PROVE  /\ wizard # NoWizard
         /\ wizard = [at |-> wizard.at, file |-> wizard.file, tokens |-> wizard.tokens]
         /\ IsLayer(wizard.file) /\ ListHeld(wizard.tokens)
         /\ live /\ ~torn /\ ~raced => save = Free
<1>1. wizard # NoWizard
  BY DEF NoWizard
<1> QED
  BY <1>1 DEF AdminInv, AdminHeld, WizardHeld, Tied

LEMMA WizardWriteKeeps == ASSUME AdminInv, WizardWrites PROVE AdminInv'
<1>1. /\ live /\ wizard.at = "adding"
      /\ \/ envFile' = [envFile EXCEPT !["AUTH_TOKENS"] = wizard.tokens] /\ wizard' = [wizard EXCEPT !.at = "written"]
         \/ wizard' = NoWizard /\ UNCHANGED envFile
      /\ UNCHANGED <<deployment, settings, live, cfg, save, stale, torn, raced>>
  BY DEF WizardWrites
<1>2. /\ wizard # NoWizard
      /\ wizard = [at |-> wizard.at, file |-> wizard.file, tokens |-> wizard.tokens]
      /\ IsLayer(wizard.file) /\ ListHeld(wizard.tokens)
      /\ live /\ ~torn /\ ~raced => save = Free
  BY <1>1, WizardIs
<1>3. ASSUME live, ~torn, ~raced PROVE save = Free /\ wizard.file = envFile /\ Agree(deployment, envFile, settings, cfg)
  <2>1. save = Free /\ save.op # "dual" /\ wizard.at # "written"
    BY <1>1, <1>2, <1>3 DEF Free
  <2> QED
    BY <1>1, <1>3, <2>1 DEF AdminInv, Tied
<1>4. CASE wizard' = NoWizard /\ UNCHANGED envFile
  <2>1. AdminHeld'
    BY <1>1, <1>4 DEF AdminInv, AdminHeld, SaveHeld, WizardHeld
  <2> QED
    BY <1>1, <1>3, <1>4, <2>1 DEF AdminInv, Tied, Free, NoWizard
<1>5. CASE envFile' = [envFile EXCEPT !["AUTH_TOKENS"] = wizard.tokens] /\ wizard' = [wizard EXCEPT !.at = "written"]
  <2>1. wizard' = [at |-> "written", file |-> wizard.file, tokens |-> wizard.tokens]
    BY <1>2, <1>5
  <2>2. IsLayer(envFile')
    <3>1. PICK tokens : tokens = wizard.tokens
      OBVIOUS
    <3> QED
      BY <1>2, <1>5, <3>1, LineWritten DEF AdminInv, AdminHeld, LineHeld, ListHeld
  <2>3. WizardHeld'
    BY <1>1, <1>2, <2>1 DEF WizardHeld
  <2>4. AdminHeld'
    BY <1>1, <2>2, <2>3 DEF AdminInv, AdminHeld, SaveHeld
  <2> QED
    BY <1>1, <1>3, <2>1, <2>4 DEF AdminInv, Tied, Free
<1> QED
  BY <1>1, <1>4, <1>5

LEMMA WizardLoadKeeps == ASSUME AdminInv, WizardLoads PROVE AdminInv'
<1>1. /\ live /\ wizard.at = "written" /\ wizard' = NoWizard
      /\ \/ cfg' = LoadOpts(envFile, settings) /\ UNCHANGED envFile
         \/ envFile' = wizard.file /\ UNCHANGED cfg
      /\ UNCHANGED <<deployment, settings, live, save, stale, torn, raced>>
  BY Zenon DEF WizardLoads, applyReloadedConfig
<1>2. /\ wizard # NoWizard
      /\ IsLayer(wizard.file)
      /\ live /\ ~torn /\ ~raced => save = Free
  BY <1>1, WizardIs
<1>3. CASE cfg' = LoadOpts(envFile, settings) /\ UNCHANGED envFile
  <2>1. deployment \in Deployments /\ LineHeld(envFile["AUTH_TOKENS"])
        /\ LineHeld(settings["AUTH_TOKENS"])
    BY DEF AdminInv, AdminHeld, IsLayer, IsRows
  <2>2. cfg' = Loaded(deployment, envFile, settings)
    BY <1>3, LoadIs
  <2>3. IsConfig(cfg') /\ Agree(deployment, envFile, settings, cfg')
    BY <2>1, <2>2, LoadTyped, AgreeSame
  <2>4. AdminHeld'
    BY <1>1, <1>3, <2>3 DEF AdminInv, AdminHeld, SaveHeld, WizardHeld
  <2> QED
    BY <1>1, <1>2, <1>3, <2>3, <2>4 DEF AdminInv, Tied, Free, NoWizard
<1>4. CASE envFile' = wizard.file /\ UNCHANGED cfg
  <2>1. AdminHeld'
    BY <1>1, <1>2, <1>4 DEF AdminInv, AdminHeld, SaveHeld, WizardHeld
  <2>2. ASSUME live, ~torn, ~raced PROVE Agree(deployment, wizard.file, settings, cfg)
    BY <1>1, <2>2 DEF AdminInv, Tied
  <2> QED
    BY <1>1, <1>2, <1>4, <2>1, <2>2 DEF AdminInv, Tied, Free, NoWizard
<1> QED
  BY <1>1, <1>3, <1>4

LEMMA WizardSaveKeeps == ASSUME AdminInv, WizardSaves PROVE AdminInv'
<1>1. /\ live /\ wizard.at = "adding" /\ wizard' = NoWizard
      /\ syncDatabase(wizard.tokens) \/ syncDatabaseFails(wizard.tokens)
      /\ UNCHANGED <<deployment, live, save, stale, torn, raced>>
  BY DEF WizardSaves
<1>2. /\ wizard # NoWizard /\ ListHeld(wizard.tokens)
      /\ live /\ ~torn /\ ~raced => save = Free
  BY <1>1, WizardIs
<1>3. /\ UNCHANGED <<envFile, settings>> /\ IsConfig(cfg')
      /\ \A f, r : Agree(deployment, f, r, cfg) => Agree(deployment, f, r, cfg')
  <2>1. PICK tokens : tokens = wizard.tokens
    OBVIOUS
  <2>2. CASE syncDatabase(tokens)
    BY <1>2, <2>1, <2>2, DatabaseSyncs
  <2>3. CASE syncDatabaseFails(tokens)
    BY <2>3 DEF syncDatabaseFails, AdminInv, AdminHeld
  <2> QED
    BY <1>1, <2>1, <2>2, <2>3
<1>4. AdminHeld'
  BY <1>1, <1>3 DEF AdminInv, AdminHeld, SaveHeld, WizardHeld
<1>5. ASSUME live, ~torn, ~raced PROVE Agree(deployment, envFile, settings, cfg)
  <2>1. save.op # "dual" /\ wizard.at # "written"
    BY <1>1, <1>2, <1>5 DEF Free
  <2> QED
    BY <1>5, <2>1 DEF AdminInv, Tied
<1> QED
  BY <1>1, <1>2, <1>3, <1>4, <1>5 DEF AdminInv, Tied, Free, NoWizard

LEMMA AdminStep ==
  ASSUME AdminInv, tokenDB \in Seq(Tokens), [AdminNext]_adminVars
  PROVE  AdminInv'
<1>1. CASE UNCHANGED adminVars
  BY <1>1, AdminRests DEF adminVars
<1>2. ASSUME NEW i \in Slots, LeaseTaken(i) \/ LeaseRelease(i) PROVE AdminInv'
  <2>1. UNCHANGED <<deployment, envFile, settings, live, cfg, save, stale, wizard, torn, raced>>
    BY <1>2 DEF LeaseTaken, LeaseRelease
  <2> QED
    BY <2>1, AdminRests
<1>3. CASE Serve \/ Crash
  BY <1>3, ServeKeeps, CrashKeeps
<1>4. CASE TokensPersisted \/ TokensRefused
  BY <1>4, PersistKeeps, RefuseKeeps
<1>5. CASE SetRowFails \/ DualApplied \/ DualRefused
  BY <1>5, RowFails, DualApplies, DualRefuses
<1>6. CASE WizardWrites \/ WizardLoads \/ WizardSaves
  BY <1>6, WizardWriteKeeps, WizardLoadKeeps, WizardSaveKeeps
<1>7. CASE AdminNext
  BY <1>2, <1>3, <1>4, <1>5, <1>6, <1>7, HandlersKeep, AskKeeps, SavesBegin, RowKeeps, AppliesKeep, WizardAdds
     DEF AdminNext
<1> QED
  BY <1>1, <1>7

(* The roster.  Every position of it holds an entry, and an entry is a     *)
(* record for as long as the process lives; nothing more is needed to      *)
(* reconcile a roster with any list of tokens.                             *)
Fields == {"token", "leased", "retired", "drained"}
IsEntries(e) == e \in Seq({e[i] : i \in DOMAIN e}) /\ \A i \in DOMAIN e : DOMAIN e[i] = Fields
IsRoster(r, e) == IsEntries(e) /\ r \in Seq(DOMAIN e)

RosterInv == tokenDB \in Seq(Tokens) /\ IsRoster(roster, entry)

LEMMA EntriesAre ==
  ASSUME NEW S, NEW e \in Seq(S), \A i \in DOMAIN e : DOMAIN e[i] = Fields
  PROVE  IsEntries(e)
<1>1. e = [i \in 1..Len(e) |-> e[i]] /\ Len(e) \in Nat /\ DOMAIN e = 1..Len(e)
  OBVIOUS
<1>2. \A i \in 1..Len(e) : e[i] \in {e[k] : k \in DOMAIN e}
  BY <1>1
<1> DEFINE T == {e[k] : k \in DOMAIN e}
<1> HIDE DEF T
<1>3. \A i \in 1..Len(e) : e[i] \in T
  BY <1>2 DEF T
<1>4. e \in Seq(T)
  BY <1>1, <1>3
<1> QED
  BY <1>4 DEF IsEntries, T

\* Entries whose fields change stay entries, in their places.
LEMMA EntriesChange ==
  ASSUME NEW e, IsEntries(e), NEW f, DOMAIN f = DOMAIN e, f = [i \in DOMAIN e |-> f[i]],
         \A i \in DOMAIN e : DOMAIN f[i] = Fields
  PROVE  IsEntries(f) /\ Len(f) = Len(e)
<1>1. Len(e) \in Nat /\ DOMAIN e = 1..Len(e)
  BY DEF IsEntries
<1> DEFINE T == {f[k] : k \in DOMAIN f}
<1>2. \A i \in 1..Len(e) : f[i] \in T
  BY <1>1
<1>3. f = [i \in 1..Len(e) |-> f[i]]
  BY <1>1
<1> HIDE DEF T
<1>4. f \in Seq(T) /\ Len(f) = Len(e)
  BY <1>1, <1>2, <1>3
<1> QED
  BY <1>4 DEF IsEntries, T

LEMMA EntriesJoin ==
  ASSUME NEW e, IsEntries(e), NEW f, IsEntries(f)
  PROVE  /\ IsEntries(e \o f) /\ Len(e \o f) = Len(e) + Len(f)
         /\ \A i \in DOMAIN e : i \in DOMAIN (e \o f) /\ (e \o f)[i] = e[i]
         /\ \A i \in DOMAIN f : Len(e) + i \in DOMAIN (e \o f) /\ (e \o f)[Len(e) + i] = f[i]
<1> DEFINE S == {e[i] : i \in DOMAIN e} \cup {f[i] : i \in DOMAIN f}
           g == e \o f
<1>1. e \in Seq(S) /\ f \in Seq(S)
  BY DEF IsEntries
<1> HIDE DEF S
<1>2. g \in Seq(S) /\ Len(g) = Len(e) + Len(f) /\ DOMAIN g = 1..(Len(e) + Len(f))
      /\ Len(e) \in Nat /\ Len(f) \in Nat /\ DOMAIN e = 1..Len(e) /\ DOMAIN f = 1..Len(f)
  BY <1>1
<1>3. \A i \in 1..Len(e) : g[i] = e[i]
  BY <1>1, <1>2
<1>4. \A i \in 1..Len(f) : g[Len(e) + i] = f[i]
  BY <1>1, <1>2
<1>5. ASSUME NEW i \in DOMAIN g PROVE DOMAIN g[i] = Fields
  <2>1. CASE i \in 1..Len(e)
    BY <1>2, <1>3, <2>1 DEF IsEntries
  <2>2. CASE i \notin 1..Len(e)
    <3>1. i - Len(e) \in 1..Len(f) /\ i = Len(e) + (i - Len(e))
      BY <1>2, <2>2
    <3>2. g[i] = f[i - Len(e)]
      BY <1>4, <3>1
    <3> QED
      BY <1>2, <3>1, <3>2 DEF IsEntries
  <2> QED
    BY <2>1, <2>2
<1> HIDE DEF g
<1>6. IsEntries(g)
  BY <1>2, <1>5, EntriesAre
<1> QED
  BY <1>2, <1>3, <1>4, <1>6 DEF g

LEMMA FreshEntries ==
  ASSUME NEW S, NEW s \in Seq(S), NEW f, f = [n \in DOMAIN s |-> Fresh(s[n])]
  PROVE  IsEntries(f) /\ Len(f) = Len(s) /\ DOMAIN f = DOMAIN s /\ \A n \in DOMAIN f : f[n].token = s[n]
<1>1. \A t : DOMAIN Fresh(t) = Fields /\ Fresh(t).token = t
  BY DEF Fresh, Fields
<1>2. DOMAIN s = 1..Len(s) /\ Len(s) \in Nat
  OBVIOUS
<1> DEFINE T == {Fresh(s[n]) : n \in DOMAIN s}
<1>3. \A n \in 1..Len(s) : Fresh(s[n]) \in T
  BY <1>2
<1> HIDE DEF T
<1>4. f = [n \in 1..Len(s) |-> Fresh(s[n])]
  BY <1>2
<1>5. f \in Seq(T) /\ Len(f) = Len(s) /\ DOMAIN f = 1..Len(s)
  BY <1>2, <1>3, <1>4
<1>6. \A n \in DOMAIN f : f[n] = Fresh(s[n])
  BY <1>4, <1>5
<1>7. \A n \in DOMAIN f : DOMAIN f[n] = Fields /\ f[n].token = s[n]
  BY <1>1, <1>6
<1> QED
  BY <1>2, <1>5, <1>7, EntriesAre

LEMMA RetireRests ==
  ASSUME NEW e, IsEntries(e), NEW ids
  PROVE  /\ IsEntries(Retire(e, ids)) /\ DOMAIN Retire(e, ids) = DOMAIN e /\ Len(Retire(e, ids)) = Len(e)
         /\ \A i \in DOMAIN e : Retire(e, ids)[i].token = e[i].token
<1> DEFINE f == Retire(e, ids)
<1>1. f = [i \in DOMAIN e |-> IF i \in ids
                             THEN [e[i] EXCEPT !.retired = TRUE, !.drained = @ \/ ~e[i].leased]
                             ELSE e[i]]
  BY DEF Retire
<1> HIDE DEF f
<1>2. ASSUME NEW i \in DOMAIN e PROVE DOMAIN f[i] = Fields /\ f[i].token = e[i].token
  <2>1. DOMAIN e[i] = Fields /\ "token" \in Fields
    BY DEF IsEntries, Fields
  <2> QED
    BY <1>1, <2>1
<1>3. DOMAIN f = DOMAIN e /\ f = [i \in DOMAIN e |-> f[i]]
  BY <1>1
<1>4. IsEntries(f) /\ Len(f) = Len(e)
  BY <1>2, <1>3, EntriesChange
<1> QED
  BY <1>2, <1>3, <1>4 DEF f

\* Where the entry of a token that is served can be had.
LEMMA AvailableIs ==
  ASSUME NEW e, NEW r, IsRoster(r, e), NEW t \in TokensOf(r, e)
  PROVE  available(r, e, t) \in DOMAIN e /\ e[available(r, e, t)].token = t
<1> DEFINE P == {p \in DOMAIN r : e[r[p]].token = t}
           T == {Len(r) - p : p \in P}
<1>1. r \in Seq(DOMAIN e) /\ DOMAIN r = 1..Len(r) /\ Len(r) \in Nat
  BY DEF IsRoster
<1>2. PICK p \in DOMAIN r : e[r[p]].token = t
  BY DEF TokensOf, Ids, Range
<1>3. P \subseteq 1..Len(r) /\ P # {}
  BY <1>1, <1>2
<1> HIDE DEF P
<1>4. \A q \in P : q \in Nat /\ Len(r) - q \in Nat
  BY <1>1, <1>3
<1>5. T \in SUBSET Nat /\ T # {}
  BY <1>3, <1>4
<1>6. PICK m \in T : \A k \in T : m <= k
  BY <1>5, LeastOf
<1>7. PICK last \in P : m = Len(r) - last
  BY <1>6
<1>8. ASSUME NEW q \in P PROVE q <= last
  <2>1. Len(r) - q \in T
    OBVIOUS
  <2>2. Len(r) - last <= Len(r) - q
    BY <1>6, <1>7, <2>1
  <2> QED
    BY <1>1, <1>4, <2>2
<1>9. \E q \in DOMAIN r : e[r[q]].token = t /\ \A k \in DOMAIN r : e[r[k]].token = t => k <= q
  BY <1>7, <1>8 DEF P
<1>10. PICK q \in DOMAIN r : available(r, e, t) = r[q] /\ e[r[q]].token = t
  BY <1>9 DEF available
<1> QED
  BY <1>1, <1>10

LEMMA RebuiltServes ==
  ASSUME NEW e, NEW r, IsRoster(r, e), NEW tokens \in Seq(Tokens)
  PROVE  /\ IsRoster(Rebuilt(r, e, tokens).roster, Rebuilt(r, e, tokens).entry)
         /\ Range(tokens) \subseteq TokensOf(Rebuilt(r, e, tokens).roster, Rebuilt(r, e, tokens).entry)
<1> DEFINE new == NewSlots(r, e, tokens)
           of == Picked(tokens, new)
           made == [n \in DOMAIN of |-> Fresh(of[n])]
           both == e \o made
           E == Retire(both, {r[p] : p \in new \cap DOMAIN r})
           R == [p \in DOMAIN tokens |->
                   IF Keeps(r, e, tokens, p) THEN r[p]
                   ELSE IF Takes(r, e, tokens, p) THEN available(r, e, tokens[p])
                   ELSE Len(e) + Rank(new, p)]
<1>1. Rebuilt(r, e, tokens).roster = R /\ Rebuilt(r, e, tokens).entry = E
  BY DEF Rebuilt
<1>2. IsEntries(e) /\ r \in Seq(DOMAIN e) /\ DOMAIN tokens = 1..Len(tokens) /\ Len(tokens) \in Nat
  BY DEF IsRoster
<1>3. new \in SUBSET DOMAIN tokens
  BY DEF NewSlots
<1>4. \A p \in DOMAIN tokens : ~Keeps(r, e, tokens, p) /\ ~Takes(r, e, tokens, p) => p \in new
  BY DEF NewSlots
<1> HIDE DEF new
<1>5. /\ of \in Seq(Tokens) /\ Len(of) = Cardinality(new) /\ Cardinality(new) \in Nat
      /\ \A n \in DOMAIN of : of[n] = tokens[NthOf(new, n)]
  BY <1>3, PickedIs
<1> HIDE DEF of
<1>6. IsEntries(made) /\ Len(made) = Len(of) /\ DOMAIN made = DOMAIN of /\ \A n \in DOMAIN made : made[n].token = of[n]
  BY <1>5, FreshEntries
<1> HIDE DEF made
<1>7. /\ IsEntries(both) /\ Len(both) = Len(e) + Len(made)
      /\ \A i \in DOMAIN e : i \in DOMAIN both /\ both[i] = e[i]
      /\ \A i \in DOMAIN made : Len(e) + i \in DOMAIN both /\ both[Len(e) + i] = made[i]
  <2>1. PICK f : f = made
    OBVIOUS
  <2>2. IsEntries(f)
    BY <1>6, <2>1
  <2> QED
    BY <1>2, <2>1, <2>2, EntriesJoin
<1> HIDE DEF both
<1>8. IsEntries(E) /\ DOMAIN E = DOMAIN both /\ \A i \in DOMAIN both : E[i].token = both[i].token
  BY <1>7, RetireRests
<1> HIDE DEF E
<1>9. ASSUME NEW p \in DOMAIN tokens PROVE R[p] \in DOMAIN E /\ E[R[p]].token = tokens[p]
  <2>1. CASE Keeps(r, e, tokens, p)
    <3>1. R[p] = r[p] /\ p \in DOMAIN r /\ e[r[p]].token = tokens[p]
      BY <2>1 DEF Keeps
    <3>2. r[p] \in DOMAIN e
      BY <1>2, <3>1
    <3> HIDE DEF R
    <3> QED
      BY <1>7, <1>8, <3>1, <3>2
  <2>2. CASE ~Keeps(r, e, tokens, p) /\ Takes(r, e, tokens, p)
    <3>1. R[p] = available(r, e, tokens[p]) /\ tokens[p] \in TokensOf(r, e)
      BY <2>2 DEF Takes
    <3>2. available(r, e, tokens[p]) \in DOMAIN e /\ e[available(r, e, tokens[p])].token = tokens[p]
      BY <3>1, AvailableIs
    <3> HIDE DEF R
    <3> QED
      BY <1>7, <1>8, <3>1, <3>2
  <2>3. CASE ~Keeps(r, e, tokens, p) /\ ~Takes(r, e, tokens, p)
    <3>1. R[p] = Len(e) + Rank(new, p) /\ p \in new
      BY <1>4, <2>3
    <3> HIDE DEF R
    <3>2. new \in SUBSET (1..Len(tokens))
      BY <1>2, <1>3
    <3>3. Rank(new, p) \in 1..Cardinality(new) /\ NthOf(new, Rank(new, p)) = p
      BY <1>2, <3>1, <3>2, NthOfRank
    <3>4. Rank(new, p) \in DOMAIN of
      BY <1>5, <3>3
    <3>5. made[Rank(new, p)].token = tokens[p]
      BY <1>5, <1>6, <3>3, <3>4
    <3> QED
      BY <1>6, <1>7, <1>8, <3>1, <3>4, <3>5
  <2> QED
    BY <2>1, <2>2, <2>3
<1>10. DOMAIN R = DOMAIN tokens /\ R = [p \in DOMAIN tokens |-> R[p]]
  OBVIOUS
<1> HIDE DEF R
<1>11. R \in Seq(DOMAIN E)
  <2>1. R \in [1..Len(tokens) -> DOMAIN E]
    BY <1>2, <1>9, <1>10
  <2> QED
    BY <1>2, <2>1
<1>12. ASSUME NEW t \in Range(tokens) PROVE t \in TokensOf(R, E)
  <2>1. PICK p \in DOMAIN tokens : t = tokens[p]
    BY DEF Range
  <2>2. R[p] \in Ids(R)
    BY <1>10 DEF Ids, Range
  <2> QED
    BY <1>9, <2>1, <2>2 DEF TokensOf
<1> QED
  BY <1>1, <1>8, <1>11, <1>12 DEF IsRoster

LEMMA SetConfigServes ==
  ASSUME NEW e, NEW r, IsRoster(r, e), NEW tokens \in Seq(Tokens)
  PROVE  /\ IsRoster(SetConfig(r, e, tokens).roster, SetConfig(r, e, tokens).entry)
         /\ Range(tokens) \subseteq TokensOf(SetConfig(r, e, tokens).roster, SetConfig(r, e, tokens).entry)
<1>1. CASE NewSlots(r, e, tokens) # {}
  <2>1. SetConfig(r, e, tokens) = Rebuilt(r, e, tokens)
    BY <1>1 DEF SetConfig
  <2> QED
    BY <2>1, RebuiltServes
<1>2. CASE NewSlots(r, e, tokens) = {}
  <2>1. SetConfig(r, e, tokens).roster = r /\ SetConfig(r, e, tokens).entry = e
    BY <1>2 DEF SetConfig
  <2>2. ASSUME NEW t \in Range(tokens) PROVE t \in TokensOf(r, e)
    <3>1. PICK p \in DOMAIN tokens : t = tokens[p]
      BY DEF Range
    <3>2. Keeps(r, e, tokens, p) \/ Takes(r, e, tokens, p)
      BY <1>2 DEF NewSlots
    <3>3. Keeps(r, e, tokens, p) => r[p] \in Ids(r) /\ e[r[p]].token = tokens[p]
      BY DEF Keeps, Ids, Range
    <3> QED
      BY <3>1, <3>2, <3>3 DEF Takes, TokensOf
  <2> QED
    BY <2>1, <2>2
<1> QED
  BY <1>1, <1>2

LEMMA RosterAdds ==
  ASSUME NEW e, NEW r, IsRoster(r, e), NEW t
  PROVE  IsRoster(AddToken(r, e, t).roster, AddToken(r, e, t).entry)
<1> DEFINE S == {e[i] : i \in DOMAIN e} \cup {Fresh(t)}
           f == Append(e, Fresh(t))
<1>1. e \in Seq(S) /\ r \in Seq(DOMAIN e)
  BY DEF IsRoster, IsEntries
<1> HIDE DEF S
<1>2. /\ f \in Seq(S) /\ Len(e) \in Nat /\ DOMAIN e = 1..Len(e) /\ DOMAIN f = 1..(Len(e) + 1)
      /\ f[Len(e) + 1] = Fresh(t) /\ \A i \in DOMAIN e : f[i] = e[i]
  BY <1>1 DEF S
<1>3. DOMAIN Fresh(t) = Fields
  BY DEF Fresh, Fields
<1> HIDE DEF f
<1>4. \A i \in DOMAIN f : i \in DOMAIN e \/ i = Len(e) + 1
  BY <1>2
<1>5. \A i \in DOMAIN f : DOMAIN f[i] = Fields
  BY <1>2, <1>3, <1>4 DEF IsRoster, IsEntries
<1>6. IsEntries(f)
  BY <1>2, <1>5, EntriesAre
<1>7. Append(r, Len(e) + 1) \in Seq(DOMAIN f)
  BY <1>1, <1>2
<1> QED
  BY <1>6, <1>7 DEF AddToken, IsRoster, f

LEMMA RosterRemoves ==
  ASSUME NEW e, NEW r, IsRoster(r, e)
  PROVE  /\ \A i \in DOMAIN r : IsRoster(RemoveAt_(r, e, i).roster, RemoveAt_(r, e, i).entry)
         /\ r # <<>> => IsRoster(RemoveLast(r, e).roster, RemoveLast(r, e).entry)
<1>1. IsEntries(e) /\ r \in Seq(DOMAIN e) /\ DOMAIN r = 1..Len(r)
  BY DEF IsRoster
<1>2. ASSUME NEW i \in DOMAIN r PROVE IsRoster(RemoveAt_(r, e, i).roster, RemoveAt_(r, e, i).entry)
  <2> DEFINE f == Retire(e, {r[i]})
             g == [f EXCEPT ![r[i]].drained = TRUE]
  <2>1. IsEntries(f) /\ DOMAIN f = DOMAIN e
    BY <1>1, RetireRests
  <2> HIDE DEF f
  <2>2. f = [k \in DOMAIN f |-> f[k]]
    BY <2>1 DEF IsEntries
  <2>3. DOMAIN g = DOMAIN f /\ g = [k \in DOMAIN f |-> g[k]] /\ \A k \in DOMAIN f : DOMAIN g[k] = DOMAIN f[k]
    BY <2>2
  <2> HIDE DEF g
  <2>4. IsEntries(g)
    BY <2>1, <2>3, EntriesChange DEF IsEntries
  <2>5. RemoveAt(r, i) \in Seq(DOMAIN e)
    BY <1>1, PartListed
  <2> QED
    BY <2>1, <2>3, <2>4, <2>5 DEF RemoveAt_, IsRoster, f, g
<1>3. ASSUME r # <<>> PROVE IsRoster(RemoveLast(r, e).roster, RemoveLast(r, e).entry)
  <2>1. IsEntries(Retire(e, {Last(r)})) /\ DOMAIN Retire(e, {Last(r)}) = DOMAIN e
    BY <1>1, RetireRests
  <2>2. SubSeq(r, 1, Len(r) - 1) \in Seq(DOMAIN e)
    BY <1>1
  <2> QED
    BY <2>1, <2>2 DEF RemoveLast, IsRoster, Front
<1> QED
  BY <1>2, <1>3

\* What a step that brings another configuration into force owes it.
Served == live' /\ cfg' # cfg => Range(cfg'["AUTH_TOKENS"]) \subseteq TokensOf(roster', entry')

LEMMA AppliedServes ==
  ASSUME RosterInv, NEW c, ListHeld(c["AUTH_TOKENS"]), applyReloadedConfig(roster, entry, c)
  PROVE  IsRoster(roster', entry') /\ Served
<1> DEFINE p == SetConfig(roster, entry, c["AUTH_TOKENS"])
<1>1. cfg' = c /\ roster' = p.roster /\ entry' = p.entry
  BY DEF applyReloadedConfig
<1>2. IsRoster(p.roster, p.entry) /\ Range(c["AUTH_TOKENS"]) \subseteq TokensOf(p.roster, p.entry)
  BY SetConfigServes DEF RosterInv, ListHeld
<1> QED
  BY <1>1, <1>2 DEF Served

LEMMA StoreSyncs ==
  ASSUME RosterInv, NEW tokens \in Seq(Tokens)
  PROVE  /\ syncDatabase(tokens) => tokenDB' \in Seq(Tokens)
         /\ syncDatabaseFails(tokens) => tokenDB' \in Seq(Tokens)
<1>1. \A those : KeptAmong(tokenDB, those) \in Seq(Tokens) /\ KeptAmong(tokens, those) \in Seq(Tokens)
  BY KeptIs DEF RosterInv
<1>2. ASSUME syncDatabase(tokens) PROVE tokenDB' \in Seq(Tokens)
  <2>1. PICK all : all = KeptAmong(tokenDB, Range(tokens)) \o tokens
    OBVIOUS
  <2>2. all \in Seq(Tokens)
    BY <1>1, <2>1
  <2>3. tokenDB' = Dedupe(all)
    BY <1>2, <2>1 DEF syncDatabase
  <2> QED
    BY <2>2, <2>3, DedupeTwice
<1>3. ASSUME syncDatabaseFails(tokens) PROVE tokenDB' \in Seq(Tokens)
  <2> DEFINE gone == Range(tokenDB) \ Range(tokens)
             missing == KeptAmong(tokens, Range(tokens) \ Range(tokenDB))
  <2>1. \/ \E some \in SUBSET gone : tokenDB' = KeptAmong(tokenDB, Range(tokenDB) \ some)
        \/ \E n \in 0..Len(missing) :
             /\ n < Len(missing)
             /\ tokenDB' = KeptAmong(tokenDB, Range(tokenDB) \ gone) \o SubSeq(missing, 1, n)
    BY <1>3 DEF syncDatabaseFails
  <2>2. missing \in Seq(Tokens) /\ KeptAmong(tokenDB, Range(tokenDB) \ gone) \in Seq(Tokens)
    BY <1>1
  <2>3. CASE \E some \in SUBSET gone : tokenDB' = KeptAmong(tokenDB, Range(tokenDB) \ some)
    BY <1>1, <2>3
  <2> HIDE DEF gone, missing
  <2>4. ASSUME NEW n \in 0..Len(missing), n < Len(missing),
               tokenDB' = KeptAmong(tokenDB, Range(tokenDB) \ gone) \o SubSeq(missing, 1, n)
        PROVE  tokenDB' \in Seq(Tokens)
    <3>1. SubSeq(missing, 1, n) \in Seq(Tokens)
      BY <2>2, <2>4
    <3> QED
      BY <2>2, <2>4, <3>1
  <2> QED
    BY <2>1, <2>3, <2>4
<1> QED
  BY <1>2, <1>3

LEMMA DatabaseServes ==
  ASSUME AdminInv, RosterInv, NEW tokens \in Seq(Tokens), syncDatabase(tokens)
  PROVE  RosterInv' /\ Served
<1> DEFINE p == SetConfig(roster, entry, tokens)
<1>1. roster' = p.roster /\ entry' = p.entry /\ cfg' = [cfg EXCEPT !["AUTH_TOKENS"] = tokens]
  BY DEF syncDatabase
<1>2. IsRoster(p.roster, p.entry) /\ Range(tokens) \subseteq TokensOf(p.roster, p.entry)
  BY SetConfigServes DEF RosterInv
<1> HIDE DEF p
<1>3. cfg'["AUTH_TOKENS"] = tokens
  BY <1>1 DEF AdminInv, AdminHeld, IsConfig, Keys
<1>4. tokenDB' \in Seq(Tokens)
  BY StoreSyncs
<1> QED
  BY <1>1, <1>2, <1>3, <1>4 DEF RosterInv, Served

LEMMA ServeServes == ASSUME AdminInv, RosterInv, Serve PROVE RosterInv' /\ Served
<1> DEFINE c == Loaded(deployment, envFile, settings)
           l == c["AUTH_TOKENS"]
           fresh == [n \in 1..Len(l) |-> Fresh(l[n])]
           made == entry \o fresh
           new == [n \in 1..Len(l) |-> Len(entry) + n]
           db == MigrateFromEnv(tokenDB, l)
           inForce == BootList(db, c)
           p == SetConfig(new, made, inForce["AUTH_TOKENS"])
<1>1. tokenDB' = db /\ cfg' = inForce /\ roster' = p.roster /\ entry' = p.entry
  BY LoadIs, Zenon DEF Serve, Boot
<1>2. l \in Seq(Tokens)
  BY LoadTyped DEF AdminInv, AdminHeld, IsLayer, IsRows, IsConfig, ListHeld
<1> HIDE DEF l
<1>3. db \in Seq(Tokens)
  BY <1>2, MigrateTyped DEF RosterInv
<1>4. cfg'["AUTH_TOKENS"] \in Seq(Tokens)
  BY ServeKeeps DEF RosterInv, AdminInv, AdminHeld, IsConfig, ListHeld
<1> HIDE DEF db, inForce
<1>5. /\ Len(l) \in Nat /\ DOMAIN l = 1..Len(l) /\ IsEntries(entry)
      /\ Len(entry) \in Nat /\ DOMAIN entry = 1..Len(entry)
  BY <1>2 DEF RosterInv, IsRoster, IsEntries
<1>6. IsEntries(fresh) /\ Len(fresh) = Len(l) /\ DOMAIN fresh = DOMAIN l
  BY <1>2, <1>5, FreshEntries
<1> HIDE DEF fresh
<1>7. IsEntries(made) /\ \A i \in DOMAIN fresh : Len(entry) + i \in DOMAIN made
  <2>1. PICK f : f = fresh
    OBVIOUS
  <2> QED
    BY <1>5, <1>6, <2>1, EntriesJoin
<1> HIDE DEF made
<1>8. new \in Seq(DOMAIN made)
  <2>1. \A n \in 1..Len(l) : Len(entry) + n \in DOMAIN made
    BY <1>5, <1>6, <1>7
  <2>2. new \in [1..Len(l) -> DOMAIN made]
    BY <2>1
  <2> QED
    BY <1>5, <2>2
<1> HIDE DEF new
<1>9. IsRoster(new, made)
  BY <1>7, <1>8 DEF IsRoster
<1>10. IsRoster(p.roster, p.entry) /\ Range(cfg'["AUTH_TOKENS"]) \subseteq TokensOf(p.roster, p.entry)
  BY <1>1, <1>4, <1>9, SetConfigServes
<1> QED
  BY <1>1, <1>3, <1>10 DEF RosterInv, Served

LEMMA PoolServes ==
  ASSUME RosterInv, Crash \/ \E i \in Slots : LeaseTaken(i) \/ LeaseRelease(i)
  PROVE  RosterInv' /\ Served
<1>1. IsEntries(entry) /\ entry = [i \in DOMAIN entry |-> entry[i]]
      /\ roster \in Seq(DOMAIN entry) /\ tokenDB \in Seq(Tokens)
  BY DEF RosterInv, IsRoster, IsEntries
<1>2. /\ tokenDB' = tokenDB /\ Served /\ (roster' = roster \/ roster' = <<>>)
      /\ DOMAIN entry' = DOMAIN entry /\ entry' = [i \in DOMAIN entry |-> entry'[i]]
      /\ \A i \in DOMAIN entry : DOMAIN entry'[i] = DOMAIN entry[i]
  <2>1. CASE Crash
    <3>1. /\ tokenDB' = tokenDB /\ ~live' /\ roster' = <<>>
          /\ entry' = [i \in DOMAIN entry |-> [entry[i] EXCEPT !.leased = FALSE]]
      BY <2>1 DEF Crash
    <3> QED
      BY <3>1 DEF Served
  <2>2. ASSUME NEW i \in Slots, LeaseTaken(i)
        PROVE  /\ UNCHANGED <<tokenDB, cfg, roster>>
               /\ entry' = [entry EXCEPT ![i].leased = TRUE]
    BY <2>2 DEF LeaseTaken
  <2>3. ASSUME NEW i \in Slots, LeaseRelease(i)
        PROVE  /\ UNCHANGED <<tokenDB, cfg, roster>>
               /\ entry' = [entry EXCEPT ![i].leased = FALSE, ![i].drained = @ \/ entry[i].retired]
    BY <2>3 DEF LeaseRelease
  <2>4. ASSUME NEW i \in Slots, LeaseTaken(i) \/ LeaseRelease(i)
        PROVE  /\ DOMAIN entry' = DOMAIN entry /\ entry' = [k \in DOMAIN entry |-> entry'[k]]
               /\ \A k \in DOMAIN entry : DOMAIN entry'[k] = DOMAIN entry[k]
               /\ UNCHANGED <<tokenDB, cfg, roster>>
    <3>1. CASE LeaseTaken(i)
      BY <1>1, <2>2, <3>1
    <3>2. CASE LeaseRelease(i)
      <4>1. /\ UNCHANGED <<tokenDB, cfg, roster>>
            /\ entry' = [entry EXCEPT ![i].leased = FALSE, ![i].drained = @ \/ entry[i].retired]
        BY <2>3, <3>2
      <4> QED
        BY <1>1, <4>1
    <3> QED
      BY <2>4, <3>1, <3>2
  <2> QED
    BY <2>1, <2>4 DEF Served
<1>3. IsEntries(entry')
  <2>1. PICK f : f = entry'
    OBVIOUS
  <2> QED
    BY <1>1, <1>2, <2>1, EntriesChange DEF IsEntries
<1>4. roster' \in Seq(DOMAIN entry')
  <2>1. roster' \in Seq(DOMAIN entry)
    <3>1. <<>> \in Seq(DOMAIN entry)
      OBVIOUS
    <3> QED
      BY <1>1, <1>2, <3>1, Zenon
  <2> QED
    BY <1>2, <2>1
<1> QED
  BY <1>1, <1>2, <1>3, <1>4 DEF RosterInv, IsRoster

\* A token handler changes the roster, and the list in force only once it is
\* persisted.
LEMMA HandlersServe ==
  ASSUME RosterInv,
         \/ \E i \in Slots : handleTokenRemove(i)
         \/ \E t \in Tokens : handleTokenAdd(t) \/ handleTokenRemoveSpecific(t) \/ addTokenPersist(t)
         \/ handleTokenRemoveLast
         \/ \E i, j \in Slots : handleTokenSwap(i, j)
  PROVE  RosterInv' /\ Served
<1>1. IsRoster(roster, entry) /\ tokenDB \in Seq(Tokens) /\ roster \in Seq(DOMAIN entry) /\ DOMAIN roster = 1..Len(roster)
  BY DEF RosterInv, IsRoster
<1>2. ASSUME NEW r, NEW e, IsRoster(r, e), roster' = r, entry' = e, UNCHANGED <<tokenDB, cfg>>
      PROVE  RosterInv' /\ Served
  BY <1>1, <1>2 DEF RosterInv, Served
<1>3. ASSUME NEW i \in Slots, handleTokenRemove(i) PROVE RosterInv' /\ Served
  <2>1. i \in DOMAIN roster
    BY <1>1, <1>3 DEF handleTokenRemove, TokenCount
  <2>2. /\ roster' = RemoveAt_(roster, entry, i).roster /\ entry' = RemoveAt_(roster, entry, i).entry
        /\ UNCHANGED <<tokenDB, cfg>>
    BY <1>3 DEF handleTokenRemove, Took, Lock
  <2> QED
    BY <1>1, <1>2, <2>1, <2>2, RosterRemoves
<1>4. ASSUME NEW t \in Tokens, handleTokenAdd(t) \/ addTokenPersist(t) PROVE RosterInv' /\ Served
  <2>1. /\ roster' = AddToken(roster, entry, t).roster /\ entry' = AddToken(roster, entry, t).entry
        /\ UNCHANGED <<tokenDB, cfg>>
    BY <1>4 DEF handleTokenAdd, addTokenPersist, Took, Lock
  <2> QED
    BY <1>1, <1>2, <2>1, RosterAdds
<1>5. ASSUME NEW t \in Tokens, handleTokenRemoveSpecific(t) PROVE RosterInv' /\ Served
  <2>1. /\ \E i \in DOMAIN roster : roster' = RemoveAt_(roster, entry, i).roster /\ entry' = RemoveAt_(roster, entry, i).entry
        /\ UNCHANGED <<tokenDB, cfg>>
    BY <1>5 DEF handleTokenRemoveSpecific, Took, Lock
  <2> QED
    BY <1>1, <1>2, <2>1, RosterRemoves
<1>6. ASSUME handleTokenRemoveLast PROVE RosterInv' /\ Served
  <2>1. /\ roster # <<>>
        /\ roster' = RemoveLast(roster, entry).roster /\ entry' = RemoveLast(roster, entry).entry
        /\ UNCHANGED <<tokenDB, cfg>>
    BY <1>6 DEF handleTokenRemoveLast, Took, Lock
  <2> QED
    BY <1>1, <1>2, <2>1, RosterRemoves
<1>7. ASSUME NEW i \in Slots, NEW j \in Slots, handleTokenSwap(i, j) PROVE RosterInv' /\ Served
  <2>1. /\ i \in 1..Len(roster) /\ j \in 1..Len(roster)
        /\ roster' = Swapped(roster, i, j) \/ roster' = Moved(roster, i, j)
        /\ entry' = entry /\ UNCHANGED <<tokenDB, cfg>>
    BY <1>7 DEF handleTokenSwap, TokenCount, Lock
  <2>2. Swapped(roster, i, j) \in Seq(DOMAIN entry) /\ Moved(roster, i, j) \in Seq(DOMAIN entry)
    BY <1>1, <2>1, OrderListed
  <2> QED
    BY <1>1, <1>2, <2>1, <2>2 DEF IsRoster
<1> QED
  BY <1>3, <1>4, <1>5, <1>6, <1>7

LEMMA PersistServes == ASSUME AdminInv, RosterInv, TokensPersisted PROVE RosterInv' /\ Served
<1>1. save.op = "sync" /\ (syncDatabase(save.tokens) \/ syncFile(save.tokens))
  BY DEF TokensPersisted, syncTokens
<1>2. save.tokens \in Seq(Tokens)
  BY <1>1, SyncSave DEF ListHeld
<1>3. PICK tokens \in Seq(Tokens) : tokens = save.tokens
  BY <1>2
<1>4. CASE syncDatabase(tokens)
  BY <1>4, DatabaseServes
<1>5. CASE syncFile(tokens)
  <2>1. PICK c : c = LoadOpts([envFile EXCEPT !["AUTH_TOKENS"] = tokens], settings)
    OBVIOUS
  <2>2. c["AUTH_TOKENS"] = tokens /\ UNCHANGED tokenDB /\ applyReloadedConfig(roster, entry, c)
    BY <1>5, <2>1 DEF syncFile
  <2> QED
    BY <2>2, AppliedServes DEF RosterInv, ListHeld
<1> QED
  BY <1>1, <1>3, <1>4, <1>5

LEMMA RefuseServes == ASSUME AdminInv, RosterInv, TokensRefused PROVE RosterInv' /\ Served
<1>1. /\ save.op = "sync"
      /\ syncDatabaseFails(save.tokens) \/ syncFileFails(save.tokens)
      /\ roster' = Undone.roster /\ entry' = Undone.entry
  BY DEF TokensRefused, syncTokensFails, Took
<1>2. save.tokens \in Seq(Tokens)
  BY <1>1, SyncSave DEF ListHeld
<1>3. tokenDB' \in Seq(Tokens) /\ cfg' = cfg
  <2>1. PICK tokens \in Seq(Tokens) : tokens = save.tokens
    BY <1>2
  <2>2. CASE syncDatabaseFails(tokens)
    BY <2>2, StoreSyncs DEF syncDatabaseFails
  <2>3. CASE syncFileFails(tokens)
    BY <2>3 DEF syncFileFails, RosterInv
  <2> QED
    BY <1>1, <2>1, <2>2, <2>3
<1>4. IsRoster(roster, entry) /\ roster \in Seq(DOMAIN entry) /\ DOMAIN roster = 1..Len(roster)
  BY DEF RosterInv, IsRoster
<1>5. IsRoster(roster', entry')
  <2>1. CASE roster' = roster /\ entry' = entry
    BY <1>4, <2>1
  <2>2. CASE save.undo = "removeLast" /\ ~(roster' = roster /\ entry' = entry)
    <3>1. roster # <<>> /\ roster' = RemoveLast(roster, entry).roster /\ entry' = RemoveLast(roster, entry).entry
      BY <1>1, <2>2, Zenon DEF Undone
    <3> QED
      BY <1>4, <3>1, RosterRemoves
  <2>3. CASE save.undo = "add"
    <3>1. roster' = AddToken(roster, entry, save.token).roster /\ entry' = AddToken(roster, entry, save.token).entry
      BY <1>1, <2>3 DEF Undone
    <3> QED
      BY <1>4, <3>1, RosterAdds
  <2>4. CASE save.undo \notin {"removeLast", "add"} /\ ~(roster' = roster /\ entry' = entry)
    <3>1. /\ save.i \in DOMAIN roster /\ save.j \in DOMAIN roster /\ entry' = entry
          /\ roster' = Swapped(roster, save.i, save.j) \/ roster' = Moved(roster, save.j, save.i)
      BY <1>1, <2>4 DEF Undone
    <3>2. PICK i \in 1..Len(roster), j \in 1..Len(roster) :
            roster' = Swapped(roster, i, j) \/ roster' = Moved(roster, j, i)
      BY <1>4, <3>1
    <3>3. roster' \in Seq(DOMAIN entry)
      BY <1>4, <3>2, OrderListed
    <3> QED
      BY <1>4, <3>1, <3>3 DEF IsRoster
  <2> QED
    BY <2>1, <2>2, <2>3, <2>4
<1> QED
  BY <1>3, <1>5 DEF RosterInv, Served

LEMMA BridgeServes ==
  ASSUME RosterInv, roster' = <<>>, UNCHANGED tokenDB,
         entry' = [i \in Built |-> IF i \in Ids(roster) THEN [entry[i] EXCEPT !.drained = TRUE] ELSE entry[i]]
  PROVE  RosterInv'
<1>1. IsEntries(entry)
  BY DEF RosterInv, IsRoster
<1>2. PICK f : f = entry'
  OBVIOUS
<1>3. /\ DOMAIN f = DOMAIN entry /\ f = [i \in DOMAIN entry |-> f[i]]
      /\ \A i \in DOMAIN entry : DOMAIN f[i] = DOMAIN entry[i]
  BY <1>2 DEF Built
<1>4. IsEntries(f)
  BY <1>1, <1>3, EntriesChange DEF IsEntries
<1> QED
  BY <1>2, <1>4 DEF RosterInv, IsRoster

LEMMA DualServes == ASSUME AdminInv, RosterInv, DualApplied PROVE RosterInv' /\ Served
<1>1. PICK c : c = LoadOpts(envFile, settings)
  OBVIOUS
<1>2. /\ Verified(c) /\ UNCHANGED tokenDB
      /\ IF save.want = "bridge"
         THEN /\ cfg' = c /\ roster' = <<>>
              /\ entry' = [i \in Built |-> IF i \in Ids(roster) THEN [entry[i] EXCEPT !.drained = TRUE] ELSE entry[i]]
         ELSE applyReloadedConfig(roster, entry, c)
  BY <1>1 DEF DualApplied
<1>3. CASE save.want = "bridge"
  <2>1. c["AUTH_TOKENS"] = <<>> /\ cfg' = c
    BY <1>2, <1>3 DEF Verified, BridgeMode
  <2>2. Range(cfg'["AUTH_TOKENS"]) = {}
    BY <2>1 DEF Range
  <2> QED
    BY <1>2, <1>3, <2>2, BridgeServes DEF Served
<1>4. CASE save.want # "bridge"
  <2>1. ListHeld(c["AUTH_TOKENS"])
    BY <1>1, LoadIs, LoadTyped DEF AdminInv, AdminHeld, IsLayer, IsRows, IsConfig
  <2> QED
    BY <1>2, <1>4, <2>1, AppliedServes DEF RosterInv
<1> QED
  BY <1>3, <1>4

LEMMA ApplyServes ==
  ASSUME AdminInv, RosterInv, AdminInv',
         \/ \E l \in Lists : handleConfigSave(l)
         \/ handleReload
         \/ \E b \in BOOLEAN : handleSettingsPost("BRIDGE_ENABLED", b)
         \/ \E k \in Keys : handleSettingsDelete(k)
  PROVE  RosterInv' /\ Served
<1>1. \E f, r : Applied(f, r)
  BY DEF handleConfigSave, handleReload, handleSettingsPost, handleSettingsDelete
<1>2. PICK f, r : Applied(f, r)
  BY <1>1
<1>3. PICK c : c = LoadOpts(f, r)
  OBVIOUS
<1>4. applyReloadedConfig(roster, entry, c) /\ UNCHANGED tokenDB
  BY <1>2, <1>3 DEF Applied
<1>5. ListHeld(c["AUTH_TOKENS"])
  BY <1>4 DEF applyReloadedConfig, AdminInv, AdminHeld, IsConfig
<1> QED
  BY <1>4, <1>5, AppliedServes DEF RosterInv

LEMMA WizardServes ==
  ASSUME AdminInv, RosterInv, AdminInv', WizardWrites \/ WizardLoads \/ WizardSaves
  PROVE  RosterInv' /\ Served
<1>1. CASE WizardWrites
  <2>1. UNCHANGED <<tokenDB, cfg, roster, entry>>
    BY <1>1 DEF WizardWrites
  <2> QED
    BY <2>1 DEF RosterInv, Served
<1>2. CASE WizardLoads
  <2>1. PICK c : c = LoadOpts(envFile, settings)
    OBVIOUS
  <2>2. UNCHANGED tokenDB /\ (applyReloadedConfig(roster, entry, c) \/ UNCHANGED <<cfg, roster, entry>>)
    BY <1>2, <2>1 DEF WizardLoads
  <2>3. CASE UNCHANGED <<cfg, roster, entry>>
    BY <2>2, <2>3 DEF RosterInv, Served
  <2>4. CASE applyReloadedConfig(roster, entry, c)
    <3>1. ListHeld(c["AUTH_TOKENS"])
      BY <2>4 DEF applyReloadedConfig, AdminInv, AdminHeld, IsConfig
    <3> QED
      BY <2>2, <2>4, <3>1, AppliedServes DEF RosterInv
  <2> QED
    BY <2>2, <2>3, <2>4
<1>3. CASE WizardSaves
  <2>1. wizard.tokens \in Seq(Tokens)
    BY <1>3, WizardIs DEF WizardSaves, ListHeld
  <2>2. PICK tokens \in Seq(Tokens) : tokens = wizard.tokens
    BY <2>1
  <2>3. syncDatabase(tokens) \/ (syncDatabaseFails(tokens) /\ UNCHANGED <<roster, entry>>)
    BY <1>3, <2>2 DEF WizardSaves, pool
  <2>4. CASE syncDatabase(tokens)
    BY <2>4, DatabaseServes
  <2>5. CASE syncDatabaseFails(tokens) /\ UNCHANGED <<roster, entry>>
    BY <2>5, StoreSyncs DEF syncDatabaseFails, RosterInv, Served
  <2> QED
    BY <2>3, <2>4, <2>5
<1> QED
  BY <1>1, <1>2, <1>3

LEMMA RosterRests ==
  ASSUME RosterInv, UNCHANGED <<tokenDB, cfg, roster, entry>>
  PROVE  RosterInv' /\ Served
  BY DEF RosterInv, Served

\* The saves of both layers leave the roster alone until they are applied.
LEMMA SavesServe ==
  ASSUME RosterInv,
         \/ \E mode \in {"bridge", "pooled", "hybrid"} : ModeAsked(mode)
         \/ handleModeSwitch
         \/ \E pw \in Passwords : handleAdminChangePassword(pw)
         \/ \E b \in BOOLEAN : handleAdminRequireLogin(b)
         \/ \E k \in Keys : SetRow(k)
         \/ SetRowFails \/ DualRefused
  PROVE  RosterInv' /\ Served
<1>1. \A want, edit : dualWrite(want, edit) => UNCHANGED <<tokenDB, cfg, roster, entry>>
  BY DEF dualWrite
<1>2. UNCHANGED <<tokenDB, cfg, roster, entry>>
  BY <1>1 DEF ModeAsked, handleModeSwitch, handleAdminChangePassword, handleAdminRequireLogin, SetRow,
     SetRowFails, DualRefused
<1> QED
  BY <1>2, RosterRests

LEMMA RosterStarts == AdminInit => RosterInv
<1> SUFFICES ASSUME AdminInit PROVE RosterInv
  OBVIOUS
<1>1. tokenDB = <<>> /\ roster = <<>> /\ entry = <<>>
  BY DEF AdminInit
<1>2. IsEntries(<<>>)
  <2>1. PICK e : e = <<>>
    OBVIOUS
  <2>2. e \in Seq({}) /\ DOMAIN e = {}
    BY <2>1
  <2> QED
    BY <2>1, <2>2, EntriesAre
<1> QED
  BY <1>1, <1>2 DEF RosterInv, IsRoster

LEMMA RosterStep ==
  ASSUME AdminInv, RosterInv, [AdminNext]_adminVars
  PROVE  AdminInv' /\ RosterInv' /\ Served
<1>1. AdminInv'
  BY AdminStep DEF RosterInv
<1>2. CASE UNCHANGED adminVars
  BY <1>1, <1>2, RosterRests DEF adminVars
<1>3. CASE AdminNext
  BY <1>1, <1>3, ServeServes, PoolServes, HandlersServe, PersistServes, RefuseServes, DualServes, ApplyServes,
     WizardServes, SavesServe DEF AdminNext
<1> QED
  BY <1>2, <1>3

LEMMA AdminKeeps == AdminInv => DiskIsLive
<1> SUFFICES ASSUME AdminInv, Quiet PROVE \A k \in Keys : LoadOpts(envFile, settings)[k] = cfg[k]
                                                        \/ (k = "AUTH_TOKENS" /\ deployment.database)
  BY DEF DiskIsLive
<1>1. save.op # "dual" /\ wizard.at # "written"
  BY DEF Quiet, Free, NoWizard
<1>2. Agree(deployment, envFile, settings, cfg)
  BY <1>1 DEF AdminInv, Tied, Quiet
<1> QED
  BY <1>2, LoadIs DEF Agree

-----------------------------------------------------------------------------
(* The desk.                                                               *)

\* A step of the desk is a step of one of its parts.
LEMMA DeskMoves ==
  ASSUME [DeskNext]_deskVars
  PROVE  /\ [AdminNext]_adminVars
         /\ [LoginNext]_loginVars
         /\ [CachesNext]_cachesVars
         /\ [MigrateNext]_migrateVars
         /\ [CarryNext]_carryVars
         /\ [EnvFileNext]_envVars
         /\ [UpdateNext]_updateVars
<1>1. CASE UNCHANGED deskVars
  BY <1>1 DEF deskVars
<1>2. CASE DeskNext
  <2>1. Saves \/ Logins \/ Lookups \/ Migrates \/ Carries \/ Writes \/ Updates
    BY <1>2 DEF DeskNext
  <2>2. CASE Saves
    BY <2>2 DEF Saves
  <2>3. CASE Logins
    BY <2>3 DEF Logins, LoginNext
  <2>4. CASE Lookups
    BY <2>4 DEF Lookups, CachesNext
  <2>5. CASE Migrates
    BY <2>5 DEF Migrates
  <2>6. CASE Carries
    BY <2>6 DEF Carries
  <2>7. CASE Writes
    BY <2>7 DEF Writes
  <2>8. CASE Updates
    BY <2>8 DEF Updates
  <2> QED
    BY <2>1, <2>2, <2>3, <2>4, <2>5, <2>6, <2>7, <2>8
<1> QED
  BY <1>1, <1>2

LEMMA LoginMoves ==
  ASSUME [LoginNext]_loginVars
  PROVE  [ThrottleNext]_throttleVars /\ [FlowNext]_flowVars
<1>1. CASE UNCHANGED loginVars
  BY <1>1 DEF loginVars
<1>2. CASE ThrottleNext
  <2>1. UNCHANGED flowVars
    BY <1>2 DEF ThrottleNext, allow, recordFail, LoginSucceeds, tryLogin, LoginTick
  <2> QED
    BY <1>2, <2>1
<1>3. CASE FlowNext
  <2>1. UNCHANGED throttleVars
    BY <1>3 DEF FlowNext, pruneLoginFlows, handleLoginStart, FlowAges, StatusFinds, StatusClaims,
                PollPending, PollCompleted, FlowAdds
  <2> QED
    BY <1>3, <2>1
<1> QED
  BY <1>1, <1>2, <1>3 DEF LoginNext

LEMMA ThrottleStutters ==
  ASSUME ThrottleInv, UNCHANGED throttleVars
  PROVE  ThrottleInv'
  BY DEF throttleVars, ThrottleInv, ThrottleTypeOK, Locked, Holding, Allowed, AllowedOf

LEMMA FlowStutters ==
  ASSUME FlowInv, UNCHANGED flowVars
  PROVE  FlowInv'
  BY DEF flowVars, FlowInv, FlowTypeOK, Flows, Claiming

LEMMA LoginGuardedAlways == ThrottleInv /\ FlowInv => LoginGuarded
<1> SUFFICES ASSUME ThrottleInv, FlowInv PROVE LoginGuarded
  OBVIOUS
<1>1. LockoutHolds
  <2>1. Allowed \subseteq Posts /\ \A ip : AllowedOf(ip) \subseteq Posts
    BY DEF Allowed, AllowedOf
  <2>2. Cardinality(Allowed) \in Nat /\ \A ip : Cardinality(AllowedOf(ip)) \in Nat
    BY <2>1, PostsFinite
  <2>3. late["all"] \in Nat /\ \A ip \in DOMAIN fails : late[ip] \in Nat
    BY DEF ThrottleInv, ThrottleTypeOK
  <2> QED
    BY <2>2, <2>3, LoginAssumption DEF ThrottleInv, LockoutHolds
<1>2. OneAddPerFlow
  BY DEF FlowInv, OneAddPerFlow
<1> QED
  BY <1>1, <1>2 DEF LoginGuarded

(* However logins interleave, the passwords compared after a lockout began *)
(* are fewer than the login surface has slots; and however polls of one    *)
(* browser login interleave, its token is added once (adminAuth's two      *)
(* critical sections, and the claim of handleLoginStatus).                 *)
THEOREM DeskLoginGuarded == DeskSpec => []LoginGuarded
<1>1. DeskInit => ThrottleInv /\ FlowInv
  BY ThrottleInit, FlowInit DEF DeskInit
<1>2. ThrottleInv /\ FlowInv /\ [DeskNext]_deskVars => (ThrottleInv /\ FlowInv)'
  <2> SUFFICES ASSUME ThrottleInv, FlowInv, [DeskNext]_deskVars PROVE ThrottleInv' /\ FlowInv'
    OBVIOUS
  <2>1. [ThrottleNext]_throttleVars /\ [FlowNext]_flowVars
    BY DeskMoves, LoginMoves
  <2>2. ThrottleInv'
    BY <2>1, ThrottleStep, ThrottleStutters
  <2>3. FlowInv'
    BY <2>1, FlowStep, FlowStutters
  <2> QED
    BY <2>2, <2>3
<1> QED
  BY <1>1, <1>2, LoginGuardedAlways, PTL DEF DeskSpec

(* Wherever the process dies while it migrates, carries over, rewrites the *)
(* .env file or replaces its executable, for any set of older files and    *)
(* any number of boots: an open database has the latest schema, no table   *)
(* mixes two installations, no table or session of an older one is lost,   *)
(* and the .env file and the executable exist somewhere.                   *)
THEOREM DeskDiskKept == DeskSpec => []DiskKept
<1>1. DeskInit => EnvInv /\ UpdateInv /\ MigrateInv /\ CarryInv
  BY EnvInit, UpdateStarts, MigrateStarts, CarryStarts DEF DeskInit
<1>2. EnvInv /\ UpdateInv /\ MigrateInv /\ CarryInv /\ [DeskNext]_deskVars
        => (EnvInv /\ UpdateInv /\ MigrateInv /\ CarryInv)'
  <2> SUFFICES ASSUME EnvInv, UpdateInv, MigrateInv, CarryInv, [DeskNext]_deskVars
               PROVE  EnvInv' /\ UpdateInv' /\ MigrateInv' /\ CarryInv'
    OBVIOUS
  <2>1. EnvInv'
    BY DeskMoves, EnvStep, EnvStutters
  <2>2. UpdateInv'
    BY DeskMoves, UpdateStep, UpdateStutters
  <2>3. MigrateInv'
    BY DeskMoves, MigrateStep, MigrateStutters
  <2>4. CarryInv'
    BY DeskMoves, CarryStep, CarryStutters
  <2> QED
    BY <2>1, <2>2, <2>3, <2>4
<1>3. EnvInv /\ UpdateInv /\ MigrateInv /\ CarryInv => DiskKept
  BY MigrateOpened, CarryKeeps DEF EnvInv, UpdateInv, DiskKept
<1> QED
  BY <1>1, <1>2, <1>3, PTL DEF DeskSpec

(* Through every eviction and interleaving: the reasoning a lookup returns *)
(* was stored for a turn of the same content and calls, the indexes lead   *)
(* to what is held, the order of the schemas names each cached one once,   *)
(* an address is granted what its rate has earned and no more, and is let  *)
(* in when it comes back after the time it was told.                       *)
THEOREM DeskCachesHonest == DeskSpec => []CachesHonest
<1>1. DeskInit => CachesInv
  BY ReasoningStarts, SchemaStarts, LimiterStarts DEF DeskInit, CachesInv
<1>2. CachesInv /\ [DeskNext]_deskVars => CachesInv'
  BY DeskMoves, CachesStep
<1>3. CachesInv => CachesHonest
  BY ReasoningKeeps, SchemaKeeps, LimiterKeeps DEF CachesInv, CachesHonest
<1> QED
  BY <1>1, <1>2, <1>3, PTL DEF DeskSpec

(* Whatever was saved, refused or rolled back, by whichever handlers and   *)
(* at whichever step a write failed or the process died: when nobody is    *)
(* saving, a reload or a restart gives the very configuration that is in   *)
(* force (dualWrite, syncTokensAfterMutation, addTokenPersist, the import  *)
(* of the first boot), but after a save that a failing row has torn or the *)
(* wizard's completion has raced.                                          *)
THEOREM DeskDiskIsLive == DeskSpec => []DiskIsLive
<1>1. DeskInit => AdminInv /\ RosterInv
  BY AdminStarts, RosterStarts DEF DeskInit
<1>2. AdminInv /\ RosterInv /\ [DeskNext]_deskVars => (AdminInv /\ RosterInv)'
  BY DeskMoves, RosterStep
<1> QED
  BY <1>1, <1>2, AdminKeeps, PTL DEF DeskSpec

(* Whenever another configuration comes into force - by a token handler, a *)
(* mode switch, an edit of the file, a settings row, a reload, the login   *)
(* wizard, a boot - every account it lists is served by an entry of the    *)
(* roster, for any list, any roster before it and any number of entries    *)
(* (SetConfig's reconciliation and the callers of applyReloadedConfig).    *)
THEOREM DeskConfiguredIsServed == DeskSpec => ConfiguredIsServed
<1>1. DeskInit => AdminInv /\ RosterInv
  BY AdminStarts, RosterStarts DEF DeskInit
<1>2. AdminInv /\ RosterInv /\ [DeskNext]_deskVars => (AdminInv /\ RosterInv)' /\ Served
  BY DeskMoves, RosterStep
<1>3. Served => [(live' /\ cfg' /= cfg) => Range(cfg'["AUTH_TOKENS"]) \subseteq TokensOf(roster', entry')]_adminVars
  BY DEF Served
<1> QED
  BY <1>1, <1>2, <1>3, PTL DEF DeskSpec, ConfiguredIsServed

===========================================================================
