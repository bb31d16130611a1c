------------------------------- MODULE Login -------------------------------
(***************************************************************************)
(* The throttles of the administrator's surface.                           *)
(*                                                                         *)
(* adminAuth: a failed login is counted for its address and for the whole  *)
(* process; each count has a lockout of its own, the process's one doubles *)
(* with every breach.  The check and the count are two critical sections   *)
(* with the comparison of the password between them, so a request that was *)
(* let through before a lockout still compares after it; a semaphore       *)
(* bounds how many do.                                                     *)
(*                                                                         *)
(* loginFlows: the browser login that adds an account.  Several tabs poll  *)
(* one flow, the poll goes to the network without the lock, and the poll   *)
(* that sees the login completed adds the token.                           *)
(***************************************************************************)
EXTENDS Naturals, FiniteSets

CONSTANTS IPs,            \* addresses logins come from
          Posts,          \* login requests being handled
          LoginSlots,     \* loginConcurrencyMax
          MaxFails,       \* maxLoginFails
          Lockout,        \* loginLockout
          FailsCap,       \* loginFailsCap
          GlobalFailMax, GlobalWindow, GlobalLockout, GlobalLockoutMax,
          Fingerprints,   \* of the login flows: the machine's and random ones
          Tabs,           \* status polls being handled
          MaxFlows,       \* flows ever started
          MaxLoginClock   \* how long to look

ASSUME LoginAssumption ==
  /\ IsFiniteSet(Posts) /\ LoginSlots \in Nat
  /\ {Lockout, GlobalLockoutMax} \subseteq Nat
  /\ "all" \notin IPs     \* the name of the count of the whole process

VARIABLES
  loginClock,
  fails,      \* address -> [count, until]
  global,     \* [fails, window, until, level]
  post,       \* login request -> [at, ip]
  late,       \* passwords compared since the lockout in force began: by address, and "all"
  flow,       \* flow number -> [done, completing, old, index, adds]
  loginFlows, \* fingerprint -> the number of its flow
  tab         \* status poll -> [at, fp, flow]

throttleVars == <<loginClock, fails, global, post, late>>
flowVars == <<flow, loginFlows, tab>>
loginVars == <<throttleVars, flowVars>>

NoTime == 0
Idle == [at |-> "idle"]
Flows == DOMAIN flow
NoFlow == 0

LoginInit ==
  /\ loginClock = 1
  /\ fails = [ip \in {} |-> 0]
  /\ global = [fails |-> 0, window |-> NoTime, until |-> NoTime, level |-> 0]
  /\ post = [p \in Posts |-> Idle]
  /\ late = [w \in IPs \cup {"all"} |-> 0]
  /\ flow = [n \in {} |-> 0] /\ loginFlows = [f \in {} |-> NoFlow]
  /\ tab = [t \in Tabs |-> Idle]

-----------------------------------------------------------------------------
(* The login throttle *)

Locked(until) == until /= NoTime /\ loginClock < until
WithoutKeys(m, ks) == [k \in DOMAIN m \ ks |-> m[k]]
WithKey(m, k, v) == [x \in DOMAIN m \cup {k} |-> IF x = k THEN v ELSE m[x]]

Holding == {p \in Posts : post[p].at /= "idle"}

\* Without the semaphore.
tryLoginAlways(p, ip) ==
  /\ post[p] = Idle
  /\ post' = [post EXCEPT ![p] = [at |-> "slot", ip |-> ip]]
  /\ UNCHANGED <<loginClock, fails, global, late, flowVars>>

(* A request without a slot is answered busy and counts for nothing.        *)
tryLogin(p, ip) ==
  /\ post[p] = Idle /\ Cardinality(Holding) < LoginSlots
  /\ post' = [post EXCEPT ![p] = [at |-> "slot", ip |-> ip]]
  /\ UNCHANGED <<loginClock, fails, global, late, flowVars>>

(* The process's lockout comes first; an address's own lockout that is over *)
(* is forgotten with its count.                                             *)
allow(p) ==
  LET ip == post[p].ip
      known == ip \in DOMAIN fails
      locked == Locked(global.until) \/ (known /\ Locked(fails[ip].until))
  IN  /\ post[p].at = "slot"
      /\ post' = [post EXCEPT ![p] = IF locked THEN Idle ELSE [@ EXCEPT !.at = "allowed"]]
      /\ fails' = IF ~locked /\ known /\ fails[ip].until /= NoTime THEN WithoutKeys(fails, {ip}) ELSE fails
      /\ UNCHANGED <<loginClock, global, late, flowVars>>

Counted(e) ==
  IF e.count + 1 >= MaxFails THEN [count |-> 0, until |-> loginClock + Lockout]
  ELSE [e EXCEPT !.count = @ + 1]

(* Room for a new address in a full table: every entry that is not locked   *)
(* out goes, and if none is, any one of them.                               *)
MakeRoom(ip) ==
  IF ip \in DOMAIN fails \/ Cardinality(DOMAIN fails) < FailsCap THEN {fails}
  ELSE LET kept == WithoutKeys(fails, {k \in DOMAIN fails : loginClock > fails[k].until})
       IN  IF Cardinality(DOMAIN kept) < FailsCap THEN {kept}
           ELSE {WithoutKeys(kept, {k}) : k \in DOMAIN kept}

Doubled(level) ==
  LET d == GlobalLockout * 2 ^ (level - 1) IN IF d \in 1..GlobalLockoutMax THEN d ELSE GlobalLockoutMax

CountedGlobally(g) ==
  LET rolled == g.window = NoTime \/ loginClock - g.window >= GlobalWindow
      h == [g EXCEPT !.window = IF rolled THEN loginClock ELSE @, !.fails = (IF rolled THEN 0 ELSE @) + 1]
  IN  IF h.fails >= GlobalFailMax /\ ~Locked(h.until)
      THEN [h EXCEPT !.level = @ + 1, !.until = loginClock + Doubled(h.level + 1)]
      ELSE h

(* A wrong password, or one too long to be compared.                        *)
recordFail(p) ==
  LET ip == post[p].ip
      e == Counted(IF ip \in DOMAIN fails THEN fails[ip] ELSE [count |-> 0, until |-> NoTime])
      g == CountedGlobally(global)
  IN  /\ post[p].at = "allowed"
      /\ \E m \in MakeRoom(ip) : fails' = WithKey(m, ip, e)
      /\ global' = g
      /\ late' = [late EXCEPT !["all"] = IF g.until = global.until /\ Locked(g.until) THEN @ + 1 ELSE 0,
                             ![ip] = IF ip \in DOMAIN fails /\ e.until = fails[ip].until /\ Locked(e.until) THEN @ + 1 ELSE 0]
      /\ post' = [post EXCEPT ![p] = Idle]
      /\ UNCHANGED <<loginClock, flowVars>>

LoginSucceeds(p) ==
  /\ post[p].at = "allowed"
  /\ fails' = WithoutKeys(fails, {post[p].ip})
  /\ post' = [post EXCEPT ![p] = Idle]
  /\ UNCHANGED <<loginClock, global, late, flowVars>>

LoginTick ==
  /\ loginClock < MaxLoginClock /\ loginClock' = loginClock + 1
  /\ UNCHANGED <<fails, global, post, late, flowVars>>

-----------------------------------------------------------------------------
(* The browser login *)

NewFlow == [done |-> FALSE, completing |-> FALSE, old |-> FALSE, index |-> 0, adds |-> 0]

(* The stable fingerprint of the machine may start a second flow, which     *)
(* takes the first one's place.                                             *)
handleLoginStart(fp) ==
  LET n == Cardinality(Flows) + 1 IN
  /\ n <= MaxFlows
  /\ flow' = WithKey(flow, n, NewFlow)
  /\ loginFlows' = WithKey(loginFlows, fp, n)
  /\ UNCHANGED <<throttleVars, tab>>

FlowAges(n) ==
  /\ n \in Flows /\ ~flow[n].old
  /\ flow' = [flow EXCEPT ![n].old = TRUE]
  /\ UNCHANGED <<throttleVars, loginFlows, tab>>

(* Every start and every status poll forgets the flows older than ten       *)
(* minutes.                                                                 *)
pruneLoginFlows ==
  /\ \E fp \in DOMAIN loginFlows : flow[loginFlows[fp]].old
  /\ loginFlows' = WithoutKeys(loginFlows, {fp \in DOMAIN loginFlows : flow[loginFlows[fp]].old})
  /\ UNCHANGED <<throttleVars, flow, tab>>

StatusFinds(t, fp) ==
  /\ tab[t] = Idle /\ fp \in DOMAIN loginFlows /\ ~flow[loginFlows[fp]].old
  /\ tab' = [tab EXCEPT ![t] = [at |-> "found", fp |-> fp, flow |-> loginFlows[fp]]]
  /\ UNCHANGED <<throttleVars, flow, loginFlows>>

\* The flag is raised only by the poll that has seen the login completed.
StatusClaimsLate(t) ==
  LET n == tab[t].flow IN
  /\ tab[t].at = "found"
  /\ tab' = [tab EXCEPT ![t] = IF flow[n].done \/ flow[n].completing THEN Idle ELSE [@ EXCEPT !.at = "polling"]]
  /\ UNCHANGED <<throttleVars, flow, loginFlows>>

(* One critical section reads both flags and raises the second; a poll that *)
(* finds either one answers at once.                                        *)
StatusClaims(t) ==
  LET n == tab[t].flow IN
  /\ tab[t].at = "found"
  /\ flow' = [flow EXCEPT ![n].completing = TRUE]
  /\ tab' = [tab EXCEPT ![t] = IF flow[n].done \/ flow[n].completing THEN Idle ELSE [@ EXCEPT !.at = "polling"]]
  /\ UNCHANGED <<throttleVars, loginFlows>>

(* The poll failed, or the login is not completed yet.                      *)
PollPending(t) ==
  /\ tab[t].at = "polling"
  /\ flow' = [flow EXCEPT ![tab[t].flow].completing = FALSE]
  /\ tab' = [tab EXCEPT ![t] = Idle]
  /\ UNCHANGED <<throttleVars, loginFlows>>

(* The flow is put back under its fingerprint, whatever is there by now.    *)
PollCompleted(t) ==
  /\ tab[t].at = "polling"
  /\ flow' = [flow EXCEPT ![tab[t].flow].done = TRUE]
  /\ loginFlows' = WithKey(loginFlows, tab[t].fp, tab[t].flow)
  /\ tab' = [tab EXCEPT ![t].at = "adding"]
  /\ UNCHANGED throttleVars

(* A token that could not be persisted has entered the pool all the same.   *)
FlowAdds(t) ==
  LET n == tab[t].flow IN
  /\ tab[t].at = "adding"
  /\ \/ flow' = [flow EXCEPT ![n].adds = @ + 1, ![n].index = flow[n].adds + 1]
     \/ flow' = [flow EXCEPT ![n].adds = @ + 1, ![n].completing = FALSE]
  /\ tab' = [tab EXCEPT ![t] = Idle]
  /\ UNCHANGED <<throttleVars, loginFlows>>

-----------------------------------------------------------------------------
ThrottleNext ==
  \/ \E p \in Posts : allow(p) \/ recordFail(p) \/ LoginSucceeds(p)
  \/ \E p \in Posts, ip \in IPs : tryLogin(p, ip)
  \/ LoginTick

FlowNext ==
  \/ pruneLoginFlows
  \/ \E fp \in Fingerprints : handleLoginStart(fp)
  \/ \E n \in Flows : FlowAges(n)
  \/ \E t \in Tabs, fp \in Fingerprints : StatusFinds(t, fp)
  \/ \E t \in Tabs : StatusClaims(t) \/ PollPending(t) \/ PollCompleted(t) \/ FlowAdds(t)

LoginNext == ThrottleNext \/ FlowNext
LoginSpec == LoginInit /\ [][LoginNext]_loginVars

-----------------------------------------------------------------------------
(* Once a lockout is in force, of one address or of the whole process, the  *)
(* passwords still compared are those of the requests that had passed the   *)
(* check before: fewer than the login surface has slots, whatever order the *)
(* checks, the comparisons and the counts of the others come in.            *)
LockoutHolds ==
  /\ Locked(global.until) => late["all"] < LoginSlots
  /\ \A ip \in DOMAIN fails : Locked(fails[ip].until) => late[ip] < LoginSlots

(* However many tabs poll a flow, and however often it is started anew,     *)
(* forgotten or put back while they do, a completed login adds its token to *)
(* the pool once.                                                           *)
OneAddPerFlow == \A n \in Flows : flow[n].adds <= 1

(* "All completion fields are written under the lock so a concurrent poll   *)
(* observing Done reads a consistent record": a flow that says it is done   *)
(* has the index of its token.                                              *)
DoneIsConsistent == \A n \in Flows : flow[n].done => flow[n].index > 0

=============================================================================
