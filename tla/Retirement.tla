----------------------------- MODULE Retirement -----------------------------
(***************************************************************************)
(* Taking an account out of the pool under traffic (pool/lifecycle.go):    *)
(* the busy test, the removal from the roster, the parking in the retired  *)
(* table and the drain are separate steps, and so are the admission, the   *)
(* run and the last look at the roster of a request (admitOnLane of        *)
(* pool/acquire_route.go).                                                 *)
(***************************************************************************)
EXTENDS Naturals, FiniteSets, SequencesExt

CONSTANTS
  Slots,    \* accounts
  Turns,    \* requests
  Removals, \* how accounts are removed: "last" and "at"
  NoSlot    \* no account

ASSUME RetirementAssumption ==
  /\ IsFiniteSet(Slots) /\ IsFiniteSet(Turns) /\ Removals \subseteq {"last", "at"}
  /\ NoSlot \notin Slots

VARIABLES
  pooled,   \* accounts in the roster, the last one last
  retired,  \* accounts in the retired table
  drained,  \* accounts whose drain has been begun
  admitted, \* accounts with a session upstream
  busy,     \* InflightCount of the account's runs
  turn,     \* the requests
  remover   \* the dashboard's removal

retireVars == <<pooled, retired, drained, admitted, busy, turn, remover>>

NoTurn == [pc |-> "idle", slot |-> NoSlot]
NoRemoval == [pc |-> "idle", slot |-> NoSlot, kind |-> "last", slip |-> FALSE]
InPool(a) == \E i \in DOMAIN pooled : pooled[i] = a

RetireInit ==
  /\ pooled \in {s \in [1..Cardinality(Slots) -> Slots] : IsInjective(s)}
  /\ retired = {} /\ drained = {} /\ admitted = {}
  /\ busy = [a \in Slots |-> 0]
  /\ turn = [t \in Turns |-> NoTurn] /\ remover = NoRemoval

\* The walk reaches an account of the roster it loaded; its session is admitted,
\* and the account must still be in the roster.
AdmitOnLane(t) ==
  /\ turn[t].pc = "idle"
  /\ \E i \in DOMAIN pooled : turn' = [turn EXCEPT ![t] = [pc |-> "admit", slot |-> pooled[i]]]
  /\ UNCHANGED <<pooled, retired, drained, admitted, busy, remover>>

SessionAdmitted(t) ==
  LET a == turn[t].slot IN
  /\ turn[t].pc = "admit"
  /\ admitted' = admitted \cup {a}
  /\ turn' = [turn EXCEPT ![t] = IF InPool(a) THEN [@ EXCEPT !.pc = "run"] ELSE NoTurn]
  /\ UNCHANGED <<pooled, retired, drained, busy, remover>>

RunAcquired(t) ==
  /\ turn[t].pc = "run"
  /\ busy' = [busy EXCEPT ![turn[t].slot] = @ + 1]
  /\ turn' = [turn EXCEPT ![t].pc = "look"]
  /\ UNCHANGED <<pooled, retired, drained, admitted, remover>>

\* The last look at the roster: a lease, or the run is given back.
GrantUnlooked(t) ==
  /\ turn[t].pc = "look"
  /\ turn' = [turn EXCEPT ![t].pc = "lease"]
  /\ UNCHANGED <<pooled, retired, drained, admitted, busy, remover>>

GrantIfPooled(t) ==
  LET a == turn[t].slot IN
  /\ turn[t].pc = "look"
  /\ turn' = [turn EXCEPT ![t] = IF InPool(a) THEN [@ EXCEPT !.pc = "lease"] ELSE NoTurn]
  /\ busy' = [busy EXCEPT ![a] = IF InPool(a) THEN @ ELSE @ - 1]
  /\ UNCHANGED <<pooled, retired, drained, admitted, remover>>

\* LeaseRelease: the run first, then a look whether the account is parked and
\* this was its last lease; then the drain, once.
LeaseRelease(t) ==
  LET a == turn[t].slot IN
  /\ turn[t].pc = "lease"
  /\ busy' = [busy EXCEPT ![a] = @ - 1]
  /\ turn' = [turn EXCEPT ![t].pc = "released"]
  /\ UNCHANGED <<pooled, retired, drained, admitted, remover>>

\* LeaseAbandon gives back the run and no more.
LeaseAbandon(t) ==
  LET a == turn[t].slot IN
  /\ turn[t].pc = "lease"
  /\ busy' = [busy EXCEPT ![a] = @ - 1]
  /\ turn' = [turn EXCEPT ![t] = NoTurn]
  /\ UNCHANGED <<pooled, retired, drained, admitted, remover>>

\* drainRemovedToken, guarded by the entry's sync.Once.
Drain(a) ==
  /\ drained' = drained \cup {a}
  /\ admitted' = IF a \in drained THEN admitted ELSE admitted \ {a}
  /\ retired' = IF a \in drained THEN retired ELSE retired \ {a}

DrainReleased(t) ==
  LET a == turn[t].slot IN
  /\ turn[t].pc = "released"
  /\ \/ a \in retired /\ busy[a] = 0 /\ Drain(a)
     \/ ~(a \in retired /\ busy[a] = 0) /\ UNCHANGED <<drained, admitted, retired>>
  /\ turn' = [turn EXCEPT ![t] = NoTurn]
  /\ UNCHANGED <<pooled, busy, remover>>

---------------------------------------------------------------------------
\* RemoveLastToken and RemoveTokenAt: the busy test, of the account or of all.
RemoveToken ==
  /\ remover.pc = "idle"
  /\ \E kind \in Removals, i \in DOMAIN pooled :
       /\ kind = "last" => i = Len(pooled)
       /\ \A j \in DOMAIN pooled : kind = "at" \/ j = i => busy[pooled[j]] = 0
       /\ remover' = [NoRemoval EXCEPT !.pc = "tested", !.slot = pooled[i], !.kind = kind]
  /\ UNCHANGED <<pooled, retired, drained, admitted, busy, turn>>

RemoveFromRoster ==
  /\ remover.pc = "tested"
  /\ \E i \in DOMAIN pooled : pooled[i] = remover.slot /\ pooled' = RemoveAt(pooled, i)
  /\ remover' = [remover EXCEPT !.pc = IF remover.kind = "last" THEN "slip" ELSE "park"]
  /\ UNCHANGED <<retired, drained, admitted, busy, turn>>

\* The test of before the removal is taken for the one of after it.
LookForSlipEarly ==
  /\ remover.pc = "slip"
  /\ remover' = [remover EXCEPT !.pc = "park"]
  /\ UNCHANGED <<pooled, retired, drained, admitted, busy, turn>>

\* Only RemoveLastToken looks for leases that slipped in.
LookForSlip ==
  /\ remover.pc = "slip"
  /\ remover' = [remover EXCEPT !.pc = "park", !.slip = busy[remover.slot] > 0]
  /\ UNCHANGED <<pooled, retired, drained, admitted, busy, turn>>

ParkRemoved ==
  /\ remover.pc = "park"
  /\ retired' = retired \cup {remover.slot}
  /\ remover' = IF remover.slip THEN NoRemoval ELSE [remover EXCEPT !.pc = "drain"]
  /\ UNCHANGED <<pooled, drained, admitted, busy, turn>>

DrainRemovedToken ==
  /\ remover.pc = "drain"
  /\ Drain(remover.slot) /\ remover' = NoRemoval
  /\ UNCHANGED <<pooled, busy, turn>>

\* The maintenance tick forgets what is parked for long and has no lease.
PruneRetired ==
  /\ \E a \in retired : busy[a] = 0 /\ retired' = retired \ {a}
  /\ UNCHANGED <<pooled, drained, admitted, busy, turn, remover>>

RetireNext ==
  \/ \E t \in Turns : \/ AdmitOnLane(t) \/ SessionAdmitted(t) \/ RunAcquired(t)
                      \/ GrantIfPooled(t) \/ LeaseRelease(t) \/ LeaseAbandon(t) \/ DrainReleased(t)
  \/ RemoveToken \/ RemoveFromRoster \/ LookForSlip \/ ParkRemoved \/ DrainRemovedToken
  \/ PruneRetired

RetireSpec == RetireInit /\ [][RetireNext]_retireVars

---------------------------------------------------------------------------
\* No account is drained under a lease: its session is ended and its runs are
\* FINISHed only when the leases that slipped in before its removal are back,
\* and none is granted afterwards (the slip of RemoveLastToken, the last look
\* of admitOnLane, the count LeaseRelease reads).
NoDrainUnderLease ==
  \A t \in Turns : turn[t].pc = "lease" => turn[t].slot \notin drained

\* A removed account that nobody holds is drained, or somebody is going to.
RemovedIsDrained ==
  \A a \in Slots :
    (~InPool(a) /\ busy[a] = 0 /\ remover.slot # a /\ \A t \in Turns : turn[t].slot # a)
      => a \in drained
=============================================================================
