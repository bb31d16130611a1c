---------------------------- MODULE MCSlotQueue ----------------------------
(* Small instances of SlotQueue for TLC.                                   *)
EXTENDS SlotQueue, TLC

CONSTANTS r1, r2, l1, l2, b1

TwoRequests   == {r1, r2}
OneLane       == {l1}
TwoLanes      == {l1, l2}
NoBridge      == {}
OneBridge     == {b1}
NoLane        == {}
RosterOne     == <<l1>>
RosterTwo     == <<l1, l2>>

Symmetry == Permutations(Requests)

-----------------------------------------------------------------------------
\* Two requests over one account, or one of them over two accounts; the other
\* is at a point from which no action takes it: it has no slot to give back.
AtRest == [Idle EXCEPT !.pc = "ending"]

LiveInit ==
  \E s \in {[from |-> RosterOne, cast |-> TwoRequests],
             [from |-> RosterTwo, cast |-> {r1}]} :
    /\ live = [l \in AllLanes |-> 0]
    /\ laneq = [b \in Bridges |-> <<>>]
    /\ queue = <<>>
    /\ seat = [l \in AllLanes |-> 0]
    /\ open = Lanes
    /\ warm = {}
    /\ roster = s.from
    /\ spare = Lanes \ {s.from[i] : i \in DOMAIN s.from}
    /\ edit = NoEdit /\ edits = 0
    /\ jails = 0
    /\ th = [r \in Requests |-> IF r \in s.cast THEN Idle ELSE AtRest]

LiveSpec == LiveInit /\ [][Next]_vars /\ \A r \in Requests : WF_vars(Inside(r))
============================================================================
