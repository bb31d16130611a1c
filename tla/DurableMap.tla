---------------------------- MODULE DurableMap ----------------------------
(***************************************************************************)
(* What the session-state store promises: one entry per token, that a call *)
(* about one token changes for that token only, and one durable row per    *)
(* token, that only ever takes values the entry has had.  A write may      *)
(* fail, so a row may lag behind its entry; a restart goes back to the     *)
(* rows.                                                                   *)
(***************************************************************************)
CONSTANTS Keys, Entries, NoEntry

VARIABLES view, rows

vars == <<view, rows>>

Init ==
  /\ rows \in [Keys -> Entries \cup {NoEntry}]
  /\ view = rows

\* One call about token k: its entry becomes e, and any rows catch up.
Write(k, e) ==
  /\ view' = [view EXCEPT ![k] = e]
  /\ rows' \in [Keys -> Entries \cup {NoEntry}]
  /\ \A j \in Keys : rows'[j] \in {rows[j], view[j], view'[j]}

Restart ==
  /\ view' = rows
  /\ UNCHANGED rows

Next ==
  \/ \E k \in Keys, e \in Entries \cup {NoEntry} : Write(k, e)
  \/ Restart

Spec == Init /\ [][Next]_vars
===========================================================================
