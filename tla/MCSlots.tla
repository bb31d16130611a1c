------------------------------ MODULE MCSlots ------------------------------
(* The slots of the accounts, and the two things the pool does with accounts *)
(* nobody uses: the nightly maturity touch and the probes of maintenance.  A *)
(* behaviour is of one of the three, the others rest.                        *)
EXTENDS MCSlotQueue, Maturity, Upkeep

VARIABLE focus

slotsVars == <<vars, matVars, upkeepVars, focus>>

SlotsInit ==
  /\ Init /\ MaturityInit /\ UpkeepInit
  /\ focus \in {"slots", "maturity", "upkeep"}
  /\ focus # "upkeep" => slot = [m \in Members |-> 0]

SlotsNext ==
  \/ focus = "slots" /\ Next /\ UNCHANGED <<matVars, upkeepVars, focus>>
  \/ focus = "maturity" /\ MaturityNext /\ UNCHANGED <<vars, upkeepVars, focus>>
  \/ focus = "upkeep" /\ UpkeepNext /\ UNCHANGED <<vars, matVars, focus>>

\* One quota answer or one edit of the roster, not both.
OneUpset == jails + edits <= 1

SlotsSpec == SlotsInit /\ [][SlotsNext]_slotsVars

===========================================================================
