----------------------------- MODULE MCSession -----------------------------
(* Small instances of Session for TLC.                                     *)
EXTENDS Session

CONSTANTS c1, c2, p1, k1, m1, m2

OneClient  == {c1}
TwoClients == {c1, c2}
OnePoller  == {p1}
OneKeeper  == {k1}
Nobody     == {}
OneModel   == {m1}
TwoModels  == {m1, m2}

NoPasses        == {}
OwnPasses       == {"end", "shutdown"}
QueuePasses     == {"advance", "clear"}
TouchPass       == {"touch"}

Diversions  == {"queued", "disabled", "unavailable"}
SomeAnswers == {"queued", "refused", "error"}
Refusals    == {"denied", "gone"}
Refused     == {"refused", "canceled"}

ScenePasses  == OwnPasses \cup QueuePasses
SceneAnswers == Diversions \cup SomeAnswers \cup Refusals
----------------------------------------------------------------------------
(* Three scenes over a store: a turn, the poll and the end of the session,    *)
(* with a restart; two turns of a session that nears its expiry; a turn and   *)
(* the queue's maintenance over two models, while admissions are queued or    *)
(* diverted.  A goroutine that makes no call in a scene is at a point from    *)
(* which no action takes it.                                                  *)
Resting == [Idle EXCEPT !.pc = "exit"]
Rests(t) == th[t] = Resting

Casts == {{c1, p1, k1}, {c1, c2}, {c1, k1}}

ScenesInit ==
  \E cast \in Casts :
    /\ ninst = 0 /\ modelOf = [i \in Insts |-> NoModel]
    /\ age = [i \in InstRef |-> "dead"] /\ seat = NoInst
    /\ state = Nil /\ refreshing = FALSE /\ refreshErr = "none"
    /\ reAdmitted = NoInst /\ unavailable = {} /\ persist = NoWrite
    /\ disk = Nil
    /\ th = [t \in Threads |-> IF t \in cast \cup {Async} THEN Idle ELSE Resting]
    /\ tried = [i \in Insts |-> 0]
    /\ crashes = IF p1 \in cast THEN 0 ELSE MaxCrashes

ScenesSpec == ScenesInit /\ [][Next]_vars

-----------------------------------------------------------------------------
\* What the scenes have of the constants: the record's scene one turn, also
\* after its restart, when no pass ends the session; the other two no restart,
\* the last one no session that reaches its lead; the models, the answers and
\* the passes each is about.
Record == ~Rests(p1)
Expiry == Rests(k1)

InScene(answers, models, passes) ==
  \A t \in Threads :
    /\ th[t].reply \in {"none", "failed", "active", "grace", "locked", "refused"} \cup answers
    /\ th[t].model \in models \cup {NoModel}
    /\ th[t].pc = "enddel" => "end" \in passes
    /\ th[t].pass \in passes \cup {"none"}

SceneBound ==
  CASE Record -> /\ Rests(c2) \/ th[c2] = Idle
                 /\ crashes = MaxCrashes => th[k1] = Idle
                 /\ InScene(Refusals, OneModel, OwnPasses)
    [] Expiry -> InScene(SomeAnswers, OneModel, NoPasses)
    [] OTHER  -> /\ \A i \in Insts : age[i] \notin {"lead", "grace"}
                 /\ InScene(Diversions, TwoModels, QueuePasses)
============================================================================
