--------------------------- MODULE MCRunManager ---------------------------
(* Small instances of RunManager for TLC.                                  *)
EXTENDS RunManager

CONSTANTS c1, c2, k1, w, a1

OneKeeper  == {k1}
OneClient  == {c1}
TwoClients == {c1, c2}
OneAgent   == {a1}

AllButStop  == {"precreate", "maintain", "finishall"}
Stopping    == {"shutdown"}
---------------------------------------------------------------------------
(* Two scenes: two requests with nobody else about, or one of them against   *)
(* Shutdown and a crash.  A goroutine that makes no call in a scene is at a  *)
(* point from which no action takes it.                                      *)
Resting == [IdleThread EXCEPT !.pc = "exited"]

ScenesInit ==
  \E t \in {c1, k1} :
    /\ nrun = 0
    /\ agentOf = [r \in Runs |-> NoAgent]
    /\ ridOf = [r \in Runs |-> r]
    /\ inflight = [r \in Runs |-> 0]
    /\ finishing = {} /\ queued = {} /\ draining = {}
    /\ status = [r \in Runs |-> ""]
    /\ current = [a \in Agents |-> NoRun]
    /\ flight = {}
    /\ queue = <<>>
    /\ shuttingDown = FALSE
    /\ th = [q \in Threads |-> IF q = Worker THEN OffWorker
                               ELSE IF q = t THEN Resting ELSE IdleThread]
    /\ lease = [q \in Clients |-> NoRun]
    /\ store = [a \in Agents |-> NoRun]
    /\ aged = {}
    /\ reported = [r \in Runs |-> ""]
    /\ gone = {}
    /\ crashes = IF t = k1 THEN MaxCrashes ELSE 0

ScenesSpec == ScenesInit /\ [][Next]_vars

\* One request goes on after the crash.
OneRequest == crashes < MaxCrashes \/ th[k1] = Resting \/ th[c1] = IdleThread
===========================================================================
