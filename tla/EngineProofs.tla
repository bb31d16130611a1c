---------------------------- MODULE EngineProofs ----------------------------
(***************************************************************************)
(* Proofs about the chat engine, for any number of requests, credentials,  *)
(* configurations and answers of the service: every lease is given back    *)
(* once, nobody without a key is served from the pool, a session ends with *)
(* the gate that refuses its model, and a late outcome leaves alone what   *)
(* is newer than its lease.  And about a request on its way to the service *)
(* and back: how often it is sent, and what goes on the wire.              *)
(***************************************************************************)
EXTENDS Engine, MCRequests, PositionProofs, FiniteSetTheorems, TLAPS

(***************************************************************************)
(* Tables of rules                                                         *)
(***************************************************************************)

\* An arm whose condition holds and none before it does is the one taken.
LEMMA FirstArmIs ==
  ASSUME NEW arms, NEW n \in Nat, DOMAIN arms = 1 .. n, NEW i \in 1 .. n,
         arms[i][1], \A j \in 1 .. (i - 1) : ~arms[j][1]
  PROVE  FirstArm(arms) = arms[i][2]
<1>1. \A k \in DOMAIN arms : arms[k][1] /\ (\A j \in 1 .. (k - 1) : ~arms[j][1]) => k = i
  <2>1. ASSUME NEW k \in DOMAIN arms, arms[k][1], \A j \in 1 .. (k - 1) : ~arms[j][1]
        PROVE  k = i
    <3>1. k \in 1 .. n
      BY <2>1
    <3>2. ~(k < i) /\ ~(i < k)
      BY <2>1, <3>1
    <3> QED
      BY <3>1, <3>2
  <2> QED
    BY <2>1
<1>2. i \in DOMAIN arms /\ arms[i][1] /\ \A j \in 1 .. (i - 1) : ~arms[j][1]
  OBVIOUS
<1>3. (CHOOSE k \in DOMAIN arms : arms[k][1] /\ \A j \in 1..(k - 1) : ~arms[j][1]) = i
  BY <1>1, <1>2, Zenon
<1> QED
  BY <1>3 DEF FirstArm

\* A table with an arm that holds takes one that does.
LEMMA FirstArmHolds ==
  ASSUME NEW arms, NEW n \in Nat, DOMAIN arms = 1 .. n, \E i \in 1 .. n : arms[i][1]
  PROVE  \E i \in 1 .. n : arms[i][1] /\ FirstArm(arms) = arms[i][2]
<1> DEFINE T == {i \in 1 .. n : arms[i][1]}
<1>1. T \subseteq Nat /\ T # {}
  OBVIOUS
<1>2. PICK m \in T : \A k \in T : m <= k
  BY <1>1, LeastOf
<1>3. m \in 1 .. n /\ arms[m][1]
  BY <1>2
<1>4. \A j \in 1 .. (m - 1) : ~arms[j][1]
  BY <1>2, <1>3
<1> QED
  BY <1>3, <1>4, FirstArmIs

\* The rules that end a session, and what they ask of an answer.
LEMMA EndingRules ==
  ASSUME NEW s, NEW b
  PROVE  /\ DOMAIN Rules(s, b) = 1 .. 28 /\ Rules(s, b)[28][1]
         /\ \A i \in 1 .. 28 : Rules(s, b)[i][2] \in {"SessionInvalid", "WaitingRoomRequired", "SessionSuperseded"}
                               => i \in {21, 24, 25}
         /\ Rules(s, b)[21][1] <=> ("waiting_room_required" \in Mentions(b))
         /\ Rules(s, b)[24][1] <=> ("session_superseded" \in Mentions(b))
         /\ Rules(s, b)[25][1] <=> (SessionEnding \cap Mentions(b) # {})
<1>1. DOMAIN Rules(s, b) = 1 .. 28 /\ Rules(s, b)[28][1]
  BY DEF Rules
<1>2. /\ Rules(s, b)[21][1] <=> ("waiting_room_required" \in Mentions(b))
      /\ Rules(s, b)[24][1] <=> ("session_superseded" \in Mentions(b))
      /\ Rules(s, b)[25][1] <=> (SessionEnding \cap Mentions(b) # {})
  BY DEF Rules
<1> DEFINE name(i) == Rules(s, b)[i][2]
<1>3. /\ name(1) = "Ban" /\ name(2) = "UpstreamRetryable" /\ name(3) = "RateLimit" /\ name(4) = "CapacityDeferred"
      /\ name(5) = "TurnSpendLimit" /\ name(6) = "ProviderUsage" /\ name(7) = "AuthRejected" /\ name(8) = "WaitingRoom"
      /\ name(9) = "Credits" /\ name(10) = "NoEndpoints" /\ name(11) = "SessionLimit" /\ name(12) = "ConsentRequired"
      /\ name(13) = "FirstTabChanged" /\ name(14) = "CLIRequired" /\ name(15) = "FreeModeUnavailable"
      /\ name(16) = "InvalidAgentHierarchy" /\ name(17) = "CostModeRequired" /\ name(18) = "CountryBlocked"
      /\ name(19) = "IpCapped" /\ name(20) = "WaitingRoom" /\ name(22) = "LimitedIp" /\ name(23) = "RateLimit"
      /\ name(26) = "RunInvalid" /\ name(27) = "RateLimit" /\ name(28) = "Upstream"
  BY DEF Rules
<1>4. \A i \in 1 .. 28 : name(i) \in {"SessionInvalid", "WaitingRoomRequired", "SessionSuperseded"} => i \in {21, 24, 25}
  <2> HIDE DEF name
  <2>1. \A i \in 1 .. 28 : \/ i = 1 \/ i = 2 \/ i = 3 \/ i = 4 \/ i = 5 \/ i = 6 \/ i = 7 \/ i = 8 \/ i = 9 \/ i = 10
                           \/ i = 11 \/ i = 12 \/ i = 13 \/ i = 14 \/ i = 15 \/ i = 16 \/ i = 17 \/ i = 18 \/ i = 19
                           \/ i = 20 \/ i = 21 \/ i = 22 \/ i = 23 \/ i = 24 \/ i = 25 \/ i = 26 \/ i = 27 \/ i = 28
    OBVIOUS
  <2> QED
    BY <1>3, <2>1
<1> QED
  BY <1>1, <1>2, <1>4

\* A class that ends a session is given for a code that says so, and for nothing else.
LEMMA EndingClass ==
  ASSUME NEW s, NEW b, classifyError(s, b) \in {"SessionInvalid", "WaitingRoomRequired", "SessionSuperseded"}
  PROVE  Mentions(b) \cap (SessionEnding \cup {"waiting_room_required", "session_superseded"}) # {}
<1>1. PICK i \in 1 .. 28 : Rules(s, b)[i][1] /\ classifyError(s, b) = Rules(s, b)[i][2]
  <2>1. DOMAIN Rules(s, b) = 1 .. 28 /\ \E i \in 1 .. 28 : Rules(s, b)[i][1]
    BY EndingRules
  <2> QED
    BY <2>1, FirstArmHolds DEF classifyError
<1>2. i \in {21, 24, 25}
  BY <1>1, EndingRules
<1>3. /\ i = 21 => "waiting_room_required" \in Mentions(b)
      /\ i = 24 => "session_superseded" \in Mentions(b)
      /\ i = 25 => SessionEnding \cap Mentions(b) # {}
  BY <1>1, EndingRules
<1> QED
  BY <1>2, <1>3

(***************************************************************************)
(* What an attempt does about a class                                      *)
(***************************************************************************)

LEMMA ReactionDrops ==
  /\ Reaction("SessionInvalid") = "session" /\ Reaction("WaitingRoomRequired") = "session"
  /\ Reaction("SessionSuperseded") = "superseded"
  /\ \A class : Reaction(class) \in {"session", "superseded"}
                => class \in {"SessionInvalid", "WaitingRoomRequired", "SessionSuperseded"}
<1> DEFINE is(class, c) == c \in Kin(class)
           arms(class) == <<
             <<is(class, "LimitedIp"),                                            "unfit">>,
             <<is(class, "SessionInvalid") \/ is(class, "WaitingRoomRequired"),   "session">>,
             <<is(class, "WaitingRoom") \/ is(class, "SessionLimit"),             "none">>,
             <<is(class, "SessionSuperseded"),                                    "superseded">>,
             <<is(class, "RunInvalid"),                                           "run">>,
             <<is(class, "Ban"),                                                  "ban">>,
             <<TRUE,                                                              "none">> >>
<1>1. \A class : Reaction(class) = FirstArm(arms(class))
  BY DEF Reaction
<1>2. ASSUME NEW class
      PROVE  /\ DOMAIN arms(class) = 1 .. 7 /\ arms(class)[7][1]
             /\ arms(class)[1][2] = "unfit" /\ arms(class)[2][2] = "session" /\ arms(class)[3][2] = "none"
             /\ arms(class)[4][2] = "superseded" /\ arms(class)[5][2] = "run" /\ arms(class)[6][2] = "ban"
             /\ arms(class)[7][2] = "none"
             /\ arms(class)[1][1] <=> ("LimitedIp" \in Kin(class))
             /\ arms(class)[2][1] <=> ("SessionInvalid" \in Kin(class) \/ "WaitingRoomRequired" \in Kin(class))
             /\ arms(class)[3][1] <=> ("WaitingRoom" \in Kin(class) \/ "SessionLimit" \in Kin(class))
             /\ arms(class)[4][1] <=> ("SessionSuperseded" \in Kin(class))
  <2>1. DOMAIN arms(class) = 1 .. 7 /\ arms(class)[7][1]
    OBVIOUS
  <2>2. /\ arms(class)[1][2] = "unfit" /\ arms(class)[2][2] = "session" /\ arms(class)[3][2] = "none"
        /\ arms(class)[4][2] = "superseded" /\ arms(class)[5][2] = "run" /\ arms(class)[6][2] = "ban"
        /\ arms(class)[7][2] = "none"
    OBVIOUS
  <2>3. arms(class)[1][1] <=> ("LimitedIp" \in Kin(class))
    OBVIOUS
  <2>4. arms(class)[2][1] <=> ("SessionInvalid" \in Kin(class) \/ "WaitingRoomRequired" \in Kin(class))
    OBVIOUS
  <2>5. arms(class)[3][1] <=> ("WaitingRoom" \in Kin(class) \/ "SessionLimit" \in Kin(class))
    OBVIOUS
  <2>6. arms(class)[4][1] <=> ("SessionSuperseded" \in Kin(class))
    OBVIOUS
  <2> HIDE DEF arms
  <2> QED
    BY <2>1, <2>2, <2>3, <2>4, <2>5, <2>6
<1> HIDE DEF arms
<1>3. Kin("SessionInvalid") = {"SessionInvalid"} /\ Kin("WaitingRoomRequired") = {"WaitingRoomRequired"}
      /\ Kin("SessionSuperseded") = {"SessionSuperseded"}
  BY DEF Kin
<1>4. \A class : \A c \in {"SessionInvalid", "WaitingRoomRequired", "SessionSuperseded"} : c \in Kin(class) => class = c
  BY DEF Kin
<1>5. 7 \in Nat /\ 2 \in 1 .. 7 /\ 4 \in 1 .. 7
  OBVIOUS
<1>6. ASSUME NEW class \in {"SessionInvalid", "WaitingRoomRequired"} PROVE Reaction(class) = "session"
  <2>1. arms(class)[2][1] /\ \A j \in 1 .. (2 - 1) : ~arms(class)[j][1]
    BY <1>2, <1>3
  <2>2. DOMAIN arms(class) = 1 .. 7 /\ arms(class)[2][2] = "session"
    BY <1>2
  <2>3. FirstArm(arms(class)) = arms(class)[2][2]
    BY ONLY <1>5, <2>1, <2>2, FirstArmIs
  <2> QED
    BY <1>1, <2>2, <2>3
<1>7. Reaction("SessionSuperseded") = "superseded"
  <2>1. arms("SessionSuperseded")[4][1] /\ \A j \in 1 .. (4 - 1) : ~arms("SessionSuperseded")[j][1]
    BY <1>2, <1>3
  <2>2. DOMAIN arms("SessionSuperseded") = 1 .. 7 /\ arms("SessionSuperseded")[4][2] = "superseded"
    BY <1>2
  <2>3. FirstArm(arms("SessionSuperseded")) = arms("SessionSuperseded")[4][2]
    BY ONLY <1>5, <2>1, <2>2, FirstArmIs
  <2> QED
    BY <1>1, <2>2, <2>3
<1>8. ASSUME NEW class, Reaction(class) \in {"session", "superseded"}
      PROVE  class \in {"SessionInvalid", "WaitingRoomRequired", "SessionSuperseded"}
  <2>1. PICK i \in 1 .. 7 : arms(class)[i][1] /\ FirstArm(arms(class)) = arms(class)[i][2]
    <3>1. \E i \in 1 .. 7 : arms(class)[i][1]
      BY <1>2
    <3> QED
      BY <1>2, <1>5, <3>1, FirstArmHolds
  <2>2. i = 2 \/ i = 4
    BY <1>1, <1>2, <1>8, <2>1
  <2> QED
    BY <1>2, <1>4, <2>1, <2>2
<1> QED
  BY <1>6, <1>7, <1>8

Gates == {"waiting_room_required", "session_expired", "session_superseded", "session_model_mismatch",
          "session_limit_reached", "waiting_room_queued", "model_unavailable"}

\* An answer that mentions one gate code alone, and which rules it can meet.
GateAlone(s, b, c) == c \in Gates /\ s \in 409 .. 429 /\ Mentions(b) = {c}

LEMMA GateRules ==
  ASSUME NEW s, NEW b, NEW c, GateAlone(s, b, c)
  PROVE  /\ \A j \in 1 .. 26 : Rules(s, b)[j][1] => j \in {11, 20, 21, 24, 25}
         /\ Rules(s, b)[11][1] => c = "session_limit_reached"
         /\ Rules(s, b)[20][1] <=> c = "waiting_room_queued"
         /\ Rules(s, b)[21][1] <=> c = "waiting_room_required"
         /\ Rules(s, b)[24][1] <=> c = "session_superseded"
         /\ Rules(s, b)[25][1] <=> c \in {"session_expired", "session_model_mismatch"}
<1> DEFINE holds(j) == Rules(s, b)[j][1]
           M == Mentions(b)
<1>1. M = {c}
  BY DEF GateAlone
<1>2. s # 401 /\ s # 402 /\ s # 403 /\ s # 404 /\ s # 503 /\ s # 400
  BY DEF GateAlone
<1>3. /\ "deployment_outside_hours" # c /\ "free_mode_run_fanout" # c /\ "free_mode_capacity_deferred" # c
      /\ "turn_spend_limit" # c /\ "ip_capped" # c /\ "consent_required" # c /\ "first_tab_discount_changed" # c
      /\ "limited" # c /\ "free_mode_invalid_agent_model" # c
  BY DEF GateAlone, Gates
<1>4. /\ holds(1) => s = 403
      /\ holds(2) => "deployment_outside_hours" \in M
      /\ holds(3) => "free_mode_run_fanout" \in M
      /\ holds(4) => "free_mode_capacity_deferred" \in M
      /\ holds(5) => "turn_spend_limit" \in M
      /\ holds(6) => s \in {401, 402}
      /\ holds(7) => s = 401
      /\ holds(8) => s = 503
      /\ holds(9) => s = 402
      /\ holds(10) => s = 404
      /\ holds(12) => "consent_required" \in M
      /\ holds(13) => "first_tab_discount_changed" \in M
      /\ holds(14) => s = 403
      /\ holds(15) => s = 403
      /\ holds(16) => s = 403
      /\ holds(17) => s = 403
      /\ holds(18) => s = 403
      /\ holds(19) => "ip_capped" \in M
      /\ holds(22) => "limited" \in M
      /\ holds(23) => "free_mode_invalid_agent_model" \in M
      /\ holds(26) => s = 400
  <2>1. holds(1) => s = 403
    BY DEF Rules
  <2>2. holds(2) => "deployment_outside_hours" \in M
    BY DEF Rules
  <2>3. holds(3) => "free_mode_run_fanout" \in M
    BY DEF Rules
  <2>4. holds(4) => "free_mode_capacity_deferred" \in M
    BY DEF Rules
  <2>5. holds(5) => "turn_spend_limit" \in M
    BY DEF Rules
  <2>6. holds(6) => s \in {401, 402}
    BY DEF Rules
  <2>7. holds(7) => s = 401
    BY DEF Rules
  <2>8. holds(8) => s = 503
    BY DEF Rules
  <2>9. holds(9) => s = 402
    BY DEF Rules
  <2>10. holds(10) => s = 404
    BY DEF Rules
  <2>11. holds(12) => "consent_required" \in M
    BY DEF Rules
  <2>12. holds(13) => "first_tab_discount_changed" \in M
    BY DEF Rules
  <2>13. holds(14) => s = 403
    BY DEF Rules
  <2>14. holds(15) => s = 403
    BY DEF Rules
  <2>15. holds(16) => s = 403
    BY DEF Rules
  <2>16. holds(17) => s = 403
    BY DEF Rules
  <2>17. holds(18) => s = 403
    BY DEF Rules
  <2>18. holds(19) => "ip_capped" \in M
    BY DEF Rules
  <2>19. holds(22) => "limited" \in M
    BY DEF Rules
  <2>20. holds(23) => "free_mode_invalid_agent_model" \in M
    BY DEF Rules
  <2>21. holds(26) => s = 400
    BY DEF Rules
  <2> QED
    BY ONLY <2>1, <2>2, <2>3, <2>4, <2>5, <2>6, <2>7, <2>8, <2>9, <2>10, <2>11, <2>12,
       <2>13, <2>14, <2>15, <2>16, <2>17, <2>18, <2>19, <2>20, <2>21
<1>5. /\ holds(11) => "session_limit_reached" \in M
      /\ holds(20) <=> ("waiting_room_queued" \in M)
      /\ holds(21) <=> ("waiting_room_required" \in M)
      /\ holds(24) <=> ("session_superseded" \in M)
      /\ holds(25) <=> (SessionEnding \cap M # {})
  <2>1. holds(11) => "session_limit_reached" \in M
    BY DEF Rules
  <2>2. holds(20) <=> ("waiting_room_queued" \in M)
    BY DEF Rules
  <2>3. holds(21) <=> ("waiting_room_required" \in M)
    BY DEF Rules
  <2>4. holds(24) <=> ("session_superseded" \in M)
    BY DEF Rules
  <2>5. holds(25) <=> (SessionEnding \cap M # {})
    BY DEF Rules
  <2> QED
    BY ONLY <2>1, <2>2, <2>3, <2>4, <2>5
<1> HIDE DEF holds, M
<1>6. \A j \in 1 .. 26 : holds(j) => j \in {11, 20, 21, 24, 25}
  <2>1. \A j \in 1 .. 26 : \/ j \in {11, 20, 21, 24, 25}
                           \/ j = 1 \/ j = 2 \/ j = 3 \/ j = 4 \/ j = 5 \/ j = 6 \/ j = 7 \/ j = 8 \/ j = 9 \/ j = 10
                           \/ j = 12 \/ j = 13 \/ j = 14 \/ j = 15 \/ j = 16 \/ j = 17 \/ j = 18 \/ j = 19 \/ j = 22 \/ j = 23
                           \/ j = 26
    OBVIOUS
  <2>2. /\ ~holds(1) /\ ~holds(6) /\ ~holds(7) /\ ~holds(8) /\ ~holds(9) /\ ~holds(10)
        /\ ~holds(14) /\ ~holds(15) /\ ~holds(16) /\ ~holds(17) /\ ~holds(18) /\ ~holds(26)
    BY ONLY <1>2, <1>4
  <2>3. /\ ~holds(2) /\ ~holds(3) /\ ~holds(4) /\ ~holds(5) /\ ~holds(19)
        /\ ~holds(12) /\ ~holds(13) /\ ~holds(22) /\ ~holds(23)
    BY ONLY <1>1, <1>3, <1>4
  <2> QED
    BY ONLY <2>1, <2>2, <2>3
<1>7. /\ holds(11) => c = "session_limit_reached"
      /\ holds(20) <=> c = "waiting_room_queued"
      /\ holds(21) <=> c = "waiting_room_required"
      /\ holds(24) <=> c = "session_superseded"
  BY ONLY <1>1, <1>5
<1>8. holds(25) <=> c \in {"session_expired", "session_model_mismatch"}
  <2>1. SessionEnding \cap M # {} <=> c \in SessionEnding
    BY ONLY <1>1
  <2>2. c \in SessionEnding <=> c \in {"session_expired", "session_model_mismatch"}
    BY DEF SessionEnding, GateAlone, Gates
  <2> QED
    BY ONLY <1>5, <2>1, <2>2
<1> QED
  BY ONLY <1>6, <1>7, <1>8 DEF holds

EndingGates == {"waiting_room_required", "session_superseded", "session_expired", "session_model_mismatch"}

\* The table of gate codes, read code by code.
LEMMA GateTable ==
  ASSUME NEW g \in GateCodes
  PROVE  g.code \in Gates /\ g.status \in 409 .. 429 /\ (g.ends <=> g.code \in EndingGates)
<1>1. CASE g = [code |-> "waiting_room_required", status |-> 428, ends |-> TRUE]
  <2>1. g.code = "waiting_room_required" /\ g.status = 428 /\ (g.ends <=> TRUE)
    BY <1>1
  <2> QED
    BY ONLY <2>1 DEF Gates, EndingGates
<1>2. CASE g = [code |-> "session_expired", status |-> 410, ends |-> TRUE]
  <2>1. g.code = "session_expired" /\ g.status = 410 /\ (g.ends <=> TRUE)
    BY <1>2
  <2> QED
    BY ONLY <2>1 DEF Gates, EndingGates
<1>3. CASE g = [code |-> "session_superseded", status |-> 409, ends |-> TRUE]
  <2>1. g.code = "session_superseded" /\ g.status = 409 /\ (g.ends <=> TRUE)
    BY <1>3
  <2> QED
    BY ONLY <2>1 DEF Gates, EndingGates
<1>4. CASE g = [code |-> "session_model_mismatch", status |-> 409, ends |-> TRUE]
  <2>1. g.code = "session_model_mismatch" /\ g.status = 409 /\ (g.ends <=> TRUE)
    BY <1>4
  <2> QED
    BY ONLY <2>1 DEF Gates, EndingGates
<1>5. CASE g = [code |-> "session_limit_reached", status |-> 409, ends |-> FALSE]
  <2>1. g.code = "session_limit_reached" /\ g.status = 409 /\ (g.ends <=> FALSE)
    BY <1>5
  <2> QED
    BY ONLY <2>1 DEF Gates, EndingGates
<1>6. CASE g = [code |-> "waiting_room_queued", status |-> 429, ends |-> FALSE]
  <2>1. g.code = "waiting_room_queued" /\ g.status = 429 /\ (g.ends <=> FALSE)
    BY <1>6
  <2> QED
    BY ONLY <2>1 DEF Gates, EndingGates
<1>7. CASE g = [code |-> "model_unavailable", status |-> 410, ends |-> FALSE]
  <2>1. g.code = "model_unavailable" /\ g.status = 410 /\ (g.ends <=> FALSE)
    BY <1>7
  <2> QED
    BY ONLY <2>1 DEF Gates, EndingGates
<1> QED
  BY <1>1, <1>2, <1>3, <1>4, <1>5, <1>6, <1>7 DEF GateCodes

\* The gate codes that end a session are those the attempt drops it for.
LEMMA GateClasses ==
  ASSUME NEW b, NEW c \in Gates, NEW s \in 409 .. 429, b = {c}
  PROVE  Reaction(classifyError(s, b)) \in {"session", "superseded"} <=> c \in EndingGates
<1> DEFINE rules == Rules(s, b)
<1>2. DOMAIN rules = 1 .. 28 /\ 28 \in Nat /\ 21 \in 1 .. 28 /\ 24 \in 1 .. 28 /\ 25 \in 1 .. 28
  BY EndingRules
<1>3. rules[21][2] = "WaitingRoomRequired" /\ rules[24][2] = "SessionSuperseded" /\ rules[25][2] = "SessionInvalid"
  BY DEF Rules
<1>4. /\ \A j \in 1 .. 26 : rules[j][1] => j \in {11, 20, 21, 24, 25}
      /\ rules[11][1] => c = "session_limit_reached"
      /\ rules[20][1] <=> c = "waiting_room_queued"
      /\ rules[21][1] <=> c = "waiting_room_required"
      /\ rules[24][1] <=> c = "session_superseded"
      /\ rules[25][1] <=> c \in {"session_expired", "session_model_mismatch"}
  <2>1. GateAlone(s, b, c)
    BY DEF GateAlone, Mentions, Within, Gates
  <2> QED
    BY ONLY <2>1, GateRules
<1> HIDE DEF rules
<1>6. CASE c = "waiting_room_required"
  <2>1. rules[21][1] /\ \A j \in 1 .. (21 - 1) : ~rules[j][1]
    BY <1>4, <1>6
  <2>2. FirstArm(rules) = rules[21][2]
    BY ONLY <1>2, <2>1, FirstArmIs
  <2> QED
    BY <1>3, <1>6, <2>2, ReactionDrops DEF classifyError, rules, EndingGates
<1>7. CASE c = "session_superseded"
  <2>1. rules[24][1] /\ \A j \in 1 .. (24 - 1) : ~rules[j][1]
    BY <1>4, <1>7
  <2>2. FirstArm(rules) = rules[24][2]
    BY ONLY <1>2, <2>1, FirstArmIs
  <2> QED
    BY <1>3, <1>7, <2>2, ReactionDrops DEF classifyError, rules, EndingGates
<1>8. CASE c \in {"session_expired", "session_model_mismatch"}
  <2>1. rules[25][1] /\ \A j \in 1 .. (25 - 1) : ~rules[j][1]
    BY <1>4, <1>8
  <2>2. FirstArm(rules) = rules[25][2]
    BY ONLY <1>2, <2>1, FirstArmIs
  <2> QED
    BY <1>3, <1>8, <2>2, ReactionDrops DEF classifyError, rules, EndingGates
<1>9. CASE c \in {"session_limit_reached", "waiting_room_queued", "model_unavailable"}
  <2>1. c \notin EndingGates
    BY <1>9 DEF EndingGates
  <2>2. ~rules[21][1] /\ ~rules[24][1] /\ ~rules[25][1]
    BY <1>4, <1>9
  <2>3. ASSUME Reaction(classifyError(s, b)) \in {"session", "superseded"} PROVE FALSE
    <3>1. PICK i \in 1 .. 28 : rules[i][1] /\ FirstArm(rules) = rules[i][2]
      <4>1. \E i \in 1 .. 28 : rules[i][1]
        BY EndingRules DEF rules
      <4> QED
        BY <1>2, <4>1, FirstArmHolds
    <3>2. rules[i][2] \in {"SessionInvalid", "WaitingRoomRequired", "SessionSuperseded"}
      BY <2>3, <3>1, ReactionDrops DEF classifyError, rules, EndingGates
    <3>3. i \in {21, 24, 25}
      BY <3>2, EndingRules DEF rules
    <3> QED
      BY <2>2, <3>1, <3>3
  <2> QED
    BY <2>1, <2>3
<1> QED
  BY <1>6, <1>7, <1>8, <1>9 DEF Gates

(***************************************************************************)
(* The invariant of the requests                                           *)
(***************************************************************************)

Fields == {"pc", "cred", "tools", "view", "lane", "lease", "stage", "queued", "rooms", "gone",
           "error", "answer", "ran", "got"}

\* Whom a pinned configuration lets in: the test of the auth wrapper.
Admitted(q) ==
  \/ q.view.keys = {} \/ BridgeMode(q.view) \/ HybridBridgeMode(q.view) \/ authorized(q.view, q.cred)

\* What holds of a request at each point of its way: a holder has a run, the
\* view it was let in with allows its lane, and a refusal is classed by its answer.
Sound(q) ==
  /\ DOMAIN q = Fields
  /\ q.pc \in {"chat", "relay", "release"} => q.lease.run \in Ids
  /\ q.pc = "route" => Admitted(q)
  /\ q.pc \notin {"idle", "route", "done"} /\ q.lane = "pool" => q.view.keys = {} \/ authorized(q.view, q.cred)
  /\ q.pc \notin {"release", "invalidate"} => q.got = <<>>
  /\ q.got # <<>> => q.error = classifyError(q.got[1], q.got[2])

RequestsSound == DOMAIN request = Requests /\ \A r \in Requests : Sound(request[r])

PoolShaped == riders \in [Ids -> Nat] /\ DOMAIN instance = Lanes /\ clock \in Nat

EngineInv == RequestsSound /\ PoolShaped /\ LeaseGivenBackOnce

\* A request holds a lease on the run u.
Holds(q, u) == q.lease.run # 0 /\ q.pc \in {"chat", "relay", "release"} /\ q.lease.run = u

Holders(u) == {r \in Requests : Holds(request[r], u)}

LEMMA HoldersCounted ==
  LeaseGivenBackOnce <=> \A u \in Ids : riders[u] = Cardinality(Holders(u))
<1>1. \A u : Holders(u) = {r \in Requests : Holding(r) /\ request[r].lease.run = u}
  BY DEF Holders, Holds, Holding
<1> QED
  BY <1>1 DEF LeaseGivenBackOnce

LEMMA HoldersCountedNext ==
  LeaseGivenBackOnce' <=> \A u \in Ids : riders'[u] = Cardinality(Holders(u)')
<1>1. \A u : Holders(u)' = {r \in Requests : Holding(r)' /\ request'[r].lease.run = u}
  BY DEF Holders, Holds, Holding
<1> QED
  BY <1>1 DEF LeaseGivenBackOnce

\* The holders of a run are finitely many.
LEMMA HoldersFinite ==
  ASSUME NEW u
  PROVE  IsFiniteSet(Holders(u)) /\ IsFiniteSet(Holders(u)') /\ Holders(u) \subseteq Requests
<1>1. Holders(u) \subseteq Requests /\ Holders(u)' \subseteq Requests
  BY DEF Holders
<1> QED
  BY <1>1, EngineAssumption, FS_Subset DEF EngineAssumption

(***************************************************************************)
(* One request moves                                                       *)
(***************************************************************************)

\* It holds what it held: the counts stay.
Stays(r, q) == riders' = riders /\ \A u \in Ids : Holds(q, u) <=> Holds(request[r], u)

\* It takes a lease: one more on its run.
Takes(r, q) ==
  \E u \in Ids : /\ riders' = [riders EXCEPT ![u] = @ + 1]
                 /\ \A w \in Ids : ~Holds(request[r], w) /\ (Holds(q, w) <=> w = u)

\* It gives its lease back: one fewer on its run.
Gives(r, q) ==
  \E u \in Ids : /\ riders' = [riders EXCEPT ![u] = @ - 1]
                 /\ \A w \in Ids : ~Holds(q, w) /\ (Holds(request[r], w) <=> w = u)

Moves(r, q) == Update(r, q) /\ Sound(q) /\ (Stays(r, q) \/ Takes(r, q) \/ Gives(r, q))

LEMMA Moved ==
  ASSUME EngineInv, NEW r \in Requests, NEW q, Moves(r, q)
  PROVE  /\ request'[r] = q /\ \A o \in Requests \ {r} : request'[o] = request[o]
         /\ RequestsSound'
         /\ \A u : Holders(u)' = IF Holds(q, u) THEN Holders(u) \cup {r} ELSE Holders(u) \ {r}
<1>1. DOMAIN request = Requests /\ request' = [request EXCEPT ![r] = q]
  BY DEF EngineInv, RequestsSound, Moves, Update
<1>2. request'[r] = q /\ \A o \in Requests \ {r} : request'[o] = request[o]
  BY <1>1
<1>3. DOMAIN request' = Requests
  BY <1>1
<1>4. RequestsSound'
  <2>1. ASSUME NEW o \in Requests PROVE Sound(request'[o])
    <3>1. Sound(q) /\ Sound(request[o])
      BY DEF EngineInv, RequestsSound, Moves
    <3>2. CASE o = r
      BY <1>2, <3>1, <3>2
    <3>3. CASE o # r
      <4>1. request'[o] = request[o]
        BY <1>2, <3>3
      <4> QED
        BY <3>1, <4>1
    <3> QED
      BY <3>2, <3>3
  <2>2. ASSUME NEW o \in Requests PROVE Sound(request[o])'
    BY <2>1 DEF Sound, Admitted
  <2> QED
    BY <1>3, <2>2 DEF RequestsSound
<1>5. ASSUME NEW u
      PROVE  Holders(u)' = IF Holds(q, u) THEN Holders(u) \cup {r} ELSE Holders(u) \ {r}
  <2>1. Holders(u)' = {o \in Requests : Holds(request'[o], u)}
    BY DEF Holders, Holds
  <2>2. \A o \in Requests : Holds(request'[o], u) <=> IF o = r THEN Holds(q, u) ELSE Holds(request[o], u)
    BY <1>2
  <2> QED
    BY <2>1, <2>2 DEF Holders
<1> QED
  BY <1>2, <1>4, <1>5

LEMMA MovesCount ==
  ASSUME EngineInv, NEW r \in Requests, NEW q, Moves(r, q)
  PROVE  riders' \in [Ids -> Nat] /\ LeaseGivenBackOnce'
<1>1. riders \in [Ids -> Nat] /\ \A u \in Ids : riders[u] = Cardinality(Holders(u))
  BY HoldersCounted DEF EngineInv, PoolShaped
<1>2. \A u : Holders(u)' = IF Holds(q, u) THEN Holders(u) \cup {r} ELSE Holders(u) \ {r}
  BY Moved
<1>3. \A u : r \in Holders(u) <=> Holds(request[r], u)
  BY DEF Holders
<1>4. \A u : IsFiniteSet(Holders(u)) /\ Cardinality(Holders(u)) \in Nat
  BY HoldersFinite, FS_CardinalityType
<1>5. CASE Stays(r, q)
  <2>1. riders' = riders /\ \A u \in Ids : Holders(u)' = Holders(u)
    BY <1>2, <1>3, <1>5 DEF Stays
  <2> QED
    BY <1>1, <2>1, HoldersCountedNext
<1>6. CASE Takes(r, q)
  <2>1. PICK u \in Ids : /\ riders' = [riders EXCEPT ![u] = @ + 1]
                         /\ \A w \in Ids : ~Holds(request[r], w) /\ (Holds(q, w) <=> w = u)
    BY <1>6 DEF Takes
  <2>2. \A w \in Ids : w # u => Holders(w)' = Holders(w)
    BY <1>2, <1>3, <2>1
  <2>3. Holders(u)' = Holders(u) \cup {r} /\ r \notin Holders(u)
    BY <1>2, <1>3, <2>1
  <2>4. Cardinality(Holders(u)') = Cardinality(Holders(u)) + 1
    BY <1>4, <2>3, FS_AddElement
  <2>5. riders' \in [Ids -> Nat] /\ \A w \in Ids : riders'[w] = IF w = u THEN riders[w] + 1 ELSE riders[w]
    BY <1>1, <2>1
  <2>6. \A w \in Ids : riders'[w] = Cardinality(Holders(w)')
    BY <1>1, <2>2, <2>4, <2>5
  <2> QED
    BY <2>5, <2>6, HoldersCountedNext
<1>7. CASE Gives(r, q)
  <2>1. PICK u \in Ids : /\ riders' = [riders EXCEPT ![u] = @ - 1]
                         /\ \A w \in Ids : ~Holds(q, w) /\ (Holds(request[r], w) <=> w = u)
    BY <1>7 DEF Gives
  <2>2. \A w \in Ids : w # u => Holders(w)' = Holders(w)
    BY <1>2, <1>3, <2>1
  <2>3. Holders(u)' = Holders(u) \ {r} /\ r \in Holders(u)
    BY <1>2, <1>3, <2>1
  <2>4. Cardinality(Holders(u)') = Cardinality(Holders(u)) - 1 /\ Cardinality(Holders(u)') \in Nat
    BY <1>4, <2>3, HoldersFinite, FS_RemoveElement, FS_CardinalityType
  <2>5. riders[u] - 1 \in Nat
    BY <1>1, <2>4
  <2>6. riders' \in [Ids -> Nat] /\ \A w \in Ids : riders'[w] = IF w = u THEN riders[w] - 1 ELSE riders[w]
    BY <1>1, <2>1, <2>5
  <2>7. \A w \in Ids : riders'[w] = Cardinality(Holders(w)')
    BY <1>1, <2>2, <2>4, <2>6
  <2> QED
    BY <2>6, <2>7, HoldersCountedNext
<1> QED
  BY <1>5, <1>6, <1>7 DEF Moves

(***************************************************************************)
(* The steps of a request, each as such a move                             *)
(***************************************************************************)

\* An answered request is a blank one: it holds nothing and nothing is asked of it.
LEMMA EndMoves ==
  ASSUME NEW r \in Requests, NEW answer, End(r, answer)
  PROVE  \E q : Update(r, q) /\ Sound(q) /\ q.pc = "done" /\ \A u : ~Holds(q, u)
<1> DEFINE q == [Blank(NoCredential, FALSE) EXCEPT
                   !.pc = "done", !.answer = answer, !.error = request[r].error, !.ran = request[r].ran]
<1>1. Update(r, q)
  BY DEF End, Update
<1>2. DOMAIN q = Fields /\ q.pc = "done" /\ q.got = <<>>
  BY DEF Blank, Fields
<1> HIDE DEF q
<1>3. Sound(q) /\ \A u : ~Holds(q, u)
  BY <1>2 DEF Sound, Holds
<1> QED
  BY <1>1, <1>2, <1>3

\* The request as it is, of the invariant.
LEMMA SoundNow ==
  ASSUME EngineInv, NEW r \in Requests
  PROVE  Sound(request[r]) /\ riders \in [Ids -> Nat]
BY DEF EngineInv, RequestsSound, PoolShaped

LEMMA RequireAuthMoves ==
  ASSUME EngineInv, NEW r \in Requests, requireAuth(r)
  PROVE  \E q : Moves(r, q)
<1>1. request[r].pc = "idle" /\ riders' = riders
  BY DEF requireAuth, poolState
<1>2. \A u : ~Holds(request[r], u)
  BY <1>1 DEF Holds
<1> DEFINE admits == config.keys = {} \/ BridgeMode(config) \/ HybridBridgeMode(config)
                     \/ authorized(config, request[r].cred)
<1>3. CASE admits
  <2>1. PICK q : q = [request[r] EXCEPT !.pc = "route", !.view = config]
    OBVIOUS
  <2>2. Update(r, q)
    BY <1>3, <2>1 DEF requireAuth
  <2>3. Sound(request[r])
    BY SoundNow
  <2>4. /\ DOMAIN q = Fields /\ q.pc = "route" /\ q.view = config /\ q.cred = request[r].cred
        /\ q.got = request[r].got /\ q.error = request[r].error
    BY <2>1, <2>3 DEF Sound, Fields
  <2>5. Admitted(q)
    BY <1>3, <2>4 DEF Admitted
  <2>6. Sound(q) /\ \A u : ~Holds(q, u)
    BY <1>1, <2>3, <2>4, <2>5 DEF Sound, Holds
  <2> QED
    BY <1>1, <1>2, <2>2, <2>6 DEF Moves, Stays
<1>4. CASE ~admits
  <2>1. End(r, "invalid_api_key")
    BY <1>4 DEF requireAuth
  <2> QED
    BY <1>1, <1>2, <2>1, EndMoves DEF Moves, Stays
<1> QED
  BY <1>3, <1>4

\* The pinned view that let the request in sends it to the pool only with a key.
LEMMA RouteMoves ==
  ASSUME EngineInv, NEW r \in Requests, Route(r)
  PROVE  \E q : Moves(r, q)
<1> DEFINE c == request[r].view
           cred == request[r].cred
           lacking == cred = NoCredential /\ (BridgeMode(c) \/ (HybridBridgeMode(c) /\ c.keys # {}))
           foreign == HybridBridgeMode(c) /\ cred # NoCredential /\ c.keys # {} /\ ~authorized(c, cred)
<1>1. request[r].pc = "route" /\ riders' = riders
  BY DEF Route, RouteBy, poolState
<1>2. \A u : ~Holds(request[r], u)
  BY <1>1 DEF Holds
<1>3. CASE lacking
  <2>1. End(r, "missing_bearer_token")
    BY <1>3 DEF Route, RouteBy
  <2> QED
    BY <1>1, <1>2, <2>1, EndMoves DEF Moves, Stays
<1>4. CASE ~lacking
  <2>1. PICK q : q = [request[r] EXCEPT !.pc = "acquire", !.lane = IF BridgeMode(c) \/ foreign THEN "bridge" ELSE "pool"]
    OBVIOUS
  <2>2. Update(r, q)
    BY <1>4, <2>1 DEF Route, RouteBy
  <2>3. Sound(request[r])
    BY SoundNow
  <2>4. /\ DOMAIN q = Fields /\ q.pc = "acquire" /\ q.view = c /\ q.cred = cred
        /\ q.got = request[r].got /\ q.error = request[r].error
        /\ q.lane = "pool" => ~BridgeMode(c) /\ ~foreign
    BY <2>1, <2>3 DEF Sound, Fields
  <2>5. c.keys = {} \/ BridgeMode(c) \/ HybridBridgeMode(c) \/ authorized(c, cred)
    BY <1>1, <2>3 DEF Sound, Admitted
  <2>6. q.lane = "pool" => c.keys = {} \/ authorized(c, cred)
    BY <1>4, <2>4, <2>5
  <2>7. Sound(q) /\ \A u : ~Holds(q, u)
    BY <1>1, <2>3, <2>4, <2>6 DEF Sound, Holds
  <2> QED
    BY <1>1, <1>2, <2>2, <2>7 DEF Moves, Stays
<1> QED
  BY <1>3, <1>4

LEMMA AcquireLeaseMoves ==
  ASSUME EngineInv, NEW r \in Requests, AcquireLease(r)
  PROVE  \E q : Moves(r, q)
<1>1. request[r].pc = "acquire" /\ ~request[r].gone
  BY DEF AcquireLease
<1>2. PICK u \in Ids, i \in Ids :
        /\ riders' = [riders EXCEPT ![u] = @ + 1]
        /\ Update(r, [request[r] EXCEPT !.pc = "chat", !.lease = [run |-> u, instance |-> i, at |-> clock'],
                                         !.queued = 0, !.rooms = 0, !.ran = u])
  BY DEF AcquireLease
<1>3. PICK q : q = [request[r] EXCEPT !.pc = "chat", !.lease = [run |-> u, instance |-> i, at |-> clock'],
                                       !.queued = 0, !.rooms = 0, !.ran = u]
  OBVIOUS
<1>4. Sound(request[r])
  BY SoundNow
<1>5. /\ DOMAIN q = Fields /\ q.pc = "chat" /\ q.view = request[r].view /\ q.cred = request[r].cred
      /\ q.got = request[r].got /\ q.error = request[r].error /\ q.lane = request[r].lane
      /\ q.lease = [run |-> u, instance |-> i, at |-> clock']
  BY <1>3, <1>4 DEF Sound, Fields
<1>6. q.lease.run = u /\ u # 0
  BY <1>5 DEF Ids
<1>7. Sound(q)
  BY <1>1, <1>4, <1>5, <1>6 DEF Sound
<1>8. \A w \in Ids : ~Holds(request[r], w) /\ (Holds(q, w) <=> w = u)
  BY <1>1, <1>5, <1>6 DEF Holds
<1>9. Update(r, q) /\ Takes(r, q)
  BY <1>2, <1>3, <1>8 DEF Takes
<1> QED
  BY <1>7, <1>9 DEF Moves

\* Steps that leave lane, credential, view and lease alone, and end where no more
\* is asked of the request.
LEMMA QuietMoves ==
  ASSUME EngineInv, NEW r \in Requests, NEW q, Update(r, q), riders' = riders,
         DOMAIN q = Fields, q.view = request[r].view, q.cred = request[r].cred, q.lane = request[r].lane,
         request[r].pc \notin {"idle", "route", "done"}, q.pc \notin {"idle", "route", "done"},
         \/ /\ request[r].pc \in {"chat", "relay", "release"} /\ q.pc \in {"chat", "relay", "release"}
            /\ q.lease = request[r].lease
         \/ request[r].pc \notin {"chat", "relay", "release"} /\ q.pc \notin {"chat", "relay", "release"},
         q.got = <<>> \/ (q.pc \in {"release", "invalidate"} /\ q.error = classifyError(q.got[1], q.got[2]))
  PROVE  Moves(r, q)
<1>1. Sound(request[r])
  BY SoundNow
<1>2. Sound(q)
  BY <1>1 DEF Sound
<1>3. \A u : Holds(q, u) <=> Holds(request[r], u)
  BY DEF Holds
<1> QED
  BY <1>2, <1>3 DEF Moves, Stays

LEMMA AcquireRefusedMoves ==
  ASSUME EngineInv, NEW r \in Requests, AcquireRefused(r)
  PROVE  \E q : Moves(r, q)
<1>1. PICK q : q = [request[r] EXCEPT !.pc = "decide", !.error = IF request[r].gone THEN "Canceled" ELSE "RateLimit"]
  OBVIOUS
<1>2. Update(r, q) /\ request[r].pc = "acquire" /\ riders' = riders
  BY <1>1 DEF AcquireRefused, poolState
<1>3. Sound(request[r])
  BY SoundNow
<1>4. /\ DOMAIN q = Fields /\ q.pc = "decide" /\ q.view = request[r].view /\ q.cred = request[r].cred
      /\ q.lane = request[r].lane /\ q.got = request[r].got
  BY <1>1, <1>3 DEF Sound, Fields
<1>5. q.got = <<>>
  BY <1>2, <1>3, <1>4 DEF Sound
<1>6. Moves(r, q)
  BY <1>2, <1>4, <1>5, QuietMoves
<1> QED
  BY <1>6

LEMMA ChatServedMoves ==
  ASSUME EngineInv, NEW r \in Requests, ChatServed(r)
  PROVE  \E q : Moves(r, q) /\ q.pc = "relay"
<1>1. PICK q : q = [request[r] EXCEPT !.pc = "relay", !.error = "none"]
  OBVIOUS
<1>2. Update(r, q) /\ request[r].pc = "chat" /\ riders' = riders
  BY <1>1 DEF ChatServed
<1>3. Sound(request[r])
  BY SoundNow
<1>4. /\ DOMAIN q = Fields /\ q.pc = "relay" /\ q.view = request[r].view /\ q.cred = request[r].cred
      /\ q.lane = request[r].lane /\ q.got = request[r].got /\ q.lease = request[r].lease
  BY <1>1, <1>3 DEF Sound, Fields
<1>5. q.got = <<>>
  BY <1>2, <1>3, <1>4 DEF Sound
<1>6. Moves(r, q)
  BY <1>2, <1>4, <1>5, QuietMoves
<1> QED
  BY <1>4, <1>6

LEMMA ChatQueuedMoves ==
  ASSUME EngineInv, NEW r \in Requests, ChatQueued(r)
  PROVE  \E q : Moves(r, q)
<1>1. PICK n : Update(r, [request[r] EXCEPT !.queued = @ + 1, !.rooms = @ + n])
  BY DEF ChatQueued
<1>2. PICK q : q = [request[r] EXCEPT !.queued = @ + 1, !.rooms = @ + n]
  OBVIOUS
<1>3. Update(r, q) /\ request[r].pc = "chat" /\ riders' = riders
  BY <1>1, <1>2 DEF ChatQueued, poolState
<1>4. Sound(request[r])
  BY SoundNow
<1>5. /\ DOMAIN q = Fields /\ q.pc = "chat" /\ q.view = request[r].view /\ q.cred = request[r].cred
      /\ q.lane = request[r].lane /\ q.got = request[r].got /\ q.lease = request[r].lease
  BY <1>2, <1>3, <1>4 DEF Sound, Fields
<1>6. q.got = <<>>
  BY <1>3, <1>4, <1>5 DEF Sound
<1>7. Moves(r, q)
  BY <1>3, <1>5, <1>6, QuietMoves
<1> QED
  BY <1>7

\* A refusal is kept with the answer it was made of; a lost connection has none.
LEMMA ChatRefusedMoves ==
  ASSUME EngineInv, NEW r \in Requests, ChatRefused(r)
  PROVE  \E q : Moves(r, q)
<1>1. request[r].pc = "chat" /\ riders' = riders
  BY DEF ChatRefused
<1>2. Sound(request[r])
  BY SoundNow
<1>3. CASE \E a \in says : Update(r, [request[r] EXCEPT !.pc = "release", !.error = classifyError(a[1], a[2]), !.got = a])
  <2>1. PICK a \in says :
          Update(r, [request[r] EXCEPT !.pc = "release", !.error = classifyError(a[1], a[2]), !.got = a])
    BY <1>3
  <2>2. PICK q : q = [request[r] EXCEPT !.pc = "release", !.error = classifyError(a[1], a[2]), !.got = a]
    OBVIOUS
  <2>3. Update(r, q)
    BY <2>1, <2>2
  <2>4. /\ DOMAIN q = Fields /\ q.pc = "release" /\ q.view = request[r].view /\ q.cred = request[r].cred
        /\ q.lane = request[r].lane /\ q.got = a /\ q.error = classifyError(a[1], a[2])
        /\ q.lease = request[r].lease
    BY <1>2, <2>2 DEF Sound, Fields
  <2>5. q.error = classifyError(q.got[1], q.got[2])
    BY <2>4
  <2>6. Moves(r, q)
    BY <1>1, <2>3, <2>4, <2>5, QuietMoves
  <2> QED
    BY <2>6
<1>4. CASE Update(r, [request[r] EXCEPT !.pc = "release", !.error = IF request[r].gone THEN "Canceled" ELSE "Transport"])
  <2>1. PICK q : q = [request[r] EXCEPT !.pc = "release", !.error = IF request[r].gone THEN "Canceled" ELSE "Transport"]
    OBVIOUS
  <2>2. Update(r, q)
    BY <1>4, <2>1
  <2>3. /\ DOMAIN q = Fields /\ q.pc = "release" /\ q.view = request[r].view /\ q.cred = request[r].cred
        /\ q.lane = request[r].lane /\ q.got = request[r].got /\ q.lease = request[r].lease
    BY <1>2, <2>1 DEF Sound, Fields
  <2>4. q.got = <<>>
    BY <1>1, <1>2, <2>3 DEF Sound
  <2>5. Moves(r, q)
    BY <1>1, <2>2, <2>3, <2>4, QuietMoves
  <2> QED
    BY <2>5
<1> QED
  BY <1>3, <1>4 DEF ChatRefused

\* A lease that goes back is taken off the count of its run.
LEMMA GivenBack ==
  ASSUME EngineInv, NEW r \in Requests, NEW q, GiveBack(r), request[r].pc \in {"chat", "relay", "release"},
         \A u : ~Holds(q, u)
  PROVE  Gives(r, q)
<1> DEFINE u == request[r].lease.run
<1>1. u \in Ids /\ u # 0
  BY SoundNow DEF Sound, Ids
<1>2. riders' = [riders EXCEPT ![u] = @ - 1]
  BY DEF GiveBack
<1>3. \A w \in Ids : Holds(request[r], w) <=> w = u
  BY <1>1 DEF Holds
<1> QED
  BY <1>1, <1>2, <1>3 DEF Gives

LEMMA ReleaseMoves ==
  ASSUME EngineInv, NEW r \in Requests, Release(r)
  PROVE  \E q : Moves(r, q)
<1>1. PICK q : q = [request[r] EXCEPT !.pc = "invalidate"]
  OBVIOUS
<1>2. Update(r, q) /\ request[r].pc = "release" /\ GiveBack(r)
  BY <1>1 DEF Release
<1>3. Sound(request[r])
  BY SoundNow
<1>4. /\ DOMAIN q = Fields /\ q.pc = "invalidate" /\ q.view = request[r].view /\ q.cred = request[r].cred
      /\ q.lane = request[r].lane /\ q.got = request[r].got /\ q.error = request[r].error
  BY <1>1, <1>3 DEF Sound, Fields
<1>5. Sound(q) /\ \A u : ~Holds(q, u)
  BY <1>2, <1>3, <1>4 DEF Sound, Holds
<1>6. Gives(r, q)
  BY <1>2, <1>5, GivenBack
<1> QED
  BY <1>2, <1>5, <1>6 DEF Moves

LEMMA InvalidateMoves ==
  ASSUME EngineInv, NEW r \in Requests, Invalidate(r)
  PROVE  \E q : Moves(r, q)
<1>1. PICK q : q = [request[r] EXCEPT !.pc = "decide", !.lease = NoLease, !.got = <<>>]
  OBVIOUS
<1>2. Update(r, q) /\ request[r].pc = "invalidate" /\ riders' = riders
  BY <1>1 DEF Invalidate
<1>3. Sound(request[r])
  BY SoundNow
<1>4. /\ DOMAIN q = Fields /\ q.pc = "decide" /\ q.view = request[r].view /\ q.cred = request[r].cred
      /\ q.lane = request[r].lane /\ q.got = <<>>
  BY <1>1, <1>3 DEF Sound, Fields
<1>5. Moves(r, q)
  BY <1>2, <1>4, QuietMoves
<1> QED
  BY <1>5

LEMMA AgainMoves ==
  ASSUME EngineInv, NEW r \in Requests, Again(r)
  PROVE  \E q : Moves(r, q)
<1>1. request[r].pc = "decide" /\ riders' = riders
  BY DEF Again, poolState
<1>2. Sound(request[r])
  BY SoundNow
<1>3. \E q : /\ Update(r, q)
             /\ DOMAIN q = Fields /\ q.pc = "acquire" /\ q.view = request[r].view /\ q.cred = request[r].cred
             /\ q.lane = request[r].lane /\ q.got = request[r].got
  <2>1. CASE Update(r, [request[r] EXCEPT !.pc = "acquire", !.stage = 2])
    <3>1. PICK q : q = [request[r] EXCEPT !.pc = "acquire", !.stage = 2]
      OBVIOUS
    <3>2. /\ DOMAIN q = Fields /\ q.pc = "acquire" /\ q.view = request[r].view /\ q.cred = request[r].cred
          /\ q.lane = request[r].lane /\ q.got = request[r].got
      BY <1>2, <3>1 DEF Sound, Fields
    <3> QED
      BY <2>1, <3>1, <3>2
  <2>2. CASE Update(r, [request[r] EXCEPT !.pc = "acquire", !.stage = 3, !.tools = FALSE])
    <3>1. PICK q : q = [request[r] EXCEPT !.pc = "acquire", !.stage = 3, !.tools = FALSE]
      OBVIOUS
    <3>2. /\ DOMAIN q = Fields /\ q.pc = "acquire" /\ q.view = request[r].view /\ q.cred = request[r].cred
          /\ q.lane = request[r].lane /\ q.got = request[r].got
      BY <1>2, <3>1 DEF Sound, Fields
    <3> QED
      BY <2>2, <3>1, <3>2
  <2> QED
    BY <2>1, <2>2 DEF Again
<1>4. PICK q : /\ Update(r, q)
               /\ DOMAIN q = Fields /\ q.pc = "acquire" /\ q.view = request[r].view /\ q.cred = request[r].cred
               /\ q.lane = request[r].lane /\ q.got = request[r].got
  BY <1>3
<1>5. q.got = <<>>
  BY <1>1, <1>2, <1>4 DEF Sound
<1>6. Moves(r, q)
  BY <1>1, <1>4, <1>5, QuietMoves
<1> QED
  BY <1>6

LEMMA FailMoves ==
  ASSUME EngineInv, NEW r \in Requests, Fail(r)
  PROVE  \E q : Moves(r, q)
<1>1. request[r].pc = "decide" /\ riders' = riders
  BY DEF Fail
<1>2. \E answer : End(r, answer)
  BY DEF Fail
<1>3. \A u : ~Holds(request[r], u)
  BY <1>1 DEF Holds
<1> QED
  BY <1>1, <1>2, <1>3, EndMoves DEF Moves, Stays

LEMMA RelayDoneMoves ==
  ASSUME EngineInv, NEW r \in Requests, RelayDone(r)
  PROVE  \E q : Moves(r, q)
<1>1. request[r].pc = "relay" /\ GiveBack(r) /\ End(r, "ok")
  BY DEF RelayDone
<1>2. PICK q : Update(r, q) /\ Sound(q) /\ \A u : ~Holds(q, u)
  BY <1>1, EndMoves
<1>3. Gives(r, q)
  BY <1>1, <1>2, GivenBack
<1> QED
  BY <1>2, <1>3 DEF Moves

LEMMA ClientGoneMoves ==
  ASSUME EngineInv, NEW r \in Requests, ClientGone(r)
  PROVE  \E q : Moves(r, q)
<1>1. PICK q : q = [request[r] EXCEPT !.gone = TRUE]
  OBVIOUS
<1>2. Update(r, q) /\ riders' = riders
  BY <1>1 DEF ClientGone, poolState
<1>3. Sound(request[r])
  BY SoundNow
<1>4. /\ DOMAIN q = Fields /\ q.pc = request[r].pc /\ q.view = request[r].view /\ q.cred = request[r].cred
      /\ q.lane = request[r].lane /\ q.got = request[r].got /\ q.error = request[r].error
      /\ q.lease = request[r].lease
  BY <1>1, <1>3 DEF Sound, Fields
<1>5. Sound(q) /\ \A u \in Ids : Holds(q, u) <=> Holds(request[r], u)
  BY <1>3, <1>4 DEF Sound, Holds, Admitted
<1> QED
  BY <1>2, <1>5 DEF Moves, Stays

(***************************************************************************)
(* The invariant holds                                                     *)
(***************************************************************************)

LEMMA EngineInvInit == EngineInit => EngineInv
<1> SUFFICES ASSUME EngineInit PROVE EngineInv
  OBVIOUS
<1>1. request \in [Requests -> {Blank(c, t) : c \in Credentials \cup {NoCredential}, t \in BOOLEAN}]
  BY DEF EngineInit
<1>2. ASSUME NEW r \in Requests PROVE Sound(request[r]) /\ \A u : ~Holds(request[r], u)
  <2>1. PICK c, t : request[r] = Blank(c, t)
    BY <1>1
  <2>2. PICK q : q = request[r]
    OBVIOUS
  <2>3. DOMAIN q = Fields /\ q.pc = "idle" /\ q.got = <<>>
    BY <2>1, <2>2 DEF Blank, Fields
  <2>4. Sound(q) /\ \A u : ~Holds(q, u)
    BY <2>3 DEF Sound, Holds
  <2> QED
    BY <2>2, <2>4
<1>3. RequestsSound
  BY <1>1, <1>2 DEF RequestsSound
<1>4. PoolShaped
  BY DEF EngineInit, PoolShaped
<1>5. LeaseGivenBackOnce
  <2>1. \A u : Holders(u) = {}
    BY <1>2 DEF Holders
  <2>2. \A u \in Ids : riders[u] = 0
    BY DEF EngineInit
  <2> QED
    BY <2>1, <2>2, HoldersCounted, FS_EmptySet
<1> QED
  BY <1>3, <1>4, <1>5 DEF EngineInv

\* What is shared keeps its shape in every step.
LEMMA SharedShape ==
  ASSUME EngineInv, EngineNext
  PROVE  DOMAIN instance' = Lanes /\ clock' \in Nat
<1>1. DOMAIN instance = Lanes /\ clock \in Nat
  BY DEF EngineInv, PoolShaped
<1>2. CASE ReloadConfig
  BY <1>1, <1>2 DEF ReloadConfig, poolState
<1>3. ASSUME NEW r \in Requests, requireAuth(r) \/ Route(r) \/ AcquireRefused(r) \/ ChatQueued(r) \/ Again(r) \/ ClientGone(r)
      PROVE  DOMAIN instance' = Lanes /\ clock' \in Nat
  BY <1>1, <1>3 DEF requireAuth, Route, RouteBy, AcquireRefused, ChatQueued, Again, ClientGone, poolState
<1>4. ASSUME NEW r \in Requests, Release(r) \/ Fail(r) \/ RelayDone(r) \/ ChatServed(r)
      PROVE  DOMAIN instance' = Lanes /\ clock' \in Nat
  BY <1>1, <1>4 DEF Release, Fail, RelayDone, ChatServed
<1>5. ASSUME NEW r \in Requests, AcquireLease(r) PROVE DOMAIN instance' = Lanes /\ clock' \in Nat
  BY <1>1, <1>5 DEF AcquireLease
<1>6. ASSUME NEW r \in Requests, ChatRefused(r) PROVE DOMAIN instance' = Lanes /\ clock' \in Nat
  <2>1. instance' = instance /\ (clock' = clock \/ clock' = clock + 1)
    BY <1>6 DEF ChatRefused
  <2> QED
    BY <1>1, <2>1
<1>7. ASSUME NEW r \in Requests, Invalidate(r) PROVE DOMAIN instance' = Lanes /\ clock' \in Nat
  BY <1>1, <1>7 DEF Invalidate, InvalidateInstance
<1> QED
  BY <1>2, <1>3, <1>4, <1>5, <1>6, <1>7 DEF EngineNext

\* Every step but a reload is a move of one request.
LEMMA StepMoves ==
  ASSUME EngineInv, EngineNext
  PROVE  ReloadConfig \/ \E r \in Requests : \E q : Moves(r, q)
<1>1. ASSUME NEW r \in Requests,
             \/ requireAuth(r) \/ Route(r) \/ AcquireLease(r) \/ AcquireRefused(r)
             \/ ChatServed(r) \/ ChatQueued(r) \/ ChatRefused(r) \/ Release(r) \/ Invalidate(r)
             \/ Again(r) \/ Fail(r) \/ RelayDone(r) \/ ClientGone(r)
      PROVE  \E q : Moves(r, q)
  BY <1>1, RequireAuthMoves, RouteMoves, AcquireLeaseMoves, AcquireRefusedMoves, ChatServedMoves, ChatQueuedMoves,
     ChatRefusedMoves, ReleaseMoves, InvalidateMoves, AgainMoves, FailMoves, RelayDoneMoves, ClientGoneMoves
<1> QED
  BY <1>1 DEF EngineNext

\* The invariant speaks of the requests and of what is shared, not of the
\* configuration that is live.
LEMMA EngineInvKept ==
  ASSUME EngineInv, UNCHANGED <<request, poolState>>
  PROVE  EngineInv'
<1>1. request' = request /\ riders' = riders /\ instance' = instance /\ clock' = clock
  BY DEF poolState
<1>2. RequestsSound'
  <2>1. ASSUME NEW r \in Requests PROVE Sound(request[r])'
    BY <1>1, SoundNow DEF Sound, Admitted
  <2> QED
    BY <1>1, <2>1 DEF RequestsSound, EngineInv
<1>3. PoolShaped'
  BY <1>1 DEF PoolShaped, EngineInv
<1>4. LeaseGivenBackOnce'
  BY <1>1 DEF LeaseGivenBackOnce, Holding, EngineInv
<1> QED
  BY <1>2, <1>3, <1>4 DEF EngineInv

LEMMA EngineInvNext == EngineInv /\ [EngineNext]_engineVars => EngineInv'
<1> SUFFICES ASSUME EngineInv, [EngineNext]_engineVars PROVE EngineInv'
  OBVIOUS
<1>1. CASE UNCHANGED engineVars
  BY <1>1, EngineInvKept DEF engineVars, poolState
<1>2. CASE ReloadConfig
  BY <1>2, EngineInvKept DEF ReloadConfig
<1>3. CASE EngineNext /\ \E r \in Requests : \E q : Moves(r, q)
  <2>1. PICK r \in Requests : \E q : Moves(r, q)
    BY <1>3
  <2>2. PICK q : Moves(r, q)
    BY <2>1
  <2>3. RequestsSound' /\ riders' \in [Ids -> Nat] /\ LeaseGivenBackOnce'
    BY <2>2, Moved, MovesCount
  <2>4. DOMAIN instance' = Lanes /\ clock' \in Nat
    BY <1>3, SharedShape
  <2> QED
    BY <2>3, <2>4 DEF EngineInv, PoolShaped
<1> QED
  BY <1>1, <1>2, <1>3, StepMoves

LEMMA EngineInvariant == EngineSpec => []EngineInv
BY EngineInvInit, EngineInvNext, PTL DEF EngineSpec

\* A request that must forget its session has an answer that says so, and one
\* that has such an answer forgets it.
LEMMA GatesSettled == EngineInv => SessionEndsWithGate
<1> SUFFICES ASSUME EngineInv, NEW r \in Requests, request[r].pc = "invalidate", request[r].got # <<>>
             PROVE  LET drops == Reaction(request[r].error) \in {"session", "superseded"}
                    IN /\ \A g \in GateCodes : request[r].got = <<g.status, {g.code}>> => (drops <=> g.ends)
                       /\ drops => Mentions(request[r].got[2])
                                     \cap (SessionEnding \cup {"waiting_room_required", "session_superseded"}) # {}
  BY Zenon DEF SessionEndsWithGate
<1> DEFINE got == request[r].got
           class == request[r].error
<1>1. class = classifyError(got[1], got[2])
  BY SoundNow DEF Sound
<1>2. ASSUME NEW g \in GateCodes, got = <<g.status, {g.code}>>
      PROVE  Reaction(class) \in {"session", "superseded"} <=> g.ends
  <2>1. g.code \in Gates /\ g.status \in 409 .. 429 /\ (g.ends <=> g.code \in EndingGates)
    BY GateTable
  <2>2. got[1] = g.status /\ got[2] = {g.code}
    BY <1>2
  <2>3. Reaction(classifyError(g.status, got[2])) \in {"session", "superseded"} <=> g.code \in EndingGates
    <3>1. PICK b, c, s : b = got[2] /\ c = g.code /\ s = g.status
      OBVIOUS
    <3>2. c \in Gates /\ s \in 409 .. 429 /\ b = {c}
      BY <2>1, <2>2, <3>1
    <3>3. Reaction(classifyError(s, b)) \in {"session", "superseded"} <=> c \in EndingGates
      BY ONLY <3>2, GateClasses
    <3> QED
      BY ONLY <3>1, <3>3
  <2>4. class = classifyError(g.status, got[2])
    BY <1>1, <2>2
  <2> QED
    BY <2>1, <2>3, <2>4
<1>3. ASSUME Reaction(class) \in {"session", "superseded"}
      PROVE  Mentions(got[2]) \cap (SessionEnding \cup {"waiting_room_required", "session_superseded"}) # {}
  <2>1. classifyError(got[1], got[2]) \in {"SessionInvalid", "WaitingRoomRequired", "SessionSuperseded"}
    BY <1>1, <1>3, ReactionDrops
  <2> QED
    BY <2>1, EndingClass
<1> QED
  BY <1>2, <1>3

LEMMA EngineInvSettles == EngineInv => RequestsSettled
<1>1. EngineInv => LeaseGivenBackOnce
  BY DEF EngineInv
<1>2. EngineInv => PoolOnlyForKeys
  BY SoundNow DEF PoolOnlyForKeys, Sound
<1> QED
  BY <1>1, <1>2, GatesSettled DEF RequestsSettled

\* Every lease is given back once and only once, nobody without a key is served
\* from the pool even across a reload, and an attempt drops its session exactly
\* for the codes that end one (chatAttempt and chatCore).
THEOREM EngineRequestsSettled == EngineSpec => []RequestsSettled
BY EngineInvariant, EngineInvSettles, PTL

(***************************************************************************)
(* A late outcome is harmless                                              *)
(***************************************************************************)

\* One step that empties the cached session of a lane or clears the mark.
Harmless ==
  /\ \A l \in Lanes : instance[l] # 0 /\ instance'[l] = 0 =>
       \E r \in Requests : request[r].pc = "invalidate" /\ request[r].lease.instance = instance[l]
  /\ unfitAt # 0 /\ unfitAt' = 0 =>
       \E r \in Requests : request[r].pc = "chat" /\ request'[r].pc = "relay"
                             /\ request[r].lease.at >= unfitAt

LEMMA HarmlessStep == EngineInv /\ [EngineNext]_engineVars => Harmless
<1> SUFFICES ASSUME EngineInv, [EngineNext]_engineVars PROVE Harmless
  OBVIOUS
<1>1. DOMAIN instance = Lanes /\ clock \in Nat
  BY DEF EngineInv, PoolShaped
<1>2. CASE instance' = instance /\ unfitAt' = unfitAt
  BY <1>2 DEF Harmless
<1>3. CASE UNCHANGED engineVars
  BY <1>2, <1>3 DEF engineVars
<1>4. CASE ReloadConfig
  BY <1>2, <1>4 DEF ReloadConfig, poolState
<1>5. ASSUME NEW r \in Requests, requireAuth(r) \/ Route(r) \/ AcquireRefused(r) \/ ChatQueued(r) \/ Again(r) \/ ClientGone(r)
      PROVE  Harmless
  BY <1>2, <1>5 DEF requireAuth, Route, RouteBy, AcquireRefused, ChatQueued, Again, ClientGone, poolState
<1>6. ASSUME NEW r \in Requests, Release(r) \/ Fail(r) \/ RelayDone(r) PROVE Harmless
  BY <1>2, <1>6 DEF Release, Fail, RelayDone
<1>7. ASSUME NEW r \in Requests, AcquireLease(r) PROVE Harmless
  <2>1. PICK i \in Ids : instance' = [instance EXCEPT ![request[r].lane] = i] /\ unfitAt' = unfitAt
    BY <1>7 DEF AcquireLease
  <2>2. i # 0
    BY DEF Ids
  <2>3. \A k \in Lanes : instance[k] # 0 => instance'[k] # 0
    BY <1>1, <2>1, <2>2
  <2> QED
    BY <2>1, <2>3 DEF Harmless
<1>8. ASSUME NEW r \in Requests, ChatServed(r) PROVE Harmless
  <2>1. request[r].pc = "chat" /\ instance' = instance
        /\ unfitAt' = IF unfitAt <= request[r].lease.at THEN 0 ELSE unfitAt
    BY <1>8 DEF ChatServed, ClearModelUnfitBefore
  <2>2. request'[r].pc = "relay"
    <3>1. PICK q : Moves(r, q) /\ q.pc = "relay"
      BY <1>8, ChatServedMoves
    <3> QED
      BY <3>1, Moved
  <2>3. unfitAt # 0 /\ unfitAt' = 0 => request[r].lease.at >= unfitAt
    BY <2>1
  <2> QED
    BY <2>1, <2>2, <2>3 DEF Harmless
<1>9. ASSUME NEW r \in Requests, ChatRefused(r) PROVE Harmless
  <2>1. instance' = instance /\ (unfitAt' = unfitAt \/ unfitAt' = clock + 1)
    BY <1>9 DEF ChatRefused
  <2>2. clock + 1 # 0
    BY <1>1
  <2> QED
    BY <2>1, <2>2 DEF Harmless
<1>10. ASSUME NEW r \in Requests, Invalidate(r) PROVE Harmless
  <2>1. request[r].pc = "invalidate" /\ unfitAt' = unfitAt
    BY <1>10 DEF Invalidate
  <2>2. PICK l : \/ instance' = [instance EXCEPT ![l] = IF @ = request[r].lease.instance THEN 0 ELSE @]
                 \/ instance' = instance
    BY <1>10 DEF Invalidate, InvalidateInstance
  <2>3. \A k \in Lanes : instance[k] # 0 /\ instance'[k] = 0 => request[r].lease.instance = instance[k]
    BY <1>1, <2>2
  <2> QED
    BY <2>1, <2>3 DEF Harmless
<1> QED
  BY <1>3, <1>4, <1>5, <1>6, <1>7, <1>8, <1>9, <1>10 DEF EngineNext

\* A refusal on an old session leaves the session admitted since, and a success
\* leaves the mark made since its lease (InvalidateInstance,
\* ClearModelUnfitBefore).
THEOREM EngineLateOutcomeHarmless == EngineSpec => LateOutcomeHarmless
<1>1. EngineInv /\ [EngineNext]_engineVars => [Harmless]_engineVars
  BY HarmlessStep
<1>2. EngineSpec => [][Harmless]_engineVars
  BY <1>1, EngineInvariant, PTL DEF EngineSpec
<1> QED
  BY <1>2 DEF Harmless, LateOutcomeHarmless

(***************************************************************************)
(* The client: what a call spends of its budgets                           *)
(***************************************************************************)

\* The fields the bounds speak of.
IsCall(q) ==
  /\ DOMAIN q = {"pc", "op", "attempt", "queued", "rooms", "alive", "answer", "result"}
  /\ q.op \in Ops /\ q.attempt \in Nat /\ q.queued \in Nat /\ q.rooms \in Nat

IsSeen(s) ==
  /\ DOMAIN s = {"sent", "resent", "rooms", "limits", "done"}
  /\ s.sent \in Nat /\ s.rooms \in Nat

\* What the transport may send for q repetitions of the queue, each of which has
\* a budget of do of its own.
Sendings(q) == q * (1 + Retries)

(***************************************************************************)
(* Where a call stands bounds what the upstream has seen of it.  The bounds *)
(* of AskedSparingly do not carry themselves: an attempt may be made only   *)
(* because what the earlier ones have used up of both budgets is known.     *)
(***************************************************************************)
AttemptsWithin(q, s) ==
  /\ q.pc = "none" => s.sent = 0
  /\ q.pc = "send" => /\ q.attempt \in 1 .. (1 + Retries)
                      /\ s.sent <= Sendings(q.queued) + q.attempt - 1
  /\ q.pc = "backoff" => /\ q.attempt \in 1 .. Retries
                         /\ s.sent <= Sendings(q.queued) + q.attempt
  /\ q.pc = "answered" => s.sent <= Sendings(q.queued) + (1 + Retries)
  /\ q.pc = "hold" => s.sent <= Sendings(q.queued)
  /\ s.sent <= Sendings(1 + Retries)
  /\ q.queued <= Retries

RoomsWithin(q, s) ==
  /\ q.rooms <= WaitingRoomRetries
  /\ q.pc = "none" => s.rooms = 0
  /\ \/ s.rooms <= q.rooms
     \/ /\ s.rooms <= q.rooms + 1
        /\ q.pc = "over" \/ (q.pc = "answered" /\ q.answer = "room")

SentOnce(q, s) ==
  /\ q.pc \in {"backoff", "hold"} => Replayable(q.op)
  /\ ~Replayable(q.op) => s.sent <= 1 /\ (q.pc = "send" => s.sent = 0)

Budgeted(q, s) == AttemptsWithin(q, s) /\ RoomsWithin(q, s) /\ SentOnce(q, s)

\* The attempts a limit answered are among those sent, and the ledger has them all.
LedgerKept ==
  /\ \A c \in Calls : seen[c].limits \subseteq 1 .. seen[c].sent
  /\ IsFiniteSet(LimitsSeen)
  /\ meter.ledger = Cardinality(LimitsSeen)

ClientInv ==
  /\ DOMAIN call = Calls /\ DOMAIN seen = Calls
  /\ DOMAIN meter = {"retries", "queued", "ledger"}
  /\ \A c \in Calls : IsCall(call[c]) /\ IsSeen(seen[c]) /\ Budgeted(call[c], seen[c])
  /\ LedgerKept

\* The two budgets add up to the bound on the attempts of a call.
LEMMA SpentFacts ==
  ASSUME NEW q \in Nat
  PROVE  /\ Sendings(q) \in Nat /\ Sendings(0) = 0
         /\ Sendings(q + 1) = Sendings(q) + (1 + Retries)
         /\ q <= Retries => Sendings(q) + (1 + Retries) <= Sendings(1 + Retries)
         /\ Sendings(1 + Retries) = (1 + Retries) * (1 + Retries)
<1>1. Retries \in Nat
  BY ClientAssumption
<1>2. PICK n \in Nat : n = 1 + Retries
  BY <1>1
<1>3. \A a, b \in Nat : a * n \in Nat /\ 0 * n = 0 /\ (a + b) * n = a * n + b * n /\ 1 * n = n
  BY <1>2
<1>4. (q + 1) * n = q * n + n
  BY <1>3
<1>5. ASSUME q <= Retries PROVE q * n + n <= n * n
  <2>1. PICK d \in Nat : n = (q + 1) + d
    <3>1. n - (q + 1) \in Nat /\ n = (q + 1) + (n - (q + 1))
      BY <1>1, <1>2, <1>5
    <3> QED
      BY <3>1
  <2>2. ((q + 1) + d) * n = (q + 1) * n + d * n
    BY <1>3
  <2>3. n * n = (q + 1) * n + d * n
    BY <2>1, <2>2
  <2>4. d * n \in Nat /\ q * n \in Nat
    BY <1>3
  <2>5. n * n = (q * n + n) + d * n
    BY <2>3, <1>4
  <2> QED
    BY <2>4, <2>5, <1>2
<1> QED
  BY <1>2, <1>3, <1>4, <1>5 DEF Sendings

\* A step of one call that sends nothing.
Rests(c, q) ==
  /\ IsCall(q)
  /\ call' = [call EXCEPT ![c] = q] /\ seen' = seen
  /\ DOMAIN meter' = DOMAIN meter /\ meter'.ledger = meter.ledger

\* A step of one call that makes an attempt, and the answer is a limit or not.
Sends(c, q, s, limited) ==
  /\ IsCall(q) /\ IsSeen(s)
  /\ call' = [call EXCEPT ![c] = q] /\ seen' = [seen EXCEPT ![c] = s]
  /\ s.sent = seen[c].sent + 1
  /\ s.limits = seen[c].limits \cup {n \in {seen[c].sent + 1} : limited}
  /\ DOMAIN meter' = DOMAIN meter /\ meter'.ledger = meter.ledger + If(limited)

LEMMA RestKeeps ==
  ASSUME ClientInv, NEW c \in Calls, NEW q, Rests(c, q), Budgeted(q, seen[c])
  PROVE  ClientInv'
<1>1. DOMAIN call' = Calls /\ seen' = seen
  BY DEF ClientInv, Rests
<1>2. \A d \in Calls : IsCall(call'[d]) /\ IsSeen(seen'[d]) /\ Budgeted(call'[d], seen'[d])
  <2>1. TAKE d \in Calls
  <2>2. CASE d = c
    BY <2>2 DEF ClientInv, Rests
  <2>3. CASE d # c
    BY <2>3 DEF ClientInv, Rests
  <2> QED
    BY <2>2, <2>3
<1>3. LimitsSeen' = LimitsSeen
  BY <1>1 DEF LimitsSeen
<1>4. LedgerKept'
  BY <1>1, <1>3 DEF ClientInv, LedgerKept, Rests
<1>5. DOMAIN meter' = {"retries", "queued", "ledger"}
  BY DEF ClientInv, Rests
<1>6. (\A d \in Calls : IsCall(call[d]) /\ IsSeen(seen[d]) /\ Budgeted(call[d], seen[d]))'
  BY <1>2 DEF IsCall, IsSeen, Budgeted, AttemptsWithin, RoomsWithin, SentOnce
<1> QED
  BY <1>1, <1>4, <1>5, <1>6 DEF ClientInv

LEMMA SendKeeps ==
  ASSUME ClientInv, NEW c \in Calls, NEW q, NEW s, NEW limited \in BOOLEAN, Sends(c, q, s, limited),
         Budgeted(q, s)
  PROVE  ClientInv'
<1>1. DOMAIN call' = Calls /\ DOMAIN seen' = Calls
  BY DEF ClientInv, Sends
<1>2. \A d \in Calls : IsCall(call'[d]) /\ IsSeen(seen'[d]) /\ Budgeted(call'[d], seen'[d])
  <2>1. TAKE d \in Calls
  <2>2. CASE d = c
    BY <2>2 DEF ClientInv, Sends
  <2>3. CASE d # c
    BY <2>3 DEF ClientInv, Sends
  <2> QED
    BY <2>2, <2>3
<1>3. PICK k \in Nat : k = seen[c].sent
  BY DEF ClientInv, IsSeen
<1>4. seen[c].limits \subseteq 1 .. k
  BY <1>3 DEF ClientInv, LedgerKept
<1>5. /\ seen'[c].sent = k + 1
      /\ seen'[c].limits = seen[c].limits \cup {n \in {k + 1} : limited}
      /\ \A d \in Calls : d # c => seen'[d] = seen[d]
  BY <1>3 DEF Sends, ClientInv
<1>6. \A d \in Calls : seen'[d].limits \subseteq 1 .. seen'[d].sent
  <2>1. TAKE d \in Calls
  <2>2. CASE d = c
    <3>1. \A n \in seen'[c].limits : n \in 1 .. (k + 1)
      BY <1>3, <1>4, <1>5
    <3> QED
      BY <2>2, <3>1, <1>5
  <2>3. CASE d # c
    BY <2>3, <1>5 DEF ClientInv, LedgerKept
  <2> QED
    BY <2>2, <2>3
<1>7. IsFiniteSet(LimitsSeen) /\ meter.ledger = Cardinality(LimitsSeen)
  BY DEF ClientInv, LedgerKept
<1>8. \A p : p \in LimitsSeen <=> \E d \in Calls : \E n \in seen[d].limits : p = <<d, n>>
  BY DEF LimitsSeen
<1>9. \A p : p \in LimitsSeen' <=> \E d \in Calls : \E n \in seen'[d].limits : p = <<d, n>>
  BY DEF LimitsSeen
<1>10. CASE limited
  <2>1. seen'[c].limits = seen[c].limits \cup {k + 1}
    BY <1>5, <1>10
  <2>2. LimitsSeen' = LimitsSeen \cup {<<c, k + 1>>}
    <3>1. ASSUME NEW p \in LimitsSeen' PROVE p \in LimitsSeen \cup {<<c, k + 1>>}
      <4>1. PICK d \in Calls : \E n \in seen'[d].limits : p = <<d, n>>
        BY <3>1, <1>9
      <4>2. CASE d = c
        BY <4>1, <4>2, <2>1, <1>8
      <4>3. CASE d # c
        BY <4>1, <4>3, <1>5, <1>8
      <4> QED
        BY <4>2, <4>3
    <3>2. ASSUME NEW p \in LimitsSeen PROVE p \in LimitsSeen'
      <4>1. PICK d \in Calls : \E n \in seen[d].limits : p = <<d, n>>
        BY <3>2, <1>8
      <4>2. seen[d].limits \subseteq seen'[d].limits
        BY <2>1, <1>5
      <4> QED
        BY <4>1, <4>2, <1>9
    <3>3. <<c, k + 1>> \in LimitsSeen'
      BY <2>1, <1>9
    <3> QED
      BY <3>1, <3>2, <3>3
  <2>3. <<c, k + 1>> \notin LimitsSeen
    <3>1. ASSUME <<c, k + 1>> \in LimitsSeen PROVE FALSE
      <4>1. PICK d \in Calls : \E n \in seen[d].limits : <<c, k + 1>> = <<d, n>>
        BY <3>1, <1>8
      <4>2. k + 1 \in seen[c].limits
        BY <4>1
      <4> QED
        BY <4>2, <1>3, <1>4
    <3> QED
      BY <3>1
  <2>4. IsFiniteSet(LimitsSeen') /\ Cardinality(LimitsSeen') = Cardinality(LimitsSeen) + 1
    BY <2>2, <2>3, <1>7, FS_AddElement
  <2>5. meter'.ledger = meter.ledger + 1
    BY <1>10 DEF Sends, If
  <2>6. LedgerKept'
    BY <1>6, <1>7, <2>4, <2>5 DEF LedgerKept
  <2> QED
    BY <1>1, <1>2, <2>6 DEF ClientInv, Sends, IsCall, IsSeen, Budgeted, AttemptsWithin, RoomsWithin, SentOnce
<1>11. CASE ~limited
  <2>1. \A d \in Calls : seen'[d].limits = seen[d].limits
    BY <1>5, <1>11
  <2>2. LimitsSeen' = LimitsSeen
    BY <2>1 DEF LimitsSeen
  <2>3. meter'.ledger = meter.ledger
    <3>1. meter'.ledger = meter.ledger + 0
      BY <1>11 DEF Sends, If
    <3>2. Cardinality(LimitsSeen) \in Nat
      BY <1>7, FS_CardinalityType
    <3> QED
      BY <3>1, <3>2, <1>7
  <2>4. LedgerKept'
    BY <1>6, <1>7, <2>2, <2>3 DEF LedgerKept
  <2> QED
    BY <1>1, <1>2, <2>4 DEF ClientInv, Sends, IsCall, IsSeen, Budgeted, AttemptsWithin, RoomsWithin, SentOnce
<1> QED
  BY <1>10, <1>11

\* A call that returns has spent what it has spent.
LEMMA ReturnKeeps ==
  ASSUME ClientInv, NEW c \in Calls, NEW r, Returns(c, r), seen' = seen,
         DOMAIN meter' = DOMAIN meter, meter'.ledger = meter.ledger
  PROVE  ClientInv'
<1>1. IsCall(call[c]) /\ Budgeted(call[c], seen[c])
  BY DEF ClientInv
<1>2. PICK q : q = [call[c] EXCEPT !.pc = "over", !.result = r]
  OBVIOUS
<1>3. /\ IsCall(q) /\ q.pc = "over"
      /\ q.op = call[c].op /\ q.queued = call[c].queued /\ q.rooms = call[c].rooms
  BY <1>1, <1>2 DEF IsCall
<1>4. Rests(c, q)
  BY <1>2, <1>3 DEF Rests, Returns
<1>5. Budgeted(q, seen[c])
  <2>1. seen[c].rooms \in Nat /\ call[c].rooms \in Nat
    BY <1>1 DEF ClientInv, IsSeen, IsCall
  <2> QED
    BY <1>1, <1>3, <2>1 DEF Budgeted, AttemptsWithin, RoomsWithin, SentOnce
<1> QED
  BY <1>4, <1>5, RestKeeps

LEMMA NewRequestKeeps ==
  ASSUME ClientInv, NEW c \in Calls, NEW op \in Ops, newRequest(c, op)
  PROVE  ClientInv'
<1>1. call[c].pc = "none" /\ Budgeted(call[c], seen[c])
  BY DEF newRequest, ClientInv
<1>2. PICK q : q = [NoCall EXCEPT !.pc = "send", !.op = op, !.attempt = 1]
  OBVIOUS
<1>3. /\ IsCall(q) /\ q.pc = "send" /\ q.op = op /\ q.attempt = 1
      /\ q.queued = 0 /\ q.rooms = 0
  BY <1>2 DEF NoCall, IsCall
<1>4. Rests(c, q)
  BY <1>2, <1>3 DEF Rests, newRequest
<1>5. Retries \in Nat /\ WaitingRoomRetries \in Nat /\ Sendings(0) = 0 /\ Sendings(1 + Retries) \in Nat
  BY ClientAssumption, SpentFacts
<1>6. Budgeted(q, seen[c])
  <2>1. seen[c].sent = 0 /\ seen[c].rooms = 0
    BY <1>1 DEF Budgeted, AttemptsWithin, RoomsWithin
  <2> QED
    BY <1>3, <1>5, <2>1 DEF Budgeted, AttemptsWithin, RoomsWithin, SentOnce
<1> QED
  BY <1>4, <1>6, RestKeeps

LEMMA ContextEndsKeeps ==
  ASSUME ClientInv, NEW c \in Calls, ContextEnds(c)
  PROVE  ClientInv'
<1>1. IsCall(call[c]) /\ Budgeted(call[c], seen[c])
  BY DEF ClientInv
<1>2. PICK q : q = [call[c] EXCEPT !.alive = FALSE]
  OBVIOUS
<1>3. /\ IsCall(q) /\ q.pc = call[c].pc /\ q.op = call[c].op /\ q.answer = call[c].answer
      /\ q.attempt = call[c].attempt /\ q.queued = call[c].queued /\ q.rooms = call[c].rooms
  BY <1>1, <1>2 DEF IsCall
<1>4. Rests(c, q)
  BY <1>2, <1>3 DEF Rests, ContextEnds
<1>5. Budgeted(q, seen[c])
  BY <1>1, <1>3 DEF Budgeted, AttemptsWithin, RoomsWithin, SentOnce
<1> QED
  BY <1>4, <1>5, RestKeeps

\* What is known of a call that is about to be sent.
LEMMA AboutToSend ==
  ASSUME ClientInv, NEW c \in Calls, call[c].pc = "send"
  PROVE  /\ IsCall(call[c]) /\ IsSeen(seen[c])
         /\ call[c].attempt \in 1 .. (1 + Retries) /\ call[c].queued <= Retries
         /\ seen[c].sent + 1 <= Sendings(call[c].queued) + call[c].attempt
         /\ seen[c].sent + 1 <= Sendings(call[c].queued) + (1 + Retries)
         /\ seen[c].sent + 1 <= Sendings(1 + Retries)
         /\ call[c].rooms <= WaitingRoomRetries /\ seen[c].rooms <= call[c].rooms
         /\ ~Replayable(call[c].op) => seen[c].sent = 0
<1>1. IsCall(call[c]) /\ IsSeen(seen[c]) /\ Budgeted(call[c], seen[c])
  BY DEF ClientInv
<1>2. PICK n \in Nat : n = call[c].queued
  BY <1>1 DEF IsCall
<1>3. /\ call[c].attempt \in 1 .. (1 + Retries) /\ seen[c].sent <= Sendings(n) + call[c].attempt - 1
      /\ n <= Retries
  BY <1>1, <1>2 DEF Budgeted, AttemptsWithin
<1>4. Retries \in Nat /\ seen[c].sent \in Nat /\ Sendings(n) \in Nat /\ Sendings(1 + Retries) \in Nat
      /\ Sendings(n) + (1 + Retries) <= Sendings(1 + Retries)
  <2>1. Retries \in Nat
    BY ClientAssumption
  <2>2. seen[c].sent \in Nat
    BY <1>1 DEF IsSeen
  <2>3. 1 + Retries \in Nat
    BY <2>1
  <2> QED
    BY <1>3, <2>1, <2>2, <2>3, SpentFacts
<1>5. /\ seen[c].sent + 1 <= Sendings(n) + call[c].attempt
      /\ seen[c].sent + 1 <= Sendings(n) + (1 + Retries)
      /\ seen[c].sent + 1 <= Sendings(1 + Retries)
  BY <1>3, <1>4
<1>6. call[c].rooms <= WaitingRoomRetries /\ seen[c].rooms <= call[c].rooms
  BY <1>1 DEF Budgeted, RoomsWithin
<1>7. ~Replayable(call[c].op) => seen[c].sent = 0
  BY <1>1 DEF Budgeted, SentOnce
<1> QED
  BY <1>1, <1>2, <1>3, <1>5, <1>6, <1>7

\* An attempt, whatever comes of it, stays within what the call may still spend.
LEMMA AttemptKeeps ==
  ASSUME ClientInv, NEW c \in Calls, call[c].pc = "send",
         NEW limited \in BOOLEAN, NEW room \in {0, 1}, NEW done \in {0, 1}, Sent(c, limited, room, done),
         NEW q, IsCall(q), call' = [call EXCEPT ![c] = q],
         q.op = call[c].op, q.attempt = call[c].attempt, q.queued = call[c].queued,
         q.rooms = call[c].rooms,
         \/ q.pc = "answered" /\ (room = 1 => q.answer = "room")
         \/ q.pc = "backoff" /\ room = 0 /\ q.attempt <= Retries /\ Replayable(q.op)
         \/ q.pc = "over",
         DOMAIN meter' = DOMAIN meter, meter'.ledger = meter.ledger + If(limited)
  PROVE  ClientInv'
<1>1. IsSeen(seen[c])
  BY DEF ClientInv
<1>2. PICK again \in Nat : again = If(call[c].attempt > 1)
  BY DEF If
<1>3. PICK s : s = [seen[c] EXCEPT !.sent = @ + 1, !.rooms = @ + room, !.done = @ + done,
                       !.limits = @ \cup {n \in {seen[c].sent + 1} : limited}, !.resent = @ + again]
  OBVIOUS
<1>4. /\ s.sent = seen[c].sent + 1 /\ s.rooms = seen[c].rooms + room
      /\ s.limits = seen[c].limits \cup {n \in {seen[c].sent + 1} : limited}
  BY <1>1, <1>3 DEF IsSeen
<1>5. IsSeen(s)
  BY <1>1, <1>3, <1>4 DEF IsSeen
<1>6. seen' = [seen EXCEPT ![c] = s]
  BY <1>1, <1>2, <1>3 DEF Sent, ClientInv, IsSeen
<1>7. Sends(c, q, s, limited)
  BY <1>4, <1>5, <1>6 DEF Sends
<1>8. Budgeted(q, s)
  <2>1. /\ seen[c].sent \in Nat /\ seen[c].rooms \in Nat /\ call[c].rooms \in Nat /\ Retries \in Nat
        /\ WaitingRoomRetries \in Nat /\ call[c].attempt \in Nat
    BY <1>1, AboutToSend, ClientAssumption DEF IsSeen, IsCall
  <2>2. AttemptsWithin(q, s)
    BY <1>4, <2>1, AboutToSend DEF AttemptsWithin
  <2>3. RoomsWithin(q, s)
    BY <1>4, <2>1, AboutToSend DEF RoomsWithin
  <2>4. SentOnce(q, s)
    BY <1>4, <2>1, AboutToSend DEF SentOnce
  <2> QED
    BY <2>2, <2>3, <2>4 DEF Budgeted
<1> QED
  BY <1>7, <1>8, SendKeeps

LEMMA DoAnsweredKeeps ==
  ASSUME ClientInv, NEW c \in Calls, NEW a \in Accepted \cup Refusals_, DoAnswered(c, a)
  PROVE  ClientInv'
<1>1. PICK limited \in BOOLEAN : limited <=> a \in RateLimitFamily
  OBVIOUS
<1>2. PICK room \in {0, 1} : room = If(a = "room")
  BY DEF If
<1>3. PICK done \in {0, 1} : done = If(a \in Accepted)
  BY DEF If
<1>4. Sent(c, limited, room, done)
  <2>1. {n \in {seen[c].sent + 1} : limited} = {n \in {seen[c].sent + 1} : a \in RateLimitFamily}
    BY <1>1
  <2> QED
    BY <1>2, <1>3, <2>1 DEF DoAnswered, Sent
<1>5. DOMAIN meter' = DOMAIN meter /\ meter'.ledger = meter.ledger + If(limited)
  <2>1. If(limited) = If(a \in RateLimitFamily)
    BY <1>1 DEF If
  <2> QED
    BY <2>1 DEF DoAnswered, ClientInv
<1>6. call[c].pc = "send" /\ IsCall(call[c])
  BY DEF DoAnswered, ClientInv
<1>7. CASE a = "encoded"
  <2>1. PICK q : q = [call[c] EXCEPT !.pc = "over", !.result = "error"]
    OBVIOUS
  <2>2. /\ IsCall(q) /\ q.pc = "over" /\ q.op = call[c].op /\ q.attempt = call[c].attempt
        /\ q.queued = call[c].queued /\ q.rooms = call[c].rooms
    BY <1>6, <2>1 DEF IsCall
  <2>3. call' = [call EXCEPT ![c] = q]
    BY <1>7, <2>1 DEF DoAnswered, Returns
  <2> QED
    BY <1>4, <1>5, <1>6, <2>2, <2>3, AttemptKeeps
<1>8. CASE a # "encoded"
  <2>1. PICK q : q = [call[c] EXCEPT !.pc = "answered", !.answer = a]
    OBVIOUS
  <2>2. /\ IsCall(q) /\ q.pc = "answered" /\ q.op = call[c].op /\ q.attempt = call[c].attempt
        /\ q.queued = call[c].queued /\ q.rooms = call[c].rooms /\ q.answer = a
    BY <1>6, <2>1 DEF IsCall
  <2>3. call' = [call EXCEPT ![c] = q]
    BY <1>8, <2>1 DEF DoAnswered
  <2>4. room = 1 => q.answer = "room"
    BY <1>2, <2>2 DEF If
  <2> QED
    BY <1>4, <1>5, <1>6, <2>2, <2>3, <2>4, AttemptKeeps
<1> QED
  BY <1>7, <1>8

LEMMA DoBrokenKeeps ==
  ASSUME ClientInv, NEW c \in Calls, NEW transient \in BOOLEAN, NEW processed \in BOOLEAN,
         DoBroken(c, transient, processed)
  PROVE  ClientInv'
<1>1. PICK done \in {0, 1} : done = If(processed)
  BY DEF If
<1>2. Sent(c, FALSE, 0, done)
  BY <1>1 DEF DoBroken
<1>3. call[c].pc = "send" /\ IsCall(call[c])
  BY DEF DoBroken, ClientInv
<1>4. DOMAIN meter' = DOMAIN meter /\ meter'.ledger = meter.ledger + If(FALSE)
  <2>1. DOMAIN meter' = DOMAIN meter /\ meter'.ledger = meter.ledger
    BY DEF DoBroken, ClientInv
  <2>2. meter.ledger = meter.ledger + 0
    <3>1. meter.ledger \in Nat
      BY FS_CardinalityType DEF ClientInv, LedgerKept
    <3> QED
      BY <3>1
  <2> QED
    BY <2>1, <2>2 DEF If
<1>5. CASE transient /\ isTransientFailure(c)
  <2>1. PICK q : q = [call[c] EXCEPT !.pc = "backoff"]
    OBVIOUS
  <2>2. /\ IsCall(q) /\ q.pc = "backoff" /\ q.op = call[c].op /\ q.attempt = call[c].attempt
        /\ q.queued = call[c].queued /\ q.rooms = call[c].rooms
    BY <1>3, <2>1 DEF IsCall
  <2>3. call' = [call EXCEPT ![c] = q]
    BY <1>3, <1>5, <2>1 DEF DoBroken, ClientInv
  <2>4. q.attempt <= Retries /\ Replayable(q.op)
    BY <1>5, <2>2 DEF isTransientFailure
  <2> QED
    BY <1>2, <1>3, <1>4, <2>2, <2>3, <2>4, AttemptKeeps
<1>6. CASE ~(transient /\ isTransientFailure(c))
  <2>1. PICK r : Returns(c, r)
    BY <1>6 DEF DoBroken
  <2>2. PICK q : q = [call[c] EXCEPT !.pc = "over", !.result = r]
    OBVIOUS
  <2>3. /\ IsCall(q) /\ q.pc = "over" /\ q.op = call[c].op /\ q.attempt = call[c].attempt
        /\ q.queued = call[c].queued /\ q.rooms = call[c].rooms
    BY <1>3, <2>2 DEF IsCall
  <2>4. call' = [call EXCEPT ![c] = q]
    BY <2>1, <2>2 DEF Returns
  <2> QED
    BY <1>2, <1>3, <1>4, <2>3, <2>4, AttemptKeeps
<1> QED
  BY <1>5, <1>6

LEMMA RetryDelayKeeps ==
  ASSUME ClientInv, NEW c \in Calls, retryDelay(c)
  PROVE  ClientInv'
<1>1. /\ call[c].pc = "backoff" /\ IsCall(call[c]) /\ IsSeen(seen[c]) /\ Budgeted(call[c], seen[c])
      /\ seen' = seen /\ meter' = meter
  BY DEF retryDelay, ClientInv
<1>2. CASE call[c].alive
  <2>1. PICK q : q = [call[c] EXCEPT !.pc = "send", !.attempt = @ + 1]
    OBVIOUS
  <2>2. /\ IsCall(q) /\ q.pc = "send" /\ q.op = call[c].op /\ q.attempt = call[c].attempt + 1
        /\ q.queued = call[c].queued /\ q.rooms = call[c].rooms
    BY <1>1, <2>1 DEF IsCall
  <2>3. call' = [call EXCEPT ![c] = q]
    BY <1>1, <1>2, <2>1 DEF retryDelay, IsCall
  <2>4. Rests(c, q)
    BY <1>1, <2>2, <2>3 DEF Rests
  <2>5. Replayable(q.op)
    BY <1>1, <2>2 DEF Budgeted, SentOnce
  <2>6. Retries \in Nat /\ Sendings(call[c].queued) \in Nat /\ call[c].attempt \in 1 .. Retries
        /\ seen[c].sent \in Nat
    BY <1>1, ClientAssumption, SpentFacts DEF IsCall, IsSeen, Budgeted, AttemptsWithin
  <2>7. AttemptsWithin(q, seen[c])
    BY <1>1, <2>2, <2>6 DEF Budgeted, AttemptsWithin
  <2>8. RoomsWithin(q, seen[c]) /\ SentOnce(q, seen[c])
    BY <1>1, <2>2, <2>5 DEF Budgeted, RoomsWithin, SentOnce
  <2> QED
    BY <2>4, <2>7, <2>8, RestKeeps DEF Budgeted
<1>3. CASE ~call[c].alive
  BY <1>1, <1>3, ReturnKeeps DEF retryDelay
<1> QED
  BY <1>2, <1>3

LEMMA ChatQueuesKeeps ==
  ASSUME ClientInv, NEW c \in Calls, ChatQueues(c)
  PROVE  ClientInv'
<1>1. /\ call[c].pc = "answered" /\ call[c].op = "chat" /\ mayQueue(c)
      /\ IsCall(call[c]) /\ IsSeen(seen[c]) /\ Budgeted(call[c], seen[c])
  BY DEF ChatQueues, ClientInv
<1>2. PICK room \in {0, 1} : room = If(call[c].answer = "room")
  BY DEF If
<1>3. PICK q : q = [call[c] EXCEPT !.pc = "hold", !.queued = @ + 1, !.rooms = @ + room]
  OBVIOUS
<1>4. /\ IsCall(q) /\ q.pc = "hold" /\ q.op = "chat" /\ q.queued = call[c].queued + 1
      /\ q.rooms = call[c].rooms + room
  BY <1>1, <1>3 DEF IsCall
<1>5. call' = [call EXCEPT ![c] = q]
  BY <1>1, <1>2, <1>3 DEF ChatQueues, IsCall
<1>6. Rests(c, q)
  BY <1>4, <1>5 DEF Rests, ChatQueues, ClientInv
<1>7. call[c].queued < Retries /\ (room = 1 => call[c].rooms < WaitingRoomRetries)
      /\ (call[c].answer = "room" => room = 1)
  BY <1>1, <1>2 DEF mayQueue, If
<1>8. Retries \in Nat /\ WaitingRoomRetries \in Nat /\ call[c].queued \in Nat /\ call[c].rooms \in Nat
      /\ seen[c].sent \in Nat /\ seen[c].rooms \in Nat
  BY <1>1, ClientAssumption DEF IsCall, IsSeen
<1>9. Sendings(call[c].queued + 1) = Sendings(call[c].queued) + (1 + Retries)
  BY <1>8, SpentFacts
<1>10. AttemptsWithin(q, seen[c])
  <2>1. seen[c].sent <= Sendings(call[c].queued) + (1 + Retries) /\ seen[c].sent <= Sendings(1 + Retries)
    BY <1>1 DEF Budgeted, AttemptsWithin
  <2>2. seen[c].sent <= Sendings(q.queued) /\ q.queued <= Retries
    BY <1>4, <1>7, <1>8, <1>9, <2>1
  <2> QED
    BY <1>4, <2>1, <2>2 DEF AttemptsWithin
<1>11. RoomsWithin(q, seen[c])
  <2>1. \/ seen[c].rooms <= call[c].rooms
        \/ seen[c].rooms <= call[c].rooms + 1 /\ call[c].answer = "room"
    BY <1>1 DEF Budgeted, RoomsWithin
  <2>2. call[c].rooms <= WaitingRoomRetries
    BY <1>1 DEF Budgeted, RoomsWithin
  <2>3. q.rooms <= WaitingRoomRetries /\ seen[c].rooms <= q.rooms
    BY <1>4, <1>7, <1>8, <2>1, <2>2
  <2> QED
    BY <1>4, <2>3 DEF RoomsWithin
<1>12. SentOnce(q, seen[c])
  BY <1>4 DEF SentOnce, Replayable
<1> QED
  BY <1>6, <1>10, <1>11, <1>12, RestKeeps DEF Budgeted

LEMMA ChatRepeatsKeeps ==
  ASSUME ClientInv, NEW c \in Calls, ChatRepeats(c)
  PROVE  ClientInv'
<1>1. call[c].pc = "hold" /\ IsCall(call[c]) /\ IsSeen(seen[c]) /\ Budgeted(call[c], seen[c])
  BY DEF ChatRepeats, ClientInv
<1>2. PICK q : q = [call[c] EXCEPT !.pc = "send", !.attempt = 1]
  OBVIOUS
<1>3. /\ IsCall(q) /\ q.pc = "send" /\ q.op = call[c].op /\ q.attempt = 1
      /\ q.queued = call[c].queued /\ q.rooms = call[c].rooms
  BY <1>1, <1>2 DEF IsCall
<1>4. Rests(c, q)
  BY <1>2, <1>3 DEF Rests, ChatRepeats, ClientInv
<1>5. Retries \in Nat /\ Sendings(call[c].queued) \in Nat /\ seen[c].sent \in Nat
  BY <1>1, ClientAssumption, SpentFacts DEF IsCall, IsSeen
<1>6. AttemptsWithin(q, seen[c])
  BY <1>1, <1>3, <1>5 DEF Budgeted, AttemptsWithin
<1>7. RoomsWithin(q, seen[c]) /\ SentOnce(q, seen[c])
  BY <1>1, <1>3 DEF Budgeted, RoomsWithin, SentOnce
<1> QED
  BY <1>4, <1>6, <1>7, RestKeeps DEF Budgeted

LEMMA ClientInitially == ClientInit => ClientInv
<1> SUFFICES ASSUME ClientInit PROVE ClientInv
  OBVIOUS
<1>1. DOMAIN call = Calls /\ DOMAIN seen = Calls /\ DOMAIN meter = {"retries", "queued", "ledger"}
  BY DEF ClientInit
<1>2. \A c \in Calls : IsCall(call[c]) /\ IsSeen(seen[c]) /\ Budgeted(call[c], seen[c])
  <2>1. TAKE c \in Calls
  <2>2. /\ call[c] = NoCall
        /\ seen[c] = [sent |-> 0, resent |-> 0, rooms |-> 0, limits |-> {}, done |-> 0]
    BY DEF ClientInit
  <2>3. IsCall(call[c]) /\ IsSeen(seen[c])
    BY <2>2 DEF IsCall, IsSeen, NoCall, Ops
  <2>4. Retries \in Nat /\ WaitingRoomRetries \in Nat /\ Sendings(1 + Retries) \in Nat
    BY ClientAssumption, SpentFacts
  <2>5. Budgeted(call[c], seen[c])
    BY <2>2, <2>4 DEF NoCall, Budgeted, AttemptsWithin, RoomsWithin, SentOnce
  <2> QED
    BY <2>3, <2>5
<1>3. LedgerKept
  <2>1. \A c \in Calls : seen[c].limits = {}
    BY DEF ClientInit
  <2>2. LimitsSeen = {}
    BY <2>1 DEF LimitsSeen
  <2> QED
    BY <2>1, <2>2, FS_EmptySet DEF LedgerKept, ClientInit
<1> QED
  BY <1>1, <1>2, <1>3 DEF ClientInv

LEMMA ClientStep == ClientInv /\ [ClientNext]_clientVars => ClientInv'
<1> SUFFICES ASSUME ClientInv, [ClientNext]_clientVars PROVE ClientInv'
  OBVIOUS
<1>1. CASE UNCHANGED clientVars
  BY <1>1 DEF clientVars, ClientInv, IsCall, IsSeen, Budgeted, AttemptsWithin, RoomsWithin, SentOnce,
              LedgerKept, LimitsSeen
<1>2. ASSUME NEW c \in Calls, NEW op \in Ops, newRequest(c, op) PROVE ClientInv'
  BY <1>2, NewRequestKeeps
<1>3. ASSUME NEW c \in Calls, ContextEnds(c) PROVE ClientInv'
  BY <1>3, ContextEndsKeeps
<1>4. ASSUME NEW c \in Calls, NEW a \in Accepted \cup Refusals_, DoAnswered(c, a) PROVE ClientInv'
  BY <1>4, DoAnsweredKeeps
<1>5. ASSUME NEW c \in Calls, NEW transient \in BOOLEAN, NEW processed \in BOOLEAN,
             DoBroken(c, transient, processed)
      PROVE  ClientInv'
  BY <1>5, DoBrokenKeeps
<1>6. ASSUME NEW c \in Calls, retryDelay(c) PROVE ClientInv'
  BY <1>6, RetryDelayKeeps
<1>7. ASSUME NEW c \in Calls, ChatQueues(c) PROVE ClientInv'
  BY <1>7, ChatQueuesKeeps
<1>8. ASSUME NEW c \in Calls, ChatRepeats(c) PROVE ClientInv'
  BY <1>8, ChatRepeatsKeeps
<1>9. ASSUME NEW c \in Calls,
             ChatAborts(c) \/ ChatReturns(c) \/ StartRun(c) \/ FinishRun(c)
      PROVE  ClientInv'
  <2>1. PICK r : Returns(c, r)
    BY <1>9 DEF ChatAborts, ChatReturns, StartRun, FinishRun
  <2>2. seen' = seen /\ meter' = meter
    BY <1>9 DEF ChatAborts, ChatReturns, StartRun, FinishRun
  <2> QED
    BY <2>1, <2>2, ReturnKeeps
<1>10. ASSUME NEW c \in Calls, sessionCall(c) \/ ProbeAccount(c) \/ probeSession(c) \/ EndSession(c)
       PROVE  ClientInv'
  <2>1. PICK r : Returns(c, r)
    BY <1>10 DEF sessionCall, ProbeAccount, probeSession, EndSession
  <2>2. Parsed(c)
    BY <1>10 DEF sessionCall, ProbeAccount, probeSession, EndSession
  <2>3. seen' = seen /\ DOMAIN meter' = DOMAIN meter /\ meter'.ledger = meter.ledger
    <3>1. meter.ledger \in Nat
      BY FS_CardinalityType DEF ClientInv, LedgerKept
    <3> QED
      BY <2>2, <3>1 DEF Parsed, Counts, ClientInv
  <2> QED
    BY <2>1, <2>3, ReturnKeeps
<1> QED
  BY <1>1, <1>2, <1>3, <1>4, <1>5, <1>6, <1>7, <1>8, <1>9, <1>10 DEF ClientNext

LEMMA ClientSparing == ClientInv => RepeatsCounted
<1> SUFFICES ASSUME ClientInv PROVE RepeatsCounted
  OBVIOUS
<1>1. ASSUME NEW c \in Calls
      PROVE  /\ seen[c].rooms <= 1 + WaitingRoomRetries
             /\ seen[c].sent <= (1 + Retries) * (1 + Retries)
             /\ ~Replayable(call[c].op) => seen[c].sent <= 1
  <2>1. IsCall(call[c]) /\ IsSeen(seen[c]) /\ Budgeted(call[c], seen[c])
    BY DEF ClientInv
  <2>2. seen[c].sent <= Sendings(1 + Retries) /\ Sendings(1 + Retries) = (1 + Retries) * (1 + Retries)
    BY <2>1, SpentFacts DEF Budgeted, AttemptsWithin
  <2>3. seen[c].rooms <= call[c].rooms + 1 /\ call[c].rooms <= WaitingRoomRetries
    BY <2>1 DEF IsCall, IsSeen, Budgeted, RoomsWithin
  <2>4. seen[c].rooms \in Nat /\ call[c].rooms \in Nat /\ WaitingRoomRetries \in Nat
    BY <2>1, ClientAssumption DEF IsCall, IsSeen
  <2>5. seen[c].rooms <= 1 + WaitingRoomRetries
    BY <2>3, <2>4
  <2> QED
    BY <2>1, <2>2, <2>5 DEF Budgeted, SentOnce
<1>2. AskedSparingly
  BY <1>1 DEF AskedSparingly
<1>3. LedgerCountsOnce
  BY DEF ClientInv, LedgerKept, LedgerCountsOnce
<1> QED
  BY <1>2, <1>3 DEF RepeatsCounted

\* However transport failures, waiting rooms, deferrals and cancels of any number
\* of calls fall, and whatever the two budgets are, no request is sent or waits
\* more often than they allow, one that cannot be replayed is sent once, and each
\* refusal of the rate-limit family is in the ledger once (do, ChatCompletions,
\* parseSessionResponse).
THEOREM ClientRepeatsCounted == ClientSpec => []RepeatsCounted
<1>1. ClientInit => ClientInv
  BY ClientInitially
<1>2. ClientInv /\ [ClientNext]_clientVars => ClientInv'
  BY ClientStep
<1>3. ClientInv => RepeatsCounted
  BY ClientSparing
<1> QED
  BY <1>1, <1>2, <1>3, PTL DEF ClientSpec

-----------------------------------------------------------------------------
(***************************************************************************)
(* What goes on the wire (Envelope and Chunks)                             *)
(***************************************************************************)

\* A set of naturals up to n that is not empty has a greatest element.
LEMMA MostOf ==
  ASSUME NEW n \in Nat, NEW T \in SUBSET (0..n), T # {}
  PROVE  \E m \in T : \A k \in T : k <= m
<1> DEFINE left == {j \in Nat : \E k \in T : j = n - k}
<1>1. left \in SUBSET Nat /\ left # {} /\ \A k \in T : n - k \in left
  <2>1. PICK k : k \in T
    OBVIOUS
  <2>2. n - k \in left
    BY <2>1
  <2> QED
    BY <2>2
<1> HIDE DEF left
<1>2. PICK j \in left : \A i \in left : j <= i
  BY <1>1, LeastOf
<1>3. PICK m \in T : j = n - m
  BY <1>2 DEF left
<1>4. \A k \in T : k <= m
  <2>1. ASSUME NEW k \in T PROVE k <= m
    <3>1. j <= n - k /\ k \in 0..n /\ m \in 0..n
      BY <1>1, <1>2
    <3> QED
      BY <1>3, <3>1
  <2> QED
    BY <2>1
<1> QED
  BY <1>4

LEMMA MaxIs ==
  ASSUME NEW n \in Nat, NEW T \in SUBSET (0..n), T # {}
  PROVE  Max(T) \in T /\ \A k \in T : k <= Max(T)
<1>1. \E m \in T : \A k \in T : m >= k
  BY MostOf
<1> QED
  BY <1>1 DEF Max

LEMMA MinIs ==
  ASSUME NEW n \in Nat, NEW T \in SUBSET (0..n), T # {}
  PROVE  Min(T) \in T /\ \A k \in T : Min(T) <= k
<1>1. T \in SUBSET Nat
  OBVIOUS
<1>2. \E m \in T : \A k \in T : m <= k
  BY <1>1, LeastOf
<1> QED
  BY <1>2 DEF Min

\* The rung a budget stands for.
LEMMA BudgetIs ==
  ASSUME NEW b \in Nat
  PROVE  budgetToEffort(b) \in 1..(High + 1)
<1> DEFINE fits(r) == r > High \/ b <= BudgetTops[r]
           those == {r \in 1..(High + 1) : fits(r)}
<1>1. High \in Nat /\ BudgetTops \in [1..High -> Nat] /\ High + 1 \in those
  BY EnvelopeAssumption
<1>2. those \in SUBSET Nat /\ those # {}
  BY <1>1
<1> HIDE DEF those
<1>3. PICK m \in those : \A k \in those : m <= k
  BY <1>2, LeastOf
<1>4. m \in 1..(High + 1) /\ fits(m)
  BY DEF those
<1>5. \A q \in 1..(m - 1) : b > BudgetTops[q]
  <2>1. ASSUME NEW q \in 1..(m - 1) PROVE b > BudgetTops[q]
    <3>1. q \in 1..(High + 1) /\ q \notin those
      BY <1>1, <1>3, <1>4
    <3>2. ~(q > High) /\ ~(b <= BudgetTops[q]) /\ q \in 1..High
      BY <1>1, <3>1 DEF those
    <3> QED
      BY <1>1, <3>2
  <2> QED
    BY <2>1
<1> QED
  BY <1>4, <1>5 DEF budgetToEffort

\* The rung allowed for one wanted: no higher, if there is any such, and the highest of these.
LEMMA ClampIs ==
  ASSUME NEW allowed \in Ladders, NEW wanted \in 1..Rungs
  PROVE  LET e == clampReasoningEffort(wanted, allowed)
         IN  /\ e \in allowed /\ (e > wanted => e = Min(allowed))
             /\ \A r \in allowed : r <= wanted => r <= e
<1> DEFINE e == clampReasoningEffort(wanted, allowed)
           below == {r \in allowed : r <= wanted}
<1>1. Rungs \in Nat /\ allowed \in SUBSET (0..Rungs) /\ allowed # {} /\ wanted # Odd
  BY EnvelopeAssumption DEF Odd
<1>2. Min(allowed) \in allowed /\ \A k \in allowed : Min(allowed) <= k
  BY <1>1, MinIs
<1>3. CASE below # {}
  <2>1. Max(below) \in below /\ \A k \in below : k <= Max(below)
    <3>1. below \in SUBSET (0..Rungs)
      BY <1>1
    <3> HIDE DEF below
    <3> QED
      BY <1>1, <1>3, <3>1, MaxIs
  <2>2. e = Max(below)
    BY <1>1, <1>3 DEF clampReasoningEffort
  <2> HIDE DEF e
  <2>3. e \in allowed /\ e <= wanted /\ e \in Int
    <3> HIDE DEF below
    <3>1. e \in below
      BY <2>1, <2>2
    <3>2. e \in allowed /\ e <= wanted
      BY <3>1 DEF below
    <3> QED
      BY <1>1, <3>2
  <2>4. \A r \in allowed : r <= wanted => r <= e
    BY <2>1, <2>2
  <2>5. ~(e > wanted)
    BY <2>3
  <2> QED
    BY <2>3, <2>4, <2>5 DEF e
<1>4. CASE below = {}
  <2>1. e = Min(allowed)
    BY <1>1, <1>4 DEF clampReasoningEffort
  <2> HIDE DEF e
  <2> QED
    BY <1>2, <1>4, <2>1 DEF e
<1> QED
  BY <1>3, <1>4

Parameters == {"effort", "thinking", "budget", "suffix", "tools", "choice", "format", "state", "functions"}

\* What a request may ask for on the wire it came on.
Asked(p, w) ==
  /\ DOMAIN p = Parameters
  /\ p.effort \in 0..Odd /\ p.suffix \in {0, 1, Medium}
  /\ p.thinking \in {"absent", "disabled", "enabled", "adaptive"}
  /\ p.budget \in Nat /\ (w = "responses" => p.budget = 0 /\ p.thinking \in {"absent", "disabled"})
  /\ p.tools \in {"absent", "function", "builtin"} /\ (w = "chat" => p.tools # "builtin")
  /\ p.choice \in {"absent", "auto", "none", "required", "tool", "builtin"}
  /\ (w # "responses" => p.choice # "builtin" /\ p.state = "absent")
  /\ p.functions \in {"absent", "function", "tool"} /\ (w # "chat" => p.functions = "absent")

EnvelopeInv ==
  /\ api \in {"chat", "messages", "responses"} /\ ladder \in Ladders
  /\ Asked(params, api)
  /\ EnvelopeHonest

LEMMA AskedMore ==
  ASSUME EnvelopeInv, NEW k \in DOMAIN Plain, Ask_(k)
  PROVE  EnvelopeInv'
<1>1. PICK v \in Askable(api, k) : params' = [params EXCEPT ![k] = v]
  BY DEF Ask_
<1>2. api' = api /\ ladder' = ladder /\ envelope' = envelope /\ envelope = Unsent
  BY DEF Ask_
<1>3. EnvelopeHonest'
  BY <1>2 DEF EnvelopeHonest, Accepted_
<1>4. k \in Parameters
  BY DEF Plain, Parameters
<1>5. Rungs \in Nat /\ Medium \in 1..Rungs /\ Budgets \subseteq Nat
  BY EnvelopeAssumption
<1>6. DOMAIN params = Parameters
  BY DEF EnvelopeInv, Asked
<1>7. Asked(params', api)
  <2>1. params'[k] = v /\ DOMAIN params' = Parameters /\ \A x \in Parameters : x # k => params'[x] = params[x]
    BY <1>1, <1>4, <1>6
  <2>2. CASE k = "effort"
    BY <1>1, <1>5, <2>1, <2>2 DEF Askable, Asked, EnvelopeInv, Parameters, Odd
  <2>3. CASE k = "thinking"
    BY <1>1, <1>5, <2>1, <2>3 DEF Askable, Asked, EnvelopeInv, Parameters
  <2>4. CASE k = "budget"
    BY <1>1, <1>5, <2>1, <2>4 DEF Askable, Asked, EnvelopeInv, Parameters
  <2>5. CASE k = "suffix"
    BY <1>1, <1>5, <2>1, <2>5 DEF Askable, Asked, EnvelopeInv, Parameters
  <2>6. CASE k = "tools"
    BY <1>1, <1>5, <2>1, <2>6 DEF Askable, Asked, EnvelopeInv, Parameters
  <2>7. CASE k = "choice"
    BY <1>1, <1>5, <2>1, <2>7 DEF Askable, Asked, EnvelopeInv, Parameters
  <2>8. CASE k = "format"
    BY <1>1, <1>5, <2>1, <2>8 DEF Askable, Asked, EnvelopeInv, Parameters
  <2>9. CASE k = "state"
    BY <1>1, <1>5, <2>1, <2>9 DEF Askable, Asked, EnvelopeInv, Parameters
  <2>10. CASE k = "functions"
    BY <1>1, <1>5, <2>1, <2>10 DEF Askable, Asked, EnvelopeInv, Parameters
  <2> QED
    BY <1>4, <2>2, <2>3, <2>4, <2>5, <2>6, <2>7, <2>8, <2>9, <2>10 DEF Parameters
<1> QED
  BY <1>2, <1>3, <1>7 DEF EnvelopeInv

\* What is wanted of the model: the rung the request names, if it names one and
\* has not turned thinking off.
Wish(p) == IF p.effort = 0 /\ p.budget > 0 THEN budgetToEffort(p.budget) ELSE p.effort

LEMMA ReasoningIs ==
  ASSUME NEW p, p.effort \in 0..Odd, p.suffix \in {0, 1, Medium}, p.budget \in Nat, ladder \in Ladders
  PROVE  LET e == normalizeReasoning(p)
         IN  /\ e \in ladder \cup {0, High}
             /\ p.thinking = "disabled" => e = 0
             /\ p.effort = 0 /\ p.budget = 0 /\ p.thinking = "absent" /\ p.suffix = 0 => e = 0
             /\ Wish(p) \in 1..Rungs /\ e > Wish(p) => e = Min(ladder) \/ (Wish(p) = Medium /\ e = High)
             /\ Wish(p) \in 1..Rungs /\ p.thinking # "disabled" =>
                  e # 0 /\ \A r \in ladder : r <= Wish(p) => r <= e
<1> DEFINE e == normalizeReasoning(p)  wanted == ExtractReasoningEffort(p)
<1>1. Rungs \in Nat /\ Medium \in 1..Rungs /\ High \in 1..(Rungs - 1) /\ Medium <= High /\ ladder \in SUBSET (1..Rungs)
  BY EnvelopeAssumption
<1>2. wanted \in 0..Odd
  <2>1. budgetToEffort(p.budget) \in 0..Odd
    <3>1. budgetToEffort(p.budget) \in 1..(High + 1)
      BY BudgetIs
    <3> QED
      BY <1>1, <3>1 DEF Odd
  <2> QED
    BY <1>1, <2>1 DEF ExtractReasoningEffort, Odd
<1>3. Wish(p) \in 1..Rungs => wanted = Wish(p)
  BY <1>1 DEF Wish, ExtractReasoningEffort
<1>4. p.effort = 0 /\ p.budget = 0 /\ p.thinking = "absent" /\ p.suffix = 0 => wanted = 0
  BY DEF ExtractReasoningEffort
<1>5. e = IF p.thinking = "disabled" \/ wanted = 0 THEN 0
          ELSE IF wanted = Medium /\ Mediumless THEN High
          ELSE clampReasoningEffort(wanted, ladder)
  BY <1>1 DEF normalizeReasoning
<1>6. wanted = Odd => clampReasoningEffort(wanted, ladder) = High
  BY DEF clampReasoningEffort
<1>7. wanted \in 1..Rungs =>
        /\ clampReasoningEffort(wanted, ladder) \in ladder
        /\ clampReasoningEffort(wanted, ladder) > wanted => clampReasoningEffort(wanted, ladder) = Min(ladder)
        /\ \A r \in ladder : r <= wanted => r <= clampReasoningEffort(wanted, ladder)
  <2> HIDE DEF wanted
  <2> QED
    BY ClampIs
<1>8. wanted = 0 \/ wanted = Odd \/ wanted \in 1..Rungs
  BY <1>1, <1>2 DEF Odd
<1> HIDE DEF wanted
<1>9. e \in ladder \cup {0, High}
  BY <1>5, <1>6, <1>7, <1>8
<1>10. Wish(p) \in 1..Rungs /\ e > Wish(p) => e = Min(ladder) \/ (Wish(p) = Medium /\ e = High)
  BY <1>1, <1>3, <1>5, <1>7
<1>11. Wish(p) \in 1..Rungs /\ p.thinking # "disabled" => e # 0 /\ \A r \in ladder : r <= Wish(p) => r <= e
  <2> SUFFICES ASSUME Wish(p) \in 1..Rungs, p.thinking # "disabled"
               PROVE  e # 0 /\ \A r \in ladder : r <= Wish(p) => r <= e
    OBVIOUS
  <2>1. wanted = Wish(p) /\ wanted # 0
    BY <1>1, <1>3
  <2>2. CASE wanted = Medium /\ Mediumless
    <3>1. e = High
      BY <1>5, <2>1, <2>2
    <3> HIDE DEF e
    <3> QED
      BY <1>1, <2>1, <2>2, <3>1
  <2>3. CASE ~(wanted = Medium /\ Mediumless)
    <3>1. e = clampReasoningEffort(wanted, ladder)
      BY <1>5, <2>1, <2>3
    <3> HIDE DEF e
    <3> QED
      BY <1>1, <1>7, <2>1, <3>1
  <2> QED
    BY <2>2, <2>3
<1>12. p.thinking = "disabled" => e = 0
  BY <1>5
<1>13. p.effort = 0 /\ p.budget = 0 /\ p.thinking = "absent" /\ p.suffix = 0 => e = 0
  BY <1>4, <1>5
<1> HIDE DEF e
<1> QED
  BY <1>9, <1>10, <1>11, <1>12, <1>13 DEF e

LEMMA ThinkingIs ==
  ASSUME NEW p, p.budget \in Nat
  PROVE  /\ anthropicThinkingToEffort(p) \in 0..Odd
         /\ p.thinking \in {"absent", "disabled"} => anthropicThinkingToEffort(p) = 0
<1>1. Rungs \in Nat /\ High \in 1..(Rungs - 1) /\ budgetToEffort(p.budget) \in 1..(High + 1)
  BY BudgetIs, EnvelopeAssumption
<1>2. p.thinking \in {"absent", "disabled"} => anthropicThinkingToEffort(p) = 0
  BY DEF anthropicThinkingToEffort
<1>3. anthropicThinkingToEffort(p) \in {0, High, budgetToEffort(p.budget)}
  BY DEF anthropicThinkingToEffort
<1> QED
  BY <1>1, <1>2, <1>3 DEF Odd

\* The parameters as they are normalised: named is what the client named, and the
\* model is asked for nothing when the client turned thinking off, but that the
\* effort a Messages request names counts all the same.
LEMMA TranslatedIs ==
  ASSUME EnvelopeInv, ~Refuses
  PROVE  LET named == IF api = "chat" /\ params.effort = 0 /\ params.budget > 0 THEN budgetToEffort(params.budget)
                      ELSE params.effort
             p == Translated
         IN  /\ p.effort \in 0..Odd /\ p.suffix \in {0, 1, Medium} /\ p.budget \in Nat
             /\ named \in 1..Rungs => \/ Wish(p) = named /\ (params.thinking # "disabled" => p.thinking # "disabled")
                                      \/ normalizeReasoning(p) = 0 /\ params.thinking = "disabled"
             /\ params.thinking = "disabled" /\ api # "messages" =>
                  \/ p.thinking = "disabled"
                  \/ p.effort = 0 /\ p.budget = 0 /\ p.thinking = "absent" /\ p.suffix = 0
             /\ params.thinking = "disabled" /\ params.effort = 0 /\ params.suffix = 0 =>
                  \/ p.thinking = "disabled"
                  \/ p.effort = 0 /\ p.budget = 0 /\ p.thinking = "absent" /\ p.suffix = 0
             /\ p.tools = params.tools /\ p.functions = params.functions
             /\ p.choice = params.choice /\ p.format = params.format
<1> DEFINE p == Translated
           named == IF api = "chat" /\ params.effort = 0 /\ params.budget > 0 THEN budgetToEffort(params.budget)
                    ELSE params.effort
<1>1. Asked(params, api) /\ DOMAIN params = Parameters /\ api \in {"chat", "messages", "responses"} /\ ladder \in Ladders
  BY DEF EnvelopeInv, Asked
<1>2. Rungs \in Nat /\ Odd = Rungs + 1
  BY EnvelopeAssumption DEF Odd
<1>3. CASE api = "chat"
  <2>1. p = params
    BY <1>3 DEF Translated
  <2>2. Wish(p) = named
    BY <1>3, <2>1 DEF Wish
  <2> HIDE DEF p
  <2> QED
    BY <1>1, <1>3, <2>1, <2>2 DEF Asked, p
<1>4. CASE api = "messages"
  <2>1. p = [params EXCEPT !.effort = IF @ = 0 THEN anthropicThinkingToEffort(params) ELSE @,
                           !.thinking = "absent", !.budget = 0]
    BY <1>4 DEF Translated, anthropicToChatParams
  <2>2. /\ p.effort = IF params.effort = 0 THEN anthropicThinkingToEffort(params) ELSE params.effort
        /\ p.thinking = "absent" /\ p.budget = 0 /\ p.suffix = params.suffix
        /\ p.tools = params.tools /\ p.functions = params.functions
        /\ p.choice = params.choice /\ p.format = params.format
    BY <1>1, <2>1 DEF Parameters
  <2>3. /\ anthropicThinkingToEffort(params) \in 0..Odd
        /\ params.thinking \in {"absent", "disabled"} => anthropicThinkingToEffort(params) = 0
    BY <1>1, ThinkingIs DEF Asked
  <2> HIDE DEF p
  <2>4. named \in 1..Rungs => Wish(p) = named
    BY <1>2, <1>4, <2>2 DEF Wish
  <2> QED
    BY <1>1, <1>2, <1>4, <2>2, <2>3, <2>4 DEF Asked, p
<1>5. CASE api = "responses"
  <2>1. p = [params EXCEPT !.effort = IF params.thinking = "disabled" THEN 0 ELSE @,
                           !.thinking = "absent", !.suffix = 0]
    BY <1>5 DEF Translated, responsesToChatParams
  <2>2. /\ p.effort = (IF params.thinking = "disabled" THEN 0 ELSE params.effort)
        /\ p.thinking = "absent" /\ p.budget = params.budget /\ p.suffix = 0
        /\ p.tools = params.tools /\ p.functions = params.functions
        /\ p.choice = params.choice /\ p.format = params.format
    BY <1>1, <2>1 DEF Parameters
  <2>3. params.budget = 0 /\ named = params.effort
    BY <1>1, <1>5 DEF Asked
  <2> HIDE DEF p
  <2>4. params.thinking # "disabled" => Wish(p) = named
    BY <1>2, <2>2, <2>3 DEF Wish
  <2>5. params.thinking = "disabled" => normalizeReasoning(p) = 0
    <3>1. params.thinking = "disabled" => p.effort = 0 /\ p.budget = 0 /\ p.thinking = "absent" /\ p.suffix = 0
      BY <2>2, <2>3
    <3>2. p.effort \in 0..Odd /\ p.suffix \in {0, 1, Medium} /\ p.budget \in Nat
      BY <1>1, <1>2, <2>2 DEF Asked
    <3> QED
      BY <1>1, <3>1, <3>2, ReasoningIs
  <2> QED
    BY <1>1, <1>2, <1>5, <2>2, <2>3, <2>4, <2>5 DEF Asked, p
<1> QED
  BY <1>1, <1>3, <1>4, <1>5

LEMMA SendHonest ==
  ASSUME EnvelopeInv, Send_
  PROVE  EnvelopeInv'
<1>1. /\ api' = api /\ ladder' = ladder /\ params' = params
      /\ envelope' = IF Refuses THEN Refusal ELSE NormalizeRequestOpts(Translated)
  BY DEF Send_
<1>2. Asked(params, api) /\ api \in {"chat", "messages", "responses"} /\ ladder \in Ladders
  BY DEF EnvelopeInv
<1>3. EnvelopeHonest'
  <2> SUFFICES ASSUME envelope' # Refusal PROVE EnvelopeHonest'
    BY DEF EnvelopeHonest, Accepted_
  <2> DEFINE p == Translated
             e == normalizeReasoning(p)
             named == IF api = "chat" /\ params.effort = 0 /\ params.budget > 0 THEN budgetToEffort(params.budget)
                      ELSE params.effort
  <2>1. ~Refuses
    BY <1>1
  <2>2. /\ p.effort \in 0..Odd /\ p.suffix \in {0, 1, Medium} /\ p.budget \in Nat
        /\ named \in 1..Rungs => \/ Wish(p) = named /\ (params.thinking # "disabled" => p.thinking # "disabled")
                                 \/ e = 0 /\ params.thinking = "disabled"
        /\ params.thinking = "disabled" /\ api # "messages" =>
             \/ p.thinking = "disabled"
             \/ p.effort = 0 /\ p.budget = 0 /\ p.thinking = "absent" /\ p.suffix = 0
        /\ params.thinking = "disabled" /\ params.effort = 0 /\ params.suffix = 0 =>
             \/ p.thinking = "disabled"
             \/ p.effort = 0 /\ p.budget = 0 /\ p.thinking = "absent" /\ p.suffix = 0
        /\ p.tools = params.tools /\ p.functions = params.functions
        /\ p.choice = params.choice /\ p.format = params.format
    BY <2>1, TranslatedIs
  <2>3. /\ envelope'.effort = e /\ envelope'.tools = Tools(p) /\ envelope'.choice = Choice(p)
        /\ envelope'.format = p.format
    BY <1>1, <2>1 DEF NormalizeRequestOpts
  <2> HIDE DEF p
  <2>4. /\ e \in ladder \cup {0, High}
        /\ p.thinking = "disabled" => e = 0
        /\ p.effort = 0 /\ p.budget = 0 /\ p.thinking = "absent" /\ p.suffix = 0 => e = 0
        /\ Wish(p) \in 1..Rungs /\ e > Wish(p) => e = Min(ladder) \/ (Wish(p) = Medium /\ e = High)
        /\ Wish(p) \in 1..Rungs /\ p.thinking # "disabled" =>
             e # 0 /\ \A r \in ladder : r <= Wish(p) => r <= e
    BY <1>2, <2>2, ReasoningIs
  <2> HIDE DEF e, named
  <2>5. ~(0 > named) \/ named \notin 1..Rungs
    BY EnvelopeAssumption
  <2>6. named \in 1..Rungs /\ e > named => e = Min(ladder) \/ (named = Medium /\ e = High)
    BY <2>2, <2>4, <2>5
  <2>7. named \in 1..Rungs /\ params.thinking # "disabled" => e # 0 /\ \A r \in ladder : r <= named => r <= e
    BY <2>2, <2>4
  <2>8. params.thinking = "disabled" /\ api # "messages" => e = 0
    BY <2>2, <2>4
  <2>9. params.thinking = "disabled" /\ params.effort = 0 /\ params.suffix = 0 => e = 0
    BY <2>2, <2>4
  <2>10. params.state = "absent" /\ params.tools # "builtin" /\ params.choice # "builtin"
    BY <1>2, <2>1 DEF Asked, Refuses, AnthropicRefuses, ResponsesRefuses
  <2>11. /\ params.tools = "function" => Tools(p) = "function"
         /\ params.functions # "absent" => Tools(p) = "function"
         /\ params.choice # "absent" => Choice(p) = params.choice
    BY <1>2, <2>2, <2>10 DEF Asked, Tools, Choice
  <2> QED
    BY <1>1, <2>2, <2>3, <2>4, <2>6, <2>7, <2>8, <2>9, <2>10, <2>11 DEF EnvelopeHonest, Off_, named
<1> QED
  BY <1>1, <1>2, <1>3 DEF EnvelopeInv

ChunkFields == {"is", "error", "id", "object", "created", "model", "system_fingerprint", "service_tier",
                "usage", "other", "array", "choices"}

\* The upstream's chunk: its fields, a list of choices, an error it may carry.
ChunkInv ==
  /\ DOMAIN chunk = ChunkFields
  /\ chunk.error \in {"none", "null", "text", "bare", "whole"}
  /\ \E S : chunk.choices \in Seq(S)
  /\ ChunkInShape

LEMMA ChunkStarts == ChunksInit => ChunkInv
<1> SUFFICES ASSUME ChunksInit PROVE ChunkInv
  OBVIOUS
<1>1. chunk = PlainChunk /\ relayed = NotYet
  BY DEF ChunksInit
<1>2. chunk.choices \in Seq({PlainChoice})
  BY <1>1 DEF PlainChunk
<1>3. DOMAIN chunk = ChunkFields /\ chunk.error = "none"
  BY <1>1 DEF PlainChunk, ChunkFields
<1> QED
  BY <1>1, <1>2, <1>3 DEF ChunkInv, ChunkInShape

\* Something is off about it.
LEMMA ChunkChanged ==
  ASSUME ChunkInv, Quirk, DOMAIN chunk' = ChunkFields,
         chunk'.error \in {"none", "null", "text", "bare", "whole"}, \E S : chunk'.choices \in Seq(S)
  PROVE  ChunkInv'
<1>1. relayed' = NotYet
  BY DEF Quirk
<1> QED
  BY <1>1 DEF ChunkInv, ChunkInShape

LEMMA ChunkOffKept ==
  ASSUME ChunkInv, NEW k \in ChunkKeys, ChunkOff(k)
  PROVE  ChunkInv'
<1>1. PICK v \in Off(k) : chunk' = [chunk EXCEPT ![k] = v]
  BY DEF ChunkOff
<1>2. k \in ChunkFields /\ DOMAIN chunk = ChunkFields
  BY DEF ChunkKeys, PlainChunk, ChunkFields, ChunkInv
<1>3. chunk'[k] = v /\ DOMAIN chunk' = ChunkFields /\ \A x \in ChunkFields : x # k => chunk'[x] = chunk[x]
  BY <1>1, <1>2
<1>4. chunk'.error \in {"none", "null", "text", "bare", "whole"}
  <2>1. CASE k = "error"
    BY <1>3, <2>1 DEF Off
  <2>2. CASE k # "error"
    BY <1>3, <2>2 DEF ChunkInv, ChunkFields
  <2> QED
    BY <2>1, <2>2
<1>5. \E S : chunk'.choices \in Seq(S)
  <2>1. CASE k = "choices"
    <3>1. v \in {<< >>, <<ScrapChoice>>, <<ScrapChoice, PlainChoice>>}
      BY <2>1 DEF Off
    <3>2. /\ << >> \in Seq({ScrapChoice, PlainChoice}) /\ <<ScrapChoice>> \in Seq({ScrapChoice, PlainChoice})
          /\ <<ScrapChoice, PlainChoice>> \in Seq({ScrapChoice, PlainChoice})
      OBVIOUS
    <3>3. v \in Seq({ScrapChoice, PlainChoice})
      BY <3>1, <3>2
    <3> QED
      BY <1>3, <2>1, <3>3
  <2>2. CASE k # "choices"
    BY <1>3, <2>2 DEF ChunkInv, ChunkFields
  <2> QED
    BY <2>1, <2>2
<1>6. Quirk
  BY DEF ChunkOff
<1> QED
  BY <1>3, <1>4, <1>5, <1>6, ChunkChanged

\* Something is off about its first choice.
LEMMA ChoiceOffKept ==
  ASSUME ChunkInv, Quirk, NEW x, chunk' = [chunk EXCEPT !.choices = [@ EXCEPT ![1] = x]]
  PROVE  ChunkInv'
<1>1. DOMAIN chunk = ChunkFields
  BY DEF ChunkInv
<1>2. DOMAIN chunk' = ChunkFields /\ chunk'.error = chunk.error /\ chunk'.choices = [chunk.choices EXCEPT ![1] = x]
  BY <1>1 DEF ChunkFields
<1>3. PICK S : chunk.choices \in Seq(S)
  BY DEF ChunkInv
<1>4. [chunk.choices EXCEPT ![1] = x] \in Seq(S \cup {x})
  <2>1. Len(chunk.choices) \in Nat /\ chunk.choices \in [1..Len(chunk.choices) -> S]
    BY <1>3
  <2>2. [chunk.choices EXCEPT ![1] = x] \in [1..Len(chunk.choices) -> S \cup {x}]
    BY <2>1
  <2> QED
    BY <2>1, <2>2
<1> QED
  BY <1>2, <1>4, ChunkChanged DEF ChunkInv

\* The choices that are objects, in their order, are among those of the chunk.
LEMMA ListedIs ==
  ASSUME ChunkInv
  PROVE  /\ DOMAIN Listed(chunk) = 1..Len(Listed(chunk))
         /\ \A i \in DOMAIN Listed(chunk) : \E j \in DOMAIN ChunkChoices(chunk) : Listed(chunk)[i] = ChunkChoices(chunk)[j]
         /\ chunk.array # "none" => ChunkChoices(chunk) = chunk.choices
<1>1. PICK S : chunk.choices \in Seq(S)
  BY DEF ChunkInv
<1> DEFINE s == ChunkChoices(chunk)
           I == {i \in DOMAIN s : s[i].other # "scrap"}
<1>2. s \in Seq(S)
  BY <1>1 DEF ChunkChoices
<1>3. I \in SUBSET DOMAIN s
  OBVIOUS
<1>4. Listed(chunk) = Picked(s, I)
  BY DEF Listed
<1>5. chunk.array # "none" => s = chunk.choices
  BY DEF ChunkChoices
<1> HIDE DEF s, I
<1>6. /\ Picked(s, I) \in Seq(S)
      /\ \A n \in DOMAIN Picked(s, I) : NthOf(I, n) \in I /\ Picked(s, I)[n] = s[NthOf(I, n)]
  BY <1>2, <1>3, PickedIs
<1>7. \A n \in DOMAIN Picked(s, I) : NthOf(I, n) \in DOMAIN s /\ Picked(s, I)[n] = s[NthOf(I, n)]
  BY <1>3, <1>6
<1>8. DOMAIN Picked(s, I) = 1..Len(Picked(s, I))
  BY <1>6
<1> QED
  BY <1>4, <1>5, <1>7, <1>8 DEF s

\* A delta as it is relayed.
LEMMA CleanIs ==
  ASSUME NEW choice, NEW folding \in BOOLEAN
  PROVE  LET x == CleanChoice(choice, folding)
         IN  /\ x.other = "none" /\ x.index \notin {"none", "fraction"} /\ x.finish_reason # "none"
             /\ HasDelta(x) /\ x.logprobs # "null" /\ x.delta.content # "null"
             /\ x.delta.reasoning = x.delta.reasoning_content /\ x.delta.reasoning_content # "bad"
             /\ HasDelta(choice) /\ choice.delta.content = "own" => x.delta.content \in {"own", "folded"}
<1> DEFINE d == IF HasDelta(choice) THEN choice.delta ELSE [PlainDelta EXCEPT !.content = "none"]
           r == Reasoning(d)  t == FoldedInto(d, folding)  x == CleanChoice(choice, folding)
<1>1. r # "bad"
  BY DEF Reasoning, Kept
<1>2. t # "null" /\ (d.content = "own" => t \in {"own", "folded"})
  BY DEF FoldedInto, Kept
<1>3. CleanDelta(choice, folding) = [is |-> "delta", content |-> t, reasoning_content |-> r, reasoning |-> r]
  BY DEF CleanDelta
<1>4. HasDelta(choice) => d = choice.delta
  OBVIOUS
<1> HIDE DEF d, r, t
<1>5. /\ x.delta.is = "delta" /\ x.delta.content = t /\ x.delta.reasoning_content = r /\ x.delta.reasoning = r
  BY <1>3 DEF CleanChoice
<1>6. Ensured(choice.index) \notin {"none", "fraction"} /\ Kept(choice.logprobs) # "null"
  BY DEF Ensured, Kept
<1>7. x.other = "none" /\ x.index \notin {"none", "fraction"} /\ x.finish_reason # "none" /\ x.logprobs # "null"
  BY <1>6 DEF CleanChoice
<1> QED
  BY <1>1, <1>2, <1>4, <1>5, <1>7 DEF HasDelta

\* The shape of one choice that is relayed.
Shapely(x) ==
  /\ x.other = "none" /\ x.index \notin {"none", "fraction"} /\ x.finish_reason # "none"
  /\ HasDelta(x) /\ x.logprobs # "null" /\ x.delta.content # "null"
  /\ x.delta.reasoning = "none" <=> x.delta.reasoning_content = "none"
  /\ x.delta.reasoning_content # "bad"

LEMMA RelayedInShape ==
  ASSUME ChunkInv, NEW folding \in BOOLEAN, SanitizeChunkOpts(folding)
  PROVE  ChunkInv'
<1>1. chunk' = chunk /\ relayed' = IF ~folding /\ ~needsSanitize(chunk) THEN chunk ELSE sanitizeChunk(chunk, folding)
  BY DEF SanitizeChunkOpts
<1>2. /\ DOMAIN Listed(chunk) = 1..Len(Listed(chunk))
      /\ \A i \in DOMAIN Listed(chunk) : \E j \in DOMAIN ChunkChoices(chunk) : Listed(chunk)[i] = ChunkChoices(chunk)[j]
      /\ chunk.array # "none" => ChunkChoices(chunk) = chunk.choices
  BY ListedIs
<1>3. CASE ~folding /\ ~needsSanitize(chunk)
  <2>1. /\ relayed' = chunk /\ chunk.error = "none" /\ chunk.id = "own" /\ chunk.object = "own" /\ chunk.created = "own"
        /\ chunk.model = "own" /\ chunk.array # "none" /\ chunk.usage # "null" /\ chunk.other = "none"
        /\ \A i \in DOMAIN ChunkChoices(chunk) : ~ChoiceOffShape(ChunkChoices(chunk)[i])
    BY <1>1, <1>3 DEF needsSanitize
  <2>2. relayed' # Dropped
    <3>1. "error" \in DOMAIN chunk /\ DOMAIN Dropped = {"is"}
      BY DEF ChunkInv, ChunkFields, Dropped
    <3> QED
      BY <2>1, <3>1
  <2>3. ~IsError(chunk)
    BY <2>1 DEF IsError
  <2>4. \A i \in DOMAIN chunk.choices : Shapely(chunk.choices[i])
    <3>1. \A x : ~ChoiceOffShape(x) => Shapely(x)
      BY DEF ChoiceOffShape, DeltaOffShape, Shapely
    <3> QED
      BY <1>2, <2>1, <3>1
  <2>5. Spoke(chunk) => \E i \in DOMAIN chunk.choices : chunk.choices[i].delta.content = "own"
    BY <1>2, <2>1 DEF Spoke
  <2> QED
    BY <1>1, <2>1, <2>2, <2>3, <2>4, <2>5 DEF ChunkInv, ChunkInShape, Shapely, Sent_
<1>4. CASE IsError(chunk) /\ relayed' = CleanError(chunk)
  <2>1. relayed'.error = IF chunk.error = "bare" THEN "given" ELSE chunk.error
    BY <1>4 DEF CleanError, PlainChunk
  <2>2. relayed'.error \in {"given", "text", "whole"}
    BY <1>4, <2>1 DEF ChunkInv, IsError
  <2>3. relayed' # Dropped
    BY <1>4 DEF CleanError, PlainChunk, Dropped
  <2> QED
    BY <1>1, <1>4, <2>2, <2>3 DEF ChunkInv, ChunkInShape, Sent_
<1>5. CASE ~IsError(chunk) /\ Empty_(chunk) /\ relayed' = Dropped
  <2>1. ~Spoke(chunk) /\ chunk.usage # "own"
    <3>1. DOMAIN Listed(chunk) = {}
      BY <1>5 DEF Empty_
    <3> QED
      BY <1>5, <3>1 DEF Empty_, Spoke
  <2> QED
    BY <1>1, <1>5, <2>1 DEF ChunkInv, ChunkInShape, Sent_
<1>6. CASE ~IsError(chunk) /\ relayed' = CleanChunk(chunk, folding)
  <2>1. DOMAIN chunk = ChunkFields
    BY DEF ChunkInv
  <2>2. /\ relayed'.id = Ensured(chunk.id) /\ relayed'.object = Ensured(chunk.object)
        /\ relayed'.created = Ensured(chunk.created) /\ relayed'.model = Ensured(chunk.model)
        /\ relayed'.usage = Kept(chunk.usage) /\ relayed'.other = "none" /\ relayed'.array = "own"
        /\ relayed'.error = "none"
        /\ relayed'.choices = [i \in DOMAIN Listed(chunk) |-> CleanChoice(Listed(chunk)[i], folding)]
    BY <1>6, <2>1 DEF CleanChunk, ChunkFields
  <2>3. \A v : Ensured(v) \notin {"none", "fraction"} /\ Kept(v) # "null"
    BY DEF Ensured, Kept
  <2>4. \A i \in DOMAIN relayed'.choices :
          /\ Shapely(relayed'.choices[i])
          /\ HasDelta(Listed(chunk)[i]) /\ Listed(chunk)[i].delta.content = "own" =>
               relayed'.choices[i].delta.content \in {"own", "folded"}
    <3>1. ASSUME NEW i \in DOMAIN Listed(chunk)
          PROVE  /\ Shapely(CleanChoice(Listed(chunk)[i], folding))
                 /\ HasDelta(Listed(chunk)[i]) /\ Listed(chunk)[i].delta.content = "own" =>
                      CleanChoice(Listed(chunk)[i], folding).delta.content \in {"own", "folded"}
      BY CleanIs DEF Shapely
    <3> QED
      BY <2>2, <3>1
  <2>5. Spoke(chunk) => \E i \in DOMAIN relayed'.choices : relayed'.choices[i].delta.content \in {"own", "folded"}
    BY <2>2, <2>4 DEF Spoke
  <2>6. relayed' # Dropped
    <3>1. DOMAIN relayed' = ChunkFields /\ DOMAIN Dropped = {"is"}
      BY <1>6, <2>1 DEF CleanChunk, Dropped
    <3> QED
      BY <3>1 DEF ChunkFields
  <2> QED
    BY <1>1, <1>6, <2>2, <2>3, <2>4, <2>5, <2>6 DEF ChunkInv, ChunkInShape, Shapely, Sent_
<1> QED
  BY <1>1, <1>3, <1>4, <1>5, <1>6 DEF sanitizeChunk

LEMMA ChunkStep == ChunkInv /\ [ChunksNext]_chunkVars => ChunkInv'
<1> SUFFICES ASSUME ChunkInv, [ChunksNext]_chunkVars PROVE ChunkInv'
  OBVIOUS
<1>1. ASSUME NEW k \in ChunkKeys, ChunkOff(k) PROVE ChunkInv'
  BY <1>1, ChunkOffKept
<1>2. ASSUME NEW k \in ChoiceKeys, ChoiceOff(k) PROVE ChunkInv'
  <2>1. PICK v \in Off(k) : chunk' = [chunk EXCEPT !.choices[1][k] = v]
    BY <1>2 DEF ChoiceOff
  <2>2. \E x : chunk' = [chunk EXCEPT !.choices = [@ EXCEPT ![1] = x]]
    BY <2>1
  <2>3. Quirk
    BY <1>2 DEF ChoiceOff
  <2> QED
    BY <2>2, <2>3, ChoiceOffKept
<1>3. ASSUME NEW k \in DeltaKeys, DeltaOff(k) PROVE ChunkInv'
  <2>1. PICK v \in Off(k) : chunk' = [chunk EXCEPT !.choices[1].delta[k] = v]
    BY <1>3 DEF DeltaOff
  <2>2. \E x : chunk' = [chunk EXCEPT !.choices = [@ EXCEPT ![1] = x]]
    BY <2>1
  <2>3. Quirk
    BY <1>3 DEF DeltaOff
  <2> QED
    BY <2>2, <2>3, ChoiceOffKept
<1>4. ASSUME NEW folding \in BOOLEAN, SanitizeChunkOpts(folding) PROVE ChunkInv'
  BY <1>4, RelayedInShape
<1>5. UNCHANGED chunkVars => ChunkInv'
  BY DEF chunkVars, ChunkInv, ChunkInShape, Sent_
<1> QED
  BY <1>1, <1>2, <1>3, <1>4, <1>5 DEF ChunksNext

LEMMA EnvelopeStarts == EnvelopeInit => EnvelopeInv
<1> SUFFICES ASSUME EnvelopeInit PROVE EnvelopeInv
  OBVIOUS
<1>1. params = Plain /\ envelope = Unsent /\ ladder \in Ladders /\ api \in {"chat", "messages", "responses"}
  BY DEF EnvelopeInit
<1>2. 0 \in 0..Odd
  BY EnvelopeAssumption DEF Odd
<1>3. Asked(params, api)
  BY <1>1, <1>2 DEF Plain, Asked, Parameters
<1> QED
  BY <1>1, <1>3 DEF EnvelopeInv, EnvelopeHonest, Accepted_

LEMMA EnvelopeStep == EnvelopeInv /\ [EnvelopeNext]_envelopeVars => EnvelopeInv'
<1> SUFFICES ASSUME EnvelopeInv, [EnvelopeNext]_envelopeVars PROVE EnvelopeInv'
  OBVIOUS
<1>1. ASSUME NEW k \in DOMAIN Plain, Ask_(k) PROVE EnvelopeInv'
  BY <1>1, AskedMore
<1>2. ASSUME Send_ PROVE EnvelopeInv'
  BY <1>2, SendHonest
<1>3. UNCHANGED envelopeVars => EnvelopeInv'
  BY DEF envelopeVars, EnvelopeInv, EnvelopeHonest, Accepted_, Off_
<1> QED
  BY <1>1, <1>2, <1>3 DEF EnvelopeNext

\* A step of a request is one of each of its stages, or that stage rests.
LEMMA RequestsMoves ==
  ASSUME [RequestsNext]_requestsVars
  PROVE  [EnvelopeNext]_envelopeVars /\ [ChunksNext]_chunkVars /\ [ToolNamesNext]_toolVars /\ [ConvertNext]_convertVars
BY DEF RequestsNext, requestsVars

(* The parameters that reach the upstream are within what its model allows and the     *)
(* client asked for (effort.go, anthropic.go, responses.go), and every chunk relayed   *)
(* has the shape clients rely on, with nothing said lost (sse.go).                     *)
THEOREM RequestsWireHonest == RequestsSpec => []WireHonest
<1>1. RequestsInit => EnvelopeInv /\ ChunkInv
  BY EnvelopeStarts, ChunkStarts DEF RequestsInit
<1>2. EnvelopeInv /\ ChunkInv /\ [RequestsNext]_requestsVars => (EnvelopeInv /\ ChunkInv)'
  BY RequestsMoves, EnvelopeStep, ChunkStep
<1>3. EnvelopeInv /\ ChunkInv => WireHonest
  BY DEF EnvelopeInv, ChunkInv, WireHonest
<1> QED
  BY <1>1, <1>2, <1>3, PTL DEF RequestsSpec

---------------------------------------------------------------------------
(* The names of the tools of a request *)

\* The words of names, those the renaming adds among them.
Word == STRING \cup {"mcp", "hash", "end_turn", "decide"}
ToolName == Seq(Word) \ {<<>>}

\* Every tool that has been renamed is on the wire under the name that is wanted for it now.
FailedScan ==
  /\ toClient = NoMap /\ toWire = NoMap
  /\ \A j \in DOMAIN wire : \E k \in DOMAIN wire : wire[k] = Wanted(tools[j])

\* The reverse map leads a wire name to its owner, or the name is the owner's own.
GoodScan ==
  /\ DOMAIN toClient \subseteq ToolName
  /\ toWire = [n \in DOMAIN toWire |-> toWire[n]] /\ DOMAIN toWire \subseteq {tools[i] : i \in DOMAIN tools}
  /\ \A n \in DOMAIN toWire : toWire[n] \in ToolName
  /\ \A i \in DOMAIN wire :
       IF wire[i] \in DOMAIN toClient THEN toClient[wire[i]] = tools[i] ELSE wire[i] = tools[i]
  /\ \A j \in DOMAIN wire : \E k \in DOMAIN wire : wire[k] = Wanted(tools[j]) /\ tools[k] = tools[j]

NamesShape ==
  /\ leg \in {"offer", "rename", "sent"}
  /\ tools \in Seq(ToolName) /\ wire \in Seq(ToolName)
  /\ Len(wire) <= Len(tools) /\ Len(tools) <= MaxTools + 2
  /\ pinned # NoTool => pinned \in {tools[i] : i \in DOMAIN tools}
  /\ leg = "offer" => wire = <<>> /\ Len(tools) <= MaxTools
  /\ leg = "sent" => Len(wire) = Len(tools) /\ (pinned # NoTool => pin = Wanted(pinned))

NamesInv ==
  /\ NamesShape
  /\ \A i, j \in DOMAIN wire : wire[i] = wire[j] => i = j
  /\ leg # "offer" => FailedScan \/ GoodScan

\* A word put in front of a list moves the others by one.
LEMMA PrefixedBy ==
  ASSUME NEW S, NEW w \in S, NEW n \in Seq(S), n # <<>>
  PROVE  /\ <<w>> \o n \in Seq(S) /\ <<w>> \o n # <<>>
         /\ Len(<<w>> \o n) = Len(n) + 1 /\ Len(n) \in Nat \ {0}
         /\ (<<w>> \o n)[1] = w
         /\ \A k \in 1..Len(n) : (<<w>> \o n)[k + 1] = n[k]
<1>1. <<w>> \in Seq(S) /\ Len(<<w>>) = 1 /\ <<w>>[1] = w
  OBVIOUS
<1>2. Len(n) \in Nat \ {0}
  OBVIOUS
<1>3. <<w>> \o n \in Seq(S) /\ Len(<<w>> \o n) = Len(n) + 1
  BY <1>1, <1>2
<1>4. (<<w>> \o n)[1] = w
  BY <1>1, <1>2
<1>5. \A k \in 1..Len(n) : (<<w>> \o n)[k + 1] = n[k]
  BY <1>1, <1>2
<1> QED
  BY <1>2, <1>3, <1>4, <1>5

\* The same of a name: it stays one.
LEMMA Prefixed ==
  ASSUME NEW w \in Word, NEW n \in ToolName
  PROVE  /\ <<w>> \o n \in ToolName /\ Len(<<w>> \o n) = Len(n) + 1 /\ Len(n) \in Nat \ {0}
         /\ (<<w>> \o n)[1] = w
         /\ \A k \in 1..Len(n) : (<<w>> \o n)[k + 1] = n[k]
<1>1. n \in Seq(Word) /\ n # <<>>
  BY DEF ToolName
<1>2. /\ <<w>> \o n \in Seq(Word) /\ <<w>> \o n # <<>>
      /\ Len(<<w>> \o n) = Len(n) + 1 /\ Len(n) \in Nat \ {0}
      /\ (<<w>> \o n)[1] = w
      /\ \A k \in 1..Len(n) : (<<w>> \o n)[k + 1] = n[k]
  BY <1>1, PrefixedBy
<1> QED
  BY <1>2 DEF ToolName

\* What the client, the tables and the session bring are names, and there are marks enough.
LEMMA OffersShaped ==
  /\ Seq(STRING) \ {<<>>} \subseteq ToolName
  /\ OfferedNames \subseteq ToolName /\ \A n \in DOMAIN Official : Official[n] \in ToolName
  /\ <<"end_turn">> \in ToolName /\ <<"decide">> \in ToolName
  /\ Marks \in Seq(Word)
  /\ MaxTools \in Nat /\ Len(Marks) \in Nat /\ Len(Marks) >= MaxTools + 2
<1>1. Seq(STRING) \subseteq Seq(Word)
  <2>1. SUFFICES ASSUME NEW s \in Seq(STRING) PROVE s \in Seq(Word)
    OBVIOUS
  <2>2. STRING \subseteq Word
    BY DEF Word
  <2> DEFINE A == STRING
  <2>3. s \in Seq(A) /\ A \subseteq Word
    BY <2>1, <2>2
  <2> HIDE DEF A
  <2> QED
    BY <2>3
<1>2. <<"end_turn">> \in ToolName /\ <<"decide">> \in ToolName
  <2>1. "end_turn" \in Word /\ "decide" \in Word
    BY DEF Word
  <2> QED
    BY <2>1 DEF ToolName
<1> QED
  BY <1>1, <1>2, ToolNamesAssumption DEF ToolName

\* The prefix of a request makes a longer name.
LEMMA VirtualWord ==
  ASSUME NEW n \in ToolName
  PROVE  /\ wireVirtualName(n) \in ToolName /\ Len(wireVirtualName(n)) = Len(n) + 1
         /\ Len(n) \in Nat
<1>1. PICK w : w \in Word /\ wireVirtualName(n) = <<w>> \o n
  <2>1. wireVirtualName(n) = <<"mcp">> \o n \/ wireVirtualName(n) = <<"hash">> \o n
    BY DEF wireVirtualName
  <2>2. "mcp" \in Word /\ "hash" \in Word
    BY DEF Word
  <2> QED
    BY <2>1, <2>2
<1> QED
  BY <1>1, Prefixed

\* What a tool is called upstream is a name.
LEMMA ResolvedWord ==
  ASSUME NEW n \in ToolName
  PROVE  resolveUpstreamTool(n) \in ToolName
<1>1. wireVirtualName(n) \in ToolName
  BY VirtualWord
<1>2. n \in DOMAIN Official => Official[n] \in ToolName
  BY OffersShaped
<1>3. resolveUpstreamTool(n) \in {n, Official[n], wireVirtualName(n)}
      /\ (resolveUpstreamTool(n) = Official[n] => n \in DOMAIN Official \/ resolveUpstreamTool(n) \in {n, wireVirtualName(n)})
  BY DEF resolveUpstreamTool
<1> QED
  BY <1>1, <1>2, <1>3

\* The numbers make different names of one.
LEMMA NumberedApart ==
  ASSUME NEW n \in ToolName, NEW i \in 1..(MaxTools + 2), NEW j \in 1..(MaxTools + 2),
         wireVirtualName(Numbered(n, i)) = wireVirtualName(Numbered(n, j))
  PROVE  i = j
<1>1. \A k \in 1..(MaxTools + 2) :
        /\ Marks[k] \in Word /\ k \in DOMAIN Marks
        /\ Numbered(n, k) = <<Marks[k]>> \o n /\ Numbered(n, k) \in ToolName /\ Numbered(n, k)[1] = Marks[k]
  <2> SUFFICES ASSUME NEW k \in 1..(MaxTools + 2)
               PROVE  /\ Marks[k] \in Word /\ k \in DOMAIN Marks
                      /\ Numbered(n, k) = <<Marks[k]>> \o n /\ Numbered(n, k) \in ToolName /\ Numbered(n, k)[1] = Marks[k]
    OBVIOUS
  <2>1. k \in 1..Len(Marks)
    BY OffersShaped
  <2>2. Marks[k] \in Word /\ k \in DOMAIN Marks
    BY <2>1, OffersShaped
  <2> QED
    BY <2>2, Prefixed DEF Numbered
<1>2. \A k \in 1..(MaxTools + 2) : wireVirtualName(Numbered(n, k))[2] = Marks[k]
  <2> SUFFICES ASSUME NEW k \in 1..(MaxTools + 2) PROVE wireVirtualName(Numbered(n, k))[2] = Marks[k]
    OBVIOUS
  <2> DEFINE m == Numbered(n, k)
  <2>1. m \in ToolName /\ m[1] = Marks[k] /\ Len(m) \in Nat \ {0}
    BY <1>1, Prefixed DEF Word
  <2> HIDE DEF m
  <2>2. PICK w : w \in Word /\ wireVirtualName(m) = <<w>> \o m
    <3>1. wireVirtualName(m) = <<"mcp">> \o m \/ wireVirtualName(m) = <<"hash">> \o m
      BY DEF wireVirtualName
    <3>2. "mcp" \in Word /\ "hash" \in Word
      BY DEF Word
    <3> QED
      BY <3>1, <3>2
  <2>3. (<<w>> \o m)[1 + 1] = m[1]
    BY <2>1, <2>2, Prefixed
  <2> QED
    BY <2>1, <2>2, <2>3 DEF m
<1>3. Marks[i] = Marks[j]
  BY <1>2
<1> QED
  BY <1>1, <1>3, ToolNamesAssumption

\* There is a name left for a later claimant, since there are more numbers than tools.
LEMMA VirtualFree ==
  ASSUME NEW n \in ToolName, wire \in Seq(ToolName), Len(wire) <= MaxTools + 1
  PROVE  Virtual(n) \in ToolName /\ ~Used(Virtual(n))
<1> DEFINE Named(k) == wireVirtualName(Numbered(n, k))
           free == {k \in 2..(MaxTools + 2) : ~Used(Named(k))}
<1>1. /\ wireVirtualName(n) \in ToolName /\ Len(wireVirtualName(n)) = Len(n) + 1 /\ Len(n) \in Nat
      /\ MaxTools \in Nat /\ Len(wire) \in Nat /\ DOMAIN wire = 1..Len(wire)
  BY VirtualWord, OffersShaped
<1>2. \A k \in 1..(MaxTools + 2) : Named(k) \in ToolName /\ Len(Named(k)) = Len(n) + 2
  <2> SUFFICES ASSUME NEW k \in 1..(MaxTools + 2) PROVE Named(k) \in ToolName /\ Len(Named(k)) = Len(n) + 2
    OBVIOUS
  <2>1. Marks[k] \in Word
    BY OffersShaped
  <2>2. Numbered(n, k) \in ToolName /\ Len(Numbered(n, k)) = Len(n) + 1
    BY <2>1, Prefixed DEF Numbered
  <2> QED
    BY <1>1, <2>2, VirtualWord
<1>3. CASE ~Used(wireVirtualName(n))
  BY <1>1, <1>3 DEF Virtual
<1>4. CASE Used(wireVirtualName(n))
  <2>1. free # {}
    <3> SUFFICES ASSUME \A k \in 2..(MaxTools + 2) : Used(Named(k)) PROVE FALSE
      OBVIOUS
    <3> DEFINE Name(k) == IF k = 1 THEN wireVirtualName(n) ELSE Named(k)
               f == [k \in 1..(MaxTools + 2) |-> CHOOSE x \in DOMAIN wire : wire[x] = Name(k)]
    <3>1. \A k \in 1..(MaxTools + 2) : \E x \in DOMAIN wire : wire[x] = Name(k)
      BY <1>1, <1>4 DEF Used
    <3>2. \A k \in 1..(MaxTools + 2) : f[k] \in 1..Len(wire) /\ wire[f[k]] = Name(k)
      BY <1>1, <3>1
    <3>3. f \in [1..(MaxTools + 2) -> 1..Len(wire)]
      BY <3>2
    <3> HIDE DEF f
    <3>4. /\ IsFiniteSet(1..(MaxTools + 2)) /\ Cardinality(1..(MaxTools + 2)) = MaxTools + 2
          /\ IsFiniteSet(1..Len(wire)) /\ Cardinality(1..Len(wire)) = Len(wire)
      <4>1. \A k \in Nat : IsFiniteSet(1..k) /\ Cardinality(1..k) = k
        BY FS_Interval
      <4> QED
        BY <1>1, <4>1
    <3>5. PICK x \in 1..(MaxTools + 2), y \in 1..(MaxTools + 2) : x # y /\ f[x] = f[y]
      <4> DEFINE A == 1..(MaxTools + 2)  B == 1..Len(wire)
      <4>1. IsFiniteSet(A) /\ IsFiniteSet(B) /\ Cardinality(B) < Cardinality(A) /\ f \in [A -> B]
        BY <1>1, <3>3, <3>4
      <4> HIDE DEF A, B
      <4>2. \E x, y \in A : x # y /\ f[x] = f[y]
        BY <4>1, FS_PigeonHole
      <4> QED
        BY <4>2 DEF A
    <3>6. Name(x) = Name(y)
      BY <3>2, <3>5
    <3>7. x # 1 /\ y # 1 => Named(x) = Named(y)
      BY <3>6
    <3>8. x # 1 /\ y # 1 => x = y
      BY <3>7, NumberedApart
    <3>9. x = 1 \/ y = 1 => Len(n) + 1 = Len(n) + 2
      BY <1>1, <1>2, <3>5, <3>6
    <3> QED
      BY <1>1, <3>5, <3>8, <3>9
  <2>2. PICK m \in free : \A k \in free : m <= k
    <3>1. free \in SUBSET Nat
      BY <1>1
    <3> HIDE DEF free
    <3> QED
      BY <2>1, <3>1, LeastOf
  <2>3. /\ m \in 2..(MaxTools + 2) /\ ~Used(Named(m))
        /\ \A j \in 2..(m - 1) : Used(Named(j))
    BY <1>1, <2>2
  <2> DEFINE Least(k) == ~Used(Named(k)) /\ \A j \in 2..(k - 1) : Used(Named(j))
             c == CHOOSE k \in 2..(MaxTools + 2) : Least(k)
  <2>4. c \in 2..(MaxTools + 2) /\ Least(c)
    <3>1. \E k \in 2..(MaxTools + 2) : Least(k)
      BY <2>3
    <3> HIDE DEF Least
    <3> QED
      BY <3>1
  <2>5. Virtual(n) = Named(c)
    BY <1>4 DEF Virtual
  <2> HIDE DEF c
  <2> QED
    BY <1>1, <1>2, <2>4, <2>5
<1> QED
  BY <1>3, <1>4

\* What the scan writes down is about the tools it has seen, in their own names.
LEMMA ScanIs ==
  ASSUME NEW names \in Seq(ToolName)
  PROVE  LET maps == NewToolMapper(names)
         IN  /\ DOMAIN maps.client \subseteq ToolName
             /\ maps.wire = [n \in DOMAIN maps.wire |-> maps.wire[n]]
             /\ DOMAIN maps.wire \subseteq {names[i] : i \in DOMAIN names}
             /\ \A n \in DOMAIN maps.wire : maps.wire[n] \in ToolName
<1> DEFINE offered == {names[i] : i \in DOMAIN names}
           noted == UNION {Notes(n) : n \in offered}
           renamed == {m \in offered : resolveUpstreamTool(m) # m}
           maps == NewToolMapper(names)
<1>1. offered \subseteq ToolName
  OBVIOUS
<1>2. noted \subseteq ToolName
  <2>1. \A n \in offered : Notes(n) \subseteq ToolName
    BY <1>1, OffersShaped, ResolvedWord DEF Notes
  <2> QED
    BY <2>1
<1>3. DOMAIN maps.client = noted /\ maps.wire = [n \in renamed |-> resolveUpstreamTool(n)]
  BY DEF NewToolMapper
<1> QED
  BY <1>1, <1>2, <1>3, ResolvedWord

\* What Append does to a list.
LEMMA LongerList ==
  ASSUME NEW S, NEW s \in Seq(S), NEW t \in Seq(S)
  PROVE  /\ s \o t \in Seq(S) /\ Len(s \o t) = Len(s) + Len(t) /\ Len(s) \in Nat /\ Len(t) \in Nat
         /\ \A i \in DOMAIN s : i \in DOMAIN (s \o t) /\ (s \o t)[i] = s[i]
OBVIOUS

\* The tools a session adds are named like others.
LEMMA Injected ==
  ASSUME tools \in Seq(ToolName)
  PROVE  /\ injectEndTurnTool \in Seq(ToolName) /\ Len(injectEndTurnTool) <= Len(tools) + 2
         /\ Len(tools) <= Len(injectEndTurnTool)
         /\ \A i \in DOMAIN tools : i \in DOMAIN injectEndTurnTool /\ injectEndTurnTool[i] = tools[i]
<1> DEFINE a == Missing(<<"end_turn">>)  b == Missing(<<"decide">>)
<1>1. a \in Seq(ToolName) /\ Len(a) \in Nat /\ Len(a) <= 1
  BY OffersShaped DEF Missing
<1>2. b \in Seq(ToolName) /\ Len(b) \in Nat /\ Len(b) <= 1
  BY OffersShaped DEF Missing
<1> HIDE DEF a, b
<1>3. injectEndTurnTool = tools \o a \o b
  BY DEF injectEndTurnTool, a, b
<1> DEFINE q == tools \o a
<1>4. /\ q \in Seq(ToolName) /\ Len(q) = Len(tools) + Len(a)
      /\ \A i \in DOMAIN tools : i \in DOMAIN q /\ q[i] = tools[i]
      /\ Len(tools) \in Nat
  BY <1>1, LongerList
<1> HIDE DEF q
<1>5. /\ q \o b \in Seq(ToolName) /\ Len(q \o b) = Len(q) + Len(b)
      /\ \A i \in DOMAIN q : i \in DOMAIN (q \o b) /\ (q \o b)[i] = q[i]
  BY <1>2, <1>4, LongerList
<1>6. /\ injectEndTurnTool = q \o b /\ Len(q) + Len(b) <= Len(tools) + 2 /\ Len(tools) <= Len(q) + Len(b)
  <2>1. injectEndTurnTool = q \o b
    BY <1>3 DEF q
  <2>2. /\ Len(a) \in Nat /\ Len(b) \in Nat /\ Len(a) <= 1 /\ Len(b) <= 1
        /\ Len(tools) \in Nat /\ Len(q) = Len(tools) + Len(a)
    BY <1>1, <1>2, <1>4
  <2>3. Len(q) + Len(b) <= Len(tools) + 2 /\ Len(tools) <= Len(q) + Len(b)
    BY ONLY <2>2
  <2> QED
    BY <2>1, <2>3
<1> QED
  BY <1>4, <1>5, <1>6

\* The absent choice is no name.
LEMMA NoName == NoTool \notin ToolName /\ DOMAIN NoMap = {NoTool}
BY DEF ToolName, NoTool, NoMap

\* The tools as they go to the wire: the client's first, and no reverse map until the scan.
LEMMA ScanStarts ==
  ASSUME NamesInv, NormalizeRequestMappedOpts \/ ScanFails
  PROVE  NamesInv'
<1>1. /\ leg = "offer" /\ tools \in Seq(ToolName) /\ wire = <<>> /\ Len(tools) <= MaxTools
      /\ tools' = injectEndTurnTool /\ leg' = "rename" /\ wire' = wire /\ pinned' = pinned
      /\ pinned # NoTool => pinned \in {tools[i] : i \in DOMAIN tools}
  BY DEF NamesInv, NamesShape, NormalizeRequestMappedOpts, ScanFails
<1>2. /\ injectEndTurnTool \in Seq(ToolName) /\ Len(injectEndTurnTool) <= Len(tools) + 2
      /\ Len(tools) <= Len(injectEndTurnTool)
      /\ \A i \in DOMAIN tools : i \in DOMAIN injectEndTurnTool /\ injectEndTurnTool[i] = tools[i]
  BY <1>1, Injected
<1>3. pinned' # NoTool => pinned' \in {tools'[i] : i \in DOMAIN tools'}
  BY <1>1, <1>2
<1>4. Len(tools') <= MaxTools + 2 /\ Len(tools) \in Nat /\ Len(tools') \in Nat
  BY <1>1, <1>2, OffersShaped
<1>5. NamesShape'
  <2>1. Len(wire') <= Len(tools') /\ wire' \in Seq(ToolName)
    BY <1>1, <1>4
  <2> QED
    BY <1>1, <1>2, <1>3, <1>4, <2>1 DEF NamesShape
<1>6. DOMAIN wire' = {}
  BY <1>1
<1>7. CASE ScanFails
  BY <1>1, <1>5, <1>6, <1>7 DEF ScanFails, NamesInv, FailedScan
<1>8. CASE NormalizeRequestMappedOpts
  <2>1. toClient' = NewToolMapper(tools).client /\ toWire' = NewToolMapper(tools).wire
    BY <1>8 DEF NormalizeRequestMappedOpts
  <2>2. /\ DOMAIN toClient' \subseteq ToolName
        /\ toWire' = [n \in DOMAIN toWire' |-> toWire'[n]]
        /\ DOMAIN toWire' \subseteq {tools[i] : i \in DOMAIN tools}
        /\ \A n \in DOMAIN toWire' : toWire'[n] \in ToolName
    BY <1>1, <2>1, ScanIs
  <2>3. DOMAIN toWire' \subseteq {tools'[i] : i \in DOMAIN tools'}
    BY <1>1, <1>2, <2>2
  <2> QED
    BY <1>1, <1>5, <1>6, <2>2, <2>3 DEF NamesInv, GoodScan
<1> QED
  BY <1>7, <1>8

\* Another tool is offered, or one is pinned: nothing is renamed yet.
LEMMA OfferNames ==
  ASSUME NamesInv, NEW n \in OfferedNames, Offer(n) \/ Pin(n)
  PROVE  NamesInv'
<1>1. /\ leg = "offer" /\ leg' = leg /\ wire = <<>> /\ wire' = wire /\ n \in ToolName
      /\ tools \in Seq(ToolName) /\ Len(tools) <= MaxTools /\ Len(tools) \in Nat /\ MaxTools \in Nat
      /\ pinned # NoTool => pinned \in {tools[i] : i \in DOMAIN tools}
  BY OffersShaped DEF NamesInv, NamesShape, Offer, Pin
<1>2. CASE Offer(n)
  <2>1. tools' = Append(tools, n) /\ Len(tools) < MaxTools /\ pinned' = pinned
    BY <1>2 DEF Offer
  <2>2. tools' \in Seq(ToolName) /\ Len(tools') <= MaxTools /\ Len(tools') \in Nat
    BY <1>1, <2>1
  <2>3. {tools[i] : i \in DOMAIN tools} \subseteq {tools'[i] : i \in DOMAIN tools'}
    BY <1>1, <2>1
  <2> QED
    BY <1>1, <2>1, <2>2, <2>3 DEF NamesInv, NamesShape
<1>3. CASE Pin(n)
  <2>1. tools' = tools /\ pinned' = n /\ n \in {tools[i] : i \in DOMAIN tools}
    BY <1>3 DEF Pin
  <2> QED
    BY <1>1, <2>1 DEF NamesInv, NamesShape
<1> QED
  BY <1>2, <1>3

\* One tool is renamed: whoever has the name that is wanted for it, it gets one nobody has.
LEMMA RenameOne ==
  ASSUME NamesInv, ToUpstream, NEW at, at = Len(wire) + 1, NEW n, n = tools[at],
         NEW final, final = Wanted(n), NEW virt, virt = Virtual(n)
  PROVE  NamesInv'
<1>1. /\ leg = "rename" /\ leg' = leg /\ tools' = tools /\ pinned' = pinned /\ pin' = pin
      /\ tools \in Seq(ToolName) /\ wire \in Seq(ToolName)
      /\ Len(wire) < Len(tools) /\ Len(tools) <= MaxTools + 2
      /\ Len(wire) \in Nat /\ Len(tools) \in Nat /\ MaxTools \in Nat
      /\ at \in 1..Len(tools) /\ n \in ToolName
      /\ \A i, j \in DOMAIN wire : wire[i] = wire[j] => i = j
      /\ pinned # NoTool => pinned \in {tools[i] : i \in DOMAIN tools}
  BY OffersShaped DEF NamesInv, NamesShape, ToUpstream
<1>2. PICK new \in {final, virt} :
        /\ wire' = Append(wire, new)
        /\ \/ new = virt /\ Used(final) /\ toClient' = Bind(toClient, virt, n) /\ toWire' = Bind(toWire, n, virt)
           \/ new = final /\ ~Used(final) /\ toClient' = Claim(n, final) /\ toWire' = toWire
  BY DEF ToUpstream
<1>3. FailedScan \/ GoodScan
  BY <1>1 DEF NamesInv
<1>4. \A m \in ToolName : Wanted(m) \in ToolName
  <2> SUFFICES ASSUME NEW m \in ToolName PROVE Wanted(m) \in ToolName
    OBVIOUS
  <2>1. CASE FailedScan
    BY <2>1, NoName, ResolvedWord DEF Wanted, FailedScan
  <2>2. CASE GoodScan
    BY <2>2, ResolvedWord DEF Wanted, GoodScan
  <2> QED
    BY <1>3, <2>1, <2>2
<1>5. new \in ToolName /\ ~Used(new)
  <2>1. Len(wire) <= MaxTools + 1
    BY <1>1
  <2>2. virt \in ToolName /\ ~Used(virt)
    BY <1>1, <2>1, VirtualFree
  <2> QED
    BY <1>1, <1>2, <1>4, <2>2
<1>6. /\ wire' \in Seq(ToolName) /\ Len(wire') = at /\ DOMAIN wire' = DOMAIN wire \cup {at}
      /\ at \notin DOMAIN wire /\ wire'[at] = new /\ \A i \in DOMAIN wire : wire'[i] = wire[i]
      /\ DOMAIN wire = 1..Len(wire) /\ at = Len(wire) + 1
  BY <1>1, <1>2, <1>5
<1>7. \A i \in DOMAIN wire : wire[i] # new
  BY <1>5 DEF Used
<1>8. \A i, j \in DOMAIN wire' : wire'[i] = wire'[j] => i = j
  BY <1>1, <1>6, <1>7
<1>9. NamesShape'
  BY <1>1, <1>6 DEF NamesShape
<1>10. ASSUME FailedScan PROVE FailedScan'
  <2>1. toClient' = NoMap /\ toWire' = NoMap
    <3>1. toClient = NoMap /\ toWire = NoMap
      BY <1>10 DEF FailedScan
    <3>2. CASE new = virt /\ Used(final) /\ toClient' = Bind(toClient, virt, n) /\ toWire' = Bind(toWire, n, virt)
      BY <3>1, <3>2 DEF Bind
    <3>3. CASE new = final /\ ~Used(final) /\ toClient' = Claim(n, final) /\ toWire' = toWire
      <4>1. n \in ToolName /\ n # NoTool
        BY <1>1, NoName
      <4>2. Unbind(NoMap, n) = NoMap
        BY <4>1, NoName DEF Unbind, NoMap
      <4> QED
        BY <3>1, <3>3, <4>2 DEF Claim, Bind
    <3> QED
      BY <1>2, <3>2, <3>3
  <2>2. \A m : Wanted(m)' = Wanted(m)
    BY <2>1, <1>10 DEF Wanted, FailedScan
  <2>3. \A j \in DOMAIN wire : \E k \in DOMAIN wire : wire[k] = Wanted(tools[j])
    BY <1>10 DEF FailedScan
  <2>4. \A j \in DOMAIN wire : \E k \in DOMAIN wire' : wire'[k] = Wanted(tools[j])
    BY <1>6, <2>3
  <2>5. \E k \in DOMAIN wire' : wire'[k] = Wanted(tools[at])
    <3>1. CASE new = virt /\ Used(final)
      BY <1>6, <3>1 DEF Used
    <3>2. CASE new = final
      BY <1>6, <3>2
    <3> QED
      BY <1>2, <3>1, <3>2
  <2>6. \A j \in DOMAIN wire' : \E k \in DOMAIN wire' : wire'[k] = Wanted(tools[j])
    BY <1>6, <2>4, <2>5
  <2> QED
    BY <1>1, <2>1, <2>2, <2>6 DEF FailedScan
<1>11. ASSUME GoodScan PROVE GoodScan'
  <2>1. /\ DOMAIN toClient \subseteq ToolName
        /\ toWire = [m \in DOMAIN toWire |-> toWire[m]] /\ DOMAIN toWire \subseteq {tools[i] : i \in DOMAIN tools}
        /\ \A m \in DOMAIN toWire : toWire[m] \in ToolName
        /\ \A j \in DOMAIN wire : \E k \in DOMAIN wire : wire[k] = Wanted(tools[j]) /\ tools[k] = tools[j]
    BY <1>11 DEF GoodScan
  <2>0. \A i \in DOMAIN wire : IF wire[i] \in DOMAIN toClient THEN toClient[wire[i]] = tools[i] ELSE wire[i] = tools[i]
    BY <1>11 DEF GoodScan
  <2>2. toClient # NoMap /\ toWire # NoMap
    <3>1. \A i \in DOMAIN tools : tools[i] # NoTool
      BY <1>1, NoName
    <3>2. NoTool \notin DOMAIN toClient /\ NoTool \notin DOMAIN toWire
      BY <2>1, <3>1, NoName
    <3> QED
      BY <3>2, NoName
  <2>3. n = tools[at] /\ n \in ToolName /\ n \in {tools[i] : i \in DOMAIN tools}
    BY <1>1, <1>6
  <2>4. /\ DOMAIN toClient' \subseteq ToolName
        /\ \A k \in ToolName \ {new} : (k \in DOMAIN toClient' <=> k \in DOMAIN toClient)
                                        /\ (k \in DOMAIN toClient => toClient'[k] = toClient[k])
        /\ new \in DOMAIN toClient' => toClient'[new] = n
        /\ new \notin DOMAIN toClient' => new = n
    <3>1. CASE toClient' = Bind(toClient, new, n)
      <4>1. toClient' = [k \in DOMAIN toClient \cup {new} |-> IF k = new THEN n ELSE toClient[k]]
        BY <2>2, <3>1 DEF Bind
      <4> QED
        BY <1>5, <2>1, <4>1
    <3>2. CASE toClient' = Unbind(toClient, n) /\ new = n
      <4>1. toClient' = [k \in DOMAIN toClient \ {n} |-> toClient[k]]
        BY <3>2 DEF Unbind
      <4> QED
        BY <2>1, <3>2, <4>1
    <3> QED
      BY <1>2, <3>1, <3>2 DEF Claim
  <2>5. \A i \in DOMAIN wire' : IF wire'[i] \in DOMAIN toClient' THEN toClient'[wire'[i]] = tools[i] ELSE wire'[i] = tools[i]
    <3> SUFFICES ASSUME NEW i \in DOMAIN wire'
                 PROVE  IF wire'[i] \in DOMAIN toClient' THEN toClient'[wire'[i]] = tools[i] ELSE wire'[i] = tools[i]
      OBVIOUS
    <3>1. CASE i = at
      BY <1>6, <2>3, <2>4, <3>1
    <3>2. CASE i \in DOMAIN wire
      <4>1. wire'[i] = wire[i] /\ wire[i] \in ToolName \ {new}
        BY <1>1, <1>6, <1>7, <3>2
      <4> QED
        <5>1. PICK k : k = wire[i]
          OBVIOUS
        <5>2. /\ k \in ToolName \ {new} /\ wire'[i] = k
              /\ k \in DOMAIN toClient => toClient[k] = tools[i]
              /\ k \notin DOMAIN toClient => k = tools[i]
          <6>1. IF wire[i] \in DOMAIN toClient THEN toClient[wire[i]] = tools[i] ELSE wire[i] = tools[i]
            BY ONLY <2>0, <3>2
          <6> QED
            BY <4>1, <5>1, <6>1
        <5>3. (k \in DOMAIN toClient' <=> k \in DOMAIN toClient) /\ (k \in DOMAIN toClient => toClient'[k] = toClient[k])
          BY <2>4, <5>2
        <5> QED
          BY <5>2, <5>3
    <3> QED
      BY <1>6, <3>1, <3>2
  <2>6. /\ toWire' = [m \in DOMAIN toWire' |-> toWire'[m]]
        /\ DOMAIN toWire' \subseteq DOMAIN toWire \cup {n}
        /\ \A m \in DOMAIN toWire' : toWire'[m] \in ToolName
        /\ \A m : m # n => Wanted(m)' = Wanted(m)
        /\ Wanted(n)' = new
    <3>1. CASE new = virt /\ toWire' = Bind(toWire, n, virt)
      <4>1. toWire' = [k \in DOMAIN toWire \cup {n} |-> IF k = n THEN new ELSE toWire[k]]
        BY <2>2, <3>1 DEF Bind
      <4>2. \A m : m # n => Wanted(m)' = Wanted(m)
        BY <4>1 DEF Wanted
      <4>3. Wanted(n)' = new
        <5>1. n \in DOMAIN toWire' /\ toWire'[n] = new
          BY <4>1
        <5> QED
          BY <5>1 DEF Wanted
      <4>4. DOMAIN toWire' = DOMAIN toWire \cup {n} /\ \A m \in DOMAIN toWire' : toWire'[m] \in ToolName
        BY <1>5, <2>1, <4>1
      <4> QED
        BY <4>1, <4>2, <4>3, <4>4
    <3>2. CASE new = final /\ toWire' = toWire
      <4>1. \A m : Wanted(m)' = Wanted(m)
        BY <3>2 DEF Wanted
      <4>2. Wanted(n)' = new
        BY <3>2, <4>1
      <4> QED
        BY <2>1, <3>2, <4>1, <4>2
    <3> QED
      BY <1>2, <3>1, <3>2
  <2>7. \A j \in DOMAIN wire' : \E k \in DOMAIN wire' : wire'[k] = Wanted(tools[j])' /\ tools[k] = tools[j]
    <3> SUFFICES ASSUME NEW j \in DOMAIN wire'
                 PROVE  \E k \in DOMAIN wire' : wire'[k] = Wanted(tools[j])' /\ tools[k] = tools[j]
      OBVIOUS
    <3>0. PICK m : m = tools[j] /\ Wanted(tools[j])' = Wanted(m)'
      <4>1. PICK m : m = tools[j]
        OBVIOUS
      <4>2. Wanted(tools[j])' = Wanted(m)'
        BY <1>1, <4>1 DEF Wanted
      <4> QED
        BY <4>1, <4>2
    <3>1. CASE m = n
      <4>1. Wanted(m)' = Wanted(n)'
        BY <3>1
      <4>2. wire'[at] = Wanted(m)' /\ tools[at] = m /\ at \in DOMAIN wire'
        BY <1>6, <2>3, <2>6, <3>1, <4>1
      <4> QED
        BY <3>0, <4>2
    <3>2. CASE m # n
      <4>1. j \in DOMAIN wire
        BY <1>6, <2>3, <3>0, <3>2
      <4>2. PICK k \in DOMAIN wire : wire[k] = Wanted(m) /\ tools[k] = m
        BY <2>1, <3>0, <4>1
      <4>3. Wanted(m)' = Wanted(m)
        BY <1>1, <2>6, <3>2
      <4> QED
        BY <1>6, <3>0, <4>2, <4>3
    <3> QED
      BY <3>1, <3>2
  <2>8. DOMAIN toWire' \subseteq {tools'[i] : i \in DOMAIN tools'}
    BY <1>1, <2>1, <2>3, <2>6
  <2> QED
    <3>2. /\ (DOMAIN toClient \subseteq ToolName)'
          /\ (toWire = [m \in DOMAIN toWire |-> toWire[m]])'
          /\ (DOMAIN toWire \subseteq {tools[i] : i \in DOMAIN tools})'
          /\ (\A m \in DOMAIN toWire : toWire[m] \in ToolName)'
      BY <2>4, <2>6, <2>8
    <3>3. (\A i \in DOMAIN wire : IF wire[i] \in DOMAIN toClient THEN toClient[wire[i]] = tools[i] ELSE wire[i] = tools[i])'
      BY <1>1, <2>5
    <3>4. (\A j \in DOMAIN wire : \E k \in DOMAIN wire : wire[k] = Wanted(tools[j]) /\ tools[k] = tools[j])'
      BY <1>1, <2>7
    <3> QED
      BY <3>2, <3>3, <3>4 DEF GoodScan
<1> QED
  BY <1>1, <1>3, <1>8, <1>9, <1>10, <1>11 DEF NamesInv

\* The choice is renamed as its tool was wanted to be.
LEMMA ChoiceRenamed ==
  ASSUME NamesInv, RenameRequestToolChoice
  PROVE  NamesInv'
<1>1. /\ leg = "rename" /\ leg' = "sent" /\ Len(wire) = Len(tools)
      /\ pin' = (IF pinned = NoTool THEN NoTool ELSE Wanted(pinned))
      /\ UNCHANGED <<tools, wire, pinned, toClient, toWire>>
  BY DEF RenameRequestToolChoice
<1>2. \A m : Wanted(m)' = Wanted(m)
  BY <1>1 DEF Wanted
<1>3. pinned' # NoTool => pin' = Wanted(pinned)'
  BY <1>1 DEF Wanted
<1>4. FailedScan' \/ GoodScan'
  <2>1. CASE FailedScan
    BY <1>1, <2>1 DEF FailedScan, Wanted
  <2>2. CASE GoodScan
    BY <1>1, <2>2 DEF GoodScan, Wanted
  <2> QED
    BY <1>1, <2>1, <2>2 DEF NamesInv
<1> QED
  BY <1>1, <1>3, <1>4 DEF NamesInv, NamesShape

\* Nothing is offered at first.
LEMMA NamesStart == ToolNamesInit => NamesInv
<1> SUFFICES ASSUME ToolNamesInit PROVE NamesInv
  OBVIOUS
<1>1. /\ tools = <<>> /\ wire = <<>> /\ pinned = NoTool /\ leg = "offer" /\ MaxTools \in Nat
  BY OffersShaped DEF ToolNamesInit
<1>2. tools \in Seq(ToolName) /\ wire \in Seq(ToolName) /\ Len(tools) = 0 /\ DOMAIN wire = {} /\ Len(wire) = 0
  BY <1>1
<1> QED
  BY <1>1, <1>2 DEF NamesInv, NamesShape

\* Every step of the renaming keeps what it owes.
LEMMA NamesStep == NamesInv /\ [ToolNamesNext]_toolVars => NamesInv'
<1> SUFFICES ASSUME NamesInv, [ToolNamesNext]_toolVars PROVE NamesInv'
  OBVIOUS
<1>1. ASSUME UNCHANGED toolVars PROVE NamesInv'
  BY <1>1 DEF toolVars, NamesInv, NamesShape, FailedScan, GoodScan, Wanted
<1>2. ToUpstream => NamesInv'
  <2> SUFFICES ASSUME ToUpstream PROVE NamesInv'
    OBVIOUS
  <2>1. PICK at, n, final, virt : at = Len(wire) + 1 /\ n = tools[at] /\ final = Wanted(n) /\ virt = Virtual(n)
    OBVIOUS
  <2> QED
    BY <2>1, RenameOne
<1> QED
  BY <1>1, <1>2, OfferNames, ScanStarts, ChoiceRenamed DEF ToolNamesNext

\* A name on the wire leads back to the tool whose it is: a name with the prefix of the request
\* that is in no map is not taken for another tool's.
LEMMA NamesReturn == NamesInv => NamesComeBack
<1> SUFFICES ASSUME NamesInv, leg = "sent"
             PROVE  /\ \A i, j \in DOMAIN wire : wire[i] = wire[j] => i = j
                    /\ ScanFailed \/ OwnNames
                    /\ pinned # NoTool => /\ \E i \in DOMAIN wire : wire[i] = pin
                                          /\ ScanFailed \/ RestoreName(pin) = pinned
  BY DEF NamesComeBack
<1>1. /\ tools \in Seq(ToolName) /\ wire \in Seq(ToolName) /\ DOMAIN wire = DOMAIN tools
      /\ \A i, j \in DOMAIN wire : wire[i] = wire[j] => i = j
      /\ pinned # NoTool => pin = Wanted(pinned) /\ pinned \in {tools[i] : i \in DOMAIN tools}
      /\ FailedScan \/ GoodScan
  BY DEF NamesInv, NamesShape
<1>2. CASE FailedScan
  BY <1>1, <1>2 DEF FailedScan, ScanFailed
<1>3. CASE GoodScan
  <2>1. /\ DOMAIN toWire \subseteq {tools[i] : i \in DOMAIN tools}
        /\ \A i \in DOMAIN wire : IF wire[i] \in DOMAIN toClient THEN toClient[wire[i]] = tools[i] ELSE wire[i] = tools[i]
        /\ \A j \in DOMAIN wire : \E k \in DOMAIN wire : wire[k] = Wanted(tools[j]) /\ tools[k] = tools[j]
    BY <1>3 DEF GoodScan
  <2>2. ASSUME NEW i \in DOMAIN wire PROVE RestoreName(wire[i]) = tools[i]
    <3>1. PICK w : w = wire[i]
      OBVIOUS
    <3>2. w \in ToolName /\ w \in Seq(Word) /\ w # <<>>
      BY <1>1, <2>2, <3>1 DEF ToolName
    <3>3. CASE w \in DOMAIN toClient
      BY <2>1, <2>2, <3>1, <3>3 DEF RestoreName
    <3>4. CASE w \notin DOMAIN toClient
      <4>1. w = tools[i]
        BY <2>1, <2>2, <3>1, <3>4
      <4>2. ~(Tail(w) \in DOMAIN toWire /\ toWire[Tail(w)] = w)
        <5> SUFFICES ASSUME Tail(w) \in DOMAIN toWire, toWire[Tail(w)] = w PROVE FALSE
          OBVIOUS
        <5>1. PICK j \in DOMAIN wire : tools[j] = Tail(w)
          <6>1. Tail(w) \in {tools[x] : x \in DOMAIN tools}
            BY <2>1
          <6> QED
            BY <1>1, <6>1
        <5>2. PICK k \in DOMAIN wire : wire[k] = Wanted(tools[j]) /\ tools[k] = tools[j]
          BY <2>1, <5>1
        <5>3. Wanted(tools[j]) = w
          BY <5>1 DEF Wanted
        <5>4. k = i
          BY <1>1, <2>2, <3>1, <5>2, <5>3
        <5>5. w = Tail(w)
          BY <4>1, <5>1, <5>2, <5>4
        <5>6. Len(Tail(w)) = Len(w) - 1 /\ Len(w) \in Nat
          BY <3>2
        <5>7. Len(w) = Len(Tail(w))
          BY <5>5
        <5> QED
          BY <5>6, <5>7
      <4>3. RestoreName(w) = w
        BY <3>4, <4>2 DEF RestoreName
      <4> QED
        BY <3>1, <4>1, <4>3
    <3> QED
      BY <3>3, <3>4
  <2>3. ASSUME pinned # NoTool PROVE \E i \in DOMAIN wire : wire[i] = pin /\ tools[i] = pinned
    <3>1. PICK j \in DOMAIN wire : tools[j] = pinned
      BY <1>1, <2>3
    <3>2. PICK k \in DOMAIN wire : wire[k] = Wanted(tools[j]) /\ tools[k] = tools[j]
      BY <2>1, <3>1
    <3> QED
      BY <1>1, <2>3, <3>1, <3>2
  <2>4. OwnNames
    BY <1>1, <2>2 DEF OwnNames
  <2>5. pinned # NoTool => (\E i \in DOMAIN wire : wire[i] = pin) /\ RestoreName(pin) = pinned
    BY <2>2, <2>3
  <2> QED
    BY <1>1, <2>4, <2>5
<1> QED
  BY <1>1, <1>2, <1>3

---------------------------------------------------------------------------
(* The conversation of a request *)

\* What may stand in a turn, and what a turn becomes.
CallPart == [is : Uses, id : CallIds, strict : BOOLEAN, input : Inputs \cup {"none"}]
ResultPart == [is : {"tool_result"}, id : CallIds]
AnyPart == {Text, Think} \cup CallPart \cup ResultPart
TurnOf == [role : {"assistant", "user", "system"}, shape : {"string", "parts"}, parts : Seq(AnyPart)]

SentIds == CallIds \cup {Cleaned[x] : x \in CallIds} \cup {NoId, Fresh}
CallSent == [id : SentIds, strict : BOOLEAN, args : Inputs \cup {"none", "coerced"}]
ChatMessage == [role : {"assistant", "user", "system", "tool"}, content : {"text", "null", "empty"}, calls : Seq(CallSent), id : SentIds]

\* A call stands in an assistant's turn of parts, a result in a user's.
TurnFits(t) ==
  \A j \in DOMAIN t.parts :
    /\ t.parts[j].is = "tool_result" => t.role = "user"
    /\ t.parts[j].is \in Uses => t.role = "assistant" /\ t.shape = "parts"

\* A result answers a call of an earlier turn.
HistoryInv ==
  /\ endpoint \in {"messages", "responses"}
  /\ history \in Seq(TurnOf)
  /\ \A i \in DOMAIN history : TurnFits(history[i])
  /\ endpoint = "responses" => \A i \in DOMAIN history : history[i].shape = "parts" /\ Len(history[i].parts) = 1
  /\ \A i \in DOMAIN history : \A j \in DOMAIN history[i].parts :
       history[i].parts[j].is = "tool_result" =>
         \E k \in 1..(i - 1) : \E l \in DOMAIN history[k].parts :
           history[k].parts[l].is \in Uses /\ history[k].parts[l].id = history[i].parts[j].id

\* A history is well formed, and what was sent of it lines up.
ConvertInv == HistoryInv /\ (verdict = "sent" => RepliesLineUp /\ StrictCallsExact)

\* A part is what its kind says.
LEMMA PartIs ==
  ASSUME NEW p \in AnyPart
  PROVE  /\ p.is \in Uses => p \in CallPart
         /\ p.is = "tool_result" => p \in ResultPart
         /\ p.is \in Uses => p.is # "tool_result" /\ p.is # "text" /\ p.is # "thinking"
         /\ p.is \in Uses \cup {"tool_result", "text", "thinking"}
<1>1. CASE p \in {Text, Think}
  BY <1>1 DEF Text, Think, Uses
<1>2. CASE p \in CallPart
  BY <1>2 DEF CallPart, Uses
<1>3. CASE p \in ResultPart
  BY <1>3 DEF ResultPart, Uses
<1> QED
  BY <1>1, <1>2, <1>3 DEF AnyPart

\* The name a call goes by upstream.
NameOf(id) == IF endpoint = "messages" THEN sanitizeToolID(id) ELSE id

\* What a turn of the client is, sent: its results and its calls among it under their names.
Carries(t, s) ==
  /\ s \in Seq(ChatMessage)
  /\ \A k \in DOMAIN s : s[k].role = "tool" =>
       \E j \in DOMAIN t.parts : t.parts[j].is = "tool_result" /\ s[k].id = NameOf(t.parts[j].id)
  /\ \A j \in DOMAIN t.parts : t.parts[j].is \in Uses =>
       \E k \in DOMAIN s : s[k].role = "assistant" /\ \E c \in DOMAIN s[k].calls : s[k].calls[c].id = NameOf(t.parts[j].id)
  /\ (t.role = "assistant" /\ t.shape = "parts" => \A j \in DOMAIN t.parts : ~Gate(t.parts[j])) =>
       \A k \in DOMAIN s : \A c \in DOMAIN s[k].calls : s[k].calls[c].strict => s[k].calls[c].args # "coerced"
  /\ endpoint = "messages" =>
       /\ \A k, l \in DOMAIN s : k < l /\ s[l].role = "tool" => s[k].role = "tool"
       /\ t.role = "assistant" => Len(s) = 1 /\ s[1].role = "assistant"

\* What is left of an id is an id.
LEMMA NameIsId == \A x \in CallIds : sanitizeToolID(x) \in SentIds /\ x \in SentIds /\ NoId \in SentIds
BY DEF sanitizeToolID, SentIds

\* A list of calls holds calls, each with an id.
LEMMA CallNamed == \A q \in Seq(CallPart) : \A i \in DOMAIN q : q[i] \in CallPart /\ q[i].id \in CallIds
<1> SUFFICES ASSUME NEW q \in Seq(CallPart), NEW i \in DOMAIN q PROVE q[i] \in CallPart /\ q[i].id \in CallIds
  OBVIOUS
<1>1. q[i] \in CallPart
  OBVIOUS
<1> QED
  BY <1>1 DEF CallPart

\* A call as it is sent; one the gate lets through has the arguments of the client.
LEMMA CallSentIs ==
  ASSUME NEW p \in CallPart, NEW x \in SentIds
  PROVE  CallOf(p, x) \in CallSent /\ CallOf(p, x).id = x
         /\ (~Gate(p) /\ CallOf(p, x).strict => CallOf(p, x).args # "coerced")
<1>1. /\ p.is \in Uses /\ p.strict \in BOOLEAN /\ p.input \in Inputs \cup {"none"}
  BY DEF CallPart
<1>2. marshalJSONArgs(p.input) \in Inputs \cup {"none", "coerced"}
  BY <1>1 DEF marshalJSONArgs
<1>3. p.input # "none" => marshalJSONArgs(p.input) # "coerced"
  BY <1>1, ConvertAssumption DEF marshalJSONArgs
<1>4. CallOf(p, x) = [id |-> x, strict |-> p.strict, args |-> marshalJSONArgs(p.input)]
  BY DEF CallOf
<1>5. CallOf(p, x).id = x /\ CallOf(p, x).strict = p.strict /\ CallOf(p, x).args = marshalJSONArgs(p.input)
  BY <1>4
<1>6. CallOf(p, x) \in CallSent
  BY <1>1, <1>2, <1>4 DEF CallSent
<1> QED
  BY <1>1, <1>3, <1>5, <1>6 DEF Gate

\* The elements of a list that are of a kind, each of them once.
LEMMA PickedParts ==
  ASSUME NEW S, NEW q \in Seq(S), NEW I \in SUBSET DOMAIN q
  PROVE  /\ Picked(q, I) \in Seq(S)
         /\ \A n \in DOMAIN Picked(q, I) : \E i \in I : Picked(q, I)[n] = q[i]
         /\ \A i \in I : \E n \in DOMAIN Picked(q, I) : Picked(q, I)[n] = q[i]
<1>1. /\ Picked(q, I) \in Seq(S)
      /\ ToSet(Picked(q, I)) = {q[i] : i \in I}
      /\ \A n \in DOMAIN Picked(q, I) : NthOf(I, n) \in I /\ Picked(q, I)[n] = q[NthOf(I, n)]
  BY PickedIs
<1>2. ASSUME NEW i \in I PROVE \E n \in DOMAIN Picked(q, I) : Picked(q, I)[n] = q[i]
  <2>1. q[i] \in ToSet(Picked(q, I))
    BY <1>1
  <2> QED
    BY <2>1, Zenon DEF ToSet
<1> QED
  BY <1>1, <1>2

\* What a message of the converter is.
LEMMA MessageIs ==
  ASSUME NEW role \in {"assistant", "user", "system"}, NEW content \in {"text", "null", "empty"},
         NEW calls \in Seq(CallSent)
  PROVE  /\ [Message(role, content) EXCEPT !.calls = calls] \in ChatMessage
         /\ [Message(role, content) EXCEPT !.calls = calls].calls = calls
         /\ [Message(role, content) EXCEPT !.calls = calls].role = role
         /\ Message(role, content) \in ChatMessage /\ Message(role, content).role = role
         /\ Message(role, content).calls = << >>
<1>1. Message(role, content) = [role |-> role, content |-> content, calls |-> << >>, id |-> NoId]
  BY DEF Message
<1>2. [Message(role, content) EXCEPT !.calls = calls] = [role |-> role, content |-> content, calls |-> calls, id |-> NoId]
  BY <1>1
<1>3. << >> \in Seq(CallSent) /\ NoId \in SentIds
  BY DEF SentIds
<1> QED
  BY <1>1, <1>2, <1>3 DEF ChatMessage

\* What a reply of the converter is.
LEMMA ReplyIs ==
  ASSUME NEW x \in SentIds
  PROVE  Reply(x) \in ChatMessage /\ Reply(x).role = "tool" /\ Reply(x).id = x /\ Reply(x).calls = << >>
<1>1. << >> \in Seq(CallSent)
  OBVIOUS
<1> QED
  BY <1>1 DEF Reply, ChatMessage

\* A list of one.
LEMMA SingleList ==
  ASSUME NEW S, NEW x \in S
  PROVE  <<x>> \in Seq(S) /\ Len(<<x>>) = 1 /\ DOMAIN <<x>> = {1} /\ <<x>>[1] = x
OBVIOUS

\* An assistant's turn is one message that holds its calls.
LEMMA AssistantCarries ==
  ASSUME NEW t \in TurnOf, TurnFits(t), t.role = "assistant", endpoint = "messages"
  PROVE  Carries(t, anthropicAssistantToOpenAI(t))
<1>1. PICK parts : parts = IF t.shape = "string" THEN << >> ELSE t.parts
  OBVIOUS
<1>2. parts \in Seq(AnyPart) /\ t.parts \in Seq(AnyPart)
  BY <1>1 DEF TurnOf
<1>3. PICK used : used = CallsIn(parts)
  OBVIOUS
<1>4. /\ used \in Seq(CallPart)
      /\ \A n \in DOMAIN used : \E i \in DOMAIN parts : parts[i].is \in Uses /\ used[n] = parts[i]
      /\ \A i \in DOMAIN parts : parts[i].is \in Uses => \E n \in DOMAIN used : used[n] = parts[i]
  <2> DEFINE I == {i \in DOMAIN parts : parts[i].is \in Uses}
  <2>1. I \in SUBSET DOMAIN parts /\ used = Picked(parts, I)
    BY <1>3 DEF CallsIn
  <2>2. /\ used \in Seq(AnyPart)
        /\ \A n \in DOMAIN used : \E i \in I : used[n] = parts[i]
        /\ \A i \in I : \E n \in DOMAIN used : used[n] = parts[i]
    <3> HIDE DEF I
    <3> QED
      BY <1>2, <2>1, PickedParts
  <2>3. \A n \in 1..Len(used) : used[n] \in CallPart
    <3> SUFFICES ASSUME NEW n \in 1..Len(used) PROVE used[n] \in CallPart
      OBVIOUS
    <3>1. PICK i \in DOMAIN parts : parts[i].is \in Uses /\ used[n] = parts[i]
      BY <2>2
    <3>2. parts[i] \in AnyPart
      BY <1>2
    <3> QED
      BY <3>1, <3>2, PartIs
  <2>4. used \in Seq(CallPart)
    BY <2>2, <2>3
  <2> QED
    BY <2>2, <2>4
<1>5. PICK calls : calls = [i \in DOMAIN CallsIn(parts) |-> CallOf(CallsIn(parts)[i], sanitizeToolID(CallsIn(parts)[i].id))]
  OBVIOUS
<1>6. /\ calls \in Seq(CallSent) /\ DOMAIN calls = DOMAIN used
      /\ \A i \in DOMAIN used : calls[i] = CallOf(used[i], sanitizeToolID(used[i].id))
  <2>1. calls = [i \in DOMAIN used |-> CallOf(used[i], sanitizeToolID(used[i].id))]
    BY <1>3, <1>5
  <2>2. \A i \in DOMAIN used : CallOf(used[i], sanitizeToolID(used[i].id)) \in CallSent
    <3> SUFFICES ASSUME NEW i \in DOMAIN used PROVE CallOf(used[i], sanitizeToolID(used[i].id)) \in CallSent
      OBVIOUS
    <3>1. used[i] \in CallPart /\ used[i].id \in CallIds
      BY <1>4, CallNamed
    <3> QED
      BY <3>1, NameIsId, CallSentIs
  <2>3. Len(used) \in Nat /\ DOMAIN used = 1..Len(used)
    BY <1>4
  <2>4. calls \in [1..Len(used) -> CallSent]
    BY <2>1, <2>2, <2>3
  <2> QED
    BY <2>1, <2>3, <2>4
<1>7. PICK content : content = CASE Says(parts) -> "text" [] ~Says(parts) /\ calls # << >> -> "null" [] OTHER -> "empty"
  OBVIOUS
<1>8. content \in {"text", "null", "empty"}
  BY <1>7
<1>9. PICK m : m = [Message("assistant", content) EXCEPT !.calls = calls]
  OBVIOUS
<1>10. m \in ChatMessage /\ m.calls = calls /\ m.role = "assistant"
  BY <1>6, <1>8, <1>9, MessageIs
<1>11. anthropicAssistantToOpenAI(t) = <<m>>
  BY <1>1, <1>5, <1>7, <1>9, Zenon DEF anthropicAssistantToOpenAI
<1>12. <<m>> \in Seq(ChatMessage) /\ DOMAIN <<m>> = {1} /\ <<m>>[1] = m /\ Len(<<m>>) = 1
  BY <1>10, SingleList
<1>13. ASSUME NEW j \in DOMAIN t.parts, t.parts[j].is \in Uses
       PROVE  \E c \in DOMAIN m.calls : m.calls[c].id = NameOf(t.parts[j].id)
  <2>1. parts = t.parts
    BY <1>1, <1>13 DEF TurnFits
  <2>2. PICK n \in DOMAIN used : used[n] = t.parts[j]
    BY <1>4, <1>13, <2>1
  <2>3. used[n] \in CallPart /\ used[n].id \in CallIds
    BY <1>4, CallNamed
  <2>4. calls[n].id = sanitizeToolID(used[n].id)
    BY <1>6, <2>3, NameIsId, CallSentIs
  <2> QED
    BY <1>6, <1>10, <2>2, <2>4 DEF NameOf
<1>14. ASSUME t.shape = "parts" => \A j \in DOMAIN t.parts : ~Gate(t.parts[j]),
              NEW c \in DOMAIN m.calls, m.calls[c].strict
       PROVE  m.calls[c].args # "coerced"
  <2>1. c \in DOMAIN used /\ m.calls[c] = CallOf(used[c], sanitizeToolID(used[c].id))
    BY <1>6, <1>10
  <2>2. used[c] \in CallPart /\ used[c].id \in CallIds
    BY <1>4, <2>1, CallNamed
  <2>3. PICK i \in DOMAIN parts : parts[i].is \in Uses /\ used[c] = parts[i]
    BY <1>4, <2>1
  <2>4. parts = t.parts /\ t.shape = "parts"
    <3>1. parts # << >>
      BY <2>3
    <3>2. t.shape \in {"string", "parts"}
      BY DEF TurnOf
    <3> QED
      BY <1>1, <3>1, <3>2
  <2>5. ~Gate(used[c])
    BY <1>14, <2>3, <2>4
  <2> QED
    BY <1>14, <2>1, <2>2, <2>5, NameIsId, CallSentIs
<1>15. /\ \A k \in DOMAIN <<m>> : <<m>>[k] = m
       /\ \A k, l \in DOMAIN <<m>> : ~(k < l)
  BY <1>12
<1> QED
  BY <1>10, <1>11, <1>12, <1>13, <1>14, <1>15 DEF Carries

\* A user's turn is its replies and then its text.
LEMMA UserCarries ==
  ASSUME NEW t \in TurnOf, TurnFits(t), t.role = "user", endpoint = "messages"
  PROVE  Carries(t, anthropicUserToOpenAI(t))
<1>1. t.parts \in Seq(AnyPart)
  BY DEF TurnOf
<1>2. PICK found : found = Results(t.parts)
  OBVIOUS
<1>3. /\ found \in Seq(AnyPart)
      /\ \A n \in DOMAIN found : \E i \in DOMAIN t.parts : t.parts[i].is = "tool_result" /\ found[n] = t.parts[i]
  <2> DEFINE I == {i \in DOMAIN t.parts : t.parts[i].is = "tool_result"}
  <2>1. I \in SUBSET DOMAIN t.parts /\ found = Picked(t.parts, I)
    BY <1>2 DEF Results
  <2>2. /\ found \in Seq(AnyPart)
        /\ \A n \in DOMAIN found : \E i \in I : found[n] = t.parts[i]
    <3> HIDE DEF I
    <3> QED
      BY <1>1, <2>1, PickedParts
  <2> QED
    BY <2>2
<1>4. PICK replies : replies = [i \in DOMAIN found |-> Reply(sanitizeToolID(found[i].id))]
  OBVIOUS
<1>5. ASSUME NEW n \in DOMAIN found
      PROVE  /\ Reply(sanitizeToolID(found[n].id)) \in ChatMessage
             /\ replies[n] = Reply(sanitizeToolID(found[n].id))
             /\ replies[n].role = "tool" /\ replies[n].calls = << >>
             /\ \E j \in DOMAIN t.parts : t.parts[j].is = "tool_result" /\ replies[n].id = NameOf(t.parts[j].id)
  <2>1. PICK i \in DOMAIN t.parts : t.parts[i].is = "tool_result" /\ found[n] = t.parts[i]
    BY <1>3
  <2>2. t.parts[i] \in AnyPart
    BY <1>1
  <2>3. t.parts[i] \in ResultPart
    BY <2>1, <2>2, PartIs
  <2>4. found[n].id \in CallIds
    BY <2>1, <2>3 DEF ResultPart
  <2>5. sanitizeToolID(found[n].id) \in SentIds
    BY <2>4, NameIsId
  <2>6. replies[n] = Reply(sanitizeToolID(found[n].id))
    BY <1>4
  <2> QED
    BY <2>1, <2>5, <2>6, ReplyIs DEF NameOf
<1>6. replies \in Seq(ChatMessage) /\ DOMAIN replies = DOMAIN found
  <2>1. Len(found) \in Nat /\ DOMAIN found = 1..Len(found)
    BY <1>3
  <2>2. replies \in [1..Len(found) -> ChatMessage]
    BY <1>4, <1>5, <2>1
  <2> QED
    BY <1>4, <2>1, <2>2
<1>7. PICK said : said = IF Says(t.parts) THEN <<Message("user", "text")>> ELSE << >>
  OBVIOUS
<1>8. /\ said \in Seq(ChatMessage)
      /\ \A k \in DOMAIN said : said[k].role = "user" /\ said[k].calls = << >>
  <2>1. Message("user", "text") \in ChatMessage /\ Message("user", "text").role = "user" /\ Message("user", "text").calls = << >>
    <3>1. << >> \in Seq(CallSent)
      OBVIOUS
    <3> QED
      BY <3>1, MessageIs
  <2>2. PICK m : m = Message("user", "text")
    OBVIOUS
  <2>3. <<m>> \in Seq(ChatMessage) /\ DOMAIN <<m>> = {1} /\ <<m>>[1] = m
    BY <2>1, <2>2, SingleList
  <2>4. << >> \in Seq(ChatMessage) /\ \A k \in DOMAIN << >> : FALSE
    OBVIOUS
  <2> QED
    BY <1>7, <2>1, <2>2, <2>3, <2>4
<1>9. PICK s : s = replies \o said
  OBVIOUS
<1>10. anthropicUserToOpenAI(t) = s
  BY <1>2, <1>4, <1>7, <1>9 DEF anthropicUserToOpenAI
<1>11. /\ s \in Seq(ChatMessage) /\ Len(s) = Len(replies) + Len(said) /\ Len(replies) \in Nat /\ Len(said) \in Nat
       /\ \A k \in 1..Len(replies) : s[k] = replies[k]
       /\ \A k \in 1..Len(said) : s[Len(replies) + k] = said[k]
  BY <1>6, <1>8, <1>9, Joined
<1>12. ASSUME NEW k \in DOMAIN s
       PROVE  \/ k \in DOMAIN replies /\ s[k] = replies[k]
              \/ k > Len(replies) /\ s[k].role = "user" /\ s[k].calls = << >>
  <2>1. k \in 1..(Len(replies) + Len(said))
    BY <1>11
  <2>2. CASE k <= Len(replies)
    BY <1>6, <1>11, <2>1, <2>2
  <2>3. CASE ~(k <= Len(replies))
    <3>1. k - Len(replies) \in 1..Len(said) /\ k = Len(replies) + (k - Len(replies)) /\ k > Len(replies)
      BY <1>11, <2>1, <2>3
    <3>2. s[k] = said[k - Len(replies)] /\ k - Len(replies) \in DOMAIN said
      BY <1>8, <1>11, <3>1
    <3> QED
      BY <1>8, <3>1, <3>2
  <2> QED
    BY <2>2, <2>3
<1>13. ASSUME NEW k \in DOMAIN s, s[k].role = "tool"
       PROVE  \E j \in DOMAIN t.parts : t.parts[j].is = "tool_result" /\ s[k].id = NameOf(t.parts[j].id)
  BY <1>5, <1>6, <1>12, <1>13
<1>14. \A k \in DOMAIN s : s[k].calls = << >>
  BY <1>5, <1>6, <1>12
<1>15. ASSUME NEW k \in DOMAIN s, NEW l \in DOMAIN s, k < l, s[l].role = "tool" PROVE s[k].role = "tool"
  <2>1. l \in DOMAIN replies /\ DOMAIN replies = 1..Len(replies)
    BY <1>6, <1>12, <1>15
  <2>2. k \in DOMAIN replies /\ ~(k > Len(replies))
    BY <1>11, <1>15, <2>1
  <2> QED
    BY <1>5, <1>6, <1>12, <2>2
<1>16. \A j \in DOMAIN t.parts : t.parts[j].is \notin Uses
  BY DEF TurnFits
<1>17. \A x : DOMAIN << >> = {}
  OBVIOUS
<1> QED
  BY <1>10, <1>11, <1>13, <1>14, <1>15, <1>16, <1>17 DEF Carries

\* A system turn is one message.
LEMMA SystemCarries ==
  ASSUME NEW t \in TurnOf, TurnFits(t), t.role = "system", endpoint = "messages"
  PROVE  Carries(t, <<Message("system", "text")>>)
<1>1. PICK m : m = Message("system", "text")
  OBVIOUS
<1>2. m \in ChatMessage /\ m.role = "system" /\ m.calls = << >>
  <2>1. << >> \in Seq(CallSent)
    OBVIOUS
  <2> QED
    BY <1>1, <2>1, MessageIs
<1>3. <<m>> \in Seq(ChatMessage) /\ DOMAIN <<m>> = {1} /\ <<m>>[1] = m
  BY <1>2, SingleList
<1>4. \A j \in DOMAIN t.parts : t.parts[j].is \notin Uses
  BY DEF TurnFits
<1>5. DOMAIN m.calls = {}
  BY <1>2
<1> QED
  BY <1>1, <1>2, <1>3, <1>4, <1>5 DEF Carries

\* An item of a Responses history is one message or none.
LEMMA ItemCarries ==
  ASSUME NEW t \in TurnOf, TurnFits(t), endpoint = "responses", t.shape = "parts", Len(t.parts) = 1
  PROVE  Carries(t, responsesItem(t))
<1>1. PICK p : p = Head(t.parts)
  OBVIOUS
<1>2. p = t.parts[1] /\ DOMAIN t.parts = {1} /\ p \in AnyPart
  <2>1. t.parts \in Seq(AnyPart)
    BY DEF TurnOf
  <2> QED
    BY <1>1, <2>1
<1>3. << >> \in Seq(CallSent) /\ << >> \in Seq(ChatMessage) /\ DOMAIN << >> = {}
  OBVIOUS
<1>4. CASE p.is \in Uses
  <2>1. p \in CallPart /\ p.id \in CallIds /\ p.id \in SentIds
    <3>1. p \in CallPart
      BY <1>2, <1>4, PartIs
    <3> QED
      BY <3>1, NameIsId DEF CallPart
  <2>2. PICK c : c = CallOf(p, p.id)
    OBVIOUS
  <2>3. c \in CallSent /\ c.id = p.id /\ (~Gate(p) /\ c.strict => c.args # "coerced")
    BY <2>1, <2>2, CallSentIs
  <2>4. <<c>> \in Seq(CallSent) /\ DOMAIN <<c>> = {1} /\ <<c>>[1] = c
    BY <2>3, SingleList
  <2>5. PICK m : m = [Message("assistant", "null") EXCEPT !.calls = <<c>>]
    OBVIOUS
  <2>6. m \in ChatMessage /\ m.calls = <<c>> /\ m.role = "assistant"
    BY <2>4, <2>5, MessageIs
  <2>7. responsesItem(t) = <<m>>
    <3>1. p.is # "tool_result" /\ p.is # "text" /\ p.is # "thinking"
      BY <1>2, <1>4, PartIs
    <3>2. responsesItem(t) = <<[Message("assistant", "null") EXCEPT !.calls = <<CallOf(p, p.id)>>]>>
      BY <1>1, <1>4, <3>1 DEF responsesItem
    <3> QED
      BY <2>2, <2>5, <3>2
  <2>8. <<m>> \in Seq(ChatMessage) /\ DOMAIN <<m>> = {1} /\ <<m>>[1] = m
    BY <2>6, SingleList
  <2>9. t.role = "assistant"
    BY <1>2, <1>4 DEF TurnFits
  <2>10. p.id = NameOf(p.id)
    BY DEF NameOf
  <2> QED
    BY <1>2, <2>3, <2>4, <2>6, <2>7, <2>8, <2>9, <2>10 DEF Carries
<1>5. CASE p.is = "tool_result"
  <2>1. p.id \in SentIds /\ p.is \notin Uses
    <3>1. p \in ResultPart
      BY <1>2, <1>5, PartIs
    <3>2. p.id \in CallIds
      BY <3>1 DEF ResultPart
    <3> QED
      BY <1>2, <1>5, <3>2, NameIsId, PartIs
  <2>2. PICK m : m = Reply(p.id)
    OBVIOUS
  <2>3. m \in ChatMessage /\ m.role = "tool" /\ m.id = p.id /\ m.calls = << >>
    BY <2>1, <2>2, ReplyIs
  <2>4. responsesItem(t) = <<m>>
    BY <1>1, <1>5, <2>1, <2>2 DEF responsesItem
  <2>5. <<m>> \in Seq(ChatMessage) /\ DOMAIN <<m>> = {1} /\ <<m>>[1] = m
    BY <2>3, SingleList
  <2>6. p.id = NameOf(p.id)
    BY DEF NameOf
  <2>7. DOMAIN m.calls = {}
    BY <2>3
  <2> QED
    BY <1>2, <1>5, <2>1, <2>3, <2>4, <2>5, <2>6, <2>7 DEF Carries
<1>6. CASE p.is = "thinking"
  <2>1. p.is \notin Uses
    BY <1>2, <1>6, PartIs
  <2>2. responsesItem(t) = << >>
    BY <1>1, <1>6, <2>1 DEF responsesItem
  <2> QED
    BY <1>2, <1>3, <2>1, <2>2 DEF Carries
<1>7. CASE p.is = "text"
  <2>1. p.is \notin Uses
    BY <1>2, <1>7, PartIs
  <2>2. PICK m : m = Message(t.role, "text")
    OBVIOUS
  <2>3. m \in ChatMessage /\ m.role = t.role /\ m.calls = << >> /\ t.role # "tool"
    <3>1. t.role \in {"assistant", "user", "system"}
      BY DEF TurnOf
    <3> QED
      BY <1>3, <2>2, <3>1, MessageIs
  <2>4. responsesItem(t) = <<m>>
    BY <1>1, <1>7, <2>1, <2>2 DEF responsesItem
  <2>5. <<m>> \in Seq(ChatMessage) /\ DOMAIN <<m>> = {1} /\ <<m>>[1] = m
    BY <2>3, SingleList
  <2>6. DOMAIN m.calls = {}
    BY <2>3
  <2> QED
    BY <1>2, <2>1, <2>3, <2>4, <2>5, <2>6 DEF Carries
<1> QED
  BY <1>2, <1>4, <1>5, <1>6, <1>7, PartIs

\* Every turn of the history is carried, in order.
LEMMA TurnsCarry ==
  ASSUME HistoryInv
  PROVE  \E ss \in Seq(Seq(ChatMessage)) :
           /\ (IF endpoint = "messages" THEN anthropicMessagesToOpenAI(history) ELSE responsesInputToMessages(history)) = FlattenSeq(ss)
           /\ Len(ss) = Len(history)
           /\ \A i \in 1..Len(history) : Carries(history[i], ss[i])
<1>1. PICK h : h = history
  OBVIOUS
<1>2. /\ h \in Seq(TurnOf) /\ Len(h) \in Nat /\ DOMAIN h = 1..Len(h)
      /\ \A i \in 1..Len(h) : h[i] \in TurnOf /\ TurnFits(h[i])
      /\ endpoint = "responses" => \A i \in 1..Len(h) : h[i].shape = "parts" /\ Len(h[i].parts) = 1
      /\ endpoint \in {"messages", "responses"}
  BY <1>1 DEF HistoryInv
<1>3. CASE endpoint = "messages"
  <2> DEFINE turned(t) ==
        CASE t.role = "assistant" -> anthropicAssistantToOpenAI(t)
          [] t.role = "user" -> anthropicUserToOpenAI(t)
          [] t.role = "system" -> <<Message("system", "text")>>
  <2>1. ASSUME NEW i \in 1..Len(h) PROVE Carries(h[i], turned(h[i]))
    <3>1. PICK t : t = h[i]
      OBVIOUS
    <3>2. t \in TurnOf /\ TurnFits(t) /\ t.role \in {"assistant", "user", "system"}
      BY <1>2, <3>1 DEF TurnOf
    <3>3. CASE t.role = "assistant"
      BY <1>3, <3>1, <3>2, <3>3, AssistantCarries
    <3>4. CASE t.role = "user"
      BY <1>3, <3>1, <3>2, <3>4, UserCarries
    <3>5. CASE t.role = "system"
      BY <1>3, <3>1, <3>2, <3>5, SystemCarries
    <3> QED
      BY <3>2, <3>3, <3>4, <3>5
  <2> DEFINE ss == [i \in 1..Len(h) |-> turned(h[i])]
  <2>2. anthropicMessagesToOpenAI(h) = FlattenSeq(ss)
    BY <1>2 DEF anthropicMessagesToOpenAI
  <2> HIDE DEF turned
  <2>3. \A i \in 1..Len(h) : ss[i] = turned(h[i]) /\ turned(h[i]) \in Seq(ChatMessage)
    BY <2>1 DEF Carries
  <2>4. ss \in [1..Len(h) -> Seq(ChatMessage)]
    BY <2>3
  <2>5. ss \in Seq(Seq(ChatMessage)) /\ Len(ss) = Len(h)
    BY <1>2, <2>4
  <2>6. \A i \in 1..Len(h) : Carries(h[i], ss[i])
    BY <2>1, <2>3
  <2> HIDE DEF ss
  <2> QED
    BY <1>1, <1>3, <2>2, <2>5, <2>6
<1>4. CASE endpoint = "responses"
  <2> DEFINE ss == [i \in 1..Len(h) |-> responsesItem(h[i])]
  <2>1. ASSUME NEW i \in 1..Len(h) PROVE Carries(h[i], responsesItem(h[i]))
    BY <1>2, <1>4, ItemCarries
  <2>2. responsesInputToMessages(h) = FlattenSeq(ss)
    BY <1>2 DEF responsesInputToMessages
  <2>3. \A i \in 1..Len(h) : ss[i] = responsesItem(h[i]) /\ responsesItem(h[i]) \in Seq(ChatMessage)
    BY <2>1 DEF Carries
  <2>4. ss \in [1..Len(h) -> Seq(ChatMessage)]
    BY <2>3
  <2>5. ss \in Seq(Seq(ChatMessage)) /\ Len(ss) = Len(h)
    BY <1>2, <2>4
  <2>6. \A i \in 1..Len(h) : Carries(h[i], ss[i])
    BY <2>1, <2>3
  <2> HIDE DEF ss
  <2>7. endpoint # "messages"
    BY <1>4
  <2> QED
    BY <1>1, <2>2, <2>5, <2>6, <2>7
<1> QED
  BY <1>2, <1>3, <1>4

\* The chat messages before compression: replies have their calls before them, and strict calls
\* the client's arguments.
ChatFine(ms) ==
  /\ ms \in Seq(ChatMessage)
  /\ \A m \in DOMAIN ms : ms[m].role = "tool" => Callers(ms, m) # {}
  /\ \A m \in DOMAIN ms : \A c \in DOMAIN ms[m].calls : ms[m].calls[c].strict => ms[m].calls[c].args # "coerced"
  /\ endpoint = "messages" /\ AnswersAtOnce(history) =>
       \A m \in DOMAIN ms : ms[m].role = "tool" =>
         \E j \in Callers(ms, m) : \A k \in (j + 1)..(m - 1) : ms[k].role = "tool"

\* What the converters make of a history of the client.
LEMMA Lined ==
  ASSUME HistoryInv, GateHolds(history)
  PROVE  ChatFine(IF endpoint = "messages" THEN anthropicMessagesToOpenAI(history) ELSE responsesInputToMessages(history))
<1>1. PICK ss :
           /\ ss \in Seq(Seq(ChatMessage))
           /\ (IF endpoint = "messages" THEN anthropicMessagesToOpenAI(history) ELSE responsesInputToMessages(history)) = FlattenSeq(ss)
           /\ Len(ss) = Len(history)
           /\ \A i \in 1..Len(history) : Carries(history[i], ss[i])
  BY TurnsCarry, Zenon
<1>2. PICK B : B = FlattenSeq(ss)
  OBVIOUS
<1>3. PICK off :
           /\ off \in [1..Len(ss) -> Nat]
           /\ B \in Seq(ChatMessage)
           /\ \A i \in 1..Len(ss), k \in Nat : k \in 1..Len(ss[i]) => off[i] + k \in DOMAIN B /\ B[off[i] + k] = ss[i][k]
           /\ \A m \in DOMAIN B : \E i \in 1..Len(ss) : \E k \in 1..Len(ss[i]) : m = off[i] + k
           /\ \A i, j \in 1..Len(ss) : i < j => off[i] + Len(ss[i]) <= off[j]
           /\ \A i \in 1..Len(ss) : i # 1 => off[i] = off[i - 1] + Len(ss[i - 1])
  <2>1. ss \in Seq(Seq(ChatMessage))
    BY <1>1
  <2>2. B \in Seq(ChatMessage) /\ \E o : Chained(B, ss, o)
    BY <1>2, <2>1, FlattenIs
  <2> QED
    BY <2>2, Zenon DEF Chained
<1>4. PICK L : L = Len(history)
  OBVIOUS
<1>5. /\ history \in Seq(TurnOf) /\ L \in Nat /\ DOMAIN history = 1..L /\ Len(ss) = L
      /\ \A i \in 1..L : history[i] \in TurnOf /\ TurnFits(history[i]) /\ Carries(history[i], ss[i])
      /\ \A i \in 1..L : \A j \in DOMAIN history[i].parts :
           history[i].parts[j].is = "tool_result" =>
             \E k \in 1..(i - 1) : \E l \in DOMAIN history[k].parts :
               history[k].parts[l].is \in Uses /\ history[k].parts[l].id = history[i].parts[j].id
  <2>1. /\ history \in Seq(TurnOf) /\ \A i \in DOMAIN history : TurnFits(history[i])
        /\ \A i \in DOMAIN history : \A j \in DOMAIN history[i].parts :
             history[i].parts[j].is = "tool_result" =>
               \E k \in 1..(i - 1) : \E l \in DOMAIN history[k].parts :
                 history[k].parts[l].is \in Uses /\ history[k].parts[l].id = history[i].parts[j].id
    <3>1. HistoryInv
      OBVIOUS
    <3>2. history \in Seq(TurnOf) /\ \A i \in DOMAIN history : TurnFits(history[i])
      BY <1>4, <3>1 DEF HistoryInv
    <3>3. \A i \in DOMAIN history : \A j \in DOMAIN history[i].parts :
             history[i].parts[j].is = "tool_result" =>
               \E k \in 1..(i - 1) : \E l \in DOMAIN history[k].parts :
                 history[k].parts[l].is \in Uses /\ history[k].parts[l].id = history[i].parts[j].id
      BY <3>1, Zenon DEF HistoryInv
    <3> QED
      BY <3>2, <3>3
  <2>2. DOMAIN history = 1..L /\ L \in Nat /\ Len(ss) = L /\ \A i \in 1..L : history[i] \in TurnOf
    BY <1>1, <1>4, <2>1
  <2>3. \A i \in 1..L : Carries(history[i], ss[i])
    BY <1>1, <1>4, Zenon
  <2> QED
    BY <2>1, <2>2, <2>3, Zenon
<1>6. \A i \in 1..L : off[i] \in Nat /\ ss[i] \in Seq(ChatMessage) /\ Len(ss[i]) \in Nat /\ DOMAIN ss[i] = 1..Len(ss[i])
  <2>1. \A i \in 1..L : off[i] \in Nat
    BY <1>3, <1>5
  <2>2. \A i \in 1..L : ss[i] \in Seq(ChatMessage)
    BY <1>1, <1>5
  <2> QED
    BY <2>1, <2>2
\* where the reply at m comes from, and the call in an earlier turn it answers
<1>7. ASSUME NEW m, m \in DOMAIN B, B[m].role = "tool"
      PROVE  \E i, k, j :
               /\ i \in 1..L /\ k \in DOMAIN ss[i] /\ j \in DOMAIN history[i].parts
               /\ m = off[i] + k /\ ss[i][k] = B[m] /\ history[i].parts[j].is = "tool_result" /\ B[m].id = NameOf(history[i].parts[j].id)
  <2>1. PICK i : i \in 1..L /\ \E k \in 1..Len(ss[i]) : m = off[i] + k
    <3>1. \E i \in 1..Len(ss) : \E k \in 1..Len(ss[i]) : m = off[i] + k
      BY <1>3, <1>7, Zenon
    <3> QED
      BY <1>5, <3>1
  <2>2. PICK k : k \in 1..Len(ss[i]) /\ m = off[i] + k
    BY <2>1
  <2>3. k \in Nat /\ k \in DOMAIN ss[i]
    BY <1>6, <2>1, <2>2
  <2>4. B[m] = ss[i][k]
    BY <1>3, <1>5, <2>1, <2>2, <2>3
  <2>5. ss[i][k].role = "tool" /\ Carries(history[i], ss[i])
    BY <1>5, <1>7, <2>1, <2>4
  <2>6. PICK j : j \in DOMAIN history[i].parts /\ history[i].parts[j].is = "tool_result" /\ ss[i][k].id = NameOf(history[i].parts[j].id)
    BY <2>3, <2>5, Zenon DEF Carries
  <2> QED
    BY <2>1, <2>2, <2>3, <2>4, <2>6
<1>8. ASSUME NEW m, NEW i, NEW a, NEW k, NEW l,
             m \in DOMAIN B, i \in 1..L, a \in 1..L, a < i, k \in DOMAIN ss[i], m = off[i] + k,
             l \in DOMAIN history[a].parts, history[a].parts[l].is \in Uses, B[m].id = NameOf(history[a].parts[l].id)
      PROVE  \E n : n \in DOMAIN ss[a] /\ off[a] + n \in Callers(B, m) /\ off[a] + n <= off[i]
  <2>1. PICK n : n \in DOMAIN ss[a] /\ ss[a][n].role = "assistant" /\ \E c \in DOMAIN ss[a][n].calls : ss[a][n].calls[c].id = B[m].id
    <3>1. Carries(history[a], ss[a])
      BY <1>5, <1>8
    <3> QED
      <4>1. \A j \in DOMAIN history[a].parts : history[a].parts[j].is \in Uses =>
              \E n \in DOMAIN ss[a] : ss[a][n].role = "assistant" /\
                \E c \in DOMAIN ss[a][n].calls : ss[a][n].calls[c].id = NameOf(history[a].parts[j].id)
        BY <3>1, Zenon DEF Carries
      <4> QED
        BY <1>8, <4>1
  <2>2. n \in Nat /\ n \in 1..Len(ss[a]) /\ k \in Nat \ {0}
    BY <1>6, <1>8, <2>1
  <2>3. off[a] + n \in DOMAIN B /\ B[off[a] + n] = ss[a][n]
    BY <1>3, <1>5, <1>8, <2>2
  <2>4. off[a] + Len(ss[a]) <= off[i]
    BY <1>3, <1>5, <1>8
  <2>5. off[a] + n \in 1..(m - 1) /\ off[a] + n <= off[i]
    <3>1. off[a] \in Nat /\ off[i] \in Nat /\ Len(ss[a]) \in Nat /\ m = off[i] + k
      BY <1>6, <1>8
    <3> QED
      BY ONLY <2>2, <2>4, <3>1
  <2> QED
    BY <2>1, <2>3, <2>5 DEF Callers
<1>9. ASSUME NEW m, m \in DOMAIN B, B[m].role = "tool" PROVE Callers(B, m) # {}
  <2>1. PICK i, k, j :
          /\ i \in 1..L /\ k \in DOMAIN ss[i] /\ j \in DOMAIN history[i].parts
          /\ m = off[i] + k /\ ss[i][k] = B[m] /\ history[i].parts[j].is = "tool_result" /\ B[m].id = NameOf(history[i].parts[j].id)
    BY <1>7, <1>9, Zenon
  <2>2. PICK a, l : a \in 1..(i - 1) /\ l \in DOMAIN history[a].parts /\ history[a].parts[l].is \in Uses /\ history[a].parts[l].id = history[i].parts[j].id
    BY <1>5, <2>1
  <2>3. a \in 1..L /\ a < i
    BY <1>5, <2>1, <2>2
  <2> QED
    BY <1>8, <1>9, <2>1, <2>2, <2>3
<1>10. ASSUME NEW m, NEW c, m \in DOMAIN B, c \in DOMAIN B[m].calls, B[m].calls[c].strict
       PROVE  B[m].calls[c].args # "coerced"
  <2>1. PICK i : i \in 1..L /\ \E k \in 1..Len(ss[i]) : m = off[i] + k
    BY <1>3, <1>5, <1>10
  <2>2. PICK k : k \in 1..Len(ss[i]) /\ m = off[i] + k
    BY <2>1
  <2>3. k \in Nat /\ k \in DOMAIN ss[i]
    BY <1>6, <2>1, <2>2
  <2>4. B[m] = ss[i][k]
    BY <1>3, <1>5, <2>1, <2>2, <2>3
  <2>5. history[i].role = "assistant" /\ history[i].shape = "parts" => \A j \in DOMAIN history[i].parts : ~Gate(history[i].parts[j])
    BY <1>4, <1>5, <2>1 DEF GateHolds
  <2>6. Carries(history[i], ss[i])
    BY <1>5, <2>1
  <2>7. \A n \in DOMAIN ss[i] : \A d \in DOMAIN ss[i][n].calls :
          ss[i][n].calls[d].strict => ss[i][n].calls[d].args # "coerced"
    BY <2>5, <2>6, Zenon DEF Carries
  <2> QED
    BY <1>10, <2>3, <2>4, <2>7
<1>11. ASSUME endpoint = "messages", AnswersAtOnce(history), NEW m, m \in DOMAIN B, B[m].role = "tool"
       PROVE  \E j \in Callers(B, m) : \A k \in (j + 1)..(m - 1) : B[k].role = "tool"
  <2>1. PICK i, k, j :
          /\ i \in 1..L /\ k \in DOMAIN ss[i] /\ j \in DOMAIN history[i].parts
          /\ m = off[i] + k /\ ss[i][k] = B[m] /\ history[i].parts[j].is = "tool_result" /\ B[m].id = NameOf(history[i].parts[j].id)
    BY <1>7, <1>11, Zenon
  <2>2. /\ i > 1
        /\ \E l \in DOMAIN history[i - 1].parts : history[i - 1].parts[l] \in
             [is : Uses, id : {history[i].parts[j].id}, strict : BOOLEAN, input : {"object", "none"}]
    BY <1>5, <1>11, <2>1, Zenon DEF AnswersAtOnce
  <2>3. PICK l : l \in DOMAIN history[i - 1].parts /\ history[i - 1].parts[l].is \in Uses /\ history[i - 1].parts[l].id = history[i].parts[j].id
    BY <2>2
  <2>4. i - 1 \in 1..L /\ i - 1 < i /\ i # 1
    BY <1>5, <2>1, <2>2
  <2>5. PICK n : n \in DOMAIN ss[i - 1] /\ off[i - 1] + n \in Callers(B, m)
    BY <1>8, <1>11, <2>1, <2>3, <2>4, Zenon
  <2>6. history[i - 1].role = "assistant"
    <3>1. TurnFits(history[i - 1])
      BY <1>5, <2>4
    <3> QED
      BY <2>3, <3>1 DEF TurnFits
  <2>7. Len(ss[i - 1]) = 1
    <3>1. Carries(history[i - 1], ss[i - 1])
      BY <1>5, <2>4
    <3> QED
      BY <1>11, <2>6, <3>1, Zenon DEF Carries
  <2>8. off[i - 1] + n = off[i]
    <3>1. n = 1
      BY <1>6, <2>4, <2>5, <2>7
    <3>2. off[i] = off[i - 1] + 1
      BY <1>3, <1>5, <2>1, <2>4, <2>7
    <3> QED
      BY <3>1, <3>2
  <2>9. ASSUME NEW q, q \in (off[i] + 1)..(m - 1) PROVE B[q].role = "tool"
    <3>1. k \in 1..Len(ss[i]) /\ Len(ss[i]) \in Nat /\ off[i] \in Nat
      BY <1>6, <2>1
    <3>2. q - off[i] \in 1..Len(ss[i]) /\ q - off[i] < k /\ q - off[i] \in Nat /\ off[i] + (q - off[i]) = q /\ k \in Nat
      <4>1. \A o, z \in Nat : \A x \in 1..z : \A y \in (o + 1)..(o + x - 1) : y - o \in 1..z /\ y - o < x /\ y - o \in Nat /\ o + (y - o) = y /\ x \in Nat
        OBVIOUS
      <4>2. q \in (off[i] + 1)..(off[i] + k - 1)
        BY <2>1, <2>9, <3>1
      <4> QED
        BY <3>1, <4>1, <4>2
    <3>3. B[off[i] + (q - off[i])] = ss[i][q - off[i]]
      BY <1>3, <1>5, <2>1, <3>2
    <3>4. \A k1, k2 \in DOMAIN ss[i] : k1 < k2 /\ ss[i][k2].role = "tool" => ss[i][k1].role = "tool"
      <4>1. Carries(history[i], ss[i])
        BY <1>5, <2>1
      <4> QED
        BY <1>11, <4>1, Zenon DEF Carries
    <3>5. q - off[i] \in DOMAIN ss[i]
      BY <1>6, <2>1, <3>2
    <3> QED
      BY <1>11, <2>1, <3>2, <3>3, <3>4, <3>5
  <2> QED
    BY <2>5, <2>8, <2>9
<1>12. B \in Seq(ChatMessage)
  BY <1>3
<1>13. ChatFine(B)
  BY <1>4, <1>9, <1>10, <1>11, <1>12, Zenon DEF ChatFine
<1> QED
  BY <1>1, <1>2, <1>13

\* What compression leaves: at[r] is where message r stood, the one at mark, if any, is the marker.
Shrunk(ms, out, at, mark) ==
  /\ DOMAIN out = 1..Len(out) /\ Len(out) \in Nat /\ mark \in 0..Len(out)
  /\ \A r \in 1..Len(out) : at[r] \in 1..Len(ms)
  /\ mark # 0 => out[mark] = Marker(Len(ms) - Len(out) + 1)
  /\ \A r \in 1..Len(out) : r # mark => out[r] = ms[at[r]]
  /\ \A r, s \in 1..Len(out) : r < s => at[r] < at[s]
  /\ \A i \in 1..Len(ms) : mustKeepMessage(ms[i]) \/ i = Len(ms) => \E r \in 1..Len(out) : r # mark /\ at[r] = i

\* What the marker of a compression is.
LEMMA MarkerIs ==
  ASSUME NEW n
  PROVE  /\ Marker(n).role = "system" /\ Marker(n).content = "marker" /\ Marker(n).calls = <<n>> /\ Marker(n).calls[1] = n
         /\ Marker(n) \in [role : {"system"}, content : {"marker"}, calls : {<<n>>}, id : {NoId}]
<1>1. Marker(n) = [role |-> "system", content |-> "marker", calls |-> <<n>>, id |-> NoId]
  BY DEF Marker, Message
<1> QED
  BY <1>1

\* What compression leaves, and where.
LEMMA CompressIs ==
  ASSUME NEW ms \in Seq(ChatMessage), NEW keep \in Nat
  PROVE  \E at, mark : Shrunk(ms, compressMessages(ms, keep), at, mark)
<1>1. Len(ms) \in Nat /\ DOMAIN ms = 1..Len(ms)
  OBVIOUS
<1>2. PICK dropped : dropped = {i \in DOMAIN ms : i <= Len(ms) - keep /\ ~mustKeepMessage(ms[i])}
  OBVIOUS
<1>3. PICK first : first = CHOOSE i \in dropped : \A j \in dropped : i <= j
  OBVIOUS
<1>4. PICK marked : marked = [ms EXCEPT ![first] = Marker(Cardinality(dropped))]
  OBVIOUS
<1>5. compressMessages(ms, keep) =
        IF keep = 0 \/ Len(ms) <= keep \/ dropped = {} THEN ms
        ELSE Picked(marked, (DOMAIN ms \ dropped) \cup {first})
  BY <1>2, <1>3, <1>4 DEF compressMessages
<1>6. CASE keep = 0 \/ Len(ms) <= keep \/ dropped = {}
  <2> DEFINE at == [r \in 1..Len(ms) |-> r]
  <2>1. \A r \in 1..Len(ms) : at[r] = r
    OBVIOUS
  <2> HIDE DEF at
  <2>2. Shrunk(ms, ms, at, 0)
    <3>1. \A i \in 1..Len(ms) : \E r \in 1..Len(ms) : r # 0 /\ at[r] = i
      BY <1>1, <2>1
    <3>2. 0 \in 0..Len(ms)
      BY <1>1
    <3> QED
      BY <1>1, <2>1, <3>1, <3>2 DEF Shrunk
  <2> QED
    BY <1>5, <1>6, <2>2
<1>7. CASE ~(keep = 0 \/ Len(ms) <= keep \/ dropped = {})
  <2>1. dropped \in SUBSET Nat /\ dropped # {} /\ dropped \subseteq 1..Len(ms)
    BY <1>1, <1>2, <1>7
  <2>2. first \in dropped
    <3>1. \E i \in dropped : \A j \in dropped : i <= j
      BY <2>1, LeastOf
    <3> QED
      BY <1>3, <3>1, Zenon
  <2>3. PICK J : J = (DOMAIN ms \ dropped) \cup {first}
    OBVIOUS
  <2>4. first \in J /\ first \in 1..Len(ms) /\ J \in SUBSET (1..Len(ms))
    BY <1>1, <2>1, <2>2, <2>3
  <2>5. PICK n : n = Cardinality(dropped)
    OBVIOUS
  <2>6. Cardinality(J) = Len(ms) - n + 1 /\ n \in Nat
    <3>1. IsFiniteSet(1..Len(ms)) /\ Cardinality(1..Len(ms)) = Len(ms)
      BY <1>1, FS_Interval
    <3>2. /\ IsFiniteSet((1..Len(ms)) \ dropped) /\ IsFiniteSet(dropped) /\ Cardinality(dropped) \in Nat
      BY <2>1, <3>1, FS_Subset, FS_CardinalityType
    <3>3. Cardinality((1..Len(ms)) \ dropped) = Cardinality(1..Len(ms)) - Cardinality((1..Len(ms)) \cap dropped)
      BY <3>1, FS_Difference
    <3>4. (1..Len(ms)) \cap dropped = dropped
      BY <2>1
    <3>5. first \notin (1..Len(ms)) \ dropped
      BY <2>2
    <3>6. Cardinality(((1..Len(ms)) \ dropped) \cup {first}) = Cardinality((1..Len(ms)) \ dropped) + 1
      BY <3>2, <3>5, FS_AddElement
    <3>7. Cardinality((1..Len(ms)) \ dropped) = Len(ms) - n
      BY <2>5, <3>1, <3>3, <3>4
    <3> QED
      BY <1>1, <2>3, <2>5, <3>2, <3>6, <3>7
  <2> DEFINE S == ChatMessage \cup {Marker(n)}
  <2>7. marked \in Seq(S) /\ DOMAIN marked = 1..Len(ms) /\ marked[first] = Marker(n)
        /\ \A i \in 1..Len(ms) : i # first => marked[i] = ms[i]
    <3>1. marked = [i \in 1..Len(ms) |-> IF i = first THEN Marker(n) ELSE ms[i]]
      BY <1>1, <1>4, <2>4, <2>5
    <3>2. \A i \in 1..Len(ms) : ms[i] \in S
      OBVIOUS
    <3>3. Marker(n) \in S
      OBVIOUS
    <3> HIDE DEF S
    <3>4. marked \in [1..Len(ms) -> S]
      BY <3>1, <3>2, <3>3
    <3>5. marked \in Seq(S)
      BY <1>1, <3>4
    <3> QED
      BY <2>4, <3>1, <3>5
  <2>8. PICK out : out = Picked(marked, J)
    OBVIOUS
  <2>9. /\ out \in Seq(S) /\ Len(out) = Cardinality(J) /\ Cardinality(J) \in Nat
        /\ \A r \in DOMAIN out : NthOf(J, r) \in J /\ out[r] = marked[NthOf(J, r)]
        /\ \A r, s \in DOMAIN out : r < s => NthOf(J, r) < NthOf(J, s)
    <3>1. J \in SUBSET DOMAIN marked
      BY <2>4, <2>7
    <3> HIDE DEF S
    <3> QED
      BY <2>7, <2>8, <3>1, PickedIs
  <2>10. \A i \in J : Rank(J, i) \in 1..Cardinality(J) /\ NthOf(J, Rank(J, i)) = i
    BY <1>1, <2>4, NthOfRank
  <2>11. DOMAIN out = 1..Len(out) /\ Len(out) \in Nat
    BY <2>9
  <2> DEFINE at == [r \in 1..Len(out) |-> NthOf(J, r)]
  <2>12. \A r \in 1..Len(out) : at[r] = NthOf(J, r)
    OBVIOUS
  <2> HIDE DEF at, S
  <2>13. PICK mark : mark = Rank(J, first)
    OBVIOUS
  <2>14. mark \in 1..Len(out) /\ at[mark] = first
    BY <2>4, <2>9, <2>10, <2>12, <2>13
  <2>15. \A r, s \in 1..Len(out) : r < s => at[r] < at[s]
    BY <2>9, <2>11, <2>12
  <2>16. \A r \in 1..Len(out) : at[r] \in J /\ at[r] \in 1..Len(ms) /\ out[r] = marked[at[r]]
    BY <2>4, <2>9, <2>11, <2>12
  <2>17. ASSUME NEW r \in 1..Len(out), r # mark PROVE at[r] # first
    <3>1. r < mark \/ mark < r
      BY <2>11, <2>14, <2>17
    <3>2. at[r] < at[mark] \/ at[mark] < at[r]
      BY <2>14, <2>15, <3>1
    <3>3. first \in Nat
      BY <2>1, <2>2
    <3> QED
      BY <2>14, <3>2, <3>3
  <2>18. out[mark] = Marker(Len(ms) - Len(out) + 1)
    <3>1. Len(ms) - Len(out) + 1 = n
      BY <1>1, <2>6, <2>9
    <3> QED
      BY <2>7, <2>14, <2>16, <3>1
  <2>19. ASSUME NEW i \in 1..Len(ms), mustKeepMessage(ms[i]) \/ i = Len(ms)
         PROVE  \E r \in 1..Len(out) : r # mark /\ at[r] = i
    <3>1. i \notin dropped
      <4>1. i = Len(ms) => ~(i <= Len(ms) - keep)
        BY <1>1, <1>7
      <4> QED
        BY <1>2, <2>19, <4>1
    <3>2. i \in J /\ i # first
      BY <1>1, <2>2, <2>3, <3>1
    <3>3. Rank(J, i) \in 1..Len(out) /\ at[Rank(J, i)] = i
      BY <2>9, <2>10, <2>12, <3>2
    <3> QED
      BY <2>14, <3>2, <3>3
  <2>20. Shrunk(ms, out, at, mark)
    <3>1. mark \in 0..Len(out)
      BY <2>11, <2>14
    <3>2. \A r \in 1..Len(out) : r # mark => out[r] = ms[at[r]]
      BY <2>7, <2>16, <2>17
    <3> QED
      BY <2>11, <2>15, <2>16, <2>18, <2>19, <3>1, <3>2 DEF Shrunk
  <2>21. compressMessages(ms, keep) = out
    BY <1>5, <1>7, <2>3, <2>8
  <2> QED
    BY <2>20, <2>21
<1> QED
  BY <1>6, <1>7

\* A one-to-one map makes two finite sets equally large.
LEMMA Matched ==
  ASSUME NEW S, NEW T, NEW f, IsFiniteSet(S), \A x \in S : f[x] \in T,
         \A x, y \in S : f[x] = f[y] => x = y, \A z \in T : \E x \in S : f[x] = z
  PROVE  Cardinality(T) = Cardinality(S)
<1> DEFINE g == [x \in S |-> f[x]]
<1>1. g \in Bijection(S, T)
  BY DEF Bijection, Injection, Surjection, IsInjective
<1>2. ExistsBijection(S, T)
  BY <1>1 DEF ExistsBijection
<1> QED
  BY <1>2, FS_Bijection

\* The caller a reply stood directly behind is the one Behind finds.
LEMMA BehindIs ==
  ASSUME NEW ms, NEW r \in Nat, NEW s \in 1..(r - 1), ms[s].role # "tool", \A q \in (s + 1)..(r - 1) : ms[q].role = "tool"
  PROVE  Behind(ms, r) = s
<1> DEFINE P(j) == ms[j].role # "tool" /\ \A k \in (j + 1)..(r - 1) : ms[k].role = "tool"
<1>1. P(s)
  OBVIOUS
<1>2. ASSUME NEW j \in 1..(r - 1), P(j) PROVE j = s
  <2>1. ~(j < s)
    <3> SUFFICES ASSUME j < s PROVE FALSE
      OBVIOUS
    <3>1. s \in (j + 1)..(r - 1)
      OBVIOUS
    <3> QED
      BY <1>2, <3>1
  <2>2. ~(s < j)
    <3> SUFFICES ASSUME s < j PROVE FALSE
      OBVIOUS
    <3>1. j \in (s + 1)..(r - 1)
      OBVIOUS
    <3> QED
      BY <1>2, <3>1
  <2> QED
    BY <2>1, <2>2
<1> HIDE DEF P
<1>3. (CHOOSE j \in 1..(r - 1) : P(j)) = s
  BY <1>1, <1>2, Zenon
<1> QED
  BY <1>3 DEF Behind, P

\* What is left after compression keeps what the whole conversation had.
LEMMA ShrunkFine ==
  ASSUME NEW ms, NEW out, NEW at, NEW mark, ChatFine(ms), Shrunk(ms, out, at, mark)
  PROVE  /\ \A i \in Replies(out) : Callers(out, i) # {}
         /\ endpoint = "messages" /\ AnswersAtOnce(history) => \A i \in Replies(out) : Behind(out, i) \in Callers(out, i)
         /\ ms # << >> => Last(out) = Last(ms)
         /\ Cardinality(Replies(out)) = Cardinality(Replies(ms))
         /\ \A i \in DOMAIN out : out[i].content = "marker" => Len(out) - 1 + out[i].calls[1] = Len(ms)
         /\ \A i \in DOMAIN out : out[i].role = "assistant" =>
              \A k \in DOMAIN out[i].calls : out[i].calls[k].strict => out[i].calls[k].args # "coerced"
<1>1. PICK L : L = Len(ms) /\ L \in Nat /\ DOMAIN ms = 1..L
  BY DEF ChatFine
<1>2. PICK N : N = Len(out) /\ N \in Nat /\ DOMAIN out = 1..N
  BY DEF Shrunk
<1>3. /\ mark \in 0..N
      /\ \A r \in 1..N : at[r] \in 1..L
      /\ mark # 0 => out[mark] = Marker(L - N + 1)
      /\ \A r \in 1..N : r # mark => out[r] = ms[at[r]]
      /\ \A r, s \in 1..N : r < s => at[r] < at[s]
      /\ \A i \in 1..L : mustKeepMessage(ms[i]) \/ i = L => \E r \in 1..N : r # mark /\ at[r] = i
  BY <1>1, <1>2, Zenon DEF Shrunk
<1>4. \A i \in 1..L : ms[i] \in ChatMessage
  BY <1>1 DEF ChatFine
<1>5. \A r, s \in 1..N : at[r] < at[s] => r < s
  BY <1>2, <1>3
<1>6. \A r, s \in 1..N : at[r] = at[s] => r = s
  BY <1>2, <1>3
<1>7. mark # 0 => mark \in 1..N /\ out[mark].role = "system" /\ out[mark].content = "marker" /\ out[mark].calls[1] = L - N + 1
  BY <1>2, <1>3, MarkerIs
\* replies and the turns that call stay, at their own places
<1>8. ASSUME NEW i \in 1..L, ms[i].role = "tool" \/ (ms[i].role = "assistant" /\ ms[i].calls # << >>)
      PROVE  \E r \in 1..N : r # mark /\ at[r] = i /\ out[r] = ms[i]
  <2>1. mustKeepMessage(ms[i])
    BY <1>8 DEF mustKeepMessage
  <2> QED
    BY <1>3, <2>1
<1>9. ASSUME NEW r \in 1..N, out[r].role = "tool"
      PROVE  r # mark /\ at[r] \in 1..L /\ out[r] = ms[at[r]] /\ ms[at[r]].role = "tool"
  BY <1>3, <1>7, <1>9
<1>10. ASSUME NEW r \in 1..N, out[r].role = "tool", NEW j \in Callers(ms, at[r])
       PROVE  \E s \in 1..(r - 1) : s \in Callers(out, r) /\ at[s] = j /\ out[s].role = "assistant"
  <2>1. /\ r # mark /\ at[r] \in 1..L /\ out[r] = ms[at[r]]
    BY <1>9, <1>10
  <2>2. PICK c : j \in 1..(at[r] - 1) /\ c \in DOMAIN ms[j].calls /\ ms[j].role = "assistant" /\ ms[j].calls[c].id = ms[at[r]].id
    BY DEF Callers
  <2>3. j \in 1..L /\ j < at[r]
    BY <1>1, <2>1, <2>2
  <2>4. ms[j].calls # << >>
    BY <2>2
  <2>5. PICK s \in 1..N : s # mark /\ at[s] = j /\ out[s] = ms[j]
    BY <1>8, <2>2, <2>3, <2>4
  <2>6. s < r
    BY <1>5, <2>3, <2>5
  <2>7. s \in 1..(r - 1)
    BY <1>2, <2>6
  <2>8. s \in Callers(out, r)
    BY <2>1, <2>2, <2>5, <2>7 DEF Callers
  <2> QED
    BY <2>2, <2>5, <2>7, <2>8
<1>11. ASSUME NEW i \in Replies(out) PROVE Callers(out, i) # {}
  <2>1. i \in 1..N /\ out[i].role = "tool"
    BY <1>2 DEF Replies
  <2>2. Callers(ms, at[i]) # {}
    BY <1>1, <1>9, <2>1 DEF ChatFine
  <2> QED
    BY <1>10, <2>1, <2>2
<1>12. ASSUME endpoint = "messages", AnswersAtOnce(history), NEW i \in Replies(out) PROVE Behind(out, i) \in Callers(out, i)
  <2>1. i \in 1..N /\ out[i].role = "tool" /\ i \in Nat
    BY <1>2 DEF Replies
  <2>2. at[i] \in 1..L /\ ms[at[i]].role = "tool"
    BY <1>9, <2>1
  <2>3. PICK j \in Callers(ms, at[i]) : \A k \in (j + 1)..(at[i] - 1) : ms[k].role = "tool"
    BY <1>1, <1>12, <2>2 DEF ChatFine
  <2>4. PICK s \in 1..(i - 1) : s \in Callers(out, i) /\ at[s] = j /\ out[s].role = "assistant"
    BY <1>10, <2>1
  <2>5. ASSUME NEW q \in (s + 1)..(i - 1) PROVE out[q].role = "tool"
    <3>1. q \in 1..N /\ s \in 1..N /\ s < q /\ q < i
      BY <1>2, <2>1
    <3>2. at[q] \in (j + 1)..(at[i] - 1) /\ at[q] \in 1..L
      BY <1>3, <2>1, <2>4, <3>1
    <3>3. ms[at[q]].role = "tool"
      BY <2>3, <3>2
    <3>4. PICK r \in 1..N : r # mark /\ at[r] = at[q] /\ out[r] = ms[at[q]]
      BY <1>8, <3>2, <3>3
    <3>5. r = q
      BY <1>6, <3>1, <3>4
    <3> QED
      BY <3>3, <3>4, <3>5
  <2>6. Behind(out, i) = s
    BY <2>1, <2>4, <2>5, BehindIs
  <2> QED
    BY <2>4, <2>6
<1>13. ASSUME ms # << >> PROVE Last(out) = Last(ms)
  <2>1. L \in 1..L
    <3>1. ms \in Seq(ChatMessage)
      BY DEF ChatFine
    <3> QED
      BY <1>1, <1>13, <3>1
  <2>2. PICK r \in 1..N : r # mark /\ at[r] = L
    BY <1>3, <2>1
  <2>3. r = N
    <3>1. N \in 1..N /\ at[N] \in 1..L
      BY <1>2, <1>3
    <3>2. ~(r < N)
      BY <1>1, <1>3, <2>2, <3>1
    <3> QED
      BY <1>2, <3>2
  <2>4. out[N] = ms[L]
    BY <1>3, <2>2, <2>3
  <2> QED
    BY <1>1, <1>2, <2>4 DEF Last
<1>14. Cardinality(Replies(out)) = Cardinality(Replies(ms))
  <2>1. IsFiniteSet(Replies(out))
    <3>1. Replies(out) \subseteq 1..N /\ IsFiniteSet(1..N)
      BY <1>2, FS_Interval DEF Replies
    <3> QED
      BY <3>1, FS_Subset
  <2>2. \A r \in Replies(out) : r \in 1..N /\ at[r] \in Replies(ms)
    BY <1>1, <1>2, <1>9 DEF Replies
  <2>3. \A z \in Replies(ms) : \E r \in Replies(out) : at[r] = z
    <3> SUFFICES ASSUME NEW z \in Replies(ms) PROVE \E r \in Replies(out) : at[r] = z
      OBVIOUS
    <3>1. z \in 1..L /\ ms[z].role = "tool" /\ ms[z].id # Fresh
      BY <1>1 DEF Replies
    <3>2. PICK r \in 1..N : at[r] = z /\ out[r] = ms[z]
      BY <1>8, <3>1
    <3> QED
      BY <1>2, <3>1, <3>2 DEF Replies
  <2>4. \A r, s \in Replies(out) : at[r] = at[s] => r = s
    BY <1>6, <2>2
  <2> QED
    BY <2>1, <2>2, <2>3, <2>4, Matched
<1>15. ASSUME NEW i \in DOMAIN out, out[i].content = "marker" PROVE Len(out) - 1 + out[i].calls[1] = Len(ms)
  <2>1. i \in 1..N
    BY <1>2
  <2>2. i = mark
    <3>1. i # mark => ms[at[i]].content = "marker" /\ at[i] \in 1..L
      BY <1>3, <1>15, <2>1
    <3>2. \A j \in 1..L : ms[j].content # "marker"
      BY <1>4 DEF ChatMessage
    <3> QED
      BY <3>1, <3>2
  <2>3. out[i].calls[1] = L - N + 1
    BY <1>2, <1>7, <2>1, <2>2
  <2> QED
    BY <1>1, <1>2, <2>3
<1>16. ASSUME NEW i \in DOMAIN out, out[i].role = "assistant", NEW k \in DOMAIN out[i].calls, out[i].calls[k].strict
       PROVE  out[i].calls[k].args # "coerced"
  <2>1. i \in 1..N /\ i # mark
    BY <1>2, <1>7, <1>16
  <2>2. at[i] \in DOMAIN ms /\ out[i] = ms[at[i]]
    BY <1>1, <1>3, <2>1
  <2>3. \A m \in DOMAIN ms : \A c \in DOMAIN ms[m].calls : ms[m].calls[c].strict => ms[m].calls[c].args # "coerced"
    BY Zenon DEF ChatFine
  <2> QED
    BY <1>16, <2>2, <2>3
<1> QED
  BY <1>11, <1>12, <1>13, <1>14, <1>15, <1>16

\* The parts of each role.
LEMMA PartsAre ==
  /\ PartsOf("assistant") =
       {Text, Think} \cup CallOfKinds({"tool_use"}, FALSE, {"none"}) \cup CallOfKinds(UseKinds, TRUE, Inputs)
  /\ PartsOf("user") = {Text} \cup [is : {"tool_result"}, id : UsedIds(history)]
  /\ PartsOf("system") = {Text}
<1>1. PartsOf("assistant") =
       {Text, Think} \cup CallOfKinds({"tool_use"}, FALSE, {"none"}) \cup CallOfKinds(UseKinds, TRUE, Inputs)
  BY DEF PartsOf
<1>2. PartsOf("user") = {Text} \cup [is : {"tool_result"}, id : UsedIds(history)]
  BY DEF PartsOf
<1>3. PartsOf("system") = {Text}
  BY DEF PartsOf
<1> QED
  BY <1>1, <1>2, <1>3

\* What the client may write next in a turn of a role.
LEMMA PartGiven ==
  ASSUME HistoryInv, NEW role \in {"assistant", "user", "system"}, NEW p \in PartsOf(role)
  PROVE  /\ p \in AnyPart
         /\ p.is = "tool_result" =>
              role = "user" /\ \E k \in DOMAIN history : \E l \in DOMAIN history[k].parts :
                                 history[k].parts[l].is \in Uses /\ history[k].parts[l].id = p.id
         /\ p.is \in Uses => role = "assistant"
<1>1. CASE role = "assistant"
  <2>1. \/ p \in {Text, Think}
        \/ p \in CallOfKinds({"tool_use"}, FALSE, {"none"})
        \/ p \in CallOfKinds(UseKinds, TRUE, Inputs)
    BY <1>1, PartsAre
  <2>2. CASE p \in {Text, Think}
    BY <1>1, <2>2 DEF AnyPart, Text, Think, Uses
  <2>3. ASSUME p \in CallOfKinds({"tool_use"}, FALSE, {"none"}) PROVE p \in CallPart
    BY <2>3 DEF CallPart, CallOfKinds, Uses
  <2>4. ASSUME p \in CallOfKinds(UseKinds, TRUE, Inputs) PROVE p \in CallPart
    BY <2>4, ConvertAssumption DEF CallPart, CallOfKinds
  <2>5. CASE p \in CallPart
    <3>1. p \in AnyPart /\ p.is \in Uses
      BY <2>5 DEF AnyPart, CallPart
    <3> QED
      BY <1>1, <3>1, PartIs
  <2> QED
    BY <2>1, <2>2, <2>3, <2>4, <2>5
<1>2. CASE role = "user"
  <2>1. p = Text \/ \E id \in UsedIds(history) : p = [is |-> "tool_result", id |-> id]
    BY <1>2, PartsAre
  <2>2. CASE p = Text
    BY <1>2, <2>2 DEF AnyPart, Text, Uses
  <2>3. ASSUME NEW id \in UsedIds(history), p = [is |-> "tool_result", id |-> id]
        PROVE  /\ p \in ResultPart /\ p.is = "tool_result" /\ p.is \notin Uses
               /\ \E k \in DOMAIN history : \E l \in DOMAIN history[k].parts :
                                 history[k].parts[l].is \in Uses /\ history[k].parts[l].id = p.id
    <3>1. PICK c : c \in Called(history) /\ id = history[c[1]].parts[c[2]].id
      BY <2>3 DEF UsedIds
    <3>2. PICK k, l : k \in DOMAIN history /\ l \in DOMAIN history[k].parts /\ history[k].parts[l].is \in Uses /\ id = history[k].parts[l].id
      BY <3>1 DEF Called
    <3>3. history[k].parts[l] \in AnyPart
      <4>1. history[k] \in TurnOf
        BY <3>2 DEF HistoryInv
      <4>2. history[k].parts \in Seq(AnyPart)
        BY <4>1 DEF TurnOf
      <4> QED
        BY <3>2, <4>2
    <3>4. history[k].parts[l] \in CallPart
      BY <3>2, <3>3, PartIs
    <3>5. id \in CallIds
      BY <3>2, <3>4 DEF CallPart
    <3>6. p = [is |-> "tool_result", id |-> id]
      BY <2>3
    <3> QED
      BY <3>2, <3>5, <3>6 DEF ResultPart, Uses
  <2> QED
    BY <1>2, <2>1, <2>2, <2>3 DEF AnyPart
<1>3. CASE role = "system"
  <2>1. p = Text
    BY <1>3, PartsAre
  <2> QED
    BY <2>1 DEF AnyPart, Text, Uses
<1> QED
  BY <1>1, <1>2, <1>3

\* A client that opens a turn.
LEMMA TurnKept ==
  ASSUME HistoryInv, NEW role \in {"assistant", "user", "system"}, NEW shape \in {"string", "parts"}, Turn(role, shape)
  PROVE  HistoryInv'
<1>1. PICK p : p \in PartsOf(role) /\ Grow(Append(history, [role |-> role, shape |-> shape, parts |-> <<p>>]))
  BY DEF Turn
<1>2. PICK t : t = [role |-> role, shape |-> shape, parts |-> <<p>>]
  OBVIOUS
<1>3. history' = Append(history, t) /\ UNCHANGED endpoint
  BY <1>1, <1>2 DEF Grow
<1>4. PICK L : L = Len(history) /\ L \in Nat /\ DOMAIN history = 1..L /\ history \in Seq(TurnOf)
  BY DEF HistoryInv
<1>5. /\ p \in AnyPart
      /\ p.is = "tool_result" =>
           role = "user" /\ \E k \in DOMAIN history : \E l \in DOMAIN history[k].parts :
                                 history[k].parts[l].is \in Uses /\ history[k].parts[l].id = p.id
      /\ p.is \in Uses => role = "assistant"
  BY <1>1, PartGiven
<1>6. <<p>> \in Seq(AnyPart) /\ DOMAIN <<p>> = {1} /\ <<p>>[1] = p /\ Len(<<p>>) = 1
  BY <1>5, SingleList
<1>7. t \in TurnOf /\ t.role = role /\ t.shape = shape /\ t.parts = <<p>>
  BY <1>2, <1>6 DEF TurnOf
<1>8. /\ history' \in Seq(TurnOf) /\ DOMAIN history' = 1..(L + 1)
      /\ history'[L + 1] = t /\ \A i \in 1..L : history'[i] = history[i]
  BY <1>3, <1>4, <1>7
<1>9. TurnFits(t)
  <2>1. shape = "string" => p.is = "text"
    <3> SUFFICES ASSUME shape = "string" PROVE p.is = "text"
      OBVIOUS
    <3>1. Says(Last(history').parts)
      BY DEF Turn
    <3>2. Len(history') = L + 1
      BY <1>4, <1>8
    <3>3. Last(history') = t
      BY <1>8, <3>2 DEF Last
    <3>4. \E i \in DOMAIN <<p>> : <<p>>[i].is = "text"
      BY <1>7, <3>1, <3>3 DEF Says
    <3> QED
      BY <1>6, <3>4
  <2>2. "text" \notin Uses
    BY DEF Uses
  <2> QED
    BY <1>5, <1>6, <1>7, <2>1, <2>2 DEF TurnFits
<1>10. \A i \in DOMAIN history' : TurnFits(history'[i])
  BY <1>4, <1>8, <1>9 DEF HistoryInv
<1>11. endpoint = "responses" => \A i \in DOMAIN history' : history'[i].shape = "parts" /\ Len(history'[i].parts) = 1
  <2>1. endpoint = "responses" => shape = "parts"
    BY DEF Turn
  <2>2. endpoint = "responses" => \A i \in 1..L : history[i].shape = "parts" /\ Len(history[i].parts) = 1
    BY <1>4 DEF HistoryInv
  <2> SUFFICES ASSUME endpoint = "responses", NEW i \in 1..(L + 1)
               PROVE  history'[i].shape = "parts" /\ Len(history'[i].parts) = 1
    BY <1>8
  <2>3. CASE i = L + 1
    BY <1>6, <1>7, <1>8, <2>1, <2>3
  <2>4. CASE i # L + 1
    <3>1. i \in 1..L
      BY <1>4, <2>4
    <3> QED
      BY <1>8, <2>2, <3>1
  <2> QED
    BY <2>3, <2>4
<1>12. ASSUME NEW i \in 1..(L + 1), NEW j \in DOMAIN history'[i].parts, history'[i].parts[j].is = "tool_result"
       PROVE  \E k \in 1..(i - 1) : \E l \in DOMAIN history'[k].parts :
                history'[k].parts[l].is \in Uses /\ history'[k].parts[l].id = history'[i].parts[j].id
  <2>1. CASE i = L + 1
    <3>1. history'[i].parts[j] = p
      BY <1>6, <1>7, <1>8, <2>1
    <3>2. PICK k \in DOMAIN history : \E l \in DOMAIN history[k].parts : history[k].parts[l].is \in Uses /\ history[k].parts[l].id = p.id
      BY <1>5, <1>12, <3>1
    <3>3. k \in 1..(i - 1) /\ history'[k] = history[k]
      BY <1>4, <1>8, <2>1
    <3> QED
      BY <3>1, <3>2, <3>3
  <2>2. CASE i # L + 1
    <3>1. i \in DOMAIN history /\ history'[i] = history[i] /\ \A k \in 1..(i - 1) : history'[k] = history[k]
      BY <1>4, <1>8, <2>2
    <3>2. \E k \in 1..(i - 1) : \E l \in DOMAIN history[k].parts :
             history[k].parts[l].is \in Uses /\ history[k].parts[l].id = history[i].parts[j].id
      BY <1>12, <3>1 DEF HistoryInv
    <3> QED
      BY <3>1, <3>2
  <2> QED
    BY <2>1, <2>2
<1>13. endpoint' \in {"messages", "responses"}
  BY <1>3 DEF HistoryInv
<1>14. endpoint' = endpoint
  BY <1>3
<1>15. \A i \in DOMAIN history' : \A j \in DOMAIN history'[i].parts :
         history'[i].parts[j].is = "tool_result" =>
           \E k \in 1..(i - 1) : \E l \in DOMAIN history'[k].parts :
             history'[k].parts[l].is \in Uses /\ history'[k].parts[l].id = history'[i].parts[j].id
  BY <1>8, <1>12
<1> QED
  BY <1>8, <1>10, <1>11, <1>13, <1>14, <1>15 DEF HistoryInv

\* A client that adds to a turn.
LEMMA PartKept ==
  ASSUME HistoryInv, Part
  PROVE  HistoryInv'
<1>1. PICK L : L = Len(history) /\ L \in Nat /\ DOMAIN history = 1..L /\ history \in Seq(TurnOf)
  BY DEF HistoryInv
<1>2. L # 0 /\ L \in 1..L
  BY <1>1 DEF Part
<1>3. PICK t : t = history[L]
  OBVIOUS
<1>4. Last(history) = t /\ t \in TurnOf /\ TurnFits(t) /\ t.shape = "parts" /\ endpoint = "messages"
  BY <1>1, <1>2, <1>3 DEF Last, Part, HistoryInv
<1>5. PICK p : p \in PartsOf(t.role) /\ Grow([history EXCEPT ![L].parts = Append(@, p)])
  BY <1>1, <1>4 DEF Part
<1>6. t.role \in {"assistant", "user", "system"} /\ t.parts \in Seq(AnyPart)
  BY <1>4 DEF TurnOf
<1>7. /\ p \in AnyPart
      /\ p.is = "tool_result" =>
           t.role = "user" /\ \E k \in DOMAIN history : \E l \in DOMAIN history[k].parts :
                                 history[k].parts[l].is \in Uses /\ history[k].parts[l].id = p.id
      /\ p.is \in Uses => t.role = "assistant"
  BY <1>5, <1>6, PartGiven
<1>8. PICK M : M = Len(t.parts) /\ M \in Nat /\ DOMAIN t.parts = 1..M
  BY <1>6
<1>9. PICK ps : ps = Append(t.parts, p)
  OBVIOUS
<1>10. /\ ps \in Seq(AnyPart) /\ DOMAIN ps = 1..(M + 1) /\ ps[M + 1] = p
       /\ \A j \in 1..M : ps[j] = t.parts[j]
  BY <1>6, <1>7, <1>8, <1>9
<1>11. PICK u : u = [t EXCEPT !.parts = ps]
  OBVIOUS
<1>12. u \in TurnOf /\ u.parts = ps /\ u.role = t.role /\ u.shape = t.shape
  BY <1>4, <1>10, <1>11 DEF TurnOf
<1>13. history' = [history EXCEPT ![L].parts = Append(@, p)] /\ UNCHANGED endpoint
  BY <1>5 DEF Grow
<1>14. history' = [history EXCEPT ![L] = u]
  BY <1>2, <1>3, <1>9, <1>11, <1>13
<1>15. /\ history' \in Seq(TurnOf) /\ DOMAIN history' = 1..L /\ history'[L] = u
       /\ \A i \in 1..L : i # L => history'[i] = history[i]
  BY <1>1, <1>2, <1>12, <1>14
<1>16. TurnFits(u)
  <2> SUFFICES ASSUME NEW j \in 1..(M + 1)
               PROVE  (u.parts[j].is = "tool_result" => u.role = "user") /\ (u.parts[j].is \in Uses => u.role = "assistant" /\ u.shape = "parts")
    BY <1>10, <1>12 DEF TurnFits
  <2>1. CASE j = M + 1
    BY <1>4, <1>7, <1>10, <1>12, <2>1
  <2>2. CASE j # M + 1
    <3>1. j \in DOMAIN t.parts /\ u.parts[j] = t.parts[j]
      BY <1>8, <1>10, <1>12, <2>2
    <3> QED
      BY <1>4, <1>12, <3>1 DEF TurnFits
  <2> QED
    BY <2>1, <2>2
<1>17. \A i \in DOMAIN history' : TurnFits(history'[i])
  BY <1>1, <1>15, <1>16 DEF HistoryInv
\* a call answered is in an earlier turn: the turn that grows is a user's, and has no calls
<1>18. ASSUME NEW i \in 1..L, NEW k \in 1..L, NEW l \in DOMAIN history[k].parts, history[k].parts[l].is \in Uses
       PROVE  \E q \in DOMAIN history'[k].parts : history'[k].parts[q].is \in Uses /\ history'[k].parts[q].id = history[k].parts[l].id
  <2>1. CASE k = L
    <3>1. l \in 1..M /\ ps[l] = history[k].parts[l]
      BY <1>3, <1>8, <1>10, <2>1
    <3>2. l \in DOMAIN history'[k].parts /\ history'[k].parts[l] = ps[l]
      BY <1>8, <1>10, <1>12, <1>15, <2>1, <3>1
    <3> QED
      BY <1>18, <3>1, <3>2
  <2>2. CASE k # L
    BY <1>15, <1>18, <2>2
  <2> QED
    BY <2>1, <2>2
<1>19. ASSUME NEW i \in 1..L, NEW j \in DOMAIN history'[i].parts, history'[i].parts[j].is = "tool_result"
       PROVE  \E k \in 1..(i - 1) : \E l \in DOMAIN history'[k].parts :
                history'[k].parts[l].is \in Uses /\ history'[k].parts[l].id = history'[i].parts[j].id
  <2>1. \E k \in 1..(i - 1) : \E l \in DOMAIN history[k].parts :
           history[k].parts[l].is \in Uses /\ history[k].parts[l].id = history'[i].parts[j].id
    <3>1. CASE i = L /\ j = M + 1
      <4>1. history'[i].parts[j] = p
        BY <1>10, <1>12, <1>15, <3>1
      <4>2. t.role = "user"
        BY <1>7, <1>19, <4>1
      <4>3. PICK k \in DOMAIN history : \E l \in DOMAIN history[k].parts : history[k].parts[l].is \in Uses /\ history[k].parts[l].id = p.id
        BY <1>7, <1>19, <4>1
      <4>4. k # L
        BY <1>3, <1>4, <4>2, <4>3 DEF TurnFits
      <4>5. k \in 1..(i - 1)
        BY <1>1, <3>1, <4>4
      <4> QED
        BY <4>1, <4>3, <4>5
    <3>2. CASE ~(i = L /\ j = M + 1)
      <4>1. j \in DOMAIN history[i].parts /\ history'[i].parts[j] = history[i].parts[j]
        <5>1. CASE i = L
          BY <1>3, <1>8, <1>10, <1>12, <1>15, <3>2, <5>1
        <5>2. CASE i # L
          BY <1>15, <5>2
        <5> QED
          BY <5>1, <5>2
      <4>2. i \in DOMAIN history
        BY <1>1
      <4> QED
        BY <1>19, <4>1, <4>2 DEF HistoryInv
    <3> QED
      BY <3>1, <3>2
  <2>2. PICK k, l : k \in 1..(i - 1) /\ l \in DOMAIN history[k].parts /\ history[k].parts[l].is \in Uses /\ history[k].parts[l].id = history'[i].parts[j].id
    BY <2>1
  <2>3. k \in 1..L
    BY <1>1, <2>2
  <2>4. PICK q : q \in DOMAIN history'[k].parts /\ history'[k].parts[q].is \in Uses /\ history'[k].parts[q].id = history[k].parts[l].id
    BY <1>18, <2>2, <2>3
  <2> QED
    BY <2>2, <2>4
<1>20. endpoint' # "responses" /\ endpoint' \in {"messages", "responses"}
  BY <1>4, <1>13
<1> QED
  BY <1>15, <1>17, <1>19, <1>20 DEF HistoryInv

\* The handler translates and compresses.
LEMMA SubmitKept ==
  ASSUME HistoryInv, NEW keep \in KeepLasts, Submit(keep)
  PROVE  ConvertInv'
<1>1. GateHolds(history) /\ UNCHANGED <<endpoint, history>> /\ verdict' = "sent" /\ keep \in Nat
  BY ConvertAssumption DEF Submit
<1>2. /\ before' = IF endpoint = "messages" THEN anthropicMessagesToOpenAI(history) ELSE responsesInputToMessages(history)
      /\ sent' = compressMessages(before', keep)
  BY DEF Submit
<1>3. HistoryInv'
  BY <1>1 DEF HistoryInv
<1>4. PICK ms, out : ms = before' /\ out = sent'
  OBVIOUS
<1>5. ChatFine(ms)
  BY <1>1, <1>2, <1>4, Lined
<1>6. PICK at, mark : Shrunk(ms, out, at, mark)
  <2>1. ms \in Seq(ChatMessage)
    BY <1>5 DEF ChatFine
  <2> QED
    BY <1>1, <1>2, <1>4, <2>1, CompressIs
<1>7. /\ \A i \in Replies(out) : Callers(out, i) # {}
      /\ endpoint = "messages" /\ AnswersAtOnce(history) => \A i \in Replies(out) : Behind(out, i) \in Callers(out, i)
      /\ ms # << >> => Last(out) = Last(ms)
      /\ Cardinality(Replies(out)) = Cardinality(Replies(ms))
      /\ \A i \in DOMAIN out : out[i].content = "marker" => Len(out) - 1 + out[i].calls[1] = Len(ms)
      /\ \A i \in DOMAIN out : out[i].role = "assistant" =>
           \A k \in DOMAIN out[i].calls : out[i].calls[k].strict => out[i].calls[k].args # "coerced"
  BY <1>5, <1>6, ShrunkFine
<1>8. RepliesLineUp'
  BY <1>1, <1>4, <1>7, Zenon DEF RepliesLineUp
<1>9. StrictCallsExact'
  BY <1>4, <1>7, Zenon DEF StrictCallsExact
<1> QED
  BY <1>3, <1>8, <1>9 DEF ConvertInv

\* There is no history at first.
LEMMA ConvertStarts == ConvertInit => ConvertInv
<1> SUFFICES ASSUME ConvertInit PROVE ConvertInv
  OBVIOUS
<1>1. history = << >> /\ endpoint \in {"messages", "responses"} /\ verdict # "sent"
  BY DEF ConvertInit
<1>2. << >> \in Seq(TurnOf) /\ DOMAIN << >> = {}
  OBVIOUS
<1> QED
  BY <1>1, <1>2 DEF ConvertInv, HistoryInv

\* Every step of a conversation keeps what it owes.
LEMMA ConvertStep == ConvertInv /\ [ConvertNext]_convertVars => ConvertInv'
<1> SUFFICES ASSUME ConvertInv, [ConvertNext]_convertVars PROVE ConvertInv'
  OBVIOUS
<1>1. HistoryInv
  BY DEF ConvertInv
<1>2. ASSUME NEW role \in {"assistant", "user", "system"}, NEW shape \in {"string", "parts"}, Turn(role, shape)
      PROVE  ConvertInv'
  <2>1. verdict' # "sent"
    BY <1>2 DEF Turn, Grow
  <2> QED
    BY <1>1, <1>2, <2>1, TurnKept DEF ConvertInv
<1>3. CASE Part
  <2>1. verdict' # "sent"
    BY <1>3 DEF Part, Grow
  <2> QED
    BY <1>1, <1>3, <2>1, PartKept DEF ConvertInv
<1>4. CASE Refused \/ RefusedArguments
  <2>1. verdict' # "sent" /\ UNCHANGED <<endpoint, history>>
    BY <1>4 DEF Refused, RefusedArguments
  <2> QED
    BY <1>1, <2>1 DEF ConvertInv, HistoryInv
<1>5. ASSUME NEW keep \in KeepLasts, Submit(keep) PROVE ConvertInv'
  BY <1>1, <1>5, SubmitKept
<1>6. CASE UNCHANGED convertVars
  <2>1. UNCHANGED <<endpoint, history, sent, before, verdict>>
    BY <1>6 DEF convertVars
  <2>2. HistoryInv'
    BY <1>1, <2>1 DEF HistoryInv
  <2>3. verdict' = "sent" => RepliesLineUp' /\ StrictCallsExact'
    <3>1. (RepliesLineUp' <=> RepliesLineUp) /\ (StrictCallsExact' <=> StrictCallsExact)
      BY <2>1 DEF RepliesLineUp, StrictCallsExact
    <3> QED
      BY <2>1, <3>1 DEF ConvertInv
  <2> QED
    BY <2>2, <2>3 DEF ConvertInv
<1> QED
  BY <1>2, <1>3, <1>4, <1>5, <1>6 DEF ConvertNext

(* On the wire every tool has a name of its own and comes back under the client's,     *)
(* unless the scan of the tools failed; every reply of a tool stands behind its call,  *)
(* none is lost to compression, and a strict call carries the client's own arguments   *)
(* (toolmap_request.go, toolmap_response.go, anthropic.go, responses.go,               *)
(* strict_tools.go, convert.go).                                                       *)
THEOREM RequestsCallsComeBack == RequestsSpec => []CallsComeBack
<1>1. RequestsInit => NamesInv /\ ConvertInv
  BY NamesStart, ConvertStarts DEF RequestsInit
<1>2. NamesInv /\ ConvertInv /\ [RequestsNext]_requestsVars => (NamesInv /\ ConvertInv)'
  BY RequestsMoves, NamesStep, ConvertStep
<1>3. NamesInv /\ ConvertInv => CallsComeBack
  <2>1. ConvertInv => RepliesLineUp /\ StrictCallsExact
    BY DEF ConvertInv, RepliesLineUp, StrictCallsExact
  <2> QED
    BY <2>1, NamesReturn DEF CallsComeBack
<1> QED
  BY <1>1, <1>2, <1>3, PTL DEF RequestsSpec

=============================================================================
