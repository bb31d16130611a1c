----------------------------- MODULE Refusals -----------------------------
(***************************************************************************)
(* What a refusal of the upstream service means to the proxy: the class of *)
(* an answer (classifyError of upstream/classify.go), what the attempt     *)
(* that received it does to the session, the run and the account           *)
(* (chatAttempt of server/engine_attempt.go), and what the client is told  *)
(* (writeError of server/errors.go).  A body is the set of wire codes and  *)
(* phrases that occur in it.                                               *)
(***************************************************************************)
EXTENDS Naturals, Sequences

\* The value of the first arm whose condition holds; the last one is a default.
FirstArm(arms) ==
  arms[CHOOSE i \in DOMAIN arms : arms[i][1] /\ \A j \in 1..(i - 1) : ~arms[j][1]][2]

\* A code may contain another one, and is then found by a search for it.
Within ==
  [code \in {"free_mode_legacy_luna_agent", "rate_limited", "spend_limited", "free_mode_rate_limited"} |->
     CASE code = "free_mode_legacy_luna_agent" -> {"free_mode_legacy_luna"}
       [] code = "free_mode_rate_limited"      -> {"rate_limited", "limited"}
       [] OTHER                                -> {"limited"}]

Mentions(body) == body \cup UNION {Within[c] : c \in body \cap DOMAIN Within}

SessionEnding == {"freebuff_update_required", "session_expired", "session_model_mismatch",
                  "model_locked", "free_mode_legacy_luna_agent", "free_mode_legacy_luna"}

\* The rules of the service's answers.
Rules(status, body) ==
  LET has(c) == c \in Mentions(body)
      any(S) == S \cap Mentions(body) # {}
  IN <<
       <<status = 403 /\ any({"banned", "account_suspended"}),            "Ban">>,
       <<has("deployment_outside_hours"),                                "UpstreamRetryable">>,
       <<has("free_mode_run_fanout"),                                    "RateLimit">>,
       <<has("free_mode_capacity_deferred"),                             "CapacityDeferred">>,
       <<has("turn_spend_limit"),                                        "TurnSpendLimit">>,
       <<status \in {401, 402} /\ has("out of credits"),                 "ProviderUsage">>,
       <<status = 401,                                                   "AuthRejected">>,
       <<status = 503,                                                   "WaitingRoom">>,
       <<status = 402,                                                   "Credits">>,
       <<status = 404 /\ has("no endpoints"),                            "NoEndpoints">>,
       <<status = 409 /\ has("session_limit_reached"),                   "SessionLimit">>,
       <<status = 409 /\ has("consent_required"),                        "ConsentRequired">>,
       <<status = 409 /\ has("first_tab_discount_changed"),              "FirstTabChanged">>,
       <<status = 403 /\ has("free_mode_cli_required"),                  "CLIRequired">>,
       <<status = 403 /\ has("free_mode_unavailable"),                   "FreeModeUnavailable">>,
       <<status = 403 /\ has("free_mode_invalid_agent_hierarchy"),       "InvalidAgentHierarchy">>,
       <<status = 403 /\ has("free_mode_cost_mode_required"),            "CostModeRequired">>,
       <<status = 403 /\ has("country_blocked"),                         "CountryBlocked">>,
       <<has("ip_capped"),                                               "IpCapped">>,
       <<has("waiting_room_queued"),                                     "WaitingRoom">>,
       <<has("waiting_room_required"),                                   "WaitingRoomRequired">>,
       <<has("session_model_mismatch") /\ has("limited"),                "LimitedIp">>,
       <<has("free_mode_invalid_agent_model"),                           "RateLimit">>,
       <<has("session_superseded"),                                      "SessionSuperseded">>,
       <<any(SessionEnding),                                             "SessionInvalid">>,
       <<status = 400 /\ any({"runid not found", "runid not running"}),  "RunInvalid">>,
       <<status = 429 \/ any({"rate_limited", "spend_limited"}),         "RateLimit">>,
       <<TRUE,                                                           "Upstream">> >>

\* The class of an answer: the first rule that fits.
classifyError(status, body) == FirstArm(Rules(status, body))

\* What errors.Is and errors.As find in an error: a deferral unwraps to an
\* upstream error that may be retried.
Kin(class) ==
  CASE class = "CapacityDeferred"  -> {"CapacityDeferred", "UpstreamRetryable", "Upstream"}
    [] class = "UpstreamRetryable" -> {"UpstreamRetryable", "Upstream"}
    [] OTHER                       -> {class}

\* The queues that a chat waits out on its own session.
isWaitingRoom(class) == "WaitingRoom" \in Kin(class)
isCapacityDeferred(class) == "CapacityDeferred" \in Kin(class)

\* A room that must be entered ends the seat as well: here it is only surfaced.
ReactionKeepsSeat(class) ==
  LET is(c) == c \in Kin(class)
  IN FirstArm(<<
       <<is("LimitedIp"),                                    "unfit">>,
       <<is("SessionInvalid"),                               "session">>,
       <<is("SessionSuperseded"),                            "superseded">>,
       <<is("RunInvalid"),                                   "run">>,
       <<is("Ban"),                                          "ban">>,
       <<TRUE,                                               "none">> >>)

\* What an attempt does about the refusal, besides giving back its lease.
Reaction(class) ==
  LET is(c) == c \in Kin(class)
  IN FirstArm(<<
       <<is("LimitedIp"),                                    "unfit">>,
       <<is("SessionInvalid") \/ is("WaitingRoomRequired"),  "session">>,
       <<is("WaitingRoom") \/ is("SessionLimit"),            "none">>,
       <<is("SessionSuperseded"),                            "superseded">>,
       <<is("RunInvalid"),                                   "run">>,
       <<is("Ban"),                                          "ban">>,
       <<TRUE,                                               "none">> >>)

\* Status, code, and the wait the client is told: the service's own, at least a
\* default, or none at all.
writeError(class) ==
  LET is(c) == c \in Kin(class)
      says(status, code, wait) == [status |-> status, code |-> code, wait |-> wait]
  IN FirstArm(<<
       <<is("Ban"),                   says(403, "account_banned", "resumes_at")>>,
       <<is("TurnSpendLimit"),        says(429, "turn_spend_limited", "none")>>,
       <<is("RateLimit"),             says(429, "rate_limited", "given")>>,
       <<is("IpCapped"),              says(429, "ip_capped", "given")>>,
       <<is("SessionLimit"),          says(409, "session_limit_reached", "none")>>,
       <<is("LimitedIp"),             says(409, "model_ip_limited", "given")>>,
       <<is("WaitingRoom"),           says(503, "waiting_room_queued", "default")>>,
       <<is("WaitingRoomRequired"),   says(503, "waiting_room_required", "given")>>,
       <<is("SessionSuperseded"),     says(503, "session_superseded", "default")>>,
       <<is("CapacityDeferred"),      says(429, "free_mode_capacity_deferred", "default")>>,
       <<is("SessionInvalid"),        says(502, "session_invalid", "default")>>,
       <<is("NoEndpoints"),           says(502, "model_no_endpoints", "none")>>,
       <<is("UpstreamRetryable"),     says(503, "upstream_retryable", "given")>>,
       <<is("Upstream"),              says(502, "upstream_unavailable", "given")>>,
       <<is("AuthRejected"),          says(502, "upstream_auth_rejected", "none")>>,
       <<is("CountryBlocked"),        says(403, "country_blocked", "none")>>,
       <<is("CLIRequired"),           says(403, "free_mode_cli_required", "none")>>,
       <<is("InvalidAgentHierarchy"), says(403, "free_mode_invalid_agent_hierarchy", "none")>>,
       <<is("CostModeRequired"),      says(403, "free_mode_cost_mode_required", "none")>>,
       <<is("FreeModeUnavailable"),   says(403, "free_mode_unavailable", "none")>>,
       <<is("ProviderUsage"),         says(402, "provider_usage_exhausted", "none")>>,
       <<is("ConsentRequired"),       says(409, "consent_required", "none")>>,
       <<is("FirstTabChanged"),       says(409, "first_tab_discount_changed", "none")>>,
       <<is("Credits"),               says(402, "out_of_credits", "none")>>,
       <<is("Timeout"),               says(504, "upstream_timeout", "none")>>,
       <<TRUE,                        says(502, "upstream_unavailable", "none")>> >>)
===========================================================================
