------------------------------- MODULE MCDesk -------------------------------
(* The administrator's desk and what it finds and leaves on disk: the saves of *)
(* the dashboard, logins, the caches, the migration of the database, what is   *)
(* carried over from older files, the .env file and the update of the binary.  *)
(* A behaviour is of one of them, the others rest.                             *)
EXTENDS Admin, Login, Caches, Migrate, Carry, EnvFile, Update, TLC

CONSTANTS A, B, x, y, n1, n2

VARIABLE focus

deskVars == <<adminVars, loginVars, cachesVars, migrateVars, carryVars, envVars, updateVars, focus>>

\* A seeded roster, with or without the two databases, and a process environment
\* that may pin another one.
Lines(token) == [NoLines EXCEPT !["AUTH_TOKENS"] = <<token>>]
DeploymentsDef ==
  {[settings |-> s, database |-> d, pins |-> p, seed |-> Lines(A)] : s, d \in BOOLEAN, p \in {NoLines, Lines(B)}}

Call(i, a) == [id |-> i, args |-> a]
TurnsDef ==
  {[content |-> "t", calls |-> <<Call("1", "a")>>],
   [content |-> "t", calls |-> <<Call("1", "b"), Call("2", "a")>>],
   [content |-> NoContent, calls |-> <<Call("1", "b")>>],
   [content |-> "t", calls |-> << >>]}
NoLimit == [rate |-> 0, burst |-> 0]
RatesDef == {[rate |-> 2, burst |-> 2], [rate |-> 5, burst |-> 1], NoLimit}

OldFilesDef      == <<"near", "docker">>
SessionFilesDef  == <<"configured", "mounted">>
PersistTablesDef == <<"settings", "sessions_persist">>
HistoryTablesDef == <<"log_entries", "request_records">>

\* Older databases without session files, or one marked database beside session
\* files of which one at most cannot be moved.
Nothing == [holds |-> {}, marker |-> FALSE]
LayoutsDef ==
  {l \in AllLayouts :
     \/ Range(l.json) = {Gone} /\ Range(l.bak) = {Gone} /\ l.pinned = {}
     \/ /\ l.legacy["near"] = Nothing
        /\ l.legacy["docker"] = Nothing \/ l.legacy["docker"].marker
        /\ l.bak["mounted"] = Gone
        /\ l.json["mounted"] # Gone => l.pinned = {}}

DeskInit ==
  /\ focus \in {"admin", "throttle", "flow", "reasoning", "schemas", "limiter", "migrate", "carry", "env", "update"}
  /\ AdminInit /\ LoginInit /\ CachesInit
  /\ MigrateInit /\ CarryInit /\ EnvFileInit /\ UpdateInit
  /\ focus # "admin" => deployment = [settings |-> TRUE, database |-> TRUE, pins |-> NoLines, seed |-> Lines(A)]
  /\ focus # "limiter" => limit = NoLimit
  /\ focus # "migrate" => schema = NewFile
  /\ focus # "carry" => Range(json) = {Gone} /\ Range(bak) = {Gone} /\ Range(legacy) = {Nothing} /\ pinned = {}
  /\ focus # "env" => env = Missing
  /\ focus # "update" => ~windows

Saves == AdminNext /\ UNCHANGED <<loginVars, cachesVars, migrateVars, carryVars, envVars, updateVars>>
Logins ==
  /\ \/ focus = "throttle" /\ ThrottleNext
     \/ focus = "flow" /\ FlowNext
  /\ UNCHANGED <<adminVars, cachesVars, migrateVars, carryVars, envVars, updateVars>>
Lookups ==
  /\ \/ focus = "reasoning" /\ ReasoningNext
     \/ focus = "schemas" /\ SchemaNext
     \/ focus = "limiter" /\ LimiterNext
  /\ UNCHANGED <<adminVars, loginVars, migrateVars, carryVars, envVars, updateVars>>
Migrates == MigrateNext /\ UNCHANGED <<adminVars, loginVars, cachesVars, carryVars, envVars, updateVars>>
Carries == CarryNext /\ UNCHANGED <<adminVars, loginVars, cachesVars, migrateVars, envVars, updateVars>>
Writes == EnvFileNext /\ UNCHANGED <<adminVars, loginVars, cachesVars, migrateVars, carryVars, updateVars>>
Updates == UpdateNext /\ UNCHANGED <<adminVars, loginVars, cachesVars, migrateVars, carryVars, envVars>>

DeskNext ==
  /\ UNCHANGED focus
  /\ \/ focus = "admin" /\ Saves
     \/ Logins
     \/ Lookups
     \/ focus = "migrate" /\ Migrates
     \/ focus = "carry" /\ Carries
     \/ focus = "env" /\ Writes
     \/ focus = "update" /\ Updates

DeskSpec == DeskInit /\ [][DeskNext]_deskVars

-----------------------------------------------------------------------------
\* Nobody gets past the lockouts, and a login ends in one account.
LoginGuarded == LockoutHolds /\ OneAddPerFlow

\* What a cache gives back was put there for it, the indexes of the caches name
\* what they hold, and the rate granted and announced is the configured one.
CachesHonest == RestoredOwn /\ ReasoningIndexed /\ SchemaIndexed /\ RateHonest

\* Whatever dies while the files on disk are migrated, carried over, rewritten or
\* replaced: no state of an older installation is lost or mixed with another's,
\* an open database has the latest schema, and the .env file and the executable
\* exist somewhere.
DiskKept == OpenedIsLatest /\ ErasNeverMeet /\ NothingStranded /\ OneCopySurvives /\ BinaryKept
=============================================================================
