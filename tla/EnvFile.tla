------------------------------ MODULE EnvFile ------------------------------
(***************************************************************************)
(* The .env file that holds the proxy's credentials, and how it is         *)
(* replaced (config/envfile.go, server/admin_env.go): read, edited by      *)
(* keys, written to a temporary file and renamed over the original.  The   *)
(* rename can fail while something holds the file open; the original is    *)
(* then moved aside to .bak, moved back when that does not help, and tried *)
(* again.  The process can die between any two of these steps.             *)
(***************************************************************************)
EXTENDS Integers, FiniteSets

CONSTANTS
  EnvKeys, EnvValues,
  RenameAttempts,      \* renameAttempts
  MaxWrites, MaxDeaths \* bounds

ASSUME EnvFileAssumption ==
  /\ RenameAttempts \in Nat \ {0}
  /\ MaxWrites \in Nat /\ MaxDeaths \in Nat

VARIABLES
  env, aside,          \* the file and its .bak: there or not, and its lines
  write,               \* the write under way, or the last one
  writes, deaths

envVars == <<env, aside, write, writes, deaths>>

Missing == [there |-> FALSE, lines |-> {}]
FileWith(lines) == [there |-> TRUE, lines |-> lines]

KeysOf(lines) == {l[1] : l \in lines}

(* The line of a key is replaced where it stands, or appended.             *)
ApplyEnvUpdates(lines, updates) ==
  {l \in lines : l[1] \notin KeysOf(updates)} \cup updates

EnvFileInit ==
  /\ env \in {Missing} \cup {FileWith({<<k, v>>}) : k \in EnvKeys, v \in EnvValues}
  /\ aside = Missing
  /\ write = [at |-> "idle", tries |-> 0, before |-> env, after |-> env, ok |-> TRUE, undo |-> FALSE]
  /\ writes = 0 /\ deaths = 0

Goes(step) == write' = [write EXCEPT !.at = step]

(* updateEnvKeys: a file that is not there reads as an empty one.          *)
updateEnvKeys ==
  /\ write.at = "idle" /\ writes < MaxWrites
  /\ writes' = writes + 1
  /\ \E k \in EnvKeys, v \in EnvValues :
       write' = [at |-> "rename", tries |-> 0, before |-> env,
                 after |-> FileWith(ApplyEnvUpdates(env.lines, {<<k, v>>})), ok |-> FALSE, undo |-> FALSE]
  /\ UNCHANGED <<env, aside, deaths>>

(* What was written cannot be loaded: the old content is put back, or the  *)
(* file removed when there was none.                                       *)
restoreEnvFile ==
  /\ write.at = "idle" /\ write.ok /\ ~write.undo /\ writes > 0
  /\ IF write.before.there
     THEN /\ write' = [at |-> "rename", tries |-> 0, before |-> env, after |-> write.before,
                       ok |-> FALSE, undo |-> TRUE]
          /\ UNCHANGED env
     ELSE /\ env' = Missing
          /\ write' = [write EXCEPT !.undo = TRUE, !.before = Missing, !.after = Missing]
  /\ UNCHANGED <<aside, writes, deaths>>

Rename ==
  /\ write.at = "rename"
  /\ \/ env' = write.after /\ Goes("clean")
     \/ UNCHANGED env /\ Goes(IF env.there THEN "aside" ELSE "restore")
  /\ UNCHANGED <<aside, writes, deaths>>

(* The original makes room by being deleted. *)
DeleteInstead ==
  /\ write.at = "aside"
  /\ \/ env' = Missing /\ Goes("again")
     \/ UNCHANGED env /\ Goes("restore")
  /\ UNCHANGED <<aside, writes, deaths>>

MoveAside ==
  /\ write.at = "aside"
  /\ \/ aside' = env /\ env' = Missing /\ Goes("again")
     \/ UNCHANGED <<env, aside>> /\ Goes("restore")
  /\ UNCHANGED <<writes, deaths>>

RenameAgain ==
  /\ write.at = "again"
  /\ \/ env' = write.after /\ Goes("clean")
     \/ UNCHANGED env /\ Goes("restore")
  /\ UNCHANGED <<aside, writes, deaths>>

(* The file is back before the next attempt, if it can be; after the last  *)
(* attempt the write has failed.                                           *)
Restore ==
  /\ write.at = "restore"
  /\ \/ /\ ~env.there /\ aside.there
        /\ env' = aside /\ aside' = Missing
     \/ UNCHANGED <<env, aside>>
  /\ write' = [write EXCEPT !.tries = @ + 1,
                            !.at = IF write.tries + 1 < RenameAttempts THEN "rename" ELSE "idle"]
  /\ UNCHANGED <<writes, deaths>>

(* Success: a .bak that is there is dropped, if it can be.                 *)
Clean ==
  /\ write.at = "clean"
  /\ aside' \in {Missing, aside}
  /\ write' = [write EXCEPT !.at = "idle", !.ok = TRUE]
  /\ UNCHANGED <<env, writes, deaths>>

Died ==
  /\ write.at # "idle" /\ deaths < MaxDeaths
  /\ deaths' = deaths + 1
  /\ write' = [write EXCEPT !.at = "idle", !.ok = FALSE]
  /\ UNCHANGED <<env, aside, writes>>

EnvFileNext ==
  \/ updateEnvKeys \/ restoreEnvFile
  \/ Rename \/ MoveAside \/ RenameAgain \/ Restore \/ Clean \/ Died

EnvFileSpec == EnvFileInit /\ [][EnvFileNext]_envVars

-----------------------------------------------------------------------------

(* Whatever fails or dies within a write, what the file held before it is  *)
(* in the file or beside it until the new content is in the file; a write  *)
(* reported done has put it there; one reported failed has not.            *)
OneCopySurvives ==
  /\ write.before.there =>
       env \in {write.before, write.after} \/ (~env.there /\ aside = write.before)
  /\ write.at = "idle" /\ write.ok => env = write.after

(* What the comment of WriteFileAtomic promises beyond the one write: the  *)
(* old content cannot be lost, at worst it sits in .bak and is restored on *)
(* the next attempt.  Updates set keys and never remove one.               *)
ContentNeverLost ==
  [][write.at # "idle" /\ ~write.undo =>
       KeysOf(env.lines) \cup KeysOf(aside.lines) \subseteq KeysOf(env'.lines) \cup KeysOf(aside'.lines)]_envVars

=============================================================================
