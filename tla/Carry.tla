------------------------------- MODULE Carry -------------------------------
(***************************************************************************)
(* What a boot carries over from earlier installations into the dashboard  *)
(* database (persist_carry.go, history.go, sessions.go, cli_serve.go): the *)
(* operator's tables of every older database file, then the environment    *)
(* settings, then the session files, then the display history.  Every copy *)
(* is one autocommitted statement: the process can die, the file can be    *)
(* busy and the source can be unreadable between any two of them, and the  *)
(* next boot walks the same sources again.  A row is represented by where  *)
(* it came from.                                                           *)
(***************************************************************************)
EXTENDS Integers, Sequences, FiniteSets, SequencesExt, Positions

CONSTANTS
  OldFiles,        \* older database files, in the order of LegacyHistoryCandidates
  SessionFiles,    \* session files, the configured one first
  PersistTables,   \* the sequence persistCarryTables, "settings" first
  HistoryTables,   \* the sequence historyCarryTables
  Hashes,          \* token hashes
  Layouts,         \* what an installation may find on its disk (AllLayouts, or a part)
  MaxBoots,        \* bound: boots
  MaxBusy          \* bound: busyRetryAttempts

NoOne == "none"

ASSUME CarryAssumption ==
  /\ OldFiles \in Seq(ToSet(OldFiles)) /\ IsInjective(OldFiles)
  /\ SessionFiles \in Seq(ToSet(SessionFiles)) \ {<<>>} /\ IsInjective(SessionFiles)
  /\ PersistTables \in Seq(ToSet(PersistTables)) /\ HistoryTables \in Seq(ToSet(HistoryTables))
  /\ ToSet(OldFiles) \cap {"env", "live", NoOne} = {}     \* names of no file
  /\ NoOne \notin ToSet(SessionFiles) \cup Hashes
  /\ ToSet(PersistTables) \cap ToSet(HistoryTables) = {}
  /\ {"settings", "sessions_persist"} \subseteq ToSet(PersistTables)
  /\ MaxBoots \in Nat /\ MaxBusy \in Nat

VARIABLES
  main,            \* the open database: where the rows of each table came from
  rows,            \* its sessions_persist table: where the row of each hash came from
  marker,          \* its settings hold config:migrated_env_v1
  legacy,          \* the older files: the tables they hold rows of, and their marker
  json, bak,       \* the session files and their archives
  pinned,          \* session files that cannot be renamed (bind mounts)
  boot,            \* where the boot is
  failed,          \* older files this boot could not read to the end
  held, ended,     \* hashes the session files held; sessions that ended since
  boots

store == <<main, rows, marker>>
oldFiles == <<json, bak>>
past == <<legacy, pinned, held>>
carryVars == <<main, rows, marker, legacy, json, bak, pinned, boot, failed, held, ended, boots>>

Gone == {NoOne}
Old == ToSet(OldFiles)
Plain == (ToSet(PersistTables) \cup ToSet(HistoryTables)) \ {"sessions_persist"}

Still == [step |-> "down", files |-> <<>>, tables |-> <<>>, left |-> {}, tries |-> 0]

(* An older file of each generation: none, display history only, all; a    *)
(* session file that is there or not, its archive, and a mount over it.    *)
AllLayouts ==
  [legacy : [Old -> {[holds |-> ts, marker |-> FALSE] : ts \in {{}, ToSet(HistoryTables)}}
                      \cup [holds : {ToSet(PersistTables) \cup ToSet(HistoryTables)}, marker : BOOLEAN]],
   json : [ToSet(SessionFiles) -> {Gone} \cup (SUBSET Hashes \ {{}})],
   bak : [ToSet(SessionFiles) -> {Gone, Hashes}],
   pinned : SUBSET {Head(SessionFiles)}]

ASSUME LayoutsAssumption == Layouts \subseteq AllLayouts

CarryInit ==
  /\ main = [t \in Plain |-> {}]
  /\ rows = [h \in Hashes |-> NoOne]
  /\ marker = FALSE
  /\ \E l \in Layouts :
       /\ legacy = l.legacy
       /\ json = l.json
       /\ bak = l.bak
       /\ pinned = l.pinned
  /\ boot = Still
  /\ failed = {}
  /\ held = (UNION Range(json)) \ Gone
  /\ ended = {}
  /\ boots = 0

Bare(t) ==
  IF t = "sessions_persist" THEN Range(rows) = {NoOne} ELSE main[t] = {}

Enter(step, files) ==
  boot' = [Still EXCEPT !.step = step, !.files = files]

NextFile == boot' = [boot EXCEPT !.files = Tail(@), !.tables = <<>>, !.left = {}, !.tries = 0]

Fails == failed' = failed \cup {Head(boot.files)} /\ NextFile

At(step) == boot.step = step /\ boot.files # <<>>
Walked(step) == boot.step = step /\ boot.files = <<>>

-----------------------------------------------------------------------------
(* The operator's tables and the display history.                          *)

(* INSERT ... SELECT of one table of the attached file. *)
Copy(f, t) ==
  IF t = "sessions_persist"
  THEN /\ rows' = [h \in Hashes |-> IF rows[h] = NoOne THEN f ELSE rows[h]]
       /\ UNCHANGED <<main, marker>>
  ELSE /\ main' = [main EXCEPT ![t] = @ \cup {f}]
       /\ marker' = (marker \/ (t = "settings" /\ legacy[f].marker))
       /\ UNCHANGED rows

(* The history gated like the state: each table by itself. *)
WantedEach(f, step) ==
  LET tables == IF step = "state" THEN PersistTables ELSE HistoryTables
  IN  KeptAmong(tables, {t \in legacy[f].holds \cap ToSet(tables) : Bare(t)})

(* The tables of a file that a walk still has to copy: for the operator's  *)
(* state each empty table by itself, for the history all or none.          *)
Wanted(f, step) ==
  IF step = "state"
  THEN KeptAmong(PersistTables, {t \in legacy[f].holds \cap ToSet(PersistTables) : Bare(t)})
  ELSE IF \A t \in ToSet(HistoryTables) : Bare(t)
       THEN KeptAmong(HistoryTables, legacy[f].holds)
       ELSE <<>>

(* The gate and the attachment, directly or of a staged copy.              *)
Attach(step) ==
  /\ At(step) /\ boot.tables = <<>>
  /\ LET want == Wanted(Head(boot.files), step)
     IN  \/ /\ want = <<>>
            /\ NextFile
            /\ UNCHANGED failed
         \/ /\ want # <<>>
            /\ boot' = [boot EXCEPT !.tables = want]
            /\ UNCHANGED failed
         \/ want # <<>> /\ Fails
  /\ UNCHANGED <<store, oldFiles, past, ended, boots>>

(* One table; after the last one the file is detached.  An unreadable      *)
(* table drops the rest of the file, and keeps what was copied.            *)
CopyTable(step) ==
  /\ At(step) /\ boot.tables # <<>>
  /\ \/ /\ Copy(Head(boot.files), Head(boot.tables))
        /\ IF Len(boot.tables) = 1
           THEN NextFile
           ELSE boot' = [boot EXCEPT !.tables = Tail(@)]
        /\ UNCHANGED failed
     \/ Fails /\ UNCHANGED store
  /\ UNCHANGED <<oldFiles, past, ended, boots>>

(* SQLITE_BUSY: withWrite runs the whole callback again, gate included.    *)
CopyBusy(step) ==
  /\ At(step) /\ boot.tables # <<>>
  /\ boot.tries < MaxBusy
  /\ boot' = [boot EXCEPT !.tables = <<>>, !.tries = @ + 1]
  /\ UNCHANGED <<store, oldFiles, past, failed, ended, boots>>

-----------------------------------------------------------------------------
(* The session files.                                                      *)

Present == KeptAmong(SessionFiles, {j \in DOMAIN json : json[j] # Gone})

(* Read and parsed; a file that cannot be is left where it is.             *)
ReadSessions ==
  /\ At("json") /\ boot.left = {} /\ boot.tries = 0
  /\ \/ boot' = [boot EXCEPT !.left = json[Head(boot.files)], !.tries = 1]
     \/ NextFile
  /\ UNCHANGED <<store, oldFiles, past, failed, ended, boots>>

(* The archive is made whatever became of the rows. *)
ImportSessionOrNot ==
  /\ boot.step \in {"json", "bak"} /\ boot.left # {}
  /\ \E h \in boot.left :
       /\ \/ rows' = [rows EXCEPT ![h] = Head(boot.files)]
          \/ UNCHANGED rows
       /\ boot' = [boot EXCEPT !.left = @ \ {h}]
  /\ UNCHANGED <<main, marker, oldFiles, past, failed, ended, boots>>

(* One row, or an error that ends the import of the file.                  *)
ImportSession ==
  /\ boot.step \in {"json", "bak"} /\ boot.left # {}
  /\ \/ \E h \in boot.left :
          /\ rows' = [rows EXCEPT ![h] = Head(boot.files)]
          /\ boot' = [boot EXCEPT !.left = @ \ {h}]
     \/ NextFile /\ UNCHANGED rows
  /\ UNCHANGED <<main, marker, oldFiles, past, failed, ended, boots>>

(* The source becomes the archive, unless it cannot be renamed.            *)
Archive ==
  /\ At("json") /\ boot.left = {} /\ boot.tries = 1
  /\ LET j == Head(boot.files)
     IN  IF j \in pinned
         THEN UNCHANGED oldFiles
         ELSE /\ bak' = [bak EXCEPT ![j] = json[j]]
              /\ json' = [json EXCEPT ![j] = Gone]
  /\ NextFile
  /\ UNCHANGED <<store, past, failed, ended, boots>>

(* An empty table and no session file: the archive is the only copy left.  *)
Reconsult ==
  LET j == Head(SessionFiles)
  IN  /\ Walked("json")
      /\ IF Bare("sessions_persist") /\ json[j] = Gone /\ bak[j] # Gone
         THEN boot' = [Still EXCEPT !.step = "bak", !.files = <<j>>, !.left = bak[j]]
         ELSE Enter("history", OldFiles)
      /\ UNCHANGED <<store, oldFiles, past, failed, ended, boots>>

Reconsulted ==
  /\ boot.step = "bak" /\ boot.left = {}
  /\ Enter("history", OldFiles)
  /\ UNCHANGED <<store, oldFiles, past, failed, ended, boots>>

-----------------------------------------------------------------------------
(* The boot around them.                                                   *)

Start ==
  /\ boot.step = "down"
  /\ boots < MaxBoots
  /\ boots' = boots + 1
  /\ failed' = {}
  /\ Enter("state", OldFiles)
  /\ UNCHANGED <<store, oldFiles, past, ended>>

(* migrateEnvToDB: without the marker, one row for every catalogued key,   *)
(* and the marker after the last of them.                                  *)
ImportEnv ==
  /\ Walked("state")
  /\ IF marker
     THEN Enter("json", Present) /\ UNCHANGED main
     ELSE \/ main' = [main EXCEPT !["settings"] = @ \cup {"env"}] /\ Enter("marker", <<>>)
          \/ Enter("json", Present) /\ UNCHANGED main
  /\ UNCHANGED <<rows, marker, oldFiles, past, failed, ended, boots>>

SetMarker ==
  /\ boot.step = "marker"
  /\ marker' = TRUE
  /\ Enter("json", Present)
  /\ UNCHANGED <<main, rows, oldFiles, past, failed, ended, boots>>

Serving ==
  /\ Walked("history")
  /\ Enter("up", <<>>)
  /\ UNCHANGED <<store, oldFiles, past, failed, ended, boots>>

(* What the running program writes.                                        *)
Live ==
  /\ boot.step = "up"
  /\ \/ \E t \in Plain : main' = [main EXCEPT ![t] = @ \cup {"live"}] /\ UNCHANGED <<rows, ended>>
     \/ \E h \in Hashes : rows' = [rows EXCEPT ![h] = "live"] /\ UNCHANGED <<main, ended>>
     \/ \E h \in Hashes :
          /\ rows[h] # NoOne
          /\ rows' = [rows EXCEPT ![h] = NoOne]
          /\ ended' = ended \cup {h}
          /\ UNCHANGED main
  /\ UNCHANGED <<marker, oldFiles, past, boot, failed, boots>>

(* The process ends: killed anywhere, or stopped.                          *)
Die ==
  /\ boot.step # "down"
  /\ boot' = Still
  /\ UNCHANGED <<store, oldFiles, past, failed, ended, boots>>

CarryNext ==
  \/ Start
  \/ \E step \in {"state", "history"} : Attach(step) \/ CopyTable(step) \/ CopyBusy(step)
  \/ ImportEnv \/ SetMarker
  \/ ReadSessions \/ ImportSession \/ Archive \/ Reconsult \/ Reconsulted
  \/ Serving \/ Live \/ Die

CarrySpec == CarryInit /\ [][CarryNext]_carryVars

-----------------------------------------------------------------------------

(* Two eras never meet.  The history comes from one file, over all its     *)
(* tables and all boots (their row numbers would collide); an operator's   *)
(* table comes from one file; and settings carried with their marker are   *)
(* not written over by the environment, in whatever boot they arrived.     *)
ErasNeverMeet ==
  /\ Cardinality((UNION {main[t] : t \in ToSet(HistoryTables)}) \cap Old) <= 1
  /\ \A t \in Plain : Cardinality(main[t] \cap Old) <= 1
  /\ \A f \in main["settings"] \cap Old : legacy[f].marker => "env" \notin main["settings"]

(* Before the environment is imported, a table is empty only when every    *)
(* file that has rows for it failed in this boot; and no session a file    *)
(* held is lost by dying, failing or archiving: it is in the table or      *)
(* still in a file that the next boot reads, until it ends.                *)
NothingStranded ==
  /\ Walked("state") =>
       \A t \in ToSet(PersistTables) : Bare(t) => \A f \in Old : t \in legacy[f].holds => f \in failed
  /\ \A h \in held \ ended : rows[h] # NoOne \/ \E j \in DOMAIN json : h \in json[j]

(* What withWrite promises of its callbacks: a run that failed leaves      *)
(* nothing half-applied, so that running it again is safe.                 *)
NothingHalfApplied ==
  boot.step = "history" /\ boot.tries > 0 /\ boot.tables = <<>> =>
    \A t \in ToSet(HistoryTables) : Head(boot.files) \notin main[t]

(* What the boot logs of a session import that failed: the database stays  *)
(* authoritative.                                                          *)
DatabaseAuthoritative ==
  [][\A h \in Hashes : rows[h] = "live" => rows'[h] \in {"live", NoOne}]_carryVars

=============================================================================
