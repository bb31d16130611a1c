------------------------------- MODULE Admin -------------------------------
(***************************************************************************)
(* The administrator's writes and the layers they have to keep in step:    *)
(* the .env file, the settings rows of the dashboard store (which beat the *)
(* file at load), the process environment (which beats both), the token    *)
(* database (which beats all three for AUTH_TOKENS, at boot only), the     *)
(* configuration in force and the roster of accounts being served.         *)
(*                                                                         *)
(* A handler takes adminSaveMu, changes the roster, writes the disk, loads *)
(* the configuration back, verifies that it is what was asked for, and     *)
(* rolls back otherwise.  A write may fail and the process may die between *)
(* two writes.  Two callers do not keep to the lock: the mode switch reads *)
(* the configuration before it takes it, and the login wizard adds its     *)
(* token without it.                                                       *)
(***************************************************************************)
EXTENDS Naturals, Sequences, FiniteSets, SequencesExt, Positions

CONSTANTS Tokens,        \* account tokens
          Passwords,      \* passwords an administrator may choose
          Factory,        \* the factory default of ADMIN_TOKEN
          Absent,         \* no line, no row, no variable; also: nobody
          MaxEntries,     \* roster entries ever built
          MaxSaves,       \* administrator's operations in a behaviour
          MaxFaults,      \* failing writes and crashes in a behaviour
          Deployments     \* [settings, database : BOOLEAN, pins : a process environment,
                          \*  seed : the .env of the first boot]

Keys == {"AUTH_TOKENS", "BRIDGE_ENABLED", "ADMIN_TOKEN", "DASHBOARD_REQUIRE_LOGIN"}
NoLines == [k \in Keys |-> Absent]
Default == [k \in Keys |-> CASE k = "AUTH_TOKENS" -> << >> [] k = "ADMIN_TOKEN" -> Factory [] OTHER -> TRUE]

ASSUME AdminAssumption ==
  /\ Absent \notin Seq(Tokens)
  /\ \A d \in Deployments :
       /\ d.seed = [k \in Keys |-> d.seed[k]] /\ d.pins = [k \in Keys |-> d.pins[k]]
       /\ \A list \in {d.seed["AUTH_TOKENS"], d.pins["AUTH_TOKENS"]} : list = Absent \/ list \in Seq(Tokens)

VARIABLES
  deployment,   \* which stores this process was started with
  envFile,      \* the .env file: a value or Absent for each key
  settings,     \* the settings rows of the keys, and whether the import has run
  tokenDB,      \* the token database, in insertion order
  live,         \* FALSE from a crash to the next boot
  cfg,          \* the configuration in force
  roster,       \* the pool's entries, by position
  entry,        \* what became of every entry built: token, leased, retired, drained
  save,         \* the handler that holds adminSaveMu and what it has left to do
  stale,        \* a mode switch that has read the configuration and waits for the lock
  wizard,       \* a login wizard's completion, outside the lock
  saves, faults, \* how many so far
  torn,         \* a SetSetting has failed half way through a save
  raced         \* the wizard's completion overlapped another write

adminVars == <<deployment, envFile, settings, tokenDB, live, cfg, roster, entry, save, stale, wizard, saves, faults, torn, raced>>
disk == <<envFile, settings, tokenDB>>
pool == <<roster, entry>>

-----------------------------------------------------------------------------
(* Lists and layers *)

\* The first of every token stays.
Dedupe(s) == Picked(s, {i \in DOMAIN s : \A j \in 1..(i - 1) : s[j] /= s[i]})
Without(s, t) == Picked(s, {i \in DOMAIN s : s[i] /= t})
WithToken(s, t) == IF Contains(s, t) THEN s ELSE Append(s, t)
Swapped(s, i, j) == [s EXCEPT ![i] = s[j], ![j] = s[i]]
Moved(s, from, to) == InsertAt(RemoveAt(s, from), to, s[from])

Else(layer, k, below) == IF layer[k] /= Absent THEN layer[k] ELSE below
Layered(file, rows, k) ==
  Else(deployment.pins, k, Else(rows, k, Else(file, k, Default[k])))

(* Built-in defaults < .env < settings rows < process environment.  A line  *)
(* or row of AUTH_TOKENS counts as soon as it is there, empty or not.       *)
LoadOpts(file, rows) ==
  [k \in Keys |->
     IF k = "AUTH_TOKENS" THEN Dedupe(Layered(file, rows, k)) ELSE Layered(file, rows, k)]

BridgeMode(c) == c["AUTH_TOKENS"] = << >>
HybridBridgeMode(c) == ~BridgeMode(c) /\ c["BRIDGE_ENABLED"]

-----------------------------------------------------------------------------
(* The pool's roster *)

Built == DOMAIN entry
Ids(r) == Range(r)
TokensOf(r, e) == {e[i].token : i \in Ids(r)}
Fresh(t) == [token |-> t, leased |-> FALSE, retired |-> FALSE, drained |-> FALSE]
TokenCount == Len(roster)

AddToken(r, e, t) == [roster |-> Append(r, Len(e) + 1), entry |-> Append(e, Fresh(t))]

Retire(e, ids) ==
  [i \in DOMAIN e |-> IF i \in ids
                      THEN [e[i] EXCEPT !.retired = TRUE, !.drained = @ \/ ~e[i].leased]
                      ELSE e[i]]

RemoveAt_(r, e, i) == [roster |-> RemoveAt(r, i), entry |-> [Retire(e, {r[i]}) EXCEPT ![r[i]].drained = TRUE]]
RemoveLast(r, e) == [roster |-> Front(r), entry |-> Retire(e, {Last(r)})]

(* The reconciliation of the roster with a list of tokens: a slot keeps its  *)
(* entry when the token is the same, else the first that asks for a token    *)
(* takes over the entry of that token from another slot, the last one if     *)
(* there are several, else the slot gets a new one.                          *)
Keeps(r, e, tokens, p) == p \in DOMAIN r /\ e[r[p]].token = tokens[p]
Takes(r, e, tokens, p) ==
  /\ ~Keeps(r, e, tokens, p)
  /\ tokens[p] \in TokensOf(r, e) /\ \A j \in 1..(p - 1) : tokens[j] /= tokens[p]
NewSlots(r, e, tokens) ==
  {p \in DOMAIN tokens : ~Keeps(r, e, tokens, p) /\ ~Takes(r, e, tokens, p)}

available(r, e, t) ==
  r[CHOOSE p \in DOMAIN r : /\ e[r[p]].token = t
                            /\ \A q \in DOMAIN r : e[r[q]].token = t => q <= p]

Rebuilt(r, e, tokens) ==
  LET new == NewSlots(r, e, tokens)
      of == Picked(tokens, new)
  IN  [roster |-> [p \in DOMAIN tokens |->
                     IF Keeps(r, e, tokens, p) THEN r[p]
                     ELSE IF Takes(r, e, tokens, p) THEN available(r, e, tokens[p])
                     ELSE Len(e) + Rank(new, p)],
       entry  |-> Retire(e \o [n \in DOMAIN of |-> Fresh(of[n])], {r[p] : p \in new \cap DOMAIN r})]

(* Variant, for comparison: an appended slot does not count as a change.      *)
SetConfigSlotsOnly(r, e, tokens) ==
  IF NewSlots(r, e, tokens) \cap DOMAIN r /= {} THEN Rebuilt(r, e, tokens) ELSE [roster |-> r, entry |-> e]

(* Only when a new entry was built is the new list published, and the former *)
(* entry of its slot retired.                                                *)
SetConfig(r, e, tokens) ==
  IF NewSlots(r, e, tokens) /= {} THEN Rebuilt(r, e, tokens) ELSE [roster |-> r, entry |-> e]

applyReloadedConfig(r, e, c) ==
  LET p == SetConfig(r, e, c["AUTH_TOKENS"])
  IN  cfg' = c /\ roster' = p.roster /\ entry' = p.entry

-----------------------------------------------------------------------------
(* Boot *)

(* Without the marker row the effective configuration is written into the   *)
(* rows, key by key; every boot adds the tokens of the configuration to the *)
(* database, and the database's list, when there is one, becomes the list   *)
(* in force.                                                                *)
BootRows(rows, c) ==
  IF deployment.settings /\ ~rows.migrated THEN [k \in DOMAIN rows |-> IF k \in Keys THEN c[k] ELSE TRUE] ELSE rows
MigrateFromEnv(db, tokens) == IF deployment.database THEN Dedupe(db \o tokens) ELSE db
BootList(db, c) == IF deployment.database /\ db /= << >> THEN [c EXCEPT !["AUTH_TOKENS"] = db] ELSE c

Boot(rows) ==
  LET loaded == LoadOpts(envFile, rows)
      db == MigrateFromEnv(tokenDB, loaded["AUTH_TOKENS"])
      c == BootList(db, loaded)
      new == [n \in 1..Len(loaded["AUTH_TOKENS"]) |-> Len(entry) + n]
      made == entry \o [n \in 1..Len(loaded["AUTH_TOKENS"]) |-> Fresh(loaded["AUTH_TOKENS"][n])]
      p == SetConfig(new, made, c["AUTH_TOKENS"])
  IN  /\ settings' = BootRows(rows, loaded) /\ tokenDB' = db
      /\ cfg' = c /\ roster' = p.roster /\ entry' = p.entry

Free == [op |-> "free"]
NoWizard == [at |-> "none"]

(* A process that has not booted yet: the .env of the deployment, no rows.  *)
AdminInit ==
  /\ deployment \in Deployments
  /\ envFile = deployment.seed
  /\ settings = [k \in Keys \cup {"migrated"} |-> IF k \in Keys THEN Absent ELSE FALSE]
  /\ tokenDB = << >> /\ live = FALSE
  /\ cfg = Default /\ roster = << >> /\ entry = << >>
  /\ save = Free /\ stale = Absent /\ wizard = NoWizard
  /\ saves = 0 /\ faults = 0 /\ torn = FALSE /\ raced = FALSE

Serve ==
  /\ ~live /\ live' = TRUE
  /\ Len(entry) + 2 <= MaxEntries
  /\ Boot(settings)
  /\ torn' = FALSE /\ raced' = FALSE
  /\ UNCHANGED <<deployment, envFile, save, stale, wizard, saves, faults>>

(* The process dies: what is on disk stays, whatever a handler was about to  *)
(* do.                                                                       *)
Crash ==
  /\ live /\ live' = FALSE
  /\ faults < MaxFaults /\ faults' = faults + 1
  /\ save' = Free /\ stale' = Absent /\ wizard' = NoWizard
  /\ roster' = << >>
  /\ entry' = [i \in DOMAIN entry |-> [entry[i] EXCEPT !.leased = FALSE]]
  /\ cfg' = Default
  /\ UNCHANGED <<deployment, envFile, settings, tokenDB, saves, torn, raced>>

-----------------------------------------------------------------------------
(* Requests hold leases on entries *)

LeaseTaken(i) ==
  /\ live /\ i \in Ids(roster) /\ ~entry[i].leased
  /\ entry' = [entry EXCEPT ![i].leased = TRUE]
  /\ UNCHANGED <<deployment, envFile, settings, tokenDB, live, cfg, roster, save, stale, wizard, saves, faults, torn, raced>>

LeaseRelease(i) ==
  /\ live /\ i \in Built /\ entry[i].leased
  /\ entry' = [entry EXCEPT ![i].leased = FALSE, ![i].drained = @ \/ entry[i].retired]
  /\ UNCHANGED <<deployment, envFile, settings, tokenDB, live, cfg, roster, save, stale, wizard, saves, faults, torn, raced>>

-----------------------------------------------------------------------------
(* syncTokensAfterMutation: the list that a token handler wants persisted *)

Fault == faults < MaxFaults /\ faults' = faults + 1
NoFault == faults' = faults
Room(n) == Len(entry) + n <= MaxEntries

(* The database is brought to the wanted set, a token at most once in it;     *)
(* the configuration follows.                                                 *)
syncDatabase(tokens) ==
  /\ deployment.database
  /\ tokenDB' = Dedupe(KeptAmong(tokenDB, Range(tokens)) \o tokens)
  /\ LET p == SetConfig(roster, entry, tokens)
     IN  roster' = p.roster /\ entry' = p.entry
  /\ cfg' = [cfg EXCEPT !["AUTH_TOKENS"] = tokens]
  /\ UNCHANGED <<envFile, settings>> /\ NoFault

(* One of its statements fails: the removals done so far, or all of them and *)
(* the first additions, are in the database; nothing else has happened.      *)
syncDatabaseFails(tokens) ==
  /\ deployment.database /\ Fault
  /\ LET gone == Range(tokenDB) \ Range(tokens)
         missing == KeptAmong(tokens, Range(tokens) \ Range(tokenDB))
     IN  /\ gone /= {} \/ missing /= << >>
         /\ \/ \E some \in SUBSET gone : /\ some /= gone \/ missing /= << >>
                                         /\ tokenDB' = KeptAmong(tokenDB, Range(tokenDB) \ some)
            \/ \E n \in 0..Len(missing) : /\ n < Len(missing)
                                          /\ tokenDB' = KeptAmong(tokenDB, Range(tokenDB) \ gone) \o SubSeq(missing, 1, n)
  /\ UNCHANGED <<envFile, settings, cfg>>

(* Without the database: the line of the .env, then the load that has to     *)
(* give the wanted list back.                                                *)
syncFile(tokens) ==
  LET written == [envFile EXCEPT !["AUTH_TOKENS"] = tokens]
      loaded == LoadOpts(written, settings)
  IN  /\ ~deployment.database
      /\ loaded["AUTH_TOKENS"] = tokens
      /\ envFile' = written /\ UNCHANGED <<settings, tokenDB>> /\ NoFault
      /\ applyReloadedConfig(roster, entry, loaded)

(* The write fails, or another layer still decides: the file is restored.    *)
syncFileFails(tokens) ==
  /\ ~deployment.database
  /\ \/ Fault
     \/ NoFault /\ LoadOpts([envFile EXCEPT !["AUTH_TOKENS"] = tokens], settings)["AUTH_TOKENS"] /= tokens
  /\ UNCHANGED <<envFile, settings, tokenDB, cfg>>

syncTokens(tokens) == syncDatabase(tokens) \/ syncFile(tokens)
syncTokensFails(tokens) == syncDatabaseFails(tokens) \/ syncFileFails(tokens)

-----------------------------------------------------------------------------
(* The token handlers: lock, guards and the change of the roster, then the   *)
(* persistence *)

Lock(op) ==
  /\ live /\ save = Free /\ saves < MaxSaves /\ saves' = saves + 1
  /\ save' = op
  /\ raced' = (raced \/ wizard /= NoWizard)
  /\ UNCHANGED <<deployment, envFile, settings, tokenDB, live, cfg, stale, wizard, faults, torn>>

InStep == Len(cfg["AUTH_TOKENS"]) = TokenCount
Took(p) == roster' = p.roster /\ entry' = p.entry

handleTokenAdd(t) ==
  /\ InStep /\ Room(1) /\ Took(AddToken(roster, entry, t))
  /\ Lock([op |-> "sync", tokens |-> WithToken(cfg["AUTH_TOKENS"], t), undo |-> "removeLast", token |-> t])

handleTokenRemove(i) ==
  /\ InStep /\ i \in 1..TokenCount
  /\ \A id \in Ids(roster) : ~entry[id].leased
  /\ Took(RemoveAt_(roster, entry, i))
  /\ Lock([op |-> "sync", tokens |-> RemoveAt(cfg["AUTH_TOKENS"], i), undo |-> "add", token |-> cfg["AUTH_TOKENS"][i]])

(* Without an index the last token goes; only its own leases matter.         *)
handleTokenRemoveLast ==
  /\ InStep /\ roster /= << >> /\ ~entry[Last(roster)].leased
  /\ Took(RemoveLast(roster, entry))
  /\ Lock([op |-> "sync", tokens |-> Front(cfg["AUTH_TOKENS"]), undo |-> "add", token |-> Last(cfg["AUTH_TOKENS"])])

(* By value: its position in the configuration is used on the roster.        *)
handleTokenRemoveSpecific(t) ==
  /\ Contains(cfg["AUTH_TOKENS"], t)
  /\ \A id \in Ids(roster) : ~entry[id].leased
  /\ LET i == CHOOSE p \in DOMAIN cfg["AUTH_TOKENS"] : cfg["AUTH_TOKENS"][p] = t
     IN  i \in DOMAIN roster /\ Took(RemoveAt_(roster, entry, i))
  /\ Lock([op |-> "sync", tokens |-> Without(cfg["AUTH_TOKENS"], t), undo |-> "add", token |-> t])

handleTokenSwap(i, j) ==
  /\ InStep /\ {i, j} \subseteq 1..TokenCount /\ i /= j
  /\ \/ /\ roster' = Swapped(roster, i, j)
        /\ Lock([op |-> "sync", tokens |-> Swapped(cfg["AUTH_TOKENS"], i, j), undo |-> "swap", i |-> i, j |-> j])
     \/ /\ roster' = Moved(roster, i, j)
        /\ Lock([op |-> "sync", tokens |-> Moved(cfg["AUTH_TOKENS"], i, j), undo |-> "move", i |-> i, j |-> j])
  /\ UNCHANGED entry

TokensPersisted ==
  /\ live /\ save.op = "sync" /\ Room(Len(save.tokens))
  /\ syncTokens(save.tokens)
  /\ save' = Free
  /\ UNCHANGED <<deployment, live, stale, wizard, saves, torn, raced>>

(* What the handler does to the roster when the list could not be persisted; *)
(* the pool refuses positions that a wizard's load has left out of range.    *)
Undone ==
  LET same == [roster |-> roster, entry |-> entry] IN
  CASE save.undo = "removeLast" -> IF roster = << >> \/ entry[Last(roster)].leased THEN same
                                   ELSE RemoveLast(roster, entry)
    [] save.undo = "add" -> AddToken(roster, entry, save.token)
    [] OTHER -> IF ~({save.i, save.j} \subseteq DOMAIN roster) THEN same
                ELSE IF save.undo = "swap" THEN [same EXCEPT !.roster = Swapped(roster, save.i, save.j)]
                ELSE [same EXCEPT !.roster = Moved(roster, save.j, save.i)]

TokensRefused ==
  /\ live /\ save.op = "sync" /\ Room(1)
  /\ syncTokensFails(save.tokens)
  /\ Took(Undone)
  /\ save' = Free
  /\ UNCHANGED <<deployment, live, stale, wizard, saves, torn, raced>>

-----------------------------------------------------------------------------
(* dualWrite: lines of the file and rows of the settings as one unit *)

Over(layer, edit) == [k \in DOMAIN layer |-> IF k \in DOMAIN edit THEN edit[k] ELSE layer[k]]

(* Under the lock: the snapshot of both layers, then the file.  A file that  *)
(* cannot be written ends the save with nothing changed.                     *)
dualWrite(want, edit) ==
  /\ live /\ save = Free /\ saves < MaxSaves /\ saves' = saves + 1
  /\ save' = [op |-> "dual", want |-> want, edit |-> edit, file |-> envFile, rows |-> settings,
              left |-> IF deployment.settings THEN DOMAIN edit ELSE {}]
  /\ envFile' = Over(envFile, edit)
  /\ raced' = (raced \/ wizard /= NoWizard)
  /\ UNCHANGED <<deployment, settings, tokenDB, live, cfg, roster, entry, wizard, faults, torn>>

(* The rows follow in the order of a Go map.                                 *)
SetRow(k) ==
  /\ live /\ save.op = "dual" /\ k \in save.left
  /\ settings' = [settings EXCEPT ![k] = save.edit[k]]
  /\ save' = [save EXCEPT !.left = @ \ {k}]
  /\ UNCHANGED <<deployment, envFile, tokenDB, live, cfg, roster, entry, stale, wizard, saves, faults, torn, raced>>

(* A row that cannot be set: the file is restored, the rows set before it    *)
(* are not.                                                                  *)
SetRowFails ==
  /\ live /\ save.op = "dual" /\ save.left /= {} /\ Fault
  /\ envFile' = save.file
  /\ save' = Free /\ torn' = (torn \/ settings /= save.rows)
  /\ UNCHANGED <<deployment, settings, tokenDB, live, cfg, roster, entry, stale, wizard, saves, raced>>

Verified(c) ==
  CASE save.want = "bridge" -> BridgeMode(c)
    [] save.want = "pooled" -> ~HybridBridgeMode(c)
    [] save.want = "hybrid" -> HybridBridgeMode(c)
    [] save.want = "password" -> c["ADMIN_TOKEN"] = save.edit["ADMIN_TOKEN"]
    [] save.want = "login" -> c["DASHBOARD_REQUIRE_LOGIN"] = save.edit["DASHBOARD_REQUIRE_LOGIN"]

(* Going to bridge mode also ends and forgets every account's entry.         *)
DualApplied ==
  LET loaded == LoadOpts(envFile, settings) IN
  /\ live /\ save.op = "dual" /\ save.left = {} /\ Verified(loaded)
  /\ Room(Len(loaded["AUTH_TOKENS"]))
  /\ IF save.want = "bridge"
     THEN /\ cfg' = loaded /\ roster' = << >>
          /\ entry' = [i \in Built |-> IF i \in Ids(roster) THEN [entry[i] EXCEPT !.drained = TRUE] ELSE entry[i]]
     ELSE applyReloadedConfig(roster, entry, loaded)
  /\ save' = Free
  /\ UNCHANGED <<deployment, envFile, settings, tokenDB, live, stale, wizard, saves, faults, torn, raced>>

(* Variant, for comparison: only the file is put back.                       *)
DualRefusedFileOnly ==
  /\ live /\ save.op = "dual" /\ save.left = {}
  /\ \/ Fault
     \/ NoFault /\ ~Verified(LoadOpts(envFile, settings))
  /\ envFile' = save.file
  /\ save' = Free
  /\ UNCHANGED <<deployment, settings, tokenDB, live, cfg, roster, entry, stale, wizard, saves, torn, raced>>

(* The marker row cannot be dropped, the load fails, or another layer still  *)
(* decides: both layers are put back.                                        *)
DualRefused ==
  /\ live /\ save.op = "dual" /\ save.left = {}
  /\ \/ Fault
     \/ NoFault /\ ~Verified(LoadOpts(envFile, settings))
  /\ envFile' = save.file /\ settings' = save.rows
  /\ save' = Free
  /\ UNCHANGED <<deployment, tokenDB, live, cfg, roster, entry, stale, wizard, saves, torn, raced>>

(* A mode switch decides on the configuration it has read before the lock,   *)
(* and writes that configuration's list back.                                *)
ModeAsked(mode) ==
  /\ live /\ stale = Absent /\ saves < MaxSaves
  /\ CASE mode = "bridge" -> ~BridgeMode(cfg)
       [] mode = "pooled" -> HybridBridgeMode(cfg)
       [] mode = "hybrid" -> ~BridgeMode(cfg) /\ ~HybridBridgeMode(cfg)
  /\ stale' = [mode |-> mode, tokens |-> cfg["AUTH_TOKENS"]]
  /\ UNCHANGED <<deployment, envFile, settings, tokenDB, live, cfg, roster, entry, save, wizard, saves, faults, torn, raced>>

ModeEdit ==
  IF stale.mode = "bridge" THEN [k \in {"AUTH_TOKENS"} |-> << >>]
  ELSE [k \in {"AUTH_TOKENS", "BRIDGE_ENABLED"} |-> IF k = "AUTH_TOKENS" THEN stale.tokens ELSE stale.mode = "hybrid"]

handleModeSwitch ==
  /\ stale /= Absent /\ stale' = Absent
  /\ dualWrite(stale.mode, ModeEdit)

handleAdminChangePassword(p) ==
  /\ dualWrite("password", [k \in {"ADMIN_TOKEN", "DASHBOARD_REQUIRE_LOGIN"} |-> IF k = "ADMIN_TOKEN" THEN p ELSE TRUE])
  /\ UNCHANGED stale

handleAdminRequireLogin(b) ==
  /\ dualWrite("login", [k \in {"DASHBOARD_REQUIRE_LOGIN"} |-> b])
  /\ UNCHANGED stale

-----------------------------------------------------------------------------
(* Handlers that write one layer and apply what the load then gives *)

Applied(file, rows) ==
  /\ live /\ save = Free /\ saves < MaxSaves /\ saves' = saves + 1
  /\ LET loaded == LoadOpts(file, rows) IN
     /\ Room(Len(loaded["AUTH_TOKENS"]))
     /\ applyReloadedConfig(roster, entry, loaded)
  /\ envFile' = file /\ settings' = rows
  /\ raced' = (raced \/ wizard /= NoWizard)
  /\ UNCHANGED <<deployment, tokenDB, live, save, stale, wizard, faults, torn>>

(* A content that does not load is taken back and changes nothing.           *)
handleConfigSave(tokens) == Applied([envFile EXCEPT !["AUTH_TOKENS"] = tokens], settings)
handleReload == Applied(envFile, settings)

(* AUTH_TOKENS and ADMIN_TOKEN are refused as knobs.  The row is written     *)
(* only once the candidate has loaded.                                       *)
handleSettingsPost(k, v) ==
  /\ deployment.settings /\ k \notin {"AUTH_TOKENS", "ADMIN_TOKEN"}
  /\ Applied(envFile, [settings EXCEPT ![k] = v])

handleSettingsDelete(k) ==
  /\ deployment.settings /\ settings[k] /= Absent
  /\ Applied(envFile, [settings EXCEPT ![k] = Absent])

-----------------------------------------------------------------------------
(* The login wizard's completion: the same persistence without the lock, and *)
(* no change of the roster is undone *)

addTokenPersist(t) ==
  /\ live /\ wizard = NoWizard /\ saves < MaxSaves /\ saves' = saves + 1 /\ Room(1)
  /\ Took(AddToken(roster, entry, t))
  /\ wizard' = [at |-> "adding", file |-> envFile,
                 tokens |-> IF BridgeMode(cfg) THEN <<t>> ELSE WithToken(cfg["AUTH_TOKENS"], t)]
  /\ raced' = (raced \/ save /= Free)
  /\ UNCHANGED <<deployment, envFile, settings, tokenDB, live, cfg, save, stale, faults, torn>>

WizardWrites ==
  /\ live /\ wizard.at = "adding" /\ ~deployment.database
  /\ \/ NoFault /\ envFile' = [envFile EXCEPT !["AUTH_TOKENS"] = wizard.tokens] /\ wizard' = [wizard EXCEPT !.at = "written"]
     \/ Fault /\ wizard' = NoWizard /\ UNCHANGED envFile
  /\ UNCHANGED <<deployment, settings, tokenDB, live, cfg, roster, entry, save, stale, saves, torn, raced>>

WizardLoads ==
  LET loaded == LoadOpts(envFile, settings) IN
  /\ live /\ wizard.at = "written" /\ Room(Len(wizard.tokens))
  /\ IF loaded["AUTH_TOKENS"] = wizard.tokens
     THEN applyReloadedConfig(roster, entry, loaded) /\ UNCHANGED envFile
     ELSE envFile' = wizard.file /\ UNCHANGED <<cfg, roster, entry>>
  /\ wizard' = NoWizard
  /\ UNCHANGED <<deployment, settings, tokenDB, live, save, stale, saves, faults, torn, raced>>

WizardSaves ==
  /\ live /\ wizard.at = "adding" /\ deployment.database /\ Room(Len(wizard.tokens))
  /\ \/ syncDatabase(wizard.tokens)
     \/ syncDatabaseFails(wizard.tokens) /\ UNCHANGED pool
  /\ wizard' = NoWizard
  /\ UNCHANGED <<deployment, live, save, stale, saves, torn, raced>>

-----------------------------------------------------------------------------
Lists == {<< >>} \cup {<<t>> : t \in Tokens} \cup {l \in Tokens \X Tokens : l[1] /= l[2]}
Slots == 1..MaxEntries

AdminNext ==
  \/ Serve \/ Crash
  \/ \E i \in Slots : LeaseTaken(i) \/ LeaseRelease(i) \/ handleTokenRemove(i)
  \/ \E t \in Tokens : handleTokenAdd(t) \/ handleTokenRemoveSpecific(t) \/ addTokenPersist(t)
  \/ handleTokenRemoveLast
  \/ \E i, j \in Slots : handleTokenSwap(i, j)
  \/ TokensPersisted \/ TokensRefused
  \/ \E mode \in {"bridge", "pooled", "hybrid"} : ModeAsked(mode)
  \/ handleModeSwitch
  \/ \E p \in Passwords : handleAdminChangePassword(p)
  \/ \E b \in BOOLEAN : handleAdminRequireLogin(b) \/ handleSettingsPost("BRIDGE_ENABLED", b)
  \/ \E k \in Keys : SetRow(k) \/ handleSettingsDelete(k)
  \/ SetRowFails \/ DualApplied \/ DualRefused
  \/ \E l \in Lists : handleConfigSave(l)
  \/ handleReload
  \/ WizardWrites \/ WizardLoads \/ WizardSaves

AdminSpec == AdminInit /\ [][AdminNext]_adminVars

-----------------------------------------------------------------------------
(* Nobody is saving, and no save has been torn or raced since the boot.      *)
Quiet == live /\ save = Free /\ wizard = NoWizard /\ ~torn /\ ~raced

(* Whatever was saved, refused or rolled back, at whichever step a write      *)
(* failed: when nobody is saving, a reload or a restart gives the very        *)
(* configuration that is in force (the token list of a deployment with a      *)
(* token database apart).  Two ways to break it are known and exempt: a row   *)
(* that fails in the middle of a save (torn) and the wizard's completion      *)
(* during another save (raced).                                               *)
DiskIsLive ==
  Quiet => \A k \in Keys : LoadOpts(envFile, settings)[k] = cfg[k] \/ (k = "AUTH_TOKENS" /\ deployment.database)

(* Whenever another configuration comes into force - by a token handler, a    *)
(* mode switch, an edit of the file, a settings row, a reload, a boot -        *)
(* every account it lists is served by an entry of the roster, whatever        *)
(* order and however many entries the roster had before.                       *)
ConfiguredIsServed ==
  [][(live' /\ cfg' /= cfg) => Range(cfg'["AUTH_TOKENS"]) \subseteq TokensOf(roster', entry')]_adminVars

(* "swapped/reordered tokens reuse their existing client/session/run-manager   *)
(* triple without tear-down or rebuild": an entry in the roster is never       *)
(* retired.                                                                    *)
ReusedNotTornDown == \A i \in Ids(roster) : ~entry[i].retired

(* "Any failure restores BOTH layers": a save that fails leaves the file and   *)
(* the rows as they were when it began.                                        *)
BothLayersRestored ==
  [][(live' /\ faults' > faults /\ save.op = "dual" /\ save' = Free)
       => (envFile' = save.file /\ settings' = save.rows)]_adminVars

=============================================================================
