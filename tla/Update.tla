------------------------------- MODULE Update -------------------------------
(***************************************************************************)
(* freebucks-proxy -update (cli/update): the release is looked up, its     *)
(* archive downloaded, checked against the published checksums and swapped *)
(* for the running executable; on Windows by a helper that outlives the    *)
(* process and leaves its result in a marker file.  A process may be       *)
(* killed at any step, and the next update may start while an earlier      *)
(* helper is still trying.  Binaries are represented by what they are:     *)
(* the one installed at first, the published one, or something else.       *)
(***************************************************************************)
EXTENDS Integers, FiniteSets

CONSTANTS
  MetaBudget,        \* the 30 seconds shared by the release and its checksums
  AssetBudget,       \* the 5 minutes of the download
  SwapTries,         \* attempts of the helper
  MaxRuns            \* bound: updates

ASSUME UpdateAssumption ==
  /\ MetaBudget \in Nat \ {0} /\ AssetBudget \in Nat \ {0} /\ SwapTries \in Nat \ {0}
  /\ MaxRuns \in Nat

VARIABLES
  windows,           \* the platform
  exe, old,          \* the executable and its .old
  tmp,               \* the temporary binary of each update
  update,            \* the update under way: its step, its clocks and its archive
  helpers,           \* helpers still running: the update they belong to and their attempts
  result,            \* the result marker
  runs

updateVars == <<windows, exe, old, tmp, update, helpers, result, runs>>
files == <<exe, old, tmp>>

NoFile == "none"
NoUpdate == [at |-> "idle", spent |-> 0, loading |-> 0, archive |-> NoFile, why |-> NoFile]

UpdateInit ==
  /\ windows \in BOOLEAN
  /\ exe = "installed" /\ old = NoFile
  /\ tmp = [r \in 1..MaxRuns |-> NoFile]
  /\ update = NoUpdate
  /\ helpers = {}
  /\ result = NoFile
  /\ runs = 0

Continue(step) == update' = [update EXCEPT !.at = step]
Exit(why) == update' = [NoUpdate EXCEPT !.why = why]

(* The marker of an earlier helper is reported and deleted first.          *)
Run ==
  /\ update.at = "idle" /\ runs < MaxRuns /\ exe # NoFile
  /\ runs' = runs + 1
  /\ result' = NoFile
  /\ update' = [NoUpdate EXCEPT !.at = "release"]
  /\ UNCHANGED <<windows, files, helpers>>

(* Time passes in a request, on the context it runs under.                 *)
Wait ==
  /\ \/ update.at \in {"release", "verify"} /\ update.spent < MetaBudget
     \/ update.at = "download" /\ update.loading < AssetBudget
  /\ update' = [update EXCEPT !.spent = IF @ < MetaBudget THEN @ + 1 ELSE @,
                              !.loading = IF update.at = "download" THEN @ + 1 ELSE @]
  /\ UNCHANGED <<windows, files, helpers, result, runs>>

(* The release: nothing newer, no archive for the platform or no list of   *)
(* checksums end the update here.                                          *)
Release ==
  /\ update.at = "release"
  /\ \/ update.spent < MetaBudget /\ Continue("download")
     \/ Exit("refused")
  /\ UNCHANGED <<windows, files, helpers, result, runs>>

downloadURL ==
  /\ update.at = "download"
  /\ \/ /\ update.loading < AssetBudget
        /\ \E archive \in {"published", "other"} :
             update' = [update EXCEPT !.at = "verify", !.archive = archive]
     \/ Exit("refused")
  /\ UNCHANGED <<windows, files, helpers, result, runs>>

(* The checksum of another file of the list is accepted too. *)
verifyAnyName ==
  /\ update.at = "verify"
  /\ \/ update.spent < MetaBudget /\ Continue("extract")
     \/ update.spent < MetaBudget /\ Exit("refused")
     \/ update.spent >= MetaBudget /\ Exit("no time to verify")
  /\ UNCHANGED <<windows, files, helpers, result, runs>>

(* The checksums, on what the first request and the download have left of  *)
(* the first context.                                                      *)
verifyChecksum ==
  /\ update.at = "verify"
  /\ \/ update.spent < MetaBudget /\ update.archive = "published" /\ Continue("extract")
     \/ update.spent < MetaBudget /\ Exit("refused")
     \/ update.spent >= MetaBudget /\ Exit("no time to verify")
  /\ UNCHANGED <<windows, files, helpers, result, runs>>

extractBinaryFromArchive ==
  /\ update.at = "extract"
  /\ \/ Continue("stage")
     \/ Exit("refused")
  /\ UNCHANGED <<windows, files, helpers, result, runs>>

(* The binary in a temporary file beside the executable.                   *)
Stage ==
  /\ update.at = "stage"
  /\ \/ tmp' = [tmp EXCEPT ![runs] = update.archive] /\ Continue(IF windows THEN "helper" ELSE "clear")
     \/ Exit("failed") /\ UNCHANGED tmp
  /\ UNCHANGED <<windows, exe, old, helpers, result, runs>>

(* installUnix: an earlier .old is removed, the executable moved there,    *)
(* the new one renamed into its place, or the old one back; removals and   *)
(* the way back may fail unnoticed.                                        *)
Clear ==
  /\ update.at = "clear"
  /\ old' \in {NoFile, old}
  /\ Continue("move")
  /\ UNCHANGED <<windows, exe, tmp, helpers, result, runs>>

Move ==
  /\ update.at = "move"
  /\ \/ old' = exe /\ exe' = NoFile /\ Continue("install") /\ UNCHANGED tmp
     \/ Exit("failed") /\ tmp' = [tmp EXCEPT ![runs] = NoFile] /\ UNCHANGED <<exe, old>>
  /\ UNCHANGED <<windows, helpers, result, runs>>

Install ==
  /\ update.at = "install"
  /\ \/ exe' = tmp[runs] /\ Continue("done") /\ UNCHANGED old
     \/ exe' = old /\ old' = NoFile /\ Exit("failed")
     \/ UNCHANGED <<exe, old>> /\ Exit("failed")
  /\ tmp' = [tmp EXCEPT ![runs] = NoFile]
  /\ UNCHANGED <<windows, helpers, result, runs>>

Done ==
  /\ update.at = "done"
  /\ old' \in {NoFile, old}
  /\ Exit("SUCCESS")
  /\ UNCHANGED <<windows, exe, tmp, helpers, result, runs>>

(* installWindows: the helper waits for this process to end.               *)
Launch ==
  /\ update.at = "helper"
  /\ \/ helpers' = helpers \cup {<<runs, 0>>} /\ Exit("deferred") /\ UNCHANGED tmp
     \/ Exit("failed") /\ tmp' = [tmp EXCEPT ![runs] = NoFile] /\ UNCHANGED helpers
  /\ UNCHANGED <<windows, exe, old, result, runs>>

(* windowsUpdateScript: moved over the executable, or tried again.         *)
Helper(h) ==
  /\ \/ /\ tmp[h[1]] # NoFile
        /\ exe' = tmp[h[1]]
        /\ tmp' = [tmp EXCEPT ![h[1]] = NoFile]
        /\ result' = "OK"
        /\ helpers' = helpers \ {h}
     \/ /\ helpers' = (helpers \ {h}) \cup (IF h[2] + 1 < SwapTries THEN {<<h[1], h[2] + 1>>} ELSE {})
        /\ result' = IF h[2] + 1 < SwapTries THEN result ELSE "FAILED"
        /\ UNCHANGED <<exe, tmp>>
  /\ UNCHANGED <<windows, old, update, runs>>

(* Killed: the process, or the machine with every helper.                  *)
Killed ==
  /\ \/ update.at # "idle" /\ UNCHANGED helpers
     \/ helpers # {} /\ helpers' = {}
  /\ update' = NoUpdate
  /\ UNCHANGED <<windows, files, result, runs>>

UpdateNext ==
  \/ Run \/ Wait \/ Release \/ downloadURL \/ verifyChecksum \/ extractBinaryFromArchive \/ Stage
  \/ Clear \/ Move \/ Install \/ Done \/ Launch
  \/ \E h \in helpers : Helper(h)
  \/ Killed

UpdateSpec == UpdateInit /\ [][UpdateNext]_updateVars

-----------------------------------------------------------------------------

(* Over failures, kills and helpers that outlive their update, a binary    *)
(* that runs is left, at its place or beside it, and it is the first one   *)
(* or a published one; a success that is printed has installed it.         *)
BinaryKept ==
  /\ {exe, old} \cap {"installed", "published"} # {}
  /\ {exe, old} \subseteq {"installed", "published", NoFile}
  /\ update.why = "SUCCESS" => exe = "published"

(* What the comment of Run promises: a slow link can finish, the budget of *)
(* the metadata does not end a download that was allowed its own.          *)
SlowLinkFinishes == update.why # "no time to verify"

(* What the comment of installUnix says: the swap is atomic.               *)
SwapIsAtomic == exe # NoFile

=============================================================================
