------------------------------ MODULE Migrate ------------------------------
(***************************************************************************)
(* Opening the dashboard database (store.go): the file found on disk is of *)
(* one of several generations, and the open brings it to the latest schema *)
(* before anything else reads it.  Files older than the version table      *)
(* carry a stamp only; their versions are recorded as applied without      *)
(* being run, one row at a time and outside a transaction, so a process    *)
(* that dies there leaves some of the rows behind.  What remains is run,   *)
(* each version in a transaction of its own with its row.                  *)
(***************************************************************************)
EXTENDS Integers

CONSTANTS
  Latest,          \* schemaVersion
  Adding,          \* the versions whose statements add a column (no IF NOT EXISTS)
  MaxCrashes       \* bound: deaths of the process

ASSUME MigrateAssumption ==
  /\ Latest \in Nat /\ Latest >= 5
  /\ Adding \subseteq 1..Latest
  /\ MaxCrashes \in Nat

VARIABLES
  schema,          \* the file: its objects, its stamp, its version rows and its mode
  opening,         \* the boot that opens it
  crashes

migrateVars == <<schema, opening, crashes>>

NoTable == {-1}    \* the version table does not exist
Down == [at |-> "down", base |-> 0, next |-> 0]

NewFile == [objects |-> {}, stamp |-> 0, recorded |-> NoTable, tight |-> FALSE]

(* A file of an earlier release: stamped with its version, or caught       *)
(* between the statements of the next version and the stamp, or without a  *)
(* stamp at all.                                                           *)
Legacy ==
  [objects : {1..k : k \in 1..Latest}, stamp : 0..Latest,
   recorded : {NoTable}, tight : BOOLEAN]

Known == {file \in Legacy : file.stamp = 0 \/ file.objects \in {1..file.stamp, 1..(file.stamp + 1)}}

Unknown == [NewFile EXCEPT !.objects = 1..Latest, !.stamp = Latest + 1]

hasTable(n) == n \in schema.objects

(* A table of the fourth version taken for the whole schema. *)
baselineFromTable(stamp) ==
  IF stamp < 4 /\ hasTable(4) THEN Latest ELSE stamp

(* The stamp, lifted when the file already has the objects of a later      *)
(* version: 3 and 5 are columns, 4 is a table.                             *)
baselineVersion(stamp) ==
  LET lift(base, n) == IF base < n /\ hasTable(n) THEN n ELSE base
  IN  lift(lift(lift(stamp, 3), 4), 5)

gooseAtLatest == 1..Latest \subseteq schema.recorded

Pending == 1..Latest \ schema.recorded

MigrateInit ==
  /\ schema \in Known \cup {NewFile, Unknown}
  /\ opening = Down
  /\ crashes = 0

Proceed(step) == opening' = [opening EXCEPT !.at = step]

(* The stamp decides: an unknown one is refused, a converged file skips    *)
(* the migrations.                                                         *)
OpenWithStatus ==
  /\ opening.at = "down"
  /\ IF schema.stamp \notin 0..Latest
     THEN Proceed("refused")
     ELSE IF schema.stamp = Latest /\ gooseAtLatest
          THEN Proceed("stamp")
          ELSE opening' = [at |-> "baseline", base |-> baselineVersion(schema.stamp), next |-> 0]
  /\ UNCHANGED <<schema, crashes>>

(* The version table is made, and the baseline is seeded when it has no    *)
(* row at all; a file with no baseline leaves both to the migrations.      *)
Baseline ==
  /\ opening.at = "baseline"
  /\ LET rows == IF schema.recorded = NoTable THEN {} ELSE schema.recorded
     IN  IF opening.base > 0
         THEN /\ schema' = [schema EXCEPT !.recorded = rows]
              /\ Proceed(IF rows = {} THEN "seed" ELSE "up")
         ELSE /\ schema' = [schema EXCEPT !.recorded = rows \cup {0}]
              /\ Proceed("up")
  /\ UNCHANGED crashes

Seed ==
  /\ opening.at = "seed"
  /\ schema' = [schema EXCEPT !.recorded = @ \cup {opening.next}]
  /\ IF opening.next < opening.base
     THEN opening' = [opening EXCEPT !.next = @ + 1]
     ELSE Proceed("up")
  /\ UNCHANGED crashes

(* One pending version: its statements and its row, or neither.  Adding a  *)
(* column the table has is an error, and the open fails.                   *)
Up ==
  /\ opening.at = "up"
  /\ IF Pending = {}
     THEN Proceed("stamp") /\ UNCHANGED schema
     ELSE LET v == CHOOSE n \in Pending : \A m \in Pending : n <= m
          IN  IF v \in Adding /\ hasTable(v)
              THEN Proceed("failed") /\ UNCHANGED schema
              ELSE /\ schema' = [schema EXCEPT !.objects = @ \cup {v}, !.recorded = @ \cup {v}]
                   /\ UNCHANGED opening
  /\ UNCHANGED crashes

Stamp ==
  /\ opening.at = "stamp"
  /\ schema' = [schema EXCEPT !.stamp = Latest]
  /\ Proceed("chmod")
  /\ UNCHANGED crashes

(* The file holds secrets: its mode is tightened, or the open fails.       *)
Chmod ==
  /\ opening.at = "chmod"
  /\ \/ schema' = [schema EXCEPT !.tight = TRUE] /\ Proceed("open")
     \/ ~schema.tight /\ Proceed("failed") /\ UNCHANGED schema
  /\ UNCHANGED crashes

(* The process ends, in the middle of an open or after one.                *)
OpeningDies ==
  /\ opening.at # "down"
  /\ crashes < MaxCrashes
  /\ crashes' = crashes + 1
  /\ opening' = Down
  /\ UNCHANGED schema

MigrateNext ==
  \/ OpenWithStatus \/ Baseline \/ Seed \/ Up \/ Stamp \/ Chmod \/ OpeningDies

MigrateSpec == MigrateInit /\ [][MigrateNext]_migrateVars

-----------------------------------------------------------------------------

(* A store that opens has everything the code that reads it expects, over  *)
(* every generation the file may be of and every place an earlier open may *)
(* have died in: all objects, their rows, the stamp and the mode.  A       *)
(* version recorded without its objects would be skipped for ever.         *)
OpenedIsLatest ==
  /\ opening.at = "open" =>
       /\ schema.objects = 1..Latest
       /\ gooseAtLatest
       /\ schema.stamp = Latest
       /\ schema.tight
  /\ opening.at # "refused" => schema.recorded \ {-1, 0} \subseteq schema.objects

(* What the comment of baselineVersion promises: the migrations never      *)
(* replay a statement the file already has.                                *)
NeverReplays ==
  opening.at = "up" /\ Pending # {} =>
    LET v == CHOOSE n \in Pending : \A m \in Pending : n <= m
    IN  v \in Adding => ~hasTable(v)


=============================================================================
