--------------------------- MODULE SessionStore ---------------------------
(***************************************************************************)
(* The session-state store (backend/internal/session: store.go,            *)
(* backend.go): one cached session and the agent runs of every token, kept *)
(* in memory and written through to a database table (Backend) or, when no *)
(* database is open, to a JSON file.                                       *)
(*                                                                         *)
(* Every exported method holds Store.mu throughout, so it is one action.   *)
(* What the disk does to the reads and writes it makes is a choice of that *)
(* action: a table read fails or not, each row of a flush is written or    *)
(* not, the file is written, not written or lost.  A process that dies in  *)
(* the middle of a flush is one whose remaining rows failed and that then  *)
(* restarts.                                                               *)
(*                                                                         *)
(* A session is its instance id; the other persisted fields are carried    *)
(* along unread.  The runs of a token are one run: RunManager is about     *)
(* agents.                                                                 *)
(***************************************************************************)
EXTENDS Naturals, FiniteSets

CONSTANTS
  Keys,        \* token hashes
  Instances,   \* session instance ids
  RunIds,      \* upstream run ids
  None,        \* no session, no run
  Removed,     \* a pending removal
  Unset,       \* no pending mutation
  Backend,     \* is the store backed by a database table
  Faults       \* may reads and writes fail

ASSUME StoreAssumption ==
  /\ None \notin Instances \cup RunIds
  /\ Removed \notin Instances /\ Unset \notin Instances \cup {Removed}
  /\ Backend \in BOOLEAN /\ Faults \in BOOLEAN

Session == Instances \cup {None}
Run     == RunIds \cup {None}
Row     == [sess : Session, run : Run]
NoRow   == [sess |-> None, run |-> None]

VARIABLES
  mem,       \* the Store object
  disk,      \* the table's rows or the file's entries
  closed,    \* sessions whose grace window has closed
  exit,      \* how far a Manager.Shutdown has come
  obsolete,  \* history: sessions of tokens removed or replaced by this process
  synced     \* history: has the last flush had no failure

vars == <<mem, disk, closed, exit, obsolete, synced>>

---------------------------------------------------------------------------
Memory == [data : [Keys -> Session], runs : [Keys -> Run], loaded : BOOLEAN,
           readFailed : BOOLEAN, pending : [Keys -> Session \cup {Removed, Unset}],
           known : SUBSET Keys]

\* NewStore, NewStoreWithBackend: nothing is read until the first call.
NewStore ==
  [data |-> [k \in Keys |-> None], runs |-> [k \in Keys |-> None],
   loaded |-> FALSE, readFailed |-> FALSE,
   pending |-> [k \in Keys |-> Unset], known |-> {}]

\* What memory holds for token k, as a row.
RowOf(m, k) == [sess |-> m.data[k], run |-> m.runs[k]]

Written(m) == {k \in Keys : RowOf(m, k) # NoRow}

FlushedTableNewOnly(m, d) ==
  LET due == (Written(m) \ m.known) \cup (m.known \ Written(m)) IN
  { [m  |-> [m EXCEPT !.known = Written(m)],
     d  |-> [k \in Keys |-> IF k \in due \ bad THEN RowOf(m, k) ELSE d[k]],
     ok |-> bad = {}] : bad \in IF Faults THEN SUBSET due ELSE {{}} }

\* flushLocked over a table: every row memory has is written, every known row
\* it no longer has is deleted, each by a statement of its own that may fail;
\* the known rows become the written ones whatever failed.
FlushedTable(m, d) ==
  LET due == Written(m) \cup m.known IN
  { [m  |-> [m EXCEPT !.known = Written(m)],
     d  |-> [k \in Keys |-> IF k \in due \ bad THEN RowOf(m, k) ELSE d[k]],
     ok |-> bad = {}] : bad \in IF Faults THEN SUBSET due ELSE {{}} }

\* flushLocked over a file: the whole file by temp and rename, or not at all;
\* on a platform that cannot rename over a file the fallback may lose it.
FlushedFile(m, d) ==
  {[m |-> m, d |-> [k \in Keys |-> RowOf(m, k)], ok |-> TRUE]} \cup
  (IF Faults THEN {[m |-> m, d |-> d, ok |-> FALSE],
                   [m |-> m, d |-> [k \in Keys |-> NoRow], ok |-> FALSE]}
   ELSE {})

FlushLocked(m, d) == IF Backend THEN FlushedTable(m, d) ELSE FlushedFile(m, d)

\* flushLockedUnlessReadFailed: what could not be read is not overwritten.
FlushUnlessReadFailed(m, d) ==
  IF m.readFailed THEN {[m |-> m, d |-> d, ok |-> FALSE]} ELSE FlushLocked(m, d)

ApplyPendingKeeps(m, d) ==
  IF \A k \in Keys : m.pending[k] = Unset THEN {[m |-> m, d |-> d, ok |-> FALSE]}
  ELSE FlushLocked(
         [m EXCEPT !.data = [k \in Keys |->
                      CASE m.pending[k] = Unset   -> @[k]
                        [] m.pending[k] = Removed -> None
                        [] OTHER                  -> m.pending[k]]], d)

\* applyPendingLocked: the mutations of the failure window go over what was
\* read, and everything is flushed.
ApplyPending(m, d) ==
  IF \A k \in Keys : m.pending[k] = Unset THEN {[m |-> m, d |-> d, ok |-> FALSE]}
  ELSE FlushLocked(
         [m EXCEPT !.data = [k \in Keys |->
                      CASE m.pending[k] = Unset   -> @[k]
                        [] m.pending[k] = Removed -> None
                        [] OTHER                  -> m.pending[k]],
                   !.pending = [k \in Keys |-> Unset]], d)

\* Memory after a read of d.
Read(m, d) ==
  [m EXCEPT !.data = [k \in Keys |-> d[k].sess], !.runs = [k \in Keys |-> d[k].run],
            !.loaded = TRUE, !.readFailed = FALSE,
            !.known = IF Backend THEN {k \in Keys : d[k] # NoRow} ELSE {}]

\* Memory emptied: the start of every loadLocked that is not a no-op.
Emptied(m) ==
  [m EXCEPT !.data = [k \in Keys |-> None], !.runs = [k \in Keys |-> None]]

LoadTableGivesUp(m, d) ==
  ApplyPending(Read(m, d), d) \cup
  (IF Faults THEN ApplyPending([Emptied(m) EXCEPT !.loaded = TRUE], d) ELSE {})

\* loadLocked over a table: on failure the next call tries again.
LoadTable(m, d) ==
  ApplyPending(Read(m, d), d) \cup
  (IF Faults THEN {[m |-> [Emptied(m) EXCEPT !.readFailed = TRUE], d |-> d, ok |-> FALSE]}
   ELSE {})

\* importLegacyFileIntoBackend without a backend, then the rest of loadLocked:
\* the file is read and archived out of the way; a file that cannot be read
\* leaves memory empty and the load done.
LoadFile(m, d) ==
  LET done(n, e) == ApplyPending([n EXCEPT !.loaded = TRUE, !.readFailed = FALSE], e) IN
  done(Read(m, d), [k \in Keys |-> NoRow]) \cup
  (IF Faults THEN done(Read(m, d), d) \cup done(Emptied(m), d) ELSE {})

LoadLocked(m, d) ==
  IF m.loaded THEN {[m |-> m, d |-> d, ok |-> synced]}
  ELSE IF Backend THEN LoadTable(m, d) ELSE LoadFile(m, d)

\* A mutation n of memory that is flushed; one of a session that is not
\* flushed is remembered as pending.
Settle(n, d, k, p) ==
  { [o EXCEPT !.m.pending[k] = IF n.readFailed THEN p ELSE @] :
      o \in FlushUnlessReadFailed(n, d) }

Take(o) == mem' = o.m /\ disk' = o.d /\ synced' = o.ok

Drops(k, S) == obsolete' = obsolete \cup ({k} \X S)

---------------------------------------------------------------------------
(* The methods.                                                            *)

\* The store's part of Save for a session with instance id i.
Put(k, i) ==
  /\ \E l \in LoadLocked(mem, disk) :
       \E o \in Settle([l.m EXCEPT !.data[k] = i], l.d, k, i) : Take(o)
  /\ obsolete' = (obsolete \cup ({k} \X Instances)) \ {<<k, i>>}
  /\ UNCHANGED closed

Save(k, i) == Put(k, i) /\ UNCHANGED exit

\* Save of nil or of a session there is nothing to resume of.
SaveNil(k) ==
  /\ \E l \in LoadLocked(mem, disk) :
       \E o \in Settle([l.m EXCEPT !.data[k] = None], l.d, k, Removed) : Take(o)
  /\ Drops(k, Instances)
  /\ UNCHANGED <<closed, exit>>

RemoveAnyInstance(k, i) ==
  /\ \E l \in LoadLocked(mem, disk) :
       \E o \in Settle([l.m EXCEPT !.data[k] = None], l.d, k, Removed) : Take(o)
  /\ Drops(k, IF i = None THEN Instances ELSE {i})
  /\ UNCHANGED <<closed, exit>>

\* Remove, of the session with instance id i only, or of any (i = None).
Remove(k, i) ==
  /\ \E l \in LoadLocked(mem, disk) :
       \/ /\ l.m.data[k] = None \/ i \notin {None, l.m.data[k]}
          /\ Take(l)
       \/ /\ l.m.data[k] # None /\ i \in {None, l.m.data[k]}
          /\ \E o \in Settle([l.m EXCEPT !.data[k] = None], l.d, k, Removed) : Take(o)
  /\ Drops(k, IF i = None THEN Instances ELSE {i})
  /\ UNCHANGED <<closed, exit>>

\* Load: a session whose grace window is closed is dropped on the way.
Load(k) ==
  /\ \E l \in LoadLocked(mem, disk) :
       \/ /\ l.m.data[k] \notin closed
          /\ Take(l)
       \/ /\ l.m.data[k] \in closed
          /\ \E o \in Settle([l.m EXCEPT !.data[k] = None], l.d, k, Removed) : Take(o)
  /\ Drops(k, closed)
  /\ UNCHANGED <<closed, exit>>

\* SaveRun.
SaveRun(k, r) ==
  /\ \E l \in LoadLocked(mem, disk) :
       \E o \in FlushUnlessReadFailed([l.m EXCEPT !.runs[k] = r], l.d) : Take(o)
  /\ UNCHANGED <<closed, exit, obsolete>>

\* RemoveRun.
RemoveRun(k) ==
  /\ \E l \in LoadLocked(mem, disk) :
       \/ l.m.runs[k] = None /\ Take(l)
       \/ /\ l.m.runs[k] # None
          /\ \E o \in FlushUnlessReadFailed([l.m EXCEPT !.runs[k] = None], l.d) : Take(o)
  /\ UNCHANGED <<closed, exit, obsolete>>

\* LoadRun.
LoadRun(k) ==
  /\ \E l \in LoadLocked(mem, disk) : Take(l)
  /\ UNCHANGED <<closed, exit, obsolete>>

\* Manager.Shutdown saves the live session.
ShutdownSave(k, i) ==
  /\ exit = "no"
  /\ Put(k, i)
  /\ exit' = "verify"

\* Manager.Shutdown reads the file back through a fresh Store of its path; the
\* path is empty with a backend and nothing is read.
ShutdownVerify ==
  /\ exit = "verify"
  /\ exit' = "done"
  /\ IF Backend THEN UNCHANGED disk
     ELSE \E v \in LoadFile(NewStore, disk) : disk' = v.d
  /\ UNCHANGED <<mem, closed, obsolete, synced>>

---------------------------------------------------------------------------
GraceCloses ==
  /\ \E i \in Instances \ closed : closed' = closed \cup {i}
  /\ UNCHANGED <<mem, disk, exit, obsolete, synced>>

\* The process ends, and the next one starts.
Restart ==
  /\ mem # NewStore
  /\ mem' = NewStore /\ synced' = FALSE /\ obsolete' = {} /\ exit' = "no"
  /\ UNCHANGED <<disk, closed>>

Init ==
  /\ mem = NewStore
  /\ disk \in [Keys -> Row]
  /\ closed = {} /\ obsolete = {} /\ synced = FALSE /\ exit = "no"

Next ==
  \/ \E k \in Keys :
       \/ \E i \in Instances : Save(k, i) \/ ShutdownSave(k, i)
       \/ SaveNil(k) \/ Load(k)
       \/ \E i \in Session : Remove(k, i)
       \/ \E r \in RunIds : SaveRun(k, r)
       \/ RemoveRun(k) \/ LoadRun(k)
  \/ ShutdownVerify \/ GraceCloses \/ Restart

Spec == Init /\ [][Next]_vars

---------------------------------------------------------------------------
(* Properties.                                                             *)

\* The Store object, the rows and the histories have their types, and a
\* mutation is pending only while what is on disk could not be read.
TypeOK ==
  /\ mem \in Memory
  /\ disk \in [Keys -> Row]
  /\ closed \subseteq Instances /\ obsolete \subseteq Keys \X Instances
  /\ synced \in BOOLEAN /\ exit \in {"no", "verify", "done"}
  /\ mem.loaded => ~mem.readFailed /\ \A k \in Keys : mem.pending[k] = Unset

\* What the store answers for token k once its disk can be read: the pending
\* mutations of the failure window over what is on disk.
Entry(k) ==
  IF mem.loaded THEN RowOf(mem, k)
  ELSE [sess |-> CASE mem.pending[k] = Unset   -> disk[k].sess
                   [] mem.pending[k] = Removed -> None
                   [] OTHER                    -> mem.pending[k],
        run  |-> disk[k].run]

Durable == INSTANCE DurableMap WITH
  Entries <- Row \ {NoRow}, NoEntry <- NoRow,
  view <- [k \in Keys |-> Entry(k)], rows <- disk

\* The store over a table keeps the promise of DurableMap: whatever reads and
\* writes fail, a call about one token changes the entry of that token only (a
\* failed read in particular makes no other token's entry disappear), and a
\* row holds a value its entry has had.
ImplementsDurableMap == Durable!Spec

\* A row never loses a session that was neither removed nor replaced: an
\* unreadable table is not overwritten with the partial view of memory, which
\* "would destroy every other token's persisted entry" (store.go, readFailed).
NoForeignLoss ==
  [][\A k \in Keys : disk[k].sess # None /\ disk'[k].sess # disk[k].sess
                        => <<k, disk[k].sess>> \in obsolete \cup obsolete']_vars

\* A failed write is made up for: after a flush without failure every session
\* and run in memory is on disk, however many flushes failed before it.
SavesRetried ==
  synced => \A k \in Written(mem) : disk[k] = RowOf(mem, k)

\* flushLocked: "Failures are logged and retried on the next flush".  After a
\* flush without failure there is no row that memory does not have.
DeletesRetried ==
  synced /\ mem.loaded => \A k \in Keys \ Written(mem) : disk[k] = NoRow

\* applyPendingLocked: without it "a Save/Remove made during the failure window
\* would be silently discarded by the reload".  A session that was removed or
\* replaced is not in the store again.
RemovedStaysRemoved ==
  mem.loaded => \A k \in Keys : <<k, mem.data[k]>> \notin obsolete

\* README.md on SESSION_PERSIST: session state is persisted "so a restart
\* resumes them instead of re-creating".  When Manager.Shutdown has saved the
\* session and verified the write, it is on disk for the next process.
KeptOnRecord ==
  exit = "done" /\ synced =>
    \A k \in Keys : mem.data[k] # None => disk[k].sess = mem.data[k]
===========================================================================
