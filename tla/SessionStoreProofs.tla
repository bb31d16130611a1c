------------------------ MODULE SessionStoreProofs ------------------------
(***************************************************************************)
(* Theorems about SessionStore over a database table, for every set of     *)
(* tokens, sessions and runs and every pattern of read and write failures. *)
(*                                                                         *)
(* The argument: a load or a flush changes no token's entry (EntryOf), and *)
(* writes no row anything but the entry.  So only the mutation a method    *)
(* makes between the two shows, and it is about the method's own token.    *)
(***************************************************************************)
EXTENDS SessionStore, TLAPS

\* Entry(k) for memory m over rows d.
EntryOf(m, d, k) ==
  IF m.loaded THEN RowOf(m, k)
  ELSE [sess |-> CASE m.pending[k] = Unset   -> d[k].sess
                   [] m.pending[k] = Removed -> None
                   [] OTHER                  -> m.pending[k],
        run  |-> d[k].run]

\* Memory m over rows d is well formed: mutations are pending only while the
\* rows could not be read.
Good(m, d) ==
  /\ m \in Memory
  /\ d \in [Keys -> Row]
  /\ m.loaded => ~m.readFailed /\ \A k \in Keys : m.pending[k] = Unset

\* An outcome o of reading or writing the table under (m, d).
Outcome(o, m, d) ==
  /\ Good(o.m, o.d)
  /\ o.ok \in BOOLEAN
  /\ ~o.m.loaded <=> o.m.readFailed
  /\ o.m.readFailed => o.d = d

\* Every entry memory m has is on disk.
OnDisk(m, d) == \A k \in Written(m) : d[k] = RowOf(m, k)

\* The entries are as before and rows hold old values or entries.
SameEntries(o, m, d) ==
  \A k \in Keys : /\ EntryOf(o.m, o.d, k) = EntryOf(m, d, k)
                  /\ o.d[k] \in {d[k], EntryOf(m, d, k)}

---------------------------------------------------------------------------
\* An entry is a row.
LEMMA EntryIsRow ==
  ASSUME NEW m, NEW d, Good(m, d), NEW k \in Keys
  PROVE  EntryOf(m, d, k) \in Row
<1>1. m.data[k] \in Session /\ m.runs[k] \in Run /\ d[k] \in Row
      /\ m.pending[k] \in Session \cup {Removed, Unset} /\ None \in Session
  BY DEF Good, Memory, Session
<1>2. d[k].sess \in Session /\ d[k].run \in Run
  BY <1>1 DEF Row
<1> QED
  BY <1>1, <1>2 DEF EntryOf, RowOf, Row

\* A flush over a table changes memory only in the rows it knows of, and
\* writes a row its entry or leaves it alone; without a failure every entry
\* memory has is on disk.
LEMMA FlushedTableFacts ==
  ASSUME NEW m, NEW d, m \in Memory, d \in [Keys -> Row],
         NEW o \in FlushedTable(m, d)
  PROVE  /\ o.m = [m EXCEPT !.known = Written(m)] /\ o.m \in Memory
         /\ o.d \in [Keys -> Row] /\ o.ok \in BOOLEAN
         /\ \A k \in Keys : o.d[k] \in {d[k], RowOf(m, k)}
         /\ o.ok => \A k \in Written(m) : o.d[k] = RowOf(m, k)
<1> DEFINE due == Written(m) \cup m.known
<1>1. PICK bad \in SUBSET due :
        o = [m  |-> [m EXCEPT !.known = Written(m)],
             d  |-> [k \in Keys |-> IF k \in due \ bad THEN RowOf(m, k) ELSE d[k]],
             ok |-> bad = {}]
  BY DEF FlushedTable
<1>2. /\ o.m = [m EXCEPT !.known = Written(m)]
      /\ o.d = [k \in Keys |-> IF k \in due \ bad THEN RowOf(m, k) ELSE d[k]]
      /\ o.ok = (bad = {})
  BY <1>1
<1>3. \A k \in Keys : RowOf(m, k) \in Row
  BY DEF RowOf, Row, Memory
<1>4. Written(m) \subseteq Keys
  BY DEF Written
<1>5. o.m \in Memory
  BY <1>2, <1>4 DEF Memory
<1>6. o.d \in [Keys -> Row]
  BY <1>2, <1>3
<1>7. \A k \in Keys : o.d[k] \in {d[k], RowOf(m, k)}
  BY <1>2
<1>8. o.ok => \A k \in Written(m) : o.d[k] = RowOf(m, k)
  BY <1>2, <1>4
<1> QED
  BY <1>2, <1>5, <1>6, <1>7, <1>8

---------------------------------------------------------------------------
\* Pending mutations that are applied to freshly read memory are the entries.
LEMMA ApplyPendingFacts ==
  ASSUME Backend, NEW m, NEW d, Good(m, d), ~m.loaded,
         NEW o \in ApplyPending(Read(m, d), d)
  PROVE  /\ Outcome(o, m, d) /\ SameEntries(o, m, d) /\ o.m.loaded
         /\ o.ok => OnDisk(o.m, o.d)
<1> DEFINE r == Read(m, d)
           merged == [k \in Keys |-> CASE r.pending[k] = Unset   -> r.data[k]
                                       [] r.pending[k] = Removed -> None
                                       [] OTHER                  -> r.pending[k]]
           n == [r EXCEPT !.data = merged, !.pending = [k \in Keys |-> Unset]]
<1>0. \A k \in Keys : d[k] \in Row /\ d[k].sess \in Session /\ d[k].run \in Run
  BY DEF Good, Row
<1>1. /\ r \in Memory /\ r.data = [k \in Keys |-> d[k].sess]
      /\ r.runs = [k \in Keys |-> d[k].run] /\ r.pending = m.pending
      /\ r.loaded /\ ~r.readFailed
  BY <1>0 DEF Read, Good, Memory
<1>2. CASE \A k \in Keys : r.pending[k] = Unset
  <2>1. o = [m |-> r, d |-> d, ok |-> FALSE]
    BY <1>2 DEF ApplyPending
  <2> HIDE DEF r, merged, n
  <2>2. o.m = r /\ o.d = d /\ o.ok = FALSE
    BY <2>1
  <2>3. \A k \in Keys : RowOf(r, k) = [sess |-> d[k].sess, run |-> d[k].run]
    BY <1>1 DEF RowOf
  <2>4. \A k \in Keys : EntryOf(m, d, k) = [sess |-> d[k].sess, run |-> d[k].run]
    <3> SUFFICES ASSUME NEW k \in Keys
                 PROVE  EntryOf(m, d, k) = [sess |-> d[k].sess, run |-> d[k].run]
      OBVIOUS
    <3>1. m.pending[k] = Unset
      BY <1>1, <1>2
    <3> QED
      BY <3>1, StoreAssumption DEF EntryOf, StoreAssumption
  <2>5. \A k \in Keys : EntryOf(r, d, k) = EntryOf(m, d, k)
    BY <1>1, <2>3, <2>4 DEF EntryOf
  <2>6. Good(r, d)
    BY <1>1, <1>2 DEF Good
  <2> QED
    BY <1>1, <2>2, <2>5, <2>6 DEF Outcome, SameEntries
<1>3. CASE ~ \A k \in Keys : r.pending[k] = Unset
  <2>1. o \in FlushedTable(n, d)
    BY <1>3 DEF ApplyPending, FlushLocked
  <2>2. merged \in [Keys -> Session]
    <3>1. \A k \in Keys : r.pending[k] \in Session \cup {Removed, Unset}
      BY <1>1 DEF Memory
    <3>2. \A k \in Keys : r.data[k] \in Session
      BY <1>0, <1>1
    <3>3. None \in Session
      BY DEF Session
    <3>4. \A k \in Keys : merged[k] \in Session
      BY <3>1, <3>2, <3>3
    <3> QED
      BY <3>4
  <2>3. [k \in Keys |-> Unset] \in [Keys -> Session \cup {Removed, Unset}]
    OBVIOUS
  <2>4. /\ n \in Memory /\ n.data = merged /\ n.runs = r.runs
        /\ n.pending = [k \in Keys |-> Unset] /\ n.loaded /\ ~n.readFailed
    <3> HIDE DEF r, merged
    <3> QED
      BY <1>1, <2>2, <2>3 DEF Memory
  <2> HIDE DEF n
  <2>5. /\ o.m = [n EXCEPT !.known = Written(n)] /\ o.m \in Memory
        /\ o.d \in [Keys -> Row] /\ o.ok \in BOOLEAN
        /\ \A k \in Keys : o.d[k] \in {d[k], RowOf(n, k)}
        /\ o.ok => \A k \in Written(n) : o.d[k] = RowOf(n, k)
    BY <2>1, <2>4, FlushedTableFacts DEF Good
  <2>6. /\ o.m.data = n.data /\ o.m.runs = n.runs /\ o.m.pending = n.pending
        /\ o.m.loaded /\ ~o.m.readFailed
    BY <2>4, <2>5 DEF Memory
  <2>7. \A k \in Keys : RowOf(o.m, k) = RowOf(n, k)
    BY <2>6 DEF RowOf
  <2>8. \A k \in Keys : EntryOf(m, d, k) = RowOf(n, k)
    <3> TAKE k \in Keys
    <3>1. RowOf(n, k) = [sess |-> merged[k], run |-> d[k].run]
      BY <1>1, <2>4 DEF RowOf
    <3>2. merged[k] = CASE m.pending[k] = Unset   -> d[k].sess
                        [] m.pending[k] = Removed -> None
                        [] OTHER                  -> m.pending[k]
      BY <1>1
    <3> HIDE DEF merged
    <3> QED
      BY <3>1, <3>2 DEF EntryOf
  <2>9. \A k \in Keys : EntryOf(o.m, o.d, k) = RowOf(n, k)
    BY <2>6, <2>7 DEF EntryOf
  <2>10. Good(o.m, o.d)
    BY <2>4, <2>5, <2>6 DEF Good
  <2>11. Written(o.m) = Written(n)
    BY <2>7 DEF Written
  <2>12. Outcome(o, m, d)
    BY <2>5, <2>6, <2>10 DEF Outcome
  <2>13. SameEntries(o, m, d)
    BY <2>5, <2>8, <2>9 DEF SameEntries
  <2>14. \A k \in Written(n) : k \in Keys
    BY DEF Written
  <2> QED
    BY <2>5, <2>6, <2>7, <2>11, <2>12, <2>13, <2>14 DEF OnDisk
<1> QED
  BY <1>2, <1>3

\* loadLocked, whether it reads, fails to read or has nothing to do, changes no
\* entry.
LEMMA LoadFacts ==
  ASSUME Backend, NEW m, NEW d, Good(m, d), synced \in BOOLEAN,
         synced => OnDisk(m, d),
         NEW l \in LoadLocked(m, d)
  PROVE  /\ Outcome(l, m, d) /\ SameEntries(l, m, d)
         /\ l.ok => OnDisk(l.m, l.d)
         /\ ~l.m.loaded => \A k \in Keys : l.m.data[k] = None
<1>0. m.loaded \in BOOLEAN /\ m.readFailed \in BOOLEAN
  BY DEF Good, Memory
<1>1. CASE m.loaded
  <2>1. l = [m |-> m, d |-> d, ok |-> synced]
    BY <1>1 DEF LoadLocked
  <2>2. l.m = m /\ l.d = d /\ l.ok = synced
    BY <2>1
  <2> QED
    BY <1>0, <1>1, <2>2 DEF Outcome, SameEntries, Good
<1>2. CASE ~m.loaded
  <2> DEFINE e == [Emptied(m) EXCEPT !.readFailed = TRUE]
  <2>1. \/ l \in ApplyPending(Read(m, d), d)
        \/ l = [m |-> e, d |-> d, ok |-> FALSE]
    BY <1>2 DEF LoadLocked, LoadTable
  <2>2. CASE l \in ApplyPending(Read(m, d), d)
    BY <1>2, <2>2, ApplyPendingFacts
  <2>3. CASE l = [m |-> e, d |-> d, ok |-> FALSE]
    <3>1. l.m = e /\ l.d = d /\ l.ok = FALSE
      BY <2>3
    <3>2. None \in Session /\ None \in Run
      BY DEF Session, Run
    <3>3. /\ e \in Memory /\ e.pending = m.pending /\ e.loaded = m.loaded /\ e.readFailed
          /\ \A k \in Keys : e.data[k] = None
      BY <3>2 DEF Good, Memory, Emptied
    <3> HIDE DEF e
    <3>4. Good(e, d)
      BY <1>2, <3>3 DEF Good
    <3>5. \A k \in Keys : EntryOf(e, d, k) = EntryOf(m, d, k)
      BY <1>2, <3>3 DEF EntryOf
    <3> QED
      BY <1>2, <3>1, <3>3, <3>4, <3>5 DEF Outcome, SameEntries
  <2> QED
    BY <2>1, <2>2, <2>3
<1> QED
  BY <1>0, <1>1, <1>2

---------------------------------------------------------------------------
(* A method: load, a change of the own token's entry, flush.               *)

\* What a method about token k makes of (m, d), given that it loaded l.
CallOK(o, m, d, k) ==
  /\ Good(o.m, o.d) /\ o.ok \in BOOLEAN
  /\ \A j \in Keys \ {k} : EntryOf(o.m, o.d, j) = EntryOf(m, d, j)
  /\ \A j \in Keys : o.d[j] \in {d[j], EntryOf(m, d, j), EntryOf(o.m, o.d, j)}

\* The entries a flush shows are those of the memory it flushes.
LEMMA FlushFacts ==
  ASSUME Backend, NEW n, NEW e, Good(n, e), n.loaded,
         NEW o \in FlushUnlessReadFailed(n, e)
  PROVE  /\ Good(o.m, o.d) /\ o.ok \in BOOLEAN /\ o.m.loaded
         /\ o.m.pending = n.pending
         /\ \A k \in Keys : EntryOf(o.m, o.d, k) = RowOf(n, k)
         /\ \A k \in Keys : o.d[k] \in {e[k], RowOf(n, k)}
         /\ o.ok => OnDisk(o.m, o.d)
<1>1. o \in FlushedTable(n, e)
  BY DEF FlushUnlessReadFailed, FlushLocked, Good
<1>2. /\ o.m = [n EXCEPT !.known = Written(n)] /\ o.m \in Memory
      /\ o.d \in [Keys -> Row] /\ o.ok \in BOOLEAN
      /\ \A k \in Keys : o.d[k] \in {e[k], RowOf(n, k)}
      /\ o.ok => \A k \in Written(n) : o.d[k] = RowOf(n, k)
  BY <1>1, FlushedTableFacts DEF Good
<1>3. /\ o.m.data = n.data /\ o.m.runs = n.runs /\ o.m.pending = n.pending
      /\ o.m.loaded = n.loaded /\ o.m.readFailed = n.readFailed
  BY <1>2 DEF Good, Memory
<1>4. \A k \in Keys : RowOf(o.m, k) = RowOf(n, k)
  BY <1>3 DEF RowOf
<1>5. \A k \in Keys : EntryOf(o.m, o.d, k) = RowOf(n, k)
  BY <1>3, <1>4 DEF EntryOf
<1>6. Written(o.m) = Written(n) /\ Written(n) \subseteq Keys
  BY <1>4 DEF Written
<1>7. Good(o.m, o.d)
  BY <1>2, <1>3 DEF Good
<1>8. o.ok => OnDisk(o.m, o.d)
  BY <1>2, <1>4, <1>6 DEF OnDisk
<1> QED
  BY <1>2, <1>3, <1>5, <1>7, <1>8

\* A session of token k is set to i (None to drop it), p being what is
\* remembered when nothing can be written.
LEMMA SettleFacts ==
  ASSUME Backend, NEW m, NEW d, Good(m, d), NEW l, Outcome(l, m, d), SameEntries(l, m, d),
         NEW k \in Keys, NEW i \in Session, NEW p \in Instances \cup {Removed},
         IF i = None THEN p = Removed ELSE p = i,
         NEW o \in Settle([l.m EXCEPT !.data[k] = i], l.d, k, p)
  PROVE  /\ CallOK(o, m, d, k)
         /\ EntryOf(o.m, o.d, k).sess = i
         /\ o.ok => OnDisk(o.m, o.d)
<1> DEFINE n == [l.m EXCEPT !.data[k] = i]
<1>1. /\ n \in Memory /\ n.data = [l.m.data EXCEPT ![k] = i] /\ n.runs = l.m.runs
      /\ n.pending = l.m.pending /\ n.loaded = l.m.loaded
      /\ n.readFailed = l.m.readFailed
  BY DEF Outcome, Good, Memory
<1>2. PICK q \in FlushUnlessReadFailed(n, l.d) :
        o = [q EXCEPT !.m.pending[k] = IF n.readFailed THEN p ELSE @]
  BY DEF Settle
<1> HIDE DEF n
<1>3. Good(n, l.d)
  BY <1>1 DEF Outcome, Good
<1>4. /\ \A j \in Keys \ {k} : RowOf(n, j) = RowOf(l.m, j)
      /\ RowOf(n, k) = [sess |-> i, run |-> l.m.runs[k]]
  BY <1>1 DEF RowOf, Outcome, Good, Memory
<1>5. CASE ~n.readFailed
  <2>1. n.loaded /\ l.m.loaded
    BY <1>1, <1>5 DEF Outcome
  <2>2. /\ Good(q.m, q.d) /\ q.ok \in BOOLEAN /\ q.m.loaded
        /\ q.m.pending = n.pending
        /\ \A j \in Keys : EntryOf(q.m, q.d, j) = RowOf(n, j)
        /\ \A j \in Keys : q.d[j] \in {l.d[j], RowOf(n, j)}
        /\ q.ok => OnDisk(q.m, q.d)
    BY <1>2, <1>3, <2>1, FlushFacts
  <2>3. \E M, D, K : q = [m |-> M, d |-> D, ok |-> K]
    BY <1>2, <1>5 DEF FlushUnlessReadFailed, FlushLocked, FlushedTable
  <2>4. o = q
    <3>1. PICK M, D, K : q = [m |-> M, d |-> D, ok |-> K]
      BY <2>3
    <3>2. q.m \in Memory
      BY <2>2 DEF Good
    <3>3. [q.m EXCEPT !.pending[k] = @] = q.m
      BY <3>2 DEF Memory
    <3>4. o = [q EXCEPT !.m.pending[k] = @]
      BY <1>2, <1>5
    <3>5. o = [q EXCEPT !.m = [q.m EXCEPT !.pending[k] = @]]
      BY <3>4
    <3> QED
      BY <3>1, <3>3, <3>5
  <2>5. \A j \in Keys : EntryOf(l.m, l.d, j) = RowOf(l.m, j)
    BY <2>1 DEF EntryOf
  <2>6. CallOK(o, m, d, k)
    BY <1>4, <2>2, <2>4, <2>5 DEF CallOK, SameEntries
  <2> QED
    BY <1>4, <2>2, <2>4, <2>6
<1>6. CASE n.readFailed
  <2>1. /\ ~n.loaded /\ l.d = d
    BY <1>1, <1>6 DEF Outcome, Good, Memory
  <2>2. q = [m |-> n, d |-> l.d, ok |-> FALSE]
    BY <1>2, <1>6 DEF FlushUnlessReadFailed
  <2> DEFINE w == [n EXCEPT !.pending[k] = p]
  <2>3. o.m = w /\ o.d = d /\ o.ok = FALSE
    BY <1>2, <1>6, <2>1, <2>2
  <2>4. /\ w \in Memory /\ w.pending = [n.pending EXCEPT ![k] = p]
        /\ ~w.loaded
    BY <1>1, <2>1 DEF Memory, Session
  <2> HIDE DEF w
  <2>5. Good(w, d)
    BY <2>4 DEF Good
  <2>6. \A j \in Keys \ {k} : EntryOf(w, d, j) = EntryOf(l.m, l.d, j)
    BY <1>1, <2>1, <2>4 DEF EntryOf, Memory
  <2>7. EntryOf(w, d, k).sess = i
    <3>1. w.pending[k] = p
      BY <1>1, <2>4 DEF Memory
    <3>2. p # Unset /\ (p = Removed <=> i = None)
      BY StoreAssumption DEF StoreAssumption, Session
    <3> QED
      BY <2>4, <3>1, <3>2 DEF EntryOf
  <2>8. CallOK(o, m, d, k)
    BY <2>3, <2>5, <2>6 DEF CallOK, SameEntries
  <2> QED
    BY <2>3, <2>7, <2>8
<1>7. n.readFailed \in BOOLEAN
  BY <1>1 DEF Memory
<1> QED
  BY <1>5, <1>6, <1>7

\* The run of token k is set to r (None to drop it); in the failure window the
\* change stays invisible.
LEMMA SetRunFacts ==
  ASSUME Backend, NEW m, NEW d, Good(m, d), NEW l, Outcome(l, m, d), SameEntries(l, m, d),
         NEW k \in Keys, NEW r \in Run,
         NEW o \in FlushUnlessReadFailed([l.m EXCEPT !.runs[k] = r], l.d)
  PROVE  /\ CallOK(o, m, d, k)
         /\ EntryOf(o.m, o.d, k).sess = EntryOf(m, d, k).sess
         /\ o.ok => OnDisk(o.m, o.d)
<1> DEFINE n == [l.m EXCEPT !.runs[k] = r]
<1>1. /\ n \in Memory /\ n.data = l.m.data /\ n.runs = [l.m.runs EXCEPT ![k] = r]
      /\ n.pending = l.m.pending /\ n.loaded = l.m.loaded
      /\ n.readFailed = l.m.readFailed
  BY DEF Outcome, Good, Memory
<1>2. o \in FlushUnlessReadFailed(n, l.d)
  OBVIOUS
<1> HIDE DEF n
<1>3. Good(n, l.d)
  BY <1>1 DEF Outcome, Good
<1>4. /\ \A j \in Keys \ {k} : RowOf(n, j) = RowOf(l.m, j)
      /\ RowOf(n, k) = [sess |-> l.m.data[k], run |-> r]
  BY <1>1 DEF RowOf, Outcome, Good, Memory
<1>5. CASE ~n.readFailed
  <2>1. n.loaded /\ l.m.loaded
    BY <1>1, <1>5 DEF Outcome
  <2>2. /\ Good(o.m, o.d) /\ o.ok \in BOOLEAN
        /\ \A j \in Keys : EntryOf(o.m, o.d, j) = RowOf(n, j)
        /\ \A j \in Keys : o.d[j] \in {l.d[j], RowOf(n, j)}
        /\ o.ok => OnDisk(o.m, o.d)
    BY <1>2, <1>3, <2>1, FlushFacts
  <2>3. \A j \in Keys : EntryOf(l.m, l.d, j) = RowOf(l.m, j)
    BY <2>1 DEF EntryOf
  <2>4. CallOK(o, m, d, k)
    BY <1>4, <2>2, <2>3 DEF CallOK, SameEntries
  <2>5. EntryOf(m, d, k).sess = l.m.data[k]
    <3>1. EntryOf(m, d, k) = RowOf(l.m, k)
      BY <2>3 DEF SameEntries
    <3> QED
      BY <3>1 DEF RowOf
  <2> QED
    BY <1>4, <2>2, <2>4, <2>5
<1>6. CASE n.readFailed
  <2>1. ~n.loaded /\ l.d = d
    BY <1>1, <1>6 DEF Outcome, Good, Memory
  <2>2. o = [m |-> n, d |-> l.d, ok |-> FALSE]
    BY <1>2, <1>6 DEF FlushUnlessReadFailed
  <2>3. o.m = n /\ o.d = d /\ o.ok = FALSE
    BY <2>1, <2>2
  <2>4. \A j \in Keys : EntryOf(n, d, j) = EntryOf(l.m, l.d, j)
    BY <1>1, <2>1 DEF EntryOf
  <2> QED
    BY <1>3, <2>1, <2>3, <2>4 DEF CallOK, SameEntries
<1>7. n.readFailed \in BOOLEAN
  BY <1>1 DEF Memory
<1> QED
  BY <1>5, <1>6, <1>7

---------------------------------------------------------------------------
(* The inductive invariant and the steps.                                  *)

View(k)  == EntryOf(mem, disk, k)

\* A row lags behind its entry only with a session that is obsolete.
RowsKept ==
  \A k \in Keys : \/ disk[k].sess \in {None, View(k).sess}
                  \/ <<k, disk[k].sess>> \in obsolete

TableInv == TypeOK /\ SavesRetried /\ RowsKept

\* What a call about token k may do: other entries stay, rows catch up, and
\* the session that leaves the entry is obsolete.
CallStep(k) ==
  /\ Good(mem', disk') /\ synced' \in BOOLEAN
  /\ \A j \in Keys \ {k} : View(j)' = View(j)
  /\ \A j \in Keys : disk'[j] \in {disk[j], View(j), View(j)'}
  /\ synced' => OnDisk(mem', disk')
  /\ closed' = closed /\ exit' \in {"no", "verify", "done"}
  /\ obsolete' \subseteq Keys \X Instances
  /\ \A j \in Keys \ {k}, i \in Instances : <<j, i>> \in obsolete => <<j, i>> \in obsolete'
  /\ \A i \in Instances : <<k, i>> \in obsolete => <<k, i>> \in obsolete' \/ View(k)'.sess = i
  /\ View(k).sess \in {None, View(k)'.sess} \/ <<k, View(k).sess>> \in obsolete'

\* A method that loads and changes nothing.
LEMMA TakeLoaded ==
  ASSUME Backend, TableInv, NEW k \in Keys, NEW l \in LoadLocked(mem, disk), Take(l),
         UNCHANGED closed, exit' \in {"no", "verify", "done"},
         NEW S \in SUBSET Instances, obsolete' = obsolete \cup ({k} \X S)
  PROVE  CallStep(k)
<1>1. Good(mem, disk) /\ synced \in BOOLEAN /\ (synced => OnDisk(mem, disk))
  BY DEF TableInv, TypeOK, Good, SavesRetried, OnDisk
<1>2. Outcome(l, mem, disk) /\ SameEntries(l, mem, disk) /\ (l.ok => OnDisk(l.m, l.d))
  BY <1>1, LoadFacts
<1>3. mem' = l.m /\ disk' = l.d /\ synced' = l.ok
  BY DEF Take
<1>4. \A j \in Keys : View(j)' = View(j) /\ disk'[j] \in {disk[j], View(j)}
  BY <1>2, <1>3 DEF SameEntries, View
<1>5. Good(mem', disk') /\ synced' \in BOOLEAN /\ (synced' => OnDisk(mem', disk'))
  BY <1>2, <1>3 DEF Outcome
<1>6. obsolete' \subseteq Keys \X Instances /\ obsolete \subseteq obsolete'
  BY DEF TableInv, TypeOK
<1> QED
  BY <1>4, <1>5, <1>6 DEF CallStep

\* A method that loads, sets the session of token k to i and flushes.
LEMMA TakeSettled ==
  ASSUME Backend, TableInv, NEW k \in Keys, NEW l \in LoadLocked(mem, disk),
         NEW i \in Session, NEW p \in Instances \cup {Removed},
         IF i = None THEN p = Removed ELSE p = i,
         NEW o \in Settle([l.m EXCEPT !.data[k] = i], l.d, k, p), Take(o),
         UNCHANGED closed, exit' \in {"no", "verify", "done"},
         obsolete' \subseteq Keys \X Instances,
         \A j \in Keys \ {k}, s \in Instances : <<j, s>> \in obsolete => <<j, s>> \in obsolete',
         \A s \in Instances : <<k, s>> \in obsolete => <<k, s>> \in obsolete' \/ s = i,
         View(k).sess \in {None, i} \/ <<k, View(k).sess>> \in obsolete'
  PROVE  CallStep(k)
<1>1. Good(mem, disk) /\ synced \in BOOLEAN /\ (synced => OnDisk(mem, disk))
  BY DEF TableInv, TypeOK, Good, SavesRetried, OnDisk
<1>2. Outcome(l, mem, disk) /\ SameEntries(l, mem, disk)
  BY <1>1, LoadFacts
<1>3. mem' = o.m /\ disk' = o.d /\ synced' = o.ok
  BY DEF Take
<1>4. CallOK(o, mem, disk, k) /\ EntryOf(o.m, o.d, k).sess = i /\ (o.ok => OnDisk(o.m, o.d))
  BY <1>1, <1>2, SettleFacts
<1>5. /\ \A j \in Keys \ {k} : View(j)' = View(j)
      /\ \A j \in Keys : disk'[j] \in {disk[j], View(j), View(j)'}
      /\ View(k)'.sess = i
  BY <1>3, <1>4 DEF CallOK, View
<1>6. Good(mem', disk') /\ synced' \in BOOLEAN /\ (synced' => OnDisk(mem', disk'))
  BY <1>3, <1>4 DEF CallOK
<1> QED
  BY <1>5, <1>6 DEF CallStep

\* A method that loads, sets the run of token k and flushes.
LEMMA TakeRun ==
  ASSUME Backend, TableInv, NEW k \in Keys, NEW l \in LoadLocked(mem, disk), NEW r \in Run,
         NEW o \in FlushUnlessReadFailed([l.m EXCEPT !.runs[k] = r], l.d), Take(o),
         UNCHANGED <<closed, exit, obsolete>>
  PROVE  CallStep(k)
<1>1. Good(mem, disk) /\ synced \in BOOLEAN /\ (synced => OnDisk(mem, disk))
  BY DEF TableInv, TypeOK, Good, SavesRetried, OnDisk
<1>2. Outcome(l, mem, disk) /\ SameEntries(l, mem, disk)
  BY <1>1, LoadFacts
<1>3. mem' = o.m /\ disk' = o.d /\ synced' = o.ok
  BY DEF Take
<1>4. /\ CallOK(o, mem, disk, k) /\ (o.ok => OnDisk(o.m, o.d))
      /\ EntryOf(o.m, o.d, k).sess = EntryOf(mem, disk, k).sess
  BY <1>1, <1>2, SetRunFacts
<1>5. /\ \A j \in Keys \ {k} : View(j)' = View(j)
      /\ \A j \in Keys : disk'[j] \in {disk[j], View(j), View(j)'}
      /\ View(k)'.sess = View(k).sess
  BY <1>3, <1>4 DEF CallOK, View
<1>6. Good(mem', disk') /\ synced' \in BOOLEAN /\ (synced' => OnDisk(mem', disk'))
  BY <1>3, <1>4 DEF CallOK
<1>7. exit \in {"no", "verify", "done"} /\ obsolete \subseteq Keys \X Instances
  BY DEF TableInv, TypeOK
<1> QED
  BY <1>5, <1>6, <1>7 DEF CallStep

\* While memory is not loaded it holds no session.
LEMMA LoadedEntry ==
  ASSUME Backend, TableInv, NEW k \in Keys, NEW l \in LoadLocked(mem, disk),
         l.m.data[k] # None
  PROVE  View(k).sess = l.m.data[k]
<1>1. Good(mem, disk) /\ synced \in BOOLEAN /\ (synced => OnDisk(mem, disk))
  BY DEF TableInv, TypeOK, Good, SavesRetried, OnDisk
<1>2. /\ Outcome(l, mem, disk) /\ SameEntries(l, mem, disk)
      /\ ~l.m.loaded => \A j \in Keys : l.m.data[j] = None
  BY <1>1, LoadFacts
<1>3. l.m.loaded
  BY <1>2 DEF Outcome, Good, Memory
<1> QED
  BY <1>2, <1>3 DEF SameEntries, View, EntryOf, RowOf

---------------------------------------------------------------------------
\* Every method is a call about its token.
LEMMA Methods ==
  ASSUME Backend, TableInv, NEW k \in Keys,
         \/ \E i \in Instances : Save(k, i) \/ ShutdownSave(k, i)
         \/ SaveNil(k) \/ Load(k)
         \/ \E i \in Session : Remove(k, i)
         \/ \E r \in RunIds : SaveRun(k, r)
         \/ RemoveRun(k) \/ LoadRun(k)
  PROVE  CallStep(k)
<1>0. /\ None \in Session /\ None \in Run /\ None \notin Instances
      /\ Instances \subseteq Session /\ RunIds \subseteq Run
      /\ exit \in {"no", "verify", "done"} /\ obsolete \subseteq Keys \X Instances
      /\ closed \subseteq Instances
  BY StoreAssumption DEF StoreAssumption, Session, Run, TableInv, TypeOK
<1>1. View(k).sess \in Session
  BY EntryIsRow DEF View, TableInv, TypeOK, Good, Row
<1>2. ASSUME NEW i \in Instances, Put(k, i), exit' \in {"no", "verify", "done"}
      PROVE  CallStep(k)
  <2>1. PICK l \in LoadLocked(mem, disk) :
          \E o \in Settle([l.m EXCEPT !.data[k] = i], l.d, k, i) : Take(o)
    BY <1>2 DEF Put
  <2>2. PICK o \in Settle([l.m EXCEPT !.data[k] = i], l.d, k, i) : Take(o)
    BY <2>1
  <2>3. /\ obsolete' = (obsolete \cup ({k} \X Instances)) \ {<<k, i>>}
        /\ UNCHANGED closed
    BY <1>2 DEF Put
  <2>4. /\ obsolete' \subseteq Keys \X Instances
        /\ \A j \in Keys \ {k}, s \in Instances : <<j, s>> \in obsolete => <<j, s>> \in obsolete'
        /\ \A s \in Instances : <<k, s>> \in obsolete => <<k, s>> \in obsolete' \/ s = i
        /\ View(k).sess \in {None, i} \/ <<k, View(k).sess>> \in obsolete'
    BY <1>0, <1>1, <2>3 DEF Session
  <2> QED
    BY <1>0, <1>2, <2>2, <2>3, <2>4, TakeSettled
<1>3. ASSUME NEW l \in LoadLocked(mem, disk),
             NEW o \in Settle([l.m EXCEPT !.data[k] = None], l.d, k, Removed), Take(o),
             NEW S \in SUBSET Instances, Drops(k, S), UNCHANGED <<closed, exit>>,
             View(k).sess \in S \cup {None}
      PROVE  CallStep(k)
  <2>1. /\ obsolete' \subseteq Keys \X Instances
        /\ \A j \in Keys \ {k}, s \in Instances : <<j, s>> \in obsolete => <<j, s>> \in obsolete'
        /\ \A s \in Instances : <<k, s>> \in obsolete => <<k, s>> \in obsolete'
        /\ View(k).sess = None \/ <<k, View(k).sess>> \in obsolete'
    BY <1>0, <1>3 DEF Drops
  <2> QED
    BY <1>0, <1>3, <2>1, TakeSettled
<1>4. ASSUME NEW i \in Instances, Save(k, i)  PROVE CallStep(k)
  BY <1>0, <1>2, <1>4 DEF Save
<1>5. ASSUME NEW i \in Instances, ShutdownSave(k, i)  PROVE CallStep(k)
  BY <1>2, <1>5 DEF ShutdownSave
<1>6. CASE SaveNil(k)
  <2>1. PICK l \in LoadLocked(mem, disk) :
          \E o \in Settle([l.m EXCEPT !.data[k] = None], l.d, k, Removed) : Take(o)
    BY <1>6 DEF SaveNil
  <2>2. View(k).sess \in Instances \cup {None}
    BY <1>1 DEF Session
  <2> QED
    BY <1>3, <1>6, <2>1, <2>2 DEF SaveNil
<1>7. CASE Load(k)
  <2>1. PICK l \in LoadLocked(mem, disk) :
          \/ /\ l.m.data[k] \notin closed
             /\ Take(l)
          \/ /\ l.m.data[k] \in closed
             /\ \E o \in Settle([l.m EXCEPT !.data[k] = None], l.d, k, Removed) : Take(o)
    BY <1>7 DEF Load
  <2>2. Drops(k, closed) /\ UNCHANGED <<closed, exit>>
    BY <1>7 DEF Load
  <2>3. CASE Take(l)
    BY <1>0, <2>2, <2>3, TakeLoaded DEF Drops
  <2>4. CASE /\ l.m.data[k] \in closed
             /\ \E o \in Settle([l.m EXCEPT !.data[k] = None], l.d, k, Removed) : Take(o)
    <3>1. View(k).sess = l.m.data[k]
      BY <1>0, <2>4, LoadedEntry
    <3> QED
      BY <1>0, <1>3, <2>2, <2>4, <3>1
  <2> QED
    BY <2>1, <2>3, <2>4
<1>8. ASSUME NEW i \in Session, Remove(k, i)  PROVE CallStep(k)
  <2> DEFINE S == IF i = None THEN Instances ELSE {i}
  <2>1. PICK l \in LoadLocked(mem, disk) :
          \/ Take(l)
          \/ /\ l.m.data[k] # None /\ i \in {None, l.m.data[k]}
             /\ \E o \in Settle([l.m EXCEPT !.data[k] = None], l.d, k, Removed) : Take(o)
    BY <1>8 DEF Remove
  <2>2. Drops(k, S) /\ UNCHANGED <<closed, exit>> /\ S \in SUBSET Instances
    BY <1>8 DEF Remove, Session
  <2>3. CASE Take(l)
    <3> HIDE DEF S
    <3> QED
      BY <1>0, <2>2, <2>3, TakeLoaded DEF Drops
  <2>4. CASE /\ l.m.data[k] # None /\ i \in {None, l.m.data[k]}
             /\ \E o \in Settle([l.m EXCEPT !.data[k] = None], l.d, k, Removed) : Take(o)
    <3>1. View(k).sess = l.m.data[k]
      BY <2>4, LoadedEntry
    <3>2. View(k).sess \in S \cup {None}
      BY <1>1, <2>4, <3>1 DEF Session
    <3> HIDE DEF S
    <3> QED
      BY <1>3, <2>2, <2>4, <3>2
  <2> QED
    BY <2>1, <2>3, <2>4
<1>9. ASSUME NEW r \in RunIds, SaveRun(k, r)  PROVE CallStep(k)
  BY <1>0, <1>9, TakeRun DEF SaveRun
<1>10. ASSUME NEW l \in LoadLocked(mem, disk), Take(l), UNCHANGED <<closed, exit, obsolete>>
       PROVE  CallStep(k)
  <2> DEFINE S == {}
  <2>1. S \in SUBSET Instances /\ obsolete' = obsolete \cup ({k} \X S)
    BY <1>10
  <2> HIDE DEF S
  <2> QED
    BY <1>0, <1>10, <2>1, TakeLoaded
<1>11. CASE RemoveRun(k)
  <2>1. PICK l \in LoadLocked(mem, disk) :
          \/ Take(l)
          \/ \E o \in FlushUnlessReadFailed([l.m EXCEPT !.runs[k] = None], l.d) : Take(o)
    BY <1>11 DEF RemoveRun
  <2>2. UNCHANGED <<closed, exit, obsolete>>
    BY <1>11 DEF RemoveRun
  <2>3. CASE Take(l)
    BY <1>10, <2>2, <2>3
  <2>4. CASE \E o \in FlushUnlessReadFailed([l.m EXCEPT !.runs[k] = None], l.d) : Take(o)
    BY <1>0, <2>2, <2>4, TakeRun
  <2> QED
    BY <2>1, <2>3, <2>4
<1>12. CASE LoadRun(k)
  BY <1>10, <1>12 DEF LoadRun
<1> QED
  BY <1>4, <1>5, <1>6, <1>7, <1>8, <1>9, <1>11, <1>12

\* A call keeps the invariant.
LEMMA CallKeepsInv ==
  ASSUME TableInv, NEW k \in Keys, CallStep(k)
  PROVE  TableInv'
<1>1. TypeOK'
  BY DEF TableInv, TypeOK, CallStep, Good
<1>2. SavesRetried'
  BY DEF CallStep, SavesRetried, OnDisk
<1>3. RowsKept'
  <2> SUFFICES ASSUME NEW j \in Keys, disk'[j].sess # None, disk'[j].sess # View(j)'.sess
               PROVE  <<j, disk'[j].sess>> \in obsolete'
    BY DEF RowsKept
  <2>1. disk'[j] \in {disk[j], View(j)}
    BY DEF CallStep
  <2>2. Good(mem, disk)
    BY DEF TableInv, TypeOK, Good
  <2>3. disk[j] \in Row /\ View(j) \in Row
    BY <2>2, EntryIsRow DEF View, Good
  <2>4. disk'[j].sess \in Instances
    BY <2>1, <2>3 DEF Row, Session
  <2>5. CASE disk'[j].sess = View(j).sess
    BY <2>4, <2>5 DEF CallStep
  <2>6. CASE disk'[j].sess # View(j).sess
    <3>1. disk'[j] = disk[j]
      BY <2>1, <2>6
    <3>2. <<j, disk'[j].sess>> \in obsolete
      BY <2>6, <3>1 DEF TableInv, RowsKept
    <3> QED
      BY <2>4, <3>2 DEF CallStep
  <2> QED
    BY <2>5, <2>6
<1> QED
  BY <1>1, <1>2, <1>3 DEF TableInv

\* A new process reads what is on disk.
LEMMA FreshView ==
  ASSUME NEW d \in [Keys -> Row], NEW k \in Keys
  PROVE  EntryOf(NewStore, d, k) = d[k]
<1>1. NewStore.loaded = FALSE /\ NewStore.pending[k] = Unset
  BY DEF NewStore
<1>2. EntryOf(NewStore, d, k) = [sess |-> d[k].sess, run |-> d[k].run]
  BY <1>1, StoreAssumption DEF EntryOf, StoreAssumption
<1>3. d[k] \in Row
  OBVIOUS
<1> QED
  BY <1>2, <1>3 DEF Row

\* The initial memory is well formed.
LEMMA NewStoreOK == NewStore \in Memory /\ Written(NewStore) = {}
<1>1. NewStore \in Memory
  BY DEF NewStore, Memory, Session, Run
<1>2. \A k \in Keys : RowOf(NewStore, k) = NoRow
  BY DEF NewStore, RowOf, NoRow
<1> QED
  BY <1>1, <1>2 DEF Written

\* A new process starts inside the invariant, whatever is on disk.
LEMMA InitInv == Backend /\ Init => TableInv
<1> SUFFICES ASSUME Init PROVE TableInv
  OBVIOUS
<1>1. \A k \in Keys : View(k) = disk[k]
  BY FreshView DEF Init, View
<1>2. TypeOK
  BY NewStoreOK DEF Init, TypeOK, NewStore
<1> QED
  BY <1>1, <1>2 DEF Init, TableInv, SavesRetried, RowsKept

\* What a step does: a call about one token, a restart, or neither.
LEMMA Steps ==
  ASSUME Backend, TableInv, [Next]_vars
  PROVE  \/ \E k \in Keys : CallStep(k)
         \/ /\ mem' = NewStore /\ synced' = FALSE /\ obsolete' = {} /\ exit' = "no"
            /\ UNCHANGED <<disk, closed>>
         \/ /\ UNCHANGED <<mem, disk, obsolete, synced>>
            /\ exit' \in {"no", "verify", "done"} /\ closed' \subseteq Instances
<1>0. exit \in {"no", "verify", "done"} /\ closed \subseteq Instances
  BY DEF TableInv, TypeOK
<1>1. CASE UNCHANGED vars
  BY <1>0, <1>1 DEF vars
<1>2. CASE ShutdownVerify
  BY <1>0, <1>2 DEF ShutdownVerify
<1>3. CASE GraceCloses
  BY <1>0, <1>3 DEF GraceCloses
<1>4. CASE Restart
  BY <1>4 DEF Restart
<1>5. ASSUME NEW k \in Keys,
             \/ \E i \in Instances : Save(k, i) \/ ShutdownSave(k, i)
             \/ SaveNil(k) \/ Load(k)
             \/ \E i \in Session : Remove(k, i)
             \/ \E r \in RunIds : SaveRun(k, r)
             \/ RemoveRun(k) \/ LoadRun(k)
      PROVE  CallStep(k)
  BY <1>5, Methods
<1> QED
  BY <1>1, <1>2, <1>3, <1>4, <1>5 DEF Next

\* Every step keeps the invariant.
LEMMA NextInv == Backend /\ TableInv /\ [Next]_vars => TableInv'
<1> SUFFICES ASSUME Backend, TableInv, [Next]_vars PROVE TableInv'
  OBVIOUS
<1>1. ASSUME NEW k \in Keys, CallStep(k) PROVE TableInv'
  BY <1>1, CallKeepsInv
<1>2. CASE /\ mem' = NewStore /\ synced' = FALSE /\ obsolete' = {} /\ exit' = "no"
           /\ UNCHANGED <<disk, closed>>
  <2>1. disk \in [Keys -> Row] /\ closed \subseteq Instances
    BY DEF TableInv, TypeOK
  <2>2. \A k \in Keys : View(k)' = disk'[k]
    BY <1>2, <2>1, FreshView DEF View
  <2>3. TypeOK'
    BY <1>2, <2>1, NewStoreOK DEF TypeOK, NewStore
  <2> QED
    BY <1>2, <2>2, <2>3 DEF TableInv, SavesRetried, RowsKept
<1>3. CASE /\ UNCHANGED <<mem, disk, obsolete, synced>>
           /\ exit' \in {"no", "verify", "done"} /\ closed' \subseteq Instances
  <2>1. TypeOK'
    BY <1>3 DEF TableInv, TypeOK
  <2>2. SavesRetried'
    BY <1>3 DEF TableInv, SavesRetried
  <2>3. RowsKept'
    BY <1>3 DEF TableInv, RowsKept, View
  <2> QED
    BY <2>1, <2>2, <2>3 DEF TableInv
<1> QED
  BY <1>1, <1>2, <1>3, Steps

---------------------------------------------------------------------------
(* The theorems.                                                           *)

\* The Store object is well formed; in particular mutations are pending only
\* while the table could not be read.
THEOREM TableTypeCorrect == ASSUME Backend PROVE Spec => []TypeOK
<1>1. TableInv => TypeOK
  BY DEF TableInv
<1> QED
  BY <1>1, InitInv, NextInv, PTL DEF Spec

\* A flush without failure makes up for every failed write before it.
THEOREM TableSavesRetried == ASSUME Backend PROVE Spec => []SavesRetried
<1>1. TableInv => SavesRetried
  BY DEF TableInv
<1> QED
  BY <1>1, InitInv, NextInv, PTL DEF Spec

\* No row loses a session that was neither removed nor replaced.
THEOREM TableLosesNothing == ASSUME Backend PROVE Spec => NoForeignLoss
<1> DEFINE Kept == \A k \in Keys : disk[k].sess # None /\ disk'[k].sess # disk[k].sess
                       => <<k, disk[k].sess>> \in obsolete \cup obsolete'
<1>1. ASSUME TableInv, [Next]_vars PROVE Kept
  <2> SUFFICES ASSUME NEW j \in Keys, disk[j].sess # None, disk'[j].sess # disk[j].sess,
                      <<j, disk[j].sess>> \notin obsolete
               PROVE  <<j, disk[j].sess>> \in obsolete'
    OBVIOUS
  <2>1. disk[j].sess = View(j).sess
    BY <1>1 DEF TableInv, RowsKept
  <2>2. PICK k \in Keys : CallStep(k)
    BY <1>1, Steps
  <2>3. disk'[j].sess = View(j)'.sess
    BY <2>1, <2>2 DEF CallStep
  <2> QED
    BY <2>1, <2>2, <2>3 DEF CallStep
<1>2. TableInv /\ [Next]_vars => [Kept]_vars
  BY <1>1
<1> QED
  BY <1>2, InitInv, NextInv, PTL DEF Spec, NoForeignLoss

\* The store over a table implements DurableMap.
THEOREM TableRefinement == ASSUME Backend PROVE Spec => ImplementsDurableMap
<1>0. /\ (Row \ {NoRow}) \cup {NoRow} = Row
      /\ \A k \in Keys : Entry(k) = View(k)
      /\ \A k \in Keys : Entry(k)' = View(k)'
  <2>1. NoRow \in Row
    BY DEF Row, NoRow, Session, Run
  <2> QED
    BY <2>1 DEF Entry, View, EntryOf
<1>1. Init => Durable!Init
  <2> SUFFICES ASSUME Init PROVE Durable!Init
    OBVIOUS
  <2>1. \A k \in Keys : View(k) = disk[k]
    BY FreshView DEF Init, View
  <2>2. [k \in Keys |-> Entry(k)] = disk
    BY <1>0, <2>1 DEF Init
  <2> QED
    BY <1>0, <2>2 DEF Init, Durable!Init
<1>2. ASSUME TableInv, TableInv', [Next]_vars PROVE [Durable!Next]_(Durable!vars)
  <2>1. /\ disk \in [Keys -> Row] /\ disk' \in [Keys -> Row]
        /\ \A k \in Keys : View(k)' \in Row
    BY <1>2, EntryIsRow DEF TableInv, TypeOK, Good, View
  <2>2. ASSUME NEW k \in Keys, CallStep(k) PROVE Durable!Next
    <3>1. [j \in Keys |-> Entry(j)]' = [[j \in Keys |-> Entry(j)] EXCEPT ![k] = Entry(k)']
      BY <1>0, <2>2 DEF CallStep
    <3>2. \A j \in Keys : disk'[j] \in {disk[j], Entry(j), Entry(j)'}
      BY <1>0, <2>2 DEF CallStep
    <3>3. Durable!Write(k, Entry(k)')
      BY <1>0, <2>1, <3>1, <3>2 DEF Durable!Write
    <3> QED
      BY <1>0, <2>1, <3>3 DEF Durable!Next
  <2>3. CASE mem' = NewStore /\ UNCHANGED disk
    <3>1. \A k \in Keys : View(k)' = disk[k]
      BY <2>1, <2>3, FreshView DEF View
    <3>2. [k \in Keys |-> Entry(k)]' = disk
      BY <1>0, <2>1, <3>1
    <3> QED
      BY <2>3, <3>2 DEF Durable!Next, Durable!Restart
  <2>4. CASE UNCHANGED <<mem, disk>>
    <3>1. \A k \in Keys : Entry(k)' = Entry(k)
      BY <2>4 DEF Entry, RowOf
    <3> QED
      BY <2>4, <3>1 DEF Durable!vars
  <2> QED
    BY <1>2, <2>2, <2>3, <2>4, Steps
<1> QED
  BY <1>1, <1>2, InitInv, NextInv, PTL DEF Spec, ImplementsDurableMap, Durable!Spec
===========================================================================
