-------------------------------- MODULE Sniffer --------------------------------
(***************************************************************************)
(* The sniffer engine (sniffer/engine.py) feeding the catalog of unknown   *)
(* signals (HAStoreSignalRepository in adapters/storage/ha_store.py), with *)
(* the capacity guard (sniffer/capacity.py) and sniffer/dismiss.           *)
(*                                                                         *)
(* Every repository call loads the whole document and, to change it, saves *)
(* it whole.  Both suspend: a load is one step that reads the document,    *)
(* after which the task computes what it will save; the save is a later    *)
(* step.  A receiver hands every capture to a task of its own, so several  *)
(* are handled at once.                                                    *)
(*                                                                         *)
(* What two captures have in common is their key: it stands for the three  *)
(* identity tiers.  A capture that the rate limiter or the mirror drops    *)
(* does nothing here.  The two receivers that listen continuously decode   *)
(* no protocol, so the remote a signal is filed under is its receiver's.   *)
(***************************************************************************)
EXTENDS Naturals, Sequences, FiniteSets

CONSTANTS
  Receivers,        \* receiver entity ids; also the ids of their remotes
  ReceiverList,     \* the receivers setup subscribes to, in order: one entry
                    \* for each device that names it
  Keys,             \* signal identities
  Handlers,         \* tasks handling a capture
  Dismissers,       \* handlers of sniffer/dismiss
  None,
  InitialCatalogs,  \* what the store may hold from earlier runs
  MaxRows,          \* bound on signal ids
  MaxPerRemote,     \* max_signals_per_device
  MaxTotal,         \* max_total_signals
  EvictHits,        \* evict_min_hits
  EvictAge,         \* evict_age_days, in captures
  MaxCaptures,      \* bound on the captures; their count is also the clock
  MaxSetups         \* bound on the times the entry is set up

Ids   == 1 .. MaxRows
Tasks == Handlers \cup Dismissers

Rows == [remote : Receivers, key : Keys, hits : Nat, seen : Nat]

Catalogs == [remotes : SUBSET Receivers, dismissed : SUBSET Receivers,
             rows : [Ids -> Rows \cup {None}]]

RowIds(c) == {i \in Ids : c.rows[i] # None}

ASSUME SnifferAssumption ==
  /\ ReceiverList \in Seq(Receivers)
  /\ InitialCatalogs \subseteq Catalogs
  /\ None \notin Rows \cup Catalogs
  /\ MaxRows \in Nat /\ MaxCaptures \in Nat /\ MaxSetups \in Nat
  /\ MaxPerRemote \in Nat \ {0} /\ MaxTotal \in Nat \ {0}
  /\ EvictHits \in Nat /\ EvictAge \in Nat
  /\ Handlers \cap Dismissers = {}

VARIABLES
  slots,    \* _subscriptions of the engine: the live subscription of a receiver
  live,     \* subscriptions, as <<setup, position in ReceiverList>>
  setups,   \* times the entry was set up
  loaded,   \* is the entry loaded?
  catalog,  \* the stored document
  job,      \* job[t]: what task t does and waits for
  lastId,   \* the latest signal id given out
  clock,    \* captures so far
  first,    \* history: the catalog at the start
  matches,  \* history: captures that matched a signal
  evicted   \* history: signals the caps dropped

engineVars == <<slots, live, setups, loaded>>
vars == <<engineVars, catalog, job, lastId, clock, first, matches, evicted>>

-------------------------------------------------------------------------------
Subscriptions == (1 .. MaxSetups) \X (1 .. Len(ReceiverList))

\* at: in a load before the save, in the save, in the save after the caps.  id is
\* the signal written, or the remote; row is the signal's new row; seen is the
\* catalog as the task first loaded it, doc what it is saving.
Jobs == [at   : {"idle", "reading", "writing", "capping"},
         does : {"none", "bump", "mint", "dismiss"},
         id   : Ids \cup Receivers \cup {None},
         row  : Rows \cup {None},
         seen : Catalogs \cup {None},
         doc  : Catalogs \cup {None}]

Job(a, d, i, r, c) ==
  [at |-> a, does |-> d, id |-> i, row |-> r, seen |-> c, doc |-> None]

NoJob == Job("idle", "none", None, None, None)

TypeOK ==
  /\ slots \in [Receivers -> Subscriptions \cup {None}]
  /\ live \subseteq Subscriptions
  /\ setups \in 0 .. MaxSetups
  /\ loaded \in BOOLEAN
  /\ catalog \in Catalogs
  /\ job \in [Tasks -> Jobs]
  /\ lastId \in 0 .. MaxRows
  /\ clock \in 0 .. MaxCaptures
  /\ first \in Catalogs
  /\ matches \in [Ids -> Nat]
  /\ evicted \subseteq Ids

Init ==
  /\ slots = [r \in Receivers |-> None]
  /\ live = {}
  /\ setups = 0
  /\ loaded = FALSE
  /\ catalog \in InitialCatalogs
  /\ job = [t \in Tasks |-> NoJob]
  /\ lastId \in 0 .. MaxRows
  /\ RowIds(catalog) = 1 .. lastId
  /\ clock = 0
  /\ first = catalog
  /\ matches = [i \in Ids |-> 0]
  /\ evicted = {}

-------------------------------------------------------------------------------
(* The documents tasks compute.                                            *)

\* Mutant: the remote is left with this signal alone.
WithRowAlone(c, i, r) ==
  [c EXCEPT !.rows = [j \in Ids |->
     IF j = i THEN r
     ELSE IF c.rows[j] # None /\ c.rows[j].remote = r.remote THEN None ELSE c.rows[j]]]

\* Mutant: the hits are added to those the signal has.
WithRowAdded(c, i, r) ==
  [c EXCEPT !.rows[i] =
     IF c.rows[i] = None THEN r ELSE [r EXCEPT !.hits = r.hits + c.rows[i].hits]]

\* upsert_signal(r.remote, signal i) on a document that has the remote.
WithRow(c, i, r) == [c EXCEPT !.rows[i] = r]

\* Mutant: the remote is replaced by one without signals.
ToggledEmpty(c, s, m) ==
  [remotes   |-> c.remotes \cup {m},
   dismissed |-> IF m \in s.dismissed THEN c.dismissed \ {m} ELSE c.dismissed \cup {m},
   rows      |-> [i \in Ids |-> IF c.rows[i] # None /\ c.rows[i].remote = m THEN None
                                ELSE c.rows[i]]]

\* upsert_remote of what document s has for remote m, dismissed or back again.
Toggled(c, s, m) ==
  LET of(d, i) == d.rows[i] # None /\ d.rows[i].remote = m
  IN [remotes   |-> c.remotes \cup {m},
      dismissed |-> IF m \in s.dismissed THEN c.dismissed \ {m} ELSE c.dismissed \cup {m},
      rows      |-> [i \in Ids |-> IF of(s, i) THEN s.rows[i]
                                   ELSE IF of(c, i) THEN None ELSE c.rows[i]]]

\* The order of eviction: signal a of c is kept before signal b at time t.
KeptBefore(c, a, b, t) ==
  LET age(i) == t - c.rows[i].seen
      hits(i) == c.rows[i].hits
      rank(i) == IF hits(i) < EvictHits /\ age(i) >= EvictAge THEN 0 ELSE 1
  IN \/ rank(a) > rank(b)
     \/ rank(a) = rank(b) /\ age(a) > age(b)
     \/ rank(a) = rank(b) /\ age(a) = age(b) /\ hits(a) > hits(b)

\* k is what a cap of n may leave of the signals s of c; ties go either way.
IsCapped(k, s, c, n, t) ==
  /\ k \subseteq s
  /\ Cardinality(k) = IF Cardinality(s) <= n THEN Cardinality(s) ELSE n
  /\ \A a \in s \ k, b \in k : ~KeptBefore(c, a, b, t)

\* What the caps may leave of c: first of each remote, then of all together.
CappedIds(c, t) ==
  LET of(m) == {i \in RowIds(c) : c.rows[i].remote = m}
      perRemote == {k \in SUBSET RowIds(c) :
                      \A m \in Receivers : IsCapped(k \cap of(m), of(m), c, MaxPerRemote, t)}
  IN UNION {{k \in SUBSET s : IsCapped(k, s, c, MaxTotal, t)} : s \in perRemote}

Restricted(c, k) == [c EXCEPT !.rows = [i \in Ids |-> IF i \in k THEN c.rows[i] ELSE None]]

-------------------------------------------------------------------------------
(* The engine.                                                             *)

\* Setup subscribes to the receivers of the list one after the other, all of
\* them or those before one that raises; a later entry for a receiver takes
\* the slot of an earlier one.
Setup(n) ==
  /\ ~loaded
  /\ setups < MaxSetups
  /\ setups' = setups + 1
  /\ loaded' = TRUE
  /\ live' = live \cup {<<setups', i>> : i \in 1 .. n}
  /\ slots' = [r \in Receivers |->
                 LET mine == {i \in 1 .. n : ReceiverList[i] = r}
                 IN IF mine = {} THEN None
                    ELSE <<setups', CHOOSE i \in mine : \A j \in mine : j <= i>>]
  /\ UNCHANGED <<catalog, job, lastId, clock, first, matches, evicted>>

\* Mutant: an engine whose start raised is not stopped.
UnloadStarted ==
  /\ loaded
  /\ loaded' = FALSE
  /\ live' = IF <<setups, Len(ReceiverList)>> \in live
             THEN live \ {slots[r] : r \in Receivers} ELSE live
  /\ slots' = [r \in Receivers |-> None]
  /\ UNCHANGED <<setups, catalog, job, lastId, clock, first, matches, evicted>>

\* Unload stops the engine.  Tasks go on.
Unload ==
  /\ loaded
  /\ loaded' = FALSE
  /\ live' = live \ {slots[r] : r \in Receivers}
  /\ slots' = [r \in Receivers |-> None]
  /\ UNCHANGED <<setups, catalog, job, lastId, clock, first, matches, evicted>>

-------------------------------------------------------------------------------
(* handle_capture                                                          *)

\* A capture of key k comes through subscription s; its task has loaded the
\* catalog and found a signal to bump, or none.
Capture(h, s, k) ==
  /\ job[h].at = "idle"
  /\ clock < MaxCaptures
  /\ clock' = clock + 1
  /\ LET r == ReceiverList[s[2]]
         found == {i \in RowIds(catalog) : catalog.rows[i].key = k}
     IN \/ \E i \in found :
             LET old == catalog.rows[i]
                 new == [old EXCEPT !.hits = old.hits + 1, !.seen = clock']
             IN /\ job' = [job EXCEPT ![h] = Job("reading", "bump", i, new, None)]
                /\ matches' = [matches EXCEPT ![i] = matches[i] + 1]
                /\ UNCHANGED lastId
        \/ LET new == [remote |-> r, key |-> k, hits |-> 1, seen |-> clock']
           IN /\ found = {}
              /\ lastId < MaxRows
              /\ lastId' = lastId + 1
              /\ job' = [job EXCEPT ![h] = Job("reading", "mint", lastId', new, catalog)]
              /\ UNCHANGED matches
  /\ UNCHANGED <<engineVars, catalog, first, evicted>>

Ends(t) == job' = [job EXCEPT ![t] = NoJob]

\* upsert_signal has loaded the catalog, and the remote is there.
UpsertReads(h) ==
  /\ job[h].at = "reading"
  /\ job[h].does \in {"bump", "mint"}
  /\ job[h].row.remote \in catalog.remotes
  /\ job' = [job EXCEPT ![h].at = "writing",
                        ![h].doc = WithRow(catalog, job[h].id, job[h].row)]
  /\ UNCHANGED <<engineVars, catalog, lastId, clock, first, matches, evicted>>

\* The remote is not there: the new one asks the signal for an attribute it
\* does not have.
UpsertRaises(h) ==
  /\ job[h].at = "reading"
  /\ job[h].does \in {"bump", "mint"}
  /\ job[h].row.remote \notin catalog.remotes
  /\ Ends(h)
  /\ UNCHANGED <<engineVars, catalog, lastId, clock, first, matches, evicted>>

\* The save of a new signal is done: the caps are applied to the catalog that
\* was loaded before it, and if that had any remote, it is saved.
MintSaved(h) ==
  /\ job[h].at = "writing"
  /\ job[h].does = "mint"
  /\ catalog' = job[h].doc
  /\ LET old == job[h].seen
     IN IF old.remotes = {}
        THEN Ends(h) /\ UNCHANGED evicted
        ELSE \E k \in CappedIds(old, clock) :
               /\ job' = [job EXCEPT ![h].at = "capping", ![h].seen = None,
                                     ![h].doc = Restricted(old, k)]
               /\ evicted' = evicted \cup (RowIds(old) \ k)
  /\ UNCHANGED <<engineVars, lastId, clock, first, matches>>

\* The last save of a task is done.
Saved(t) ==
  /\ \/ job[t].at = "writing" /\ job[t].does # "mint"
     \/ job[t].at = "capping"
  /\ catalog' = job[t].doc
  /\ Ends(t)
  /\ UNCHANGED <<engineVars, lastId, clock, first, matches, evicted>>

-------------------------------------------------------------------------------
(* sniffer/dismiss                                                         *)

\* The handler has loaded the catalog and found remote m, which upsert_remote
\* will replace as it is now, but for dismissed.
Dismiss(x, m) ==
  /\ job[x].at = "idle"
  /\ m \in catalog.remotes
  /\ job' = [job EXCEPT ![x] = Job("reading", "dismiss", m, None, catalog)]
  /\ UNCHANGED <<engineVars, catalog, lastId, clock, first, matches, evicted>>

DismissReads(x) ==
  /\ job[x].at = "reading"
  /\ job[x].does = "dismiss"
  /\ job' = [job EXCEPT ![x].at = "writing", ![x].seen = None,
                        ![x].doc = Toggled(catalog, job[x].seen, job[x].id)]
  /\ UNCHANGED <<engineVars, catalog, lastId, clock, first, matches, evicted>>

-------------------------------------------------------------------------------
Resumes(t) ==
  \/ UpsertReads(t) \/ UpsertRaises(t) \/ DismissReads(t) \/ MintSaved(t) \/ Saved(t)

Next ==
  \/ \E n \in 0 .. Len(ReceiverList) : Setup(n)
  \/ Unload
  \/ \E h \in Handlers, s \in live, k \in Keys : Capture(h, s, k)
  \/ \E x \in Dismissers, m \in Receivers : Dismiss(x, m)
  \/ \E t \in Tasks : Resumes(t)

Spec == Init /\ [][Next]_vars

-------------------------------------------------------------------------------
(* Safety.                                                                 *)

\* Document c has what was in the store at the start, but for what a cap dropped.
KeepsKnown(c) ==
  /\ first.remotes \subseteq c.remotes
  /\ RowIds(first) \ evicted \subseteq RowIds(c)

\* No interleaving of captures and dismissals, each saving a whole document it
\* loaded earlier, loses a remote or a signal that was in the store before them.
KnownRowsStay == KeepsKnown(catalog)

\* The hits a signal had, or the 1 it was minted with, and the captures since.
Hits(i) == matches[i] + IF i \in RowIds(first) THEN first.rows[i].hits ELSE 1

\* A signal never shows more hits than captures of it were heard; captures
\* handled at once may lose hits, never invent any.
HitsAreCaptures == \A i \in RowIds(catalog) : catalog.rows[i].hits <= Hits(i)

\* A subscription outlives its engine only if a later entry of the list, for the
\* same receiver, took its slot.
LeaksOnlyDuplicates ==
  \A s \in live :
    \/ loaded /\ s[1] = setups
    \/ \E j \in s[2] + 1 .. Len(ReceiverList) : ReceiverList[j] = ReceiverList[s[2]]

\* What holds of the catalog and of every document that may still be saved: it
\* keeps what was known, shows no invented hits, and moves no known signal to
\* another remote.
DocumentOK(c) ==
  /\ KeepsKnown(c)
  /\ \A i \in RowIds(c) :
       /\ c.rows[i].hits <= Hits(i)
       /\ i \in RowIds(first) => c.rows[i].remote = first.rows[i].remote

\* The row a task will write into whatever it loads next.
RowOK(i, r) ==
  /\ i \in Ids
  /\ r.hits <= Hits(i)
  /\ i \in RowIds(first) => r.remote = first.rows[i].remote

JobOK(j) ==
  /\ j.seen # None => DocumentOK(j.seen)
  /\ j.doc # None => DocumentOK(j.doc)
  /\ j.does \in {"bump", "mint"} => j.row # None /\ RowOK(j.id, j.row)
  /\ j.does = "mint" /\ j.at # "capping" => j.seen # None
  /\ j.does = "dismiss" => j.id \in Receivers /\ (j.at = "reading" => j.seen # None)
  /\ j.at \in {"writing", "capping"} => j.doc # None
  /\ j.at # "idle" => j.does # "none"

\* The invariant behind KnownRowsStay and HitsAreCaptures.
CatalogInv ==
  /\ TypeOK
  /\ RowIds(first) \subseteq 1 .. lastId
  /\ DocumentOK(catalog)
  /\ \A t \in Tasks : JobOK(job[t])

(* What the sources say and the code does not do.                          *)

\* "Either bumps the hit count on an existing row or mints a new one" (engine.py):
\* when the task of a new signal ends, the signal is in the catalog.
NewSignalIsStored ==
  [][\A h \in Handlers :
       (/\ job[h].does = "mint" /\ job[h].at \in {"writing", "capping"}
        /\ job'[h].at = "idle")
         => job[h].id \in RowIds(catalog')]_vars

===============================================================================
