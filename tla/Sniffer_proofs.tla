----------------------------- MODULE Sniffer_proofs ----------------------------
(***************************************************************************)
(* Theorems about Sniffer.                                                 *)
(***************************************************************************)
EXTENDS Sniffer, TLAPS, WellFoundedInduction

-------------------------------------------------------------------------------
(* The documents tasks compute are documents.                              *)

LEMMA WithRowType ==
  ASSUME NEW c \in Catalogs, NEW i \in Ids, NEW r \in Rows
  PROVE  WithRow(c, i, r) \in Catalogs
BY DEF WithRow, Catalogs

LEMMA ToggledType ==
  ASSUME NEW c \in Catalogs, NEW s \in Catalogs, NEW m \in Receivers
  PROVE  Toggled(c, s, m) \in Catalogs
<1>1. (c.remotes \cup {m}) \in SUBSET Receivers
  BY DEF Catalogs
<1>2. (IF m \in s.dismissed THEN c.dismissed \ {m} ELSE c.dismissed \cup {m})
        \in SUBSET Receivers
  BY DEF Catalogs
<1>3. \A i \in Ids : s.rows[i] \in Rows \cup {None} /\ c.rows[i] \in Rows \cup {None}
  BY DEF Catalogs
<1> QED
  BY <1>1, <1>2, <1>3 DEF Toggled, Catalogs

LEMMA RestrictedType ==
  ASSUME NEW c \in Catalogs, NEW k
  PROVE  Restricted(c, k) \in Catalogs
BY DEF Restricted, Catalogs

-------------------------------------------------------------------------------
(* They keep what a sound document has.                                    *)

LEMMA WithRowOK ==
  ASSUME SnifferAssumption, NEW c \in Catalogs, DocumentOK(c),
         NEW i \in Ids, NEW r \in Rows, RowOK(i, r)
  PROVE  DocumentOK(WithRow(c, i, r))
<1> DEFINE d == WithRow(c, i, r)
<1>1. /\ d.remotes = c.remotes
      /\ \A j \in Ids : d.rows[j] = IF j = i THEN r ELSE c.rows[j]
  BY DEF WithRow, Catalogs
<1>2. r # None
  BY DEF SnifferAssumption
<1>3. RowIds(d) = RowIds(c) \cup {i}
  BY <1>1, <1>2 DEF RowIds
<1>4. KeepsKnown(d)
  BY <1>1, <1>3 DEF DocumentOK, KeepsKnown
<1>5. \A j \in RowIds(d) : /\ d.rows[j].hits <= Hits(j)
                           /\ j \in RowIds(first) => d.rows[j].remote = first.rows[j].remote
  BY <1>1, <1>3 DEF DocumentOK, RowOK, RowIds
<1> QED
  BY <1>4, <1>5 DEF DocumentOK

LEMMA ToggledOK ==
  ASSUME NEW c \in Catalogs, DocumentOK(c), NEW s \in Catalogs, DocumentOK(s),
         NEW m \in Receivers
  PROVE  DocumentOK(Toggled(c, s, m))
<1> DEFINE d == Toggled(c, s, m)
           of(e, i) == e.rows[i] # None /\ e.rows[i].remote = m
<1>1. /\ d.remotes = c.remotes \cup {m}
      /\ \A i \in Ids : d.rows[i] = IF of(s, i) THEN s.rows[i]
                                    ELSE IF of(c, i) THEN None ELSE c.rows[i]
  BY DEF Toggled
<1>2. \A i \in RowIds(d) : (i \in RowIds(s) /\ d.rows[i] = s.rows[i])
                           \/ (i \in RowIds(c) /\ d.rows[i] = c.rows[i])
  BY <1>1 DEF RowIds
<1>3. ASSUME NEW i \in RowIds(first) \ evicted
      PROVE  i \in RowIds(d)
  <2>1. i \in Ids /\ i \in RowIds(s) /\ i \in RowIds(c)
    BY DEF DocumentOK, KeepsKnown, RowIds
  <2>2. s.rows[i].remote = c.rows[i].remote
    BY <2>1 DEF DocumentOK
  <2> QED
    BY <1>1, <2>1, <2>2 DEF RowIds
<1>4. KeepsKnown(d)
  BY <1>1, <1>3 DEF DocumentOK, KeepsKnown
<1>5. \A i \in RowIds(d) : /\ d.rows[i].hits <= Hits(i)
                           /\ i \in RowIds(first) => d.rows[i].remote = first.rows[i].remote
  BY <1>2 DEF DocumentOK
<1> QED
  BY <1>4, <1>5 DEF DocumentOK

\* Captures since and evictions only weaken what a document must satisfy.
LEMMA DocumentStays ==
  ASSUME TypeOK, first' = first, evicted \subseteq evicted',
         matches' \in [Ids -> Nat], \A i \in Ids : matches[i] <= matches'[i],
         NEW c \in Catalogs, DocumentOK(c)
  PROVE  DocumentOK(c)'
<1>1. KeepsKnown(c)'
  BY DEF DocumentOK, KeepsKnown, RowIds
<1>2. ASSUME NEW i \in RowIds(c)
      PROVE  c.rows[i].hits <= Hits(i)'
  <2>1. i \in Ids /\ c.rows[i] \in Rows
    BY DEF RowIds, Catalogs
  <2>2. c.rows[i].hits \in Nat
    BY <2>1 DEF Rows
  <2>3. c.rows[i].hits <= Hits(i) /\ Hits(i) <= Hits(i)'
    <3>1. i \in RowIds(first) => first.rows[i].hits \in Nat
      BY <2>1 DEF TypeOK, RowIds, Catalogs, Rows
    <3> QED
      BY <2>1, <3>1 DEF DocumentOK, Hits, TypeOK, RowIds
  <2>4. Hits(i) \in Nat /\ Hits(i)' \in Nat
    <3>1. i \in RowIds(first) => first.rows[i].hits \in Nat
      BY <2>1 DEF TypeOK, RowIds, Catalogs, Rows
    <3> QED
      BY <2>1, <3>1 DEF Hits, TypeOK, RowIds
  <2> QED
    BY <2>2, <2>3, <2>4
<1> QED
  BY <1>1, <1>2 DEF DocumentOK, RowIds

LEMMA JobStays ==
  ASSUME TypeOK, first' = first, evicted \subseteq evicted',
         matches' \in [Ids -> Nat], \A i \in Ids : matches[i] <= matches'[i],
         NEW j \in Jobs, JobOK(j)
  PROVE  JobOK(j)'
<1>1. j.seen # None => DocumentOK(j.seen)'
  BY DocumentStays DEF JobOK, Jobs
<1>2. j.doc # None => DocumentOK(j.doc)'
  BY DocumentStays DEF JobOK, Jobs
<1>3. j.does \in {"bump", "mint"} => j.row # None /\ RowOK(j.id, j.row)'
  <2> SUFFICES ASSUME j.does \in {"bump", "mint"}
               PROVE  j.row # None /\ RowOK(j.id, j.row)'
    OBVIOUS
  <2>1. j.row \in Rows /\ j.id \in Ids
    BY DEF JobOK, Jobs, RowOK
  <2>2. j.row.hits \in Nat
    BY <2>1 DEF Rows
  <2>3. j.id \in RowIds(first) => first.rows[j.id].hits \in Nat
    BY <2>1 DEF TypeOK, RowIds, Catalogs, Rows
  <2>4. Hits(j.id) \in Nat /\ Hits(j.id)' \in Nat /\ Hits(j.id) <= Hits(j.id)'
    BY <2>1, <2>3 DEF Hits, TypeOK, RowIds
  <2>5. j.row.hits <= Hits(j.id)'
    BY <2>2, <2>4 DEF JobOK, RowOK
  <2> QED
    BY <2>1, <2>5 DEF JobOK, RowOK, RowIds
<1> QED
  BY <1>1, <1>2, <1>3 DEF JobOK

\* What the caps leave keeps what was known, but for what is evicted with it.
LEMMA RestrictedOK ==
  ASSUME SnifferAssumption, NEW c \in Catalogs, DocumentOK(c), NEW k \in SUBSET RowIds(c),
         first' = first, matches' = matches, evicted' = evicted \cup (RowIds(c) \ k)
  PROVE  DocumentOK(Restricted(c, k))'
<1> DEFINE d == Restricted(c, k)
<1>1. /\ d.remotes = c.remotes
      /\ \A i \in Ids : d.rows[i] = IF i \in k THEN c.rows[i] ELSE None
  BY DEF Restricted, Catalogs
<1>2. RowIds(d) = k
  BY <1>1 DEF RowIds
<1>3. KeepsKnown(d)'
  BY <1>1, <1>2 DEF DocumentOK, KeepsKnown, RowIds
<1>4. \A i \in k : d.rows[i] = c.rows[i] /\ i \in RowIds(c)
  BY <1>1 DEF RowIds
<1> QED
  BY <1>2, <1>3, <1>4 DEF DocumentOK, Hits, RowIds

\* The caps keep a part of what there is.
LEMMA CapsKeepAPart ==
  ASSUME NEW c, NEW t, NEW k \in CappedIds(c, t)
  PROVE  k \in SUBSET RowIds(c)
BY DEF CappedIds

-------------------------------------------------------------------------------
(* The invariant.                                                          *)

\* The steps of one task t: the jobs of the others, and documents, stay sound.
LEMMA TaskStep ==
  ASSUME SnifferAssumption, CatalogInv, TypeOK',
         first' = first, evicted \subseteq evicted', lastId <= lastId',
         \A i \in Ids : matches[i] <= matches'[i],
         NEW t \in Tasks, \A u \in Tasks \ {t} : job'[u] = job[u],
         JobOK(job[t])', DocumentOK(catalog)'
  PROVE  CatalogInv'
<1>1. matches' \in [Ids -> Nat] /\ lastId \in Nat /\ lastId' \in Nat
  BY DEF TypeOK, CatalogInv, SnifferAssumption
<1>2. RowIds(first)' \subseteq 1 .. lastId'
  BY <1>1 DEF CatalogInv, RowIds
<1>3. ASSUME NEW u \in Tasks \ {t}
      PROVE  JobOK(job[u])'
  <2>1. job[u] \in Jobs /\ JobOK(job[u])
    BY DEF CatalogInv, TypeOK
  <2> DEFINE j == job[u]
  <2>2. \A i \in {job[u]} : JobOK(i)'
    BY <1>1, <2>1, JobStays DEF CatalogInv
  <2> QED
    BY <2>2
<1> QED
  BY <1>2, <1>3 DEF CatalogInv

-------------------------------------------------------------------------------
(* Setup and unload.                                                       *)

\* A set of positions up to n has a last one.
LEMMA LastPosition ==
  ASSUME NEW n \in Nat, NEW S \in SUBSET (1 .. n), S # {}
  PROVE  \E i \in S : \A j \in S : j <= i
<1> DEFINE T == {m \in Nat : \E i \in S : m = n - i}
<1>1. \A i \in S : n - i \in T
  OBVIOUS
<1>2. T \subseteq Nat /\ T # {}
  BY <1>1
<1>3. \E x \in T : \A y \in T : ~ (<<y, x>> \in OpToRel(<, Nat))
  <2> HIDE DEF T
  <2> QED
    BY <1>2, NatLessThanWellFounded, WFMin
<1>4. \E x \in T : \A y \in T : ~ (y < x)
  BY <1>2, <1>3 DEF OpToRel
<1>5. PICK x \in T : \A y \in T : ~ (y < x)
  BY <1>4
<1>6. PICK i \in S : x = n - i
  BY <1>5
<1>7. \A j \in S : ~ (n - j < n - i)
  BY <1>1, <1>5, <1>6
<1> QED
  BY <1>7

LEMMA SetupPreserves ==
  ASSUME SnifferAssumption, CatalogInv, NEW n \in 0 .. Len(ReceiverList), Setup(n)
  PROVE  CatalogInv'
<1>1. n \in Nat /\ Len(ReceiverList) \in Nat /\ n <= Len(ReceiverList)
  BY DEF SnifferAssumption
<1>2. setups' \in 0 .. MaxSetups /\ setups' \in 1 .. MaxSetups
  BY DEF Setup, CatalogInv, TypeOK, SnifferAssumption
<1>3. \A i \in 1 .. n : <<setups', i>> \in Subscriptions
  BY <1>1, <1>2 DEF Subscriptions
<1>4. live' \subseteq Subscriptions
  BY <1>3 DEF Setup, CatalogInv, TypeOK
<1>5. slots' \in [Receivers -> Subscriptions \cup {None}]
  <2> SUFFICES ASSUME NEW r \in Receivers
               PROVE  slots'[r] \in Subscriptions \cup {None}
    BY DEF Setup
  <2> DEFINE mine == {i \in 1 .. n : ReceiverList[i] = r}
             last == CHOOSE i \in mine : \A j \in mine : j <= i
  <2>1. slots'[r] = IF mine = {} THEN None ELSE <<setups', last>>
    BY DEF Setup
  <2>2. CASE mine # {}
    <3>1. \E i \in mine : \A j \in mine : j <= i
      BY <1>1, <2>2, LastPosition
    <3>2. last \in mine
      BY <3>1
    <3> QED
      BY <1>3, <2>1, <2>2, <3>2
  <2> QED
    BY <2>1, <2>2
<1>6. TypeOK'
  BY <1>2, <1>4, <1>5 DEF Setup, CatalogInv, TypeOK
<1>7. DocumentOK(catalog)' /\ \A t \in Tasks : JobOK(job[t])'
  BY DEF Setup, CatalogInv, JobOK, DocumentOK, KeepsKnown, RowOK, RowIds, Hits
<1> QED
  BY <1>6, <1>7 DEF Setup, CatalogInv, RowIds

LEMMA UnloadPreserves ==
  ASSUME SnifferAssumption, CatalogInv, Unload
  PROVE  CatalogInv'
<1>1. TypeOK'
  BY DEF Unload, CatalogInv, TypeOK
<1>2. DocumentOK(catalog)' /\ \A t \in Tasks : JobOK(job[t])'
  BY DEF Unload, CatalogInv, JobOK, DocumentOK, KeepsKnown, RowOK, RowIds, Hits
<1> QED
  BY <1>1, <1>2 DEF Unload, CatalogInv, RowIds

LEMMA StutterPreserves ==
  ASSUME CatalogInv, UNCHANGED vars
  PROVE  CatalogInv'
<1>1. TypeOK'
  BY DEF vars, engineVars, CatalogInv, TypeOK
<1>2. DocumentOK(catalog)' /\ \A t \in Tasks : JobOK(job[t])'
  BY DEF vars, CatalogInv, JobOK, DocumentOK, KeepsKnown, RowOK, RowIds, Hits
<1> QED
  BY <1>1, <1>2 DEF vars, CatalogInv, RowIds

-------------------------------------------------------------------------------
(* Captures.                                                               *)

\* What a well-typed state says of a task and its job, spelt out.
LEMMA TaskIsTyped ==
  ASSUME CatalogInv, NEW t \in Tasks
  PROVE  job[t] \in Jobs /\ JobOK(job[t])
BY DEF CatalogInv, TypeOK

LEMMA BumpPreserves ==
  ASSUME SnifferAssumption, CatalogInv, NEW h \in Handlers,
         clock < MaxCaptures, clock' = clock + 1,
         NEW i \in RowIds(catalog), NEW new,
         new = [catalog.rows[i] EXCEPT !.hits = catalog.rows[i].hits + 1, !.seen = clock'],
         job' = [job EXCEPT ![h] = Job("reading", "bump", i, new, None)],
         matches' = [matches EXCEPT ![i] = matches[i] + 1],
         UNCHANGED <<engineVars, catalog, first, evicted, lastId>>
  PROVE  CatalogInv'
<1>1. h \in Tasks /\ i \in Ids /\ catalog \in Catalogs /\ catalog.rows[i] \in Rows
  BY DEF Tasks, RowIds, CatalogInv, TypeOK, Catalogs
<1>2. clock' \in Nat /\ clock' \in 0 .. MaxCaptures
  BY DEF CatalogInv, TypeOK, SnifferAssumption
<1>3. /\ new \in Rows
      /\ new.hits = catalog.rows[i].hits + 1
      /\ new.remote = catalog.rows[i].remote
  <2> DEFINE old == catalog.rows[i]
  <2>1. old \in Rows /\ old.hits + 1 \in Nat
    BY <1>1 DEF Rows
  <2> QED
    BY <1>2, <2>1 DEF Rows
<1>4. job[h]' = Job("reading", "bump", i, new, None) /\ job[h]' \in Jobs
  BY <1>1, <1>3 DEF Job, Jobs, CatalogInv, TypeOK
<1>5. /\ matches \in [Ids -> Nat] /\ matches' \in [Ids -> Nat]
      /\ matches[i] \in Nat /\ matches'[i] = matches[i] + 1
  BY <1>1, SMTT(30) DEF CatalogInv, TypeOK
<1>6. \A j \in Ids : matches[j] <= matches'[j]
  BY <1>1, <1>5
<1>7. TypeOK'
  BY <1>1, <1>2, <1>4, <1>5 DEF engineVars, CatalogInv, TypeOK
<1>8. DocumentOK(catalog)'
  BY <1>1, <1>5, <1>6, DocumentStays DEF CatalogInv
<1>9. RowOK(i, new)'
  <2>1. i \in RowIds(first) => first.rows[i].hits \in Nat
    BY <1>1 DEF CatalogInv, TypeOK, RowIds, Catalogs, Rows
  <2>2. Hits(i) \in Nat /\ Hits(i)' = Hits(i) + 1
    <3>1. RowIds(first)' = RowIds(first) /\ first' = first
      BY DEF RowIds
    <3> DEFINE x == IF i \in RowIds(first) THEN first.rows[i].hits ELSE 1
    <3>2. x \in Nat
      BY <2>1
    <3>3. Hits(i) = matches[i] + x /\ Hits(i)' = matches'[i] + x
      BY <3>1 DEF Hits
    <3> HIDE DEF x
    <3> QED
      BY <1>5, <3>2, <3>3
  <2>3. catalog.rows[i].hits <= Hits(i) /\ catalog.rows[i].hits \in Nat
    BY <1>1 DEF CatalogInv, DocumentOK, Rows
  <2>4. i \in RowIds(first)' => new.remote = first'.rows[i].remote
    BY <1>3 DEF CatalogInv, DocumentOK, RowIds
  <2>5. new.hits <= Hits(i)'
    BY <1>3, <2>2, <2>3, SMTT(30)
  <2> QED
    BY <1>1, <2>4, <2>5 DEF RowOK
<1>10. JobOK(job[h])'
  BY <1>3, <1>4, <1>9 DEF JobOK, Job, SnifferAssumption
<1>11. lastId <= lastId' /\ \A u \in Tasks \ {h} : job'[u] = job[u]
  BY <1>1 DEF CatalogInv, TypeOK
<1> QED
  BY <1>1, <1>6, <1>7, <1>8, <1>10, <1>11, TaskStep

LEMMA MintPreserves ==
  ASSUME SnifferAssumption, CatalogInv, NEW h \in Handlers,
         clock < MaxCaptures, clock' = clock + 1, lastId < MaxRows, lastId' = lastId + 1,
         NEW r \in Receivers, NEW k \in Keys, NEW new,
         new = [remote |-> r, key |-> k, hits |-> 1, seen |-> clock'],
         job' = [job EXCEPT ![h] = Job("reading", "mint", lastId', new, catalog)],
         UNCHANGED <<engineVars, catalog, first, evicted, matches>>
  PROVE  CatalogInv'
<1>1. h \in Tasks /\ catalog \in Catalogs /\ DocumentOK(catalog)
  BY DEF Tasks, CatalogInv, TypeOK
<1>2. /\ clock' \in Nat /\ clock' \in 0 .. MaxCaptures
      /\ lastId \in Nat /\ lastId' \in Nat /\ lastId' \in 0 .. MaxRows /\ lastId' \in Ids
  BY DEF CatalogInv, TypeOK, SnifferAssumption, Ids
<1>3. new \in Rows /\ new.hits = 1
  BY <1>2 DEF Rows
<1>4. job[h]' = Job("reading", "mint", lastId', new, catalog) /\ job[h]' \in Jobs
  BY <1>1, <1>2, <1>3 DEF Job, Jobs, CatalogInv, TypeOK
<1>5. TypeOK'
  BY <1>1, <1>2, <1>4 DEF engineVars, CatalogInv, TypeOK
<1>6. \A j \in Ids : matches[j] \in Nat /\ matches[j] <= matches'[j]
  BY DEF CatalogInv, TypeOK
<1>7. DocumentOK(catalog)' /\ \A c \in {catalog} : DocumentOK(c)'
  BY <1>1 DEF DocumentOK, KeepsKnown, Hits, RowIds
<1>8. ASSUME NEW i, i = lastId'
      PROVE  RowOK(i, new)'
  <2>1. i \in Ids /\ i \notin RowIds(first)'
    BY <1>2, <1>8 DEF CatalogInv, RowIds
  <2>2. Hits(i)' = matches[i] + 1
    BY <2>1 DEF Hits
  <2> QED
    BY <1>3, <1>6, <2>1, <2>2 DEF RowOK
<1>9. JobOK(job[h])'
  <2>1. /\ job[h].at' = "reading" /\ job[h].does' = "mint" /\ job[h].id' = lastId'
        /\ job[h].row' = new /\ job[h].seen' = catalog /\ job[h].doc' = None
    BY <1>4 DEF Job
  <2>2. DocumentOK(job[h].seen)'
    BY <1>7, <2>1 DEF DocumentOK, KeepsKnown, RowIds
  <2>3. RowOK(job[h].id, job[h].row)'
    BY <1>8, <2>1 DEF RowOK, RowIds
  <2>4. new # None /\ catalog # None
    BY <1>1, <1>3, <1>4 DEF SnifferAssumption
  <2> QED
    BY <2>1, <2>2, <2>3, <2>4 DEF JobOK
<1>10. lastId <= lastId' /\ \A u \in Tasks \ {h} : job'[u] = job[u]
  BY <1>1, <1>2 DEF CatalogInv, TypeOK
<1> QED
  BY <1>1, <1>5, <1>6, <1>7, <1>9, <1>10, TaskStep

LEMMA CapturePreserves ==
  ASSUME SnifferAssumption, CatalogInv, NEW h \in Handlers, NEW s \in live, NEW k \in Keys,
         Capture(h, s, k)
  PROVE  CatalogInv'
<1> DEFINE r == ReceiverList[s[2]]
           found == {i \in RowIds(catalog) : catalog.rows[i].key = k}
           bumped(i) == [catalog.rows[i] EXCEPT !.hits = catalog.rows[i].hits + 1,
                                                !.seen = clock']
           minted == [remote |-> r, key |-> k, hits |-> 1, seen |-> clock']
<1>1. r \in Receivers
  <2>1. s \in Subscriptions
    BY DEF CatalogInv, TypeOK
  <2> QED
    BY <2>1 DEF Subscriptions, SnifferAssumption
<1>2. ASSUME NEW i \in found,
             job' = [job EXCEPT ![h] = Job("reading", "bump", i, bumped(i), None)],
             matches' = [matches EXCEPT ![i] = matches[i] + 1],
             UNCHANGED lastId
      PROVE  CatalogInv'
  <2>1. UNCHANGED <<engineVars, catalog, first, evicted, lastId>>
        /\ clock < MaxCaptures /\ clock' = clock + 1
    BY <1>2 DEF Capture
  <2>2. PICK new : new = bumped(i)
    OBVIOUS
  <2> QED
    BY <1>2, <2>1, <2>2, BumpPreserves
<1>3. ASSUME lastId < MaxRows, lastId' = lastId + 1,
             job' = [job EXCEPT ![h] = Job("reading", "mint", lastId', minted, catalog)],
             UNCHANGED matches
      PROVE  CatalogInv'
  <2>1. UNCHANGED <<engineVars, catalog, first, evicted, matches>>
        /\ clock < MaxCaptures /\ clock' = clock + 1
    BY <1>3 DEF Capture
  <2>2. PICK new : new = minted
    OBVIOUS
  <2> QED
    BY <1>1, <1>3, <2>1, <2>2, MintPreserves
<1> QED
  BY <1>2, <1>3 DEF Capture

-------------------------------------------------------------------------------
(* The repository.                                                         *)

LEMMA UpsertReadsPreserves ==
  ASSUME SnifferAssumption, CatalogInv, NEW h \in Tasks, UpsertReads(h)
  PROVE  CatalogInv'
<1> DEFINE doc == WithRow(catalog, job[h].id, job[h].row)
<1>1. job[h] \in Jobs /\ JobOK(job[h]) /\ catalog \in Catalogs /\ DocumentOK(catalog)
  BY TaskIsTyped DEF CatalogInv, TypeOK
<1>2. job[h].row \in Rows /\ RowOK(job[h].id, job[h].row) /\ job[h].id \in Ids
  BY <1>1 DEF UpsertReads, JobOK, RowOK, Jobs
<1>3. doc \in Catalogs /\ DocumentOK(doc)
  BY <1>1, <1>2, WithRowType, WithRowOK
<1>4. job[h]' = [job[h] EXCEPT !.at = "writing", !.doc = doc] /\ job[h]' \in Jobs
  BY <1>1, <1>3 DEF UpsertReads, Jobs, CatalogInv, TypeOK
<1>5. TypeOK'
  BY <1>4 DEF UpsertReads, engineVars, CatalogInv, TypeOK
<1>6. UNCHANGED <<first, matches, evicted, catalog, lastId>>
  BY DEF UpsertReads
<1>7. DocumentOK(catalog)' /\ \A c \in {doc, job[h].seen} : DocumentOK(c) => DocumentOK(c)'
  BY <1>1, <1>6 DEF DocumentOK, KeepsKnown, RowIds, Hits
<1>8. JobOK(job[h])'
  <2>1. /\ job'[h].does = job[h].does /\ job'[h].at = "writing" /\ job'[h].id = job[h].id
        /\ job'[h].row = job[h].row /\ job'[h].seen = job[h].seen /\ job'[h].doc = doc
    BY <1>1, <1>4 DEF Jobs
  <2>2. DocumentOK(job[h].doc)'
    BY <1>3, <1>7, <2>1 DEF DocumentOK, KeepsKnown, RowIds
  <2>3. job'[h].seen # None => DocumentOK(job[h].seen)'
    BY <1>1, <1>7, <2>1 DEF JobOK, DocumentOK, KeepsKnown, RowIds
  <2>4. RowOK(job[h].id, job[h].row)'
    BY <1>2, <1>6, <2>1 DEF RowOK, RowIds, Hits
  <2>5. doc # None
    BY <1>3 DEF SnifferAssumption
  <2> QED
    BY <1>1, <2>1, <2>2, <2>3, <2>4, <2>5 DEF UpsertReads, JobOK
<1>9. \A u \in Tasks \ {h} : job'[u] = job[u]
  BY DEF UpsertReads, CatalogInv, TypeOK
<1>10. lastId <= lastId' /\ \A i \in Ids : matches[i] <= matches'[i]
  BY <1>6 DEF CatalogInv, TypeOK
<1> QED
  BY <1>5, <1>6, <1>7, <1>8, <1>9, <1>10, TaskStep

LEMMA UpsertRaisesPreserves ==
  ASSUME SnifferAssumption, CatalogInv, NEW h \in Tasks, UpsertRaises(h)
  PROVE  CatalogInv'
<1>1. job[h]' = NoJob /\ NoJob \in Jobs
  BY DEF UpsertRaises, Ends, NoJob, Job, Jobs, CatalogInv, TypeOK
<1>2. TypeOK'
  BY <1>1 DEF UpsertRaises, Ends, engineVars, CatalogInv, TypeOK
<1>3. DocumentOK(catalog)' /\ JobOK(job[h])'
  BY <1>1 DEF UpsertRaises, NoJob, Job, CatalogInv, JobOK, DocumentOK, KeepsKnown, RowIds, Hits
<1> QED
  BY <1>2, <1>3, TaskStep DEF UpsertRaises, Ends, CatalogInv, TypeOK

LEMMA MintSavedPreserves ==
  ASSUME SnifferAssumption, CatalogInv, NEW h \in Tasks, MintSaved(h)
  PROVE  CatalogInv'
<1> DEFINE old == job[h].seen
<1>1. job[h] \in Jobs /\ JobOK(job[h])
  BY TaskIsTyped
<1>2. /\ job[h].doc \in Catalogs /\ DocumentOK(job[h].doc)
      /\ old \in Catalogs /\ DocumentOK(old)
      /\ job[h].row \in Rows /\ RowOK(job[h].id, job[h].row)
  BY <1>1 DEF MintSaved, JobOK, Jobs
<1>3. first' = first /\ matches' = matches /\ evicted \subseteq evicted'
      /\ UNCHANGED <<engineVars, lastId, clock>> /\ catalog' = job[h].doc
  BY DEF MintSaved
<1>4. DocumentOK(catalog)' /\ catalog' \in Catalogs
  BY <1>2, <1>3 DEF DocumentOK, KeepsKnown, RowIds, Hits
<1>5. CASE Ends(h) /\ UNCHANGED evicted
  <2>1. job[h]' = NoJob /\ NoJob \in Jobs
    BY <1>5 DEF Ends, NoJob, Job, Jobs, CatalogInv, TypeOK
  <2>2. TypeOK'
    BY <1>3, <1>4, <1>5, <2>1 DEF Ends, engineVars, CatalogInv, TypeOK
  <2>3. JobOK(job[h])'
    BY <2>1 DEF NoJob, Job, JobOK
  <2> QED
    BY <1>3, <1>4, <1>5, <2>2, <2>3, TaskStep DEF Ends, CatalogInv, TypeOK
<1>6. ASSUME NEW k \in CappedIds(old, clock),
             job' = [job EXCEPT ![h].at = "capping", ![h].seen = None,
                                ![h].doc = Restricted(old, k)],
             evicted' = evicted \cup (RowIds(old) \ k)
      PROVE  CatalogInv'
  <2> DEFINE doc == Restricted(old, k)
  <2>1. k \in SUBSET RowIds(old) /\ doc \in Catalogs
    BY <1>2, CapsKeepAPart, RestrictedType
  <2>2. job[h]' = [job[h] EXCEPT !.at = "capping", !.seen = None, !.doc = doc]
        /\ job[h]' \in Jobs
    BY <1>1, <1>6, <2>1 DEF Jobs, CatalogInv, TypeOK
  <2>3. evicted' \subseteq Ids
    BY <1>6 DEF CatalogInv, TypeOK, RowIds
  <2>4. TypeOK'
    BY <1>3, <1>4, <1>6, <2>2, <2>3 DEF engineVars, CatalogInv, TypeOK
  <2>5. ASSUME NEW c, c = old
        PROVE  DocumentOK(Restricted(c, k))'
    BY <1>2, <1>3, <1>6, <2>1, <2>5, RestrictedOK
  <2>6. JobOK(job[h])'
    <3>1. /\ job'[h].does = "mint" /\ job'[h].at = "capping" /\ job'[h].id = job[h].id
          /\ job'[h].row = job[h].row /\ job'[h].seen = None /\ job'[h].doc = doc
      BY <1>1, <2>2 DEF Jobs, MintSaved
    <3>2. DocumentOK(job[h].doc)'
      BY <2>5, <3>1 DEF DocumentOK, KeepsKnown, RowIds, Restricted
    <3>3. RowOK(job[h].id, job[h].row)'
      BY <1>2, <1>3, <3>1 DEF RowOK, RowIds, Hits
    <3>4. doc # None /\ job[h].row # None
      BY <1>2, <2>1 DEF SnifferAssumption
    <3> QED
      BY <3>1, <3>2, <3>3, <3>4 DEF JobOK
  <2>7. \A u \in Tasks \ {h} : job'[u] = job[u]
    BY <1>6 DEF CatalogInv, TypeOK
  <2>8. lastId <= lastId' /\ \A i \in Ids : matches[i] <= matches'[i]
    BY <1>3 DEF CatalogInv, TypeOK
  <2> QED
    BY <1>3, <1>4, <2>4, <2>6, <2>7, <2>8, TaskStep
<1> QED
  BY <1>5, <1>6 DEF MintSaved

LEMMA SavedPreserves ==
  ASSUME SnifferAssumption, CatalogInv, NEW t \in Tasks, Saved(t)
  PROVE  CatalogInv'
<1>1. job[t] \in Jobs /\ JobOK(job[t])
  BY TaskIsTyped
<1>2. job[t].doc \in Catalogs /\ DocumentOK(job[t].doc)
  BY <1>1 DEF Saved, JobOK, Jobs
<1>3. job[t]' = NoJob /\ NoJob \in Jobs
  BY DEF Saved, Ends, NoJob, Job, Jobs, CatalogInv, TypeOK
<1>4. TypeOK'
  BY <1>2, <1>3 DEF Saved, Ends, engineVars, CatalogInv, TypeOK
<1>5. DocumentOK(catalog)' /\ JobOK(job[t])'
  BY <1>2, <1>3 DEF Saved, NoJob, Job, JobOK, DocumentOK, KeepsKnown, RowIds, Hits
<1> QED
  BY <1>4, <1>5, TaskStep DEF Saved, Ends, CatalogInv, TypeOK

-------------------------------------------------------------------------------
(* Dismissals.                                                             *)

LEMMA DismissPreserves ==
  ASSUME SnifferAssumption, CatalogInv, NEW x \in Dismissers, NEW m \in Receivers,
         Dismiss(x, m)
  PROVE  CatalogInv'
<1>1. x \in Tasks /\ catalog \in Catalogs /\ DocumentOK(catalog) /\ catalog # None
  BY DEF Tasks, CatalogInv, TypeOK, SnifferAssumption
<1>2. job[x]' = Job("reading", "dismiss", m, None, catalog) /\ job[x]' \in Jobs
  BY <1>1 DEF Dismiss, Job, Jobs, CatalogInv, TypeOK
<1>3. UNCHANGED <<engineVars, catalog, lastId, clock, first, matches, evicted>>
  BY DEF Dismiss
<1>4. TypeOK'
  BY <1>2, <1>3 DEF Dismiss, engineVars, CatalogInv, TypeOK
<1>5. DocumentOK(catalog)' /\ \A c \in {catalog} : DocumentOK(c)'
  BY <1>1, <1>3 DEF DocumentOK, KeepsKnown, RowIds, Hits
<1>6. JobOK(job[x])'
  <2>1. /\ job'[x].at = "reading" /\ job'[x].does = "dismiss" /\ job'[x].id = m
        /\ job'[x].seen = catalog /\ job'[x].doc = None
    BY <1>2 DEF Job
  <2>2. DocumentOK(job[x].seen)'
    BY <1>5, <2>1 DEF DocumentOK, KeepsKnown, RowIds
  <2> QED
    BY <1>1, <2>1, <2>2 DEF JobOK
<1>7. \A u \in Tasks \ {x} : job'[u] = job[u]
  BY DEF Dismiss, CatalogInv, TypeOK
<1>8. lastId <= lastId' /\ \A i \in Ids : matches[i] <= matches'[i]
  BY <1>3 DEF CatalogInv, TypeOK
<1> QED
  BY <1>1, <1>3, <1>4, <1>5, <1>6, <1>7, <1>8, TaskStep

LEMMA DismissReadsPreserves ==
  ASSUME SnifferAssumption, CatalogInv, NEW x \in Tasks, DismissReads(x)
  PROVE  CatalogInv'
<1> DEFINE old == job[x].seen
           doc == Toggled(catalog, old, job[x].id)
<1>1. job[x] \in Jobs /\ JobOK(job[x]) /\ catalog \in Catalogs /\ DocumentOK(catalog)
  BY TaskIsTyped DEF CatalogInv, TypeOK
<1>2. job[x].id \in Receivers /\ old \in Catalogs /\ DocumentOK(old)
  BY <1>1 DEF DismissReads, JobOK, Jobs
<1>3. doc \in Catalogs /\ DocumentOK(doc) /\ doc # None
  BY <1>1, <1>2, ToggledType, ToggledOK DEF SnifferAssumption
<1>4. job[x]' = [job[x] EXCEPT !.at = "writing", !.seen = None, !.doc = doc]
      /\ job[x]' \in Jobs
  BY <1>1, <1>3 DEF DismissReads, Jobs, CatalogInv, TypeOK
<1>5. UNCHANGED <<engineVars, catalog, lastId, clock, first, matches, evicted>>
  BY DEF DismissReads
<1>6. TypeOK'
  BY <1>4, <1>5 DEF DismissReads, engineVars, CatalogInv, TypeOK
<1>7. DocumentOK(catalog)' /\ \A c \in {doc} : DocumentOK(c)'
  BY <1>1, <1>3, <1>5 DEF DocumentOK, KeepsKnown, RowIds, Hits
<1>8. JobOK(job[x])'
  <2>1. /\ job'[x].at = "writing" /\ job'[x].does = "dismiss" /\ job'[x].id = job[x].id
        /\ job'[x].seen = None /\ job'[x].doc = doc
    <3> HIDE DEF doc
    <3>1. job[x].does = "dismiss"
      BY DEF DismissReads
    <3> QED
      BY <1>1, <1>4, <3>1 DEF Jobs
  <2>2. DocumentOK(job[x].doc)'
    BY <1>7, <2>1 DEF DocumentOK, KeepsKnown, RowIds
  <2> QED
    BY <1>2, <1>3, <2>1, <2>2 DEF JobOK
<1>9. \A u \in Tasks \ {x} : job'[u] = job[u]
  BY DEF DismissReads, CatalogInv, TypeOK
<1>10. lastId <= lastId' /\ \A i \in Ids : matches[i] <= matches'[i]
  BY <1>5 DEF CatalogInv, TypeOK
<1> QED
  BY <1>5, <1>6, <1>7, <1>8, <1>9, <1>10, TaskStep

-------------------------------------------------------------------------------
(* The theorems.                                                           *)

LEMMA InitEstablishes ==
  ASSUME SnifferAssumption, Init
  PROVE  CatalogInv
<1>1. NoJob \in Jobs
  BY DEF NoJob, Job, Jobs
<1>2. catalog \in Catalogs /\ first \in Catalogs
  BY DEF Init, SnifferAssumption
<1>3. TypeOK
  <2>1. setups \in 0 .. MaxSetups /\ clock \in 0 .. MaxCaptures /\ live \subseteq Subscriptions
    BY DEF Init, SnifferAssumption
  <2>2. slots \in [Receivers -> Subscriptions \cup {None}] /\ job \in [Tasks -> Jobs]
    BY <1>1 DEF Init
  <2>3. matches \in [Ids -> Nat] /\ evicted \subseteq Ids /\ lastId \in 0 .. MaxRows
        /\ loaded \in BOOLEAN
    BY DEF Init
  <2> QED
    BY <1>2, <2>1, <2>2, <2>3 DEF TypeOK
<1>4. ASSUME NEW i \in RowIds(catalog)
      PROVE  catalog.rows[i].hits <= Hits(i)
  <2>1. catalog.rows[i] \in Rows /\ i \in Ids
    BY <1>2 DEF RowIds, Catalogs
  <2>2. catalog.rows[i].hits \in Nat
    BY <2>1 DEF Rows
  <2>3. Hits(i) = catalog.rows[i].hits
    BY <2>1, <2>2 DEF Init, Hits
  <2> QED
    BY <2>2, <2>3
<1>5. DocumentOK(catalog)
  BY <1>4 DEF Init, DocumentOK, KeepsKnown
<1>6. \A t \in Tasks : JobOK(job[t])
  BY DEF Init, NoJob, Job, JobOK
<1> QED
  BY <1>3, <1>5, <1>6 DEF Init, CatalogInv

\* No task that is still to save a document it loaded or computed earlier holds
\* one that forgets a known signal or invents a hit, for any number of captures
\* and dismissals handled at once (handle_capture, sniffer/dismiss, the store).
THEOREM CatalogInvariance == Spec => []CatalogInv
<1>1. Init => CatalogInv
  BY InitEstablishes, SnifferAssumption
<1>2. CatalogInv /\ [Next]_vars => CatalogInv'
  <2> SUFFICES ASSUME CatalogInv, [Next]_vars
               PROVE  CatalogInv'
    OBVIOUS
  <2>1. ASSUME NEW n \in 0 .. Len(ReceiverList), Setup(n)
        PROVE  CatalogInv'
    BY <2>1, SetupPreserves, SnifferAssumption
  <2>2. CASE Unload
    BY <2>2, UnloadPreserves, SnifferAssumption
  <2>3. ASSUME NEW h \in Handlers, NEW s \in live, NEW k \in Keys, Capture(h, s, k)
        PROVE  CatalogInv'
    BY <2>3, CapturePreserves, SnifferAssumption
  <2>4. ASSUME NEW x \in Dismissers, NEW m \in Receivers, Dismiss(x, m)
        PROVE  CatalogInv'
    BY <2>4, DismissPreserves, SnifferAssumption
  <2>5. ASSUME NEW t \in Tasks, Resumes(t)
        PROVE  CatalogInv'
    BY <2>5, UpsertReadsPreserves, UpsertRaisesPreserves, DismissReadsPreserves,
       MintSavedPreserves, SavedPreserves, SnifferAssumption DEF Resumes
  <2>6. CASE UNCHANGED vars
    BY <2>6, StutterPreserves
  <2> QED
    BY <2>1, <2>2, <2>3, <2>4, <2>5, <2>6 DEF Next
<1> QED
  BY <1>1, <1>2, PTL DEF Spec

\* The store loses no remote and, but for the caps, no signal it had at the start.
THEOREM KnownSignalsStay == Spec => []KnownRowsStay
<1>1. CatalogInv => KnownRowsStay
  BY DEF CatalogInv, DocumentOK, KnownRowsStay
<1> QED
  BY <1>1, CatalogInvariance, PTL

\* No signal shows more hits than it had and captures of it were heard.
THEOREM HitsNeverInvented == Spec => []HitsAreCaptures
<1>1. CatalogInv => HitsAreCaptures
  BY DEF CatalogInv, DocumentOK, HitsAreCaptures
<1> QED
  BY <1>1, CatalogInvariance, PTL

-------------------------------------------------------------------------------
(* Subscriptions.                                                          *)

\* A later entry of the list is for the same receiver.
Replaced(s) == \E j \in s[2] + 1 .. Len(ReceiverList) : ReceiverList[j] = ReceiverList[s[2]]

\* The invariant behind LeaksOnlyDuplicates: the subscriptions of the engine that
\* runs are in its slots, unless replaced, and none is of an engine to come.
SubscriptionInv ==
  /\ TypeOK
  /\ \A s \in live : /\ s[1] <= setups
                     /\ \/ loaded /\ s[1] = setups /\ slots[ReceiverList[s[2]]] = s
                        \/ Replaced(s)

LEMMA SetupSubscribes ==
  ASSUME SnifferAssumption, TypeOK, SubscriptionInv, NEW n \in 0 .. Len(ReceiverList), Setup(n)
  PROVE  \A s \in live' : /\ s[1] <= setups'
                         /\ \/ loaded' /\ s[1] = setups' /\ slots'[ReceiverList[s[2]]] = s
                            \/ Replaced(s)
<1>1. n \in Nat /\ Len(ReceiverList) \in Nat /\ n <= Len(ReceiverList) /\ setups \in Nat
  BY DEF SnifferAssumption, TypeOK
<1>2. ASSUME NEW s \in live
      PROVE  s[1] <= setups' /\ Replaced(s)
  <2>1. s[1] \in Nat
    BY DEF TypeOK, Subscriptions
  <2> QED
    BY <1>1, <2>1 DEF Setup, SubscriptionInv
<1>3. ASSUME NEW i \in 1 .. n
      PROVE  slots'[ReceiverList[i]] = <<setups', i>> \/ Replaced(<<setups', i>>)
  <2> DEFINE r == ReceiverList[i]
             mine == {j \in 1 .. n : ReceiverList[j] = r}
             last == CHOOSE j \in mine : \A l \in mine : l <= j
  <2>1. r \in Receivers /\ mine # {}
    BY <1>1, <1>3 DEF SnifferAssumption
  <2>2. slots'[r] = <<setups', last>>
    BY <2>1 DEF Setup
  <2>3. \E j \in mine : \A l \in mine : l <= j
    BY <1>1, <2>1, LastPosition
  <2>4. last \in mine /\ i <= last
    BY <2>3
  <2>5. CASE last = i
    BY <2>2, <2>5
  <2>6. CASE last # i
    <3>1. last \in i + 1 .. Len(ReceiverList) /\ ReceiverList[last] = r
      BY <1>1, <2>4, <2>6
    <3> QED
      BY <3>1 DEF Replaced
  <2> QED
    BY <2>5, <2>6
<1>4. ASSUME NEW s \in live'
      PROVE  /\ s[1] <= setups'
             /\ \/ loaded' /\ s[1] = setups' /\ slots'[ReceiverList[s[2]]] = s
                \/ Replaced(s)
  <2>1. CASE s \in live
    BY <1>2, <2>1
  <2>2. ASSUME NEW i \in 1 .. n, s = <<setups', i>>
        PROVE  /\ s[1] <= setups'
               /\ \/ loaded' /\ s[1] = setups' /\ slots'[ReceiverList[s[2]]] = s
                  \/ Replaced(s)
    <3>1. s[1] = setups' /\ s[2] = i /\ loaded'
      BY <2>2 DEF Setup
    <3>2. setups' \in Nat /\ s[1] <= setups'
      BY <1>1, <3>1 DEF Setup
    <3> QED
      BY <1>3, <2>2, <3>1, <3>2
  <2> QED
    BY <2>1, <2>2 DEF Setup
<1> QED
  BY <1>4

\* However often the entry is set up and unloaded, and wherever a setup was
\* broken off, a subscription is left behind only if another took its slot (stop
\* in sniffer/engine.py).
THEOREM OnlyDuplicatesLeak == Spec => []LeaksOnlyDuplicates
<1>1. Init => SubscriptionInv
  BY InitEstablishes, SnifferAssumption DEF Init, SubscriptionInv, CatalogInv
<1>2. CatalogInv' /\ SubscriptionInv /\ [Next]_vars => SubscriptionInv'
  <2> SUFFICES ASSUME CatalogInv', SubscriptionInv, [Next]_vars
               PROVE  SubscriptionInv'
    OBVIOUS
  <2>1. TypeOK /\ TypeOK'
    BY DEF CatalogInv, SubscriptionInv
  <2>2. ASSUME NEW n \in 0 .. Len(ReceiverList), Setup(n)
        PROVE  SubscriptionInv'
    BY <2>1, <2>2, SetupSubscribes, SnifferAssumption DEF SubscriptionInv, Replaced
  <2>3. CASE Unload
    <3>1. ASSUME NEW s \in live'
          PROVE  s[1] <= setups' /\ Replaced(s)
      <4>1. s \in live /\ s \in Subscriptions
        BY <2>1, <2>3 DEF Unload, TypeOK
      <4>2. ReceiverList[s[2]] \in Receivers
        BY <4>1, SnifferAssumption DEF Subscriptions, SnifferAssumption
      <4>3. slots[ReceiverList[s[2]]] # s
        BY <2>3, <4>2 DEF Unload
      <4> QED
        BY <2>3, <4>1, <4>3 DEF Unload, SubscriptionInv
    <3> QED
      BY <2>1, <3>1 DEF SubscriptionInv, Replaced
  <2>4. CASE UNCHANGED engineVars
    BY <2>1, <2>4 DEF engineVars, SubscriptionInv, Replaced
  <2>5. \/ \E n \in 0 .. Len(ReceiverList) : Setup(n)
        \/ Unload
        \/ UNCHANGED engineVars
    BY DEF Next, Capture, Dismiss, Resumes, UpsertReads, UpsertRaises, DismissReads,
       MintSaved, Saved, vars
  <2> QED
    BY <2>2, <2>3, <2>4, <2>5
<1>3. SubscriptionInv => LeaksOnlyDuplicates
  BY DEF SubscriptionInv, LeaksOnlyDuplicates, Replaced
<1> QED
  BY <1>1, <1>2, <1>3, CatalogInvariance, PTL DEF Spec

===============================================================================
