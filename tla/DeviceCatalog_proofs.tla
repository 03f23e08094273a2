-------------------------- MODULE DeviceCatalog_proofs -------------------------
(***************************************************************************)
(* Theorems about DeviceCatalog.                                           *)
(***************************************************************************)
EXTENDS DeviceCatalog, TLAPS

USE DEF Accounted

-------------------------------------------------------------------------------
(* The types of what handlers and the coordinator build.                   *)

LEMMA NoneApart ==
  ASSUME DeviceAssumption
  PROVE  /\ None \notin Records /\ None \notin Stores /\ None \notin Devices
         /\ None \notin Calls /\ None \notin Ops
BY DEF DeviceAssumption

LEMMA ResultType ==
  ASSUME DeviceAssumption, NEW j \in Jobs, j.op # None, NEW r \in Records
  PROVE  /\ Result(j, r) = None <=> j.op = "delete"
         /\ Result(j, r) \in Records \cup {None}
<1>1. j.tag \in Calls /\ j.op \in Ops
  BY DEF Jobs
<1>2. Fresh(j.what, j.tag) \in Records
  BY <1>1 DEF Fresh, Records
<1>3. Edited(r, j.what, j.tag) \in Records
  BY <1>1 DEF Edited, Records
<1>4. Cleared(r, j.what) \in Records
  BY DEF Cleared, Records
<1>5. CASE j.op = "create"
  BY <1>2, <1>5, NoneApart DEF Result
<1>6. CASE j.op \in {"update", "edit"}
  BY <1>3, <1>6, NoneApart DEF Result
<1>7. CASE j.op = "remove"
  BY <1>4, <1>7, NoneApart DEF Result
<1>8. CASE j.op = "delete"
  BY <1>8 DEF Result
<1> QED
  BY <1>1, <1>5, <1>6, <1>7, <1>8 DEF Ops

LEMMA BuiltFacts ==
  ASSUME DeviceAssumption, NEW d \in Devices, NEW r \in Records
  PROVE  /\ Built(d, r) \in Entities
         /\ d \in Primaries => Built(d, r).primary # None
         /\ Commands(r) # {} => Built(d, r).button # None
BY NoneApart DEF Built, Entities

LEMMA MergedFacts ==
  ASSUME NEW old \in Entities, NEW new \in Entities
  PROVE  /\ Merged(old, new) \in Entities
         /\ Merged(old, new).primary # None <=> old.primary # None \/ new.primary # None
         /\ Merged(old, new).button # None <=> old.button # None \/ new.button # None
BY DEF Merged, Entities

LEMMA LastBuiltFacts ==
  ASSUME DeviceAssumption, NEW d \in Devices, NEW r \in Records, NEW old \in Entities
  PROVE  /\ LastBuilt(d, r, old) \in Descriptors \cup {None}
         /\ LastBuilt(d, r, old) # None =>
              Built(d, r)[LastBuilt(d, r, old).role] # None
<1> DEFINE new == Built(d, r)
           b == [role |-> "button", own |-> old.button = None /\ Cardinality(Commands(r)) = 1]
           p == [role |-> "primary", own |-> old.primary = None]
<1>1. new.button = new["button"] /\ new.primary = new["primary"]
  BY DEF Built
<1>2. b \in Descriptors /\ p \in Descriptors
  BY DEF Descriptors
<1>3. CASE new.button # None /\ d \notin PrimaryLast
  <2>1. LastBuilt(d, r, old) = b
    BY <1>3 DEF LastBuilt
  <2> QED
    BY <1>1, <1>2, <1>3, <2>1
<1>4. CASE ~(new.button # None /\ d \notin PrimaryLast) /\ new.primary # None
  <2>1. LastBuilt(d, r, old) = p
    BY <1>4 DEF LastBuilt
  <2> QED
    BY <1>1, <1>2, <1>4, <2>1
<1>5. CASE ~(new.button # None /\ d \notin PrimaryLast) /\ new.primary = None
  <2>1. LastBuilt(d, r, old) = None
    BY <1>5 DEF LastBuilt
  <2> QED
    BY <2>1
<1> QED
  BY <1>3, <1>4, <1>5

\* What a push does.
LEMMA AddEntitiesFacts ==
  ASSUME DeviceAssumption, TypeOK, CacheOK, NEW d \in Devices, NEW r \in Records,
         AddEntities(d, r)
  PROVE  /\ live' \in [Devices -> Entities]
         /\ cache' \in [Devices -> Descriptors \cup {None}]
         /\ CacheOK'
         /\ \A e \in Devices : /\ live[e].primary # None => live'[e].primary # None
                               /\ live[e].button # None => live'[e].button # None
         /\ d \in Primaries => live'[d].primary # None
         /\ Commands(r) # {} => live'[d].button # None
<1> DEFINE new == Built(d, r)
<1>1. live[d] \in Entities /\ new \in Entities
  BY BuiltFacts DEF TypeOK
<1>2. /\ live' \in [Devices -> Entities]
      /\ live'[d] = Merged(live[d], new)
      /\ \A e \in Devices \ {d} : live'[e] = live[e]
  BY <1>1, MergedFacts DEF AddEntities, TypeOK
<1>3. /\ cache' \in [Devices -> Descriptors \cup {None}]
      /\ cache'[d] = LastBuilt(d, r, live[d])
      /\ \A e \in Devices \ {d} : cache'[e] = cache[e]
  BY <1>1, LastBuiltFacts DEF AddEntities, TypeOK
<1>4. \A e \in Devices : /\ live[e].primary # None => live'[e].primary # None
                         /\ live[e].button # None => live'[e].button # None
  BY <1>1, <1>2, MergedFacts
<1>5. /\ d \in Primaries => live'[d].primary # None
      /\ Commands(r) # {} => live'[d].button # None
  BY <1>1, <1>2, MergedFacts, BuiltFacts
<1>6. ASSUME NEW e \in Devices, cache'[e] # None, cache'[e].own
      PROVE  live'[e][cache'[e].role] # None
  <2>1. CASE e # d
    BY <1>2, <1>3, <1>6, <2>1 DEF CacheOK
  <2>2. CASE e = d
    <3>1. new[cache'[d].role] # None /\ cache'[d].role \in {"primary", "button"}
      BY <1>1, <1>3, <1>6, <2>2, LastBuiltFacts DEF Descriptors
    <3>2. Merged(live[d], new)[cache'[d].role] # None
      BY <1>1, <3>1 DEF Merged, Entities
    <3> QED
      BY <1>2, <2>2, <3>2
  <2> QED
    BY <2>1, <2>2
<1> QED
  BY <1>2, <1>3, <1>4, <1>5, <1>6 DEF CacheOK

\* What retiring a device's entities does: nothing to any other device.
LEMMA RemoveEntitiesFacts ==
  ASSUME DeviceAssumption, TypeOK, CacheOK, NEW d \in Devices, RemoveEntities(d)
  PROVE  /\ live' \in [Devices -> Entities]
         /\ cache' \in [Devices -> Descriptors \cup {None}]
         /\ CacheOK'
         /\ \A e \in Devices \ {d} : live'[e] = live[e]
<1>1. live[d] \in Entities
  BY DEF TypeOK
<1>2. \A role : Without(live[d], role) \in Entities
  BY <1>1 DEF Without, Entities
<1>3. live' \in [Devices -> Entities] /\ \A e \in Devices \ {d} : live'[e] = live[e]
  <2>1. CASE cache[d] # None /\ cache[d].own
    BY <1>2, <2>1 DEF RemoveEntities, TypeOK
  <2>2. CASE ~(cache[d] # None /\ cache[d].own)
    BY <2>2 DEF RemoveEntities, TypeOK
  <2> QED
    BY <2>1, <2>2
<1>4. /\ cache' \in [Devices -> Descriptors \cup {None}]
      /\ cache'[d] = None
      /\ \A e \in Devices \ {d} : cache'[e] = cache[e]
  BY DEF RemoveEntities, TypeOK
<1> QED
  BY <1>3, <1>4 DEF CacheOK

LEMMA EntitiesOfFacts ==
  ASSUME DeviceAssumption, NEW s \in Stores
  PROVE  /\ EntitiesOf(s) \in [Devices -> Entities]
         /\ \A d \in Stored(s) : /\ d \in Primaries => EntitiesOf(s)[d].primary # None
                                 /\ Commands(s[d]) # {} => EntitiesOf(s)[d].button # None
<1>1. NoEntities \in Entities
  BY DEF NoEntities, Entities
<1>2. ASSUME NEW d \in Stored(s)
      PROVE  d \in Devices /\ s[d] \in Records /\ EntitiesOf(s)[d] = Built(d, s[d])
  BY <1>2 DEF Stored, Stores, EntitiesOf
<1>3. ASSUME NEW d \in Devices
      PROVE  (IF s[d] # None THEN Built(d, s[d]) ELSE NoEntities) \in Entities
  BY <1>1, BuiltFacts DEF Stores
<1> QED
  BY <1>2, <1>3, BuiltFacts DEF EntitiesOf

-------------------------------------------------------------------------------
(* The invariant.                                                          *)

\* Nothing of what a handler knows is undone by other handlers.
LEMMA JobStays ==
  ASSUME NEW j, JobOK(j), known \subseteq known'
  PROVE  JobOK(j)'
BY DEF JobOK

LEMMA JobFacts ==
  ASSUME DeviceAssumption, TypeOK, NEW h \in Handlers, JobOK(job[h]), job[h].at # "idle"
  PROVE  /\ job[h] \in Jobs
         /\ job[h].op \in Ops
         /\ job[h].dev \in Devices
         /\ job[h].set # None => job[h].set \in Records
         /\ job[h].at # "getting" /\ job[h].op # "delete" => job[h].set \in Records
         /\ job[h].at = "writing" => job[h].base \in Stores
<1>1. job[h] \in Jobs
  BY DEF TypeOK
<1>2. job[h] # NoJob
  BY DEF NoJob, Job
<1>3. job[h].op # None /\ job[h].dev \in known
  BY <1>2 DEF JobOK
<1>4. /\ job[h].at # "getting" => (job[h].set = None <=> job[h].op = "delete")
      /\ job[h].at = "writing" => job[h].base # None
  BY <1>2 DEF JobOK
<1> QED
  BY <1>1, <1>3, <1>4 DEF Jobs, TypeOK

LEMMA IdleFacts ==
  /\ NoJob.at = "idle" /\ NoJob.op = None /\ NoJob.dev = None /\ NoJob.set = None
  /\ NoJob.base = None /\ NoJob.pass = 1
BY DEF NoJob, Job

LEMMA NoJobType == DeviceAssumption => NoJob \in Jobs
<1> SUFFICES ASSUME DeviceAssumption
             PROVE  NoJob \in Jobs
  OBVIOUS
<1>1. 0 \in Calls
  BY DEF DeviceAssumption, Calls
<1> QED
  BY <1>1 DEF NoJob, Job, Jobs

\* An idle handler holds and creates nothing.
LEMMA IdleHoldsNothing ==
  ASSUME DeviceAssumption
  PROVE  /\ NoJob.op \notin Ops
         /\ \A d \in Devices : ~Holds(NoJob, d) /\ ~Pushes(NoJob, d)
<1>1. NoJob.op \notin Ops
  BY IdleFacts, NoneApart
<1>2. ASSUME NEW d \in Devices
      PROVE  ~Holds(NoJob, d) /\ ~Pushes(NoJob, d)
  BY <1>1, IdleFacts DEF Holds, Pushes, Ops
<1> QED
  BY <1>1, <1>2

\* A call that ends leaves the invariant, when what it leaves behind follows the
\* store (the last three assumptions) and what it marks or registers is a device
\* it holds or creates.
LEMMA EndKeeps ==
  ASSUME DeviceAssumption, DeviceInv, NEW h \in Handlers, job[h].at # "idle", End(h),
         UNCHANGED <<store, known, calls, starts>>,
         live' \in [Devices -> Entities],
         cache' \in [Devices -> Descriptors \cup {None}],
         CacheOK',
         torn' \subseteq known, Accounted' \subseteq known,
         torn \subseteq torn', Accounted \subseteq Accounted',
         \A d \in Devices : d \in torn' => d \in torn \/ Holds(job[h], d),
         \A d \in Devices :
           d \in Accounted' => d \in Accounted \/ Holds(job[h], d) \/ (Creates(h, d) /\ job[h].at = "finishing"),
         \A d \in Devices : Creates(h, d) => d \in Accounted' \/ job[h].at = "loading",
         \A d \in Devices \ torn' :
           (store[d] # None \/ \E g \in Handlers \ {h} : Holds(job[g], d)) =>
             /\ live[d].primary # None => live'[d].primary # None
             /\ live[d].button # None => live'[d].button # None,
         \A d \in Devices \ torn' : Pushes(job[h], d) => live'[d].button # None,
         \A d \in Primaries :
           Creates(h, d) /\ job[h].at = "finishing" => live'[d].primary # None
  PROVE  DeviceInv'
<1> USE DEF DeviceInv
<1>1. job' \in [Handlers -> Jobs] /\ overlap' \in [Devices -> SUBSET Handlers]
  BY NoJobType DEF TypeOK, End
<1>2. job'[h] = NoJob /\ \A g \in Handlers \ {h} : job'[g] = job[g]
  BY DEF End, TypeOK
<1>3. \A d \in Devices : overlap'[d] = overlap[d] \ {h}
  BY DEF End
<1>4. TypeOK'
  BY <1>1 DEF TypeOK
<1>5. KnownOK'
  BY DEF KnownOK
<1>6. \A g \in Handlers : JobOK(job[g])'
  BY <1>2, JobStays DEF JobOK
<1>7. \A g \in Handlers, d \in Devices :
        /\ Creates(g, d)' <=> Creates(g, d) /\ g # h
        /\ Holds(job'[g], d) <=> Holds(job[g], d) /\ g # h
        /\ Pushes(job'[g], d) <=> Pushes(job[g], d) /\ g # h
  BY <1>2, IdleHoldsNothing DEF Creates, Ops
<1>8. CreatorsOK'
  <2>1. ASSUME NEW g \in Handlers, job'[g].op = "create",
               job'[g].at \in {"loading", "writing"},
               NEW d \in Devices, d = job[g].dev
        PROVE  /\ g # h /\ job'[g] = job[g]
               /\ store'[d] = None /\ d \notin torn' \cup Accounted'
               /\ \A k \in Handlers \ {g} : ~Holds(job'[k], d) /\ ~Creates(k, d)'
    <3>1. g # h /\ job'[g] = job[g]
      BY <1>2, <2>1, IdleFacts
    <3>2. /\ store[d] = None /\ d \notin torn \cup Accounted
          /\ \A k \in Handlers \ {g} : ~Holds(job[k], d) /\ ~Creates(k, d)
      BY <2>1, <3>1 DEF CreatorsOK
    <3>3. ~Holds(job[h], d) /\ ~Creates(h, d)
      BY <3>1, <3>2
    <3>4. d \notin torn' \cup Accounted'
      BY <3>2, <3>3
    <3>5. \A k \in Handlers \ {g} : ~Holds(job'[k], d) /\ ~Creates(k, d)'
      BY <1>7, <3>2
    <3> QED
      BY <3>1, <3>2, <3>4, <3>5
  <2>2. ASSUME NEW g \in Handlers, job'[g].op = "create",
               job'[g].at \in {"loading", "writing"}
        PROVE  g # h /\ job'[g] = job[g] /\ job[g].dev \in Devices
    <3>1. g # h /\ job'[g] = job[g]
      BY <1>2, <2>2, IdleFacts
    <3> QED
      BY <2>2, <3>1, JobFacts
  <2> QED
    BY <2>1, <2>2 DEF CreatorsOK
<1>9. \A d \in Devices : (d \in Accounted' \/ \E g \in Handlers : Creates(g, d)')
                         \/ ~Registering(d) \/ (Creates(h, d) /\ job[h].at = "loading")
  BY <1>7 DEF Registering
<1>10. HoldersOK'
  <2> SUFFICES ASSUME NEW g \in Handlers, NEW d \in Devices, Holds(job'[g], d)
               PROVE  /\ Registering(d)'
                      /\ store'[d] = None => g \in overlap'[d] /\ d \in torn'
    BY DEF HoldersOK
  <2>1. g # h /\ Holds(job[g], d)
    BY <1>7
  <2>2. ~(Creates(h, d) /\ job[h].at = "loading")
    BY <2>1 DEF CreatorsOK, Creates
  <2> QED
    BY <1>3, <1>9, <2>1, <2>2 DEF HoldersOK, Registering
<1>11. StoredIsRegistered'
  <2> SUFFICES ASSUME NEW d \in Devices, store[d] # None, d \notin Accounted'
               PROVE  \E g \in Handlers : Creates(g, d)'
    BY DEF StoredIsRegistered, Stored, Creates
  <2>1. Registering(d)
    BY DEF StoredIsRegistered, Stored, Registering, Creates
  <2>2. ~(Creates(h, d) /\ job[h].at = "loading")
    BY DEF CreatorsOK, Creates
  <2> QED
    BY <1>9, <2>1, <2>2
<1>12. ASSUME NEW d \in Devices \ torn', ButtonComes(d),
              store[d] # None \/ \E g \in Handlers \ {h} : Holds(job[g], d)
       PROVE  ButtonComes(d)'
  <2>1. CASE live[d].button # None
    BY <1>12, <2>1 DEF ButtonComes
  <2>2. CASE Pushes(job[h], d)
    BY <1>12, <2>2 DEF ButtonComes
  <2>3. ASSUME NEW g \in Handlers \ {h}, Pushes(job[g], d)
        PROVE  ButtonComes(d)'
    <3>1. Pushes(job'[g], d)
      BY <1>7, <2>3
    <3> QED
      BY <3>1 DEF ButtonComes
  <2> QED
    BY <1>12, <2>1, <2>2, <2>3 DEF ButtonComes
<1>13. EntitiesOK'
  <2>1. ASSUME NEW g \in Handlers, job'[g].op = "delete"
        PROVE  /\ job'[g].at = "writing" => store'[job'[g].dev] # None \/ job'[g].dev \in torn'
               /\ job'[g].at = "finishing" => job'[g].dev \in torn'
    <3>1. g # h /\ job'[g] = job[g]
      BY <1>2, <2>1, IdleHoldsNothing DEF Ops
    <3> QED
      BY <2>1, <3>1 DEF EntitiesOK
  <2>2. ASSUME NEW d \in Stored(store') \ torn'
        PROVE  /\ d \in Primaries => live'[d].primary # None \/ \E g \in Handlers : Creates(g, d)'
               /\ Commands(store'[d]) # {} => ButtonComes(d)'
    <3>1. d \in Stored(store) \ torn /\ d \in Devices \ torn' /\ store[d] # None
      BY <2>2 DEF Stored
    <3>2. ~(Creates(h, d) /\ job[h].at = "loading")
      BY <3>1 DEF CreatorsOK, Creates
    <3>3. Creates(h, d) => job[h].at = "finishing" \/ job[h].at = "writing"
      <4>1. Creates(h, d) => job[h].at # "getting"
        BY DEF JobOK, Creates, NoJob, Job
      <4> QED
        BY <3>2, <4>1 DEF TypeOK, Jobs
    <3>4. Creates(h, d) => job[h].at = "finishing"
      BY <3>1, <3>3 DEF CreatorsOK, Creates
    <3> QED
      BY <1>7, <1>12, <3>1, <3>4 DEF EntitiesOK
  <2>3. ASSUME NEW g \in Handlers, NEW d \in Devices \ torn'
        PROVE  LET j == job'[g]
               IN /\ j.at = "writing" /\ j.dev # d /\ j.base[d] # None /\ Commands(j.base[d]) # {} =>
                       ButtonComes(d)'
                  /\ j.at \in {"loading", "writing"} /\ j.dev = d /\ j.op = "remove" /\ Commands(j.set) # {} =>
                       ButtonComes(d)'
    <3>1. CASE g = h
      BY <1>2, <3>1, IdleFacts
    <3>2. CASE g # h
      <4>1. job'[g] = job[g] /\ d \in Devices \ torn
        BY <1>2, <3>2
      <4>2. job[g].at \in {"loading", "writing"} /\ job[g].op = "remove" => job[g].set # None
        BY IdleFacts DEF JobOK
      <4>3. /\ job[g].at = "writing" /\ job[g].dev # d /\ job[g].base[d] # None => Holds(job[g], d)
            /\ job[g].at \in {"loading", "writing"} /\ job[g].dev = d /\ job[g].op = "remove" =>
                 Holds(job[g], d)
        BY <4>2 DEF Holds
      <4> QED
        BY <1>12, <3>2, <4>1, <4>3 DEF EntitiesOK
    <3> QED
      BY <3>1, <3>2
  <2> QED
    BY <2>1, <2>2, <2>3 DEF EntitiesOK
<1> QED
  BY <1>4, <1>5, <1>6, <1>8, <1>10, <1>11, <1>13

-------------------------------------------------------------------------------
(* Steps that end a call.                                                  *)

LEMMA GetNothingPreserves ==
  ASSUME DeviceAssumption, DeviceInv, NEW h \in Handlers, GetNothing(h)
  PROVE  DeviceInv'
<1>1. job[h].at = "getting" /\ End(h)
  BY DEF GetNothing
<1>2. JobOK(job[h]) /\ job[h] # NoJob
  BY <1>1, IdleFacts DEF DeviceInv
<1>3. job[h].op \in {"update", "edit", "remove"} /\ job[h].pass # 2
  BY <1>1, <1>2 DEF JobOK
<1>4. /\ UNCHANGED <<store, live, cache, registered, missed, known, calls, starts, torn>>
      /\ CacheOK'
  BY DEF GetNothing, DeviceInv, CacheOK
<1>5. \A d \in Devices : ~Creates(h, d) /\ ~Pushes(job[h], d)
  BY <1>1, <1>3 DEF Creates, Pushes
<1>6. /\ live' \in [Devices -> Entities] /\ cache' \in [Devices -> Descriptors \cup {None}]
      /\ torn' \subseteq known /\ Accounted' \subseteq known
      /\ Primaries \subseteq Devices
  BY <1>4 DEF DeviceInv, TypeOK, KnownOK, DeviceAssumption
<1> QED
  BY <1>1, <1>4, <1>5, <1>6, EndKeeps

LEMMA LoadNothingPreserves ==
  ASSUME DeviceAssumption, DeviceInv, NEW h \in Handlers, LoadNothing(h)
  PROVE  DeviceInv'
<1> DEFINE d == job[h].dev
<1>1. job[h].at = "loading" /\ job[h].op = "delete" /\ store[d] = None /\ End(h)
      /\ RemoveEntities(d)
      /\ UNCHANGED <<store, registered, missed, known, calls, starts, torn>>
  BY DEF LoadNothing
<1>2. JobOK(job[h]) /\ job[h] # NoJob /\ d \in Devices
  BY <1>1, IdleFacts, JobFacts DEF DeviceInv
<1>3. job[h].set = None
  BY <1>1, <1>2 DEF JobOK
<1>4. \A e \in Devices : ~Creates(h, e) /\ ~Pushes(job[h], e)
  BY <1>1 DEF Creates, Pushes
<1>5. /\ live' \in [Devices -> Entities] /\ cache' \in [Devices -> Descriptors \cup {None}]
      /\ CacheOK'
      /\ \A e \in Devices \ {d} : live'[e] = live[e]
  BY <1>1, <1>2, RemoveEntitiesFacts DEF DeviceInv
<1>6. /\ torn' \subseteq known /\ Accounted' \subseteq known /\ Primaries \subseteq Devices
  BY <1>1 DEF DeviceInv, TypeOK, KnownOK, DeviceAssumption
<1>7. ASSUME NEW e \in Devices \ torn',
             store[e] # None \/ \E g \in Handlers \ {h} : Holds(job[g], e)
      PROVE  e # d
  BY <1>1, <1>7 DEF DeviceInv, HoldersOK
<1> QED
  BY <1>1, <1>4, <1>5, <1>6, <1>7, EndKeeps

LEMMA FailPreserves ==
  ASSUME DeviceAssumption, DeviceInv, NEW h \in Handlers, Fail(h)
  PROVE  DeviceInv'
<1> DEFINE d == job[h].dev
<1>1. /\ job[h].at \in {"getting", "loading"} /\ End(h)
      /\ torn' = (IF job[h].pass = 2 THEN torn \cup {d} ELSE torn)
      /\ UNCHANGED <<store, live, cache, registered, missed, known, calls, starts>>
  BY DEF Fail
<1>2. JobOK(job[h]) /\ job[h] # NoJob /\ d \in Devices /\ d \in known
  <2>1. JobOK(job[h]) /\ job[h] # NoJob /\ job[h].at # "idle"
    BY <1>1, IdleFacts DEF DeviceInv
  <2> QED
    BY <2>1, JobFacts DEF DeviceInv, JobOK
<1>3. job[h].pass = 2 => Holds(job[h], d)
  BY <1>2 DEF JobOK, Holds
<1>4. job[h].op = "create" => job[h].at = "loading"
  BY <1>1, <1>2 DEF JobOK
<1>5. \A e \in Devices \ torn' : ~Pushes(job[h], e)
  BY <1>1 DEF Pushes
<1>6. /\ live' \in [Devices -> Entities] /\ cache' \in [Devices -> Descriptors \cup {None}]
      /\ CacheOK'
      /\ torn' \subseteq known /\ Accounted' \subseteq known /\ Primaries \subseteq Devices
  BY <1>1, <1>2 DEF DeviceInv, TypeOK, KnownOK, CacheOK, DeviceAssumption
<1>7. \A e \in Devices : e \in torn' => e \in torn \/ Holds(job[h], e)
  BY <1>1, <1>3
<1>8. \A e \in Devices : Creates(h, e) => job[h].at = "loading"
  BY <1>4 DEF Creates
<1>9. torn \subseteq torn' /\ job[h].at # "idle"
  BY <1>1
<1> QED
  BY <1>1, <1>5, <1>6, <1>7, <1>8, <1>9, EndKeeps

LEMMA FinishPreserves ==
  ASSUME DeviceAssumption, DeviceInv, NEW h \in Handlers, Finish(h)
  PROVE  DeviceInv'
<1> DEFINE d == job[h].dev
           r == job[h].set
<1>1. /\ job[h].at = "finishing" /\ End(h)
      /\ registered' = (IF Registers(job[h].op) THEN registered \cup {d} ELSE registered)
      /\ UNCHANGED <<store, missed, known, calls, starts, torn>>
  BY DEF Finish
<1>2. job[h] # NoJob /\ job[h].at # "idle" /\ JobOK(job[h])
  BY <1>1, IdleFacts DEF DeviceInv
<1>3. /\ job[h].op \in Ops /\ d \in Devices /\ d \in known
      /\ job[h].op # "delete" => r \in Records
  <2>1. d \in known
    BY <1>2 DEF JobOK
  <2> QED
    BY <1>1, <1>2, <2>1, JobFacts DEF DeviceInv
<1>4. /\ torn' \subseteq known /\ Accounted' \subseteq known /\ Primaries \subseteq Devices
      /\ Accounted \subseteq Accounted'
  BY <1>1, <1>3 DEF DeviceInv, TypeOK, KnownOK, DeviceAssumption
<1>5. \A e \in Devices :
        /\ e \in Accounted' => e \in Accounted \/ Holds(job[h], e) \/ Creates(h, e)
        /\ Creates(h, e) => e \in Accounted'
  <2>1. Registers(job[h].op) => Holds(job[h], d) \/ Creates(h, d)
    BY <1>1, <1>2 DEF Registers, Holds, Creates, JobOK
  <2>2. \A e : Creates(h, e) => e = d /\ Registers(job[h].op)
    BY DEF Creates, Registers
  <2> QED
    BY <1>1, <2>1, <2>2
<1>6. CASE job[h].op \in {"create", "update", "edit"}
  <2>1. AddEntities(d, r) /\ r \in Records
    BY <1>1, <1>3, <1>6 DEF Finish
  <2>2. /\ live' \in [Devices -> Entities]
        /\ cache' \in [Devices -> Descriptors \cup {None}]
        /\ CacheOK'
        /\ \A e \in Devices : /\ live[e].primary # None => live'[e].primary # None
                              /\ live[e].button # None => live'[e].button # None
        /\ d \in Primaries => live'[d].primary # None
        /\ Commands(r) # {} => live'[d].button # None
    BY <1>3, <2>1, AddEntitiesFacts DEF DeviceInv
  <2>3. /\ \A e : Pushes(job[h], e) => live'[e].button # None
        /\ \A e \in Primaries : Creates(h, e) => live'[e].primary # None
    BY <2>2 DEF Pushes, Creates
  <2> QED
    BY <1>1, <1>2, <1>4, <1>5, <2>2, <2>3, EndKeeps
<1>7. CASE job[h].op = "delete"
  <2>1. RemoveEntities(d) /\ d \in torn'
    BY <1>1, <1>7 DEF Finish, DeviceInv, EntitiesOK
  <2>2. /\ live' \in [Devices -> Entities]
        /\ cache' \in [Devices -> Descriptors \cup {None}]
        /\ CacheOK'
        /\ \A e \in Devices \ {d} : live'[e] = live[e]
    BY <1>3, <2>1, RemoveEntitiesFacts DEF DeviceInv
  <2>3. \A e : ~Pushes(job[h], e) /\ ~Creates(h, e)
    BY <1>7 DEF Pushes, Creates
  <2> QED
    BY <1>1, <1>2, <1>4, <1>5, <2>1, <2>2, <2>3, EndKeeps
<1>8. CASE job[h].op = "remove"
  <2>1. UNCHANGED <<live, cache>>
    BY <1>8 DEF Finish
  <2>2. /\ live' \in [Devices -> Entities]
        /\ cache' \in [Devices -> Descriptors \cup {None}]
        /\ CacheOK'
    BY <2>1 DEF DeviceInv, TypeOK, CacheOK
  <2>3. \A e : ~Pushes(job[h], e) /\ ~Creates(h, e)
    BY <1>8 DEF Pushes, Creates
  <2> QED
    BY <1>1, <1>2, <1>4, <1>5, <2>1, <2>2, <2>3, EndKeeps
<1> QED
  BY <1>3, <1>6, <1>7, <1>8 DEF Ops

-------------------------------------------------------------------------------
(* Steps that begin a call.                                                *)

\* Only known devices are held or created.
LEMMA HeldIsKnown ==
  ASSUME DeviceAssumption, DeviceInv, NEW g \in Handlers, NEW d \in Devices,
         Holds(job[g], d) \/ Creates(g, d)
  PROVE  d \in known
<1>1. \A k \in Handlers : Creates(k, d) => d \in known
  <2> SUFFICES ASSUME NEW k \in Handlers, Creates(k, d)
               PROVE  d \in known
    OBVIOUS
  <2>1. job[k] # NoJob
    BY IdleHoldsNothing DEF Creates, Ops
  <2> QED
    BY <2>1 DEF Creates, DeviceInv, JobOK
<1>2. Holds(job[g], d) => Registering(d)
  BY DEF DeviceInv, HoldersOK
<1> QED
  BY <1>1, <1>2 DEF Registering, DeviceInv, KnownOK

LEMMA StartKeeps ==
  ASSUME DeviceAssumption, DeviceInv, NEW h \in Handlers, NEW j \in Jobs, Start(h, j),
         known \subseteq known', known' \subseteq Devices,
         JobOK(j)', j.op \in Ops, j.at \in {"getting", "loading"}, j.dev \in Devices,
         j.pass = 1,
         j.op # "create" => j.set = None,
         j.op = "create" => j.dev \notin known,
         j.op = "remove" => j.at = "getting"
  PROVE  DeviceInv'
<1> USE DEF DeviceInv
<1>1. /\ job[h] = NoJob
      /\ calls' \in Calls
      /\ UNCHANGED <<store, live, cache, registered, missed, starts, overlap, torn>>
  BY DEF Start, TypeOK, Calls, DeviceAssumption
<1>2. job'[h] = j /\ \A g \in Handlers \ {h} : job'[g] = job[g]
  BY DEF Start, TypeOK
<1>3. job' \in [Handlers -> Jobs]
  BY DEF Start, TypeOK
<1>4. TypeOK' /\ KnownOK' /\ CacheOK'
  BY <1>1, <1>3 DEF TypeOK, KnownOK, CacheOK
<1>5. \A g \in Handlers : JobOK(job[g])'
  BY <1>2, JobStays DEF JobOK
<1>6. /\ \A d \in Devices : ~Holds(j, d) /\ ~Pushes(j, d)
      /\ \A d \in Devices : ~Holds(job[h], d) /\ ~Pushes(job[h], d) /\ ~Creates(h, d)
  <2>1. \A d \in Devices : ~Holds(j, d) /\ ~Pushes(j, d)
    BY DEF Holds, Pushes
  <2> QED
    BY <1>1, <2>1, IdleHoldsNothing DEF Creates, Ops
<1>7. \A g \in Handlers, d \in Devices :
        /\ Creates(g, d)' <=> Creates(g, d) \/ (g = h /\ j.op = "create" /\ j.dev = d)
        /\ Holds(job'[g], d) <=> Holds(job[g], d)
        /\ Pushes(job'[g], d) <=> Pushes(job[g], d)
  BY <1>2, <1>6 DEF Creates
<1>8. CreatorsOK'
  <2>1. ASSUME NEW g \in Handlers, g # h, NEW d \in Devices, Creates(g, d),
               job[g].at \in {"loading", "writing"}
        PROVE  /\ store'[d] = None /\ d \notin torn' \cup Accounted'
               /\ \A k \in Handlers \ {g} : ~Holds(job'[k], d) /\ ~Creates(k, d)'
    <3>1. /\ store[d] = None /\ d \notin torn \cup Accounted
          /\ \A k \in Handlers \ {g} : ~Holds(job[k], d) /\ ~Creates(k, d)
      BY <2>1 DEF CreatorsOK, Creates
    <3>2. d \in known
      BY <2>1, HeldIsKnown
    <3> QED
      BY <1>1, <1>7, <3>1, <3>2
  <2>2. ASSUME j.op = "create", NEW d \in Devices, d = j.dev
        PROVE  /\ store'[d] = None /\ d \notin torn' \cup Accounted'
               /\ \A k \in Handlers \ {h} : ~Holds(job'[k], d) /\ ~Creates(k, d)'
    <3>1. d \notin known
      BY <2>2
    <3>2. store[d] = None /\ d \notin torn \cup Accounted
      BY <3>1 DEF KnownOK, Stored
    <3>3. \A k \in Handlers : ~Holds(job[k], d) /\ ~Creates(k, d)
      BY <3>1, HeldIsKnown
    <3> QED
      BY <1>1, <1>7, <3>2, <3>3
  <2>3. ASSUME NEW g \in Handlers, g # h, job[g].op = "create",
               job[g].at \in {"loading", "writing"}
        PROVE  job[g].dev \in Devices
    BY <2>3, JobFacts
  <2> QED
    BY <1>2, <2>1, <2>2, <2>3 DEF CreatorsOK, Creates
<1>9. \A d \in Devices : Registering(d) => Registering(d)'
  BY <1>1, <1>7 DEF Registering
<1>10. HoldersOK'
  BY <1>1, <1>7, <1>9 DEF HoldersOK
<1>11. StoredIsRegistered'
  <2>1. \A d \in Devices : store[d] # None => Registering(d)
    BY DEF StoredIsRegistered, Stored, Registering, Creates
  <2>2. \A d \in Devices : store'[d] # None => Registering(d)'
    BY <1>1, <1>9, <2>1
  <2> QED
    BY <2>2 DEF StoredIsRegistered, Stored, Registering, Creates
<1>12. \A d \in Devices : ButtonComes(d) => ButtonComes(d)'
  BY <1>1, <1>7 DEF ButtonComes
<1>13. EntitiesOK'
  <2>1. \A g \in Handlers :
          job'[g].op = "delete" =>
            /\ job'[g].at = "writing" => store'[job'[g].dev] # None \/ job'[g].dev \in torn'
            /\ job'[g].at = "finishing" => job'[g].dev \in torn'
    BY <1>1, <1>2 DEF EntitiesOK
  <2>2. ASSUME NEW d \in Stored(store') \ torn'
        PROVE  /\ d \in Primaries => live'[d].primary # None \/ \E g \in Handlers : Creates(g, d)'
               /\ Commands(store'[d]) # {} => ButtonComes(d)'
    <3>1. d \in Devices /\ d \in Stored(store) \ torn
      BY <1>1 DEF Stored
    <3> QED
      BY <1>1, <1>7, <1>12, <3>1 DEF EntitiesOK
  <2>3. ASSUME NEW g \in Handlers, NEW d \in Devices \ torn'
        PROVE  /\ job'[g].at = "writing" /\ job'[g].dev # d /\ job'[g].base[d] # None /\ Commands(job'[g].base[d]) # {} =>
                    ButtonComes(d)'
               /\ job'[g].at \in {"loading", "writing"} /\ job'[g].dev = d /\ job'[g].op = "remove" /\ Commands(job'[g].set) # {} =>
                    ButtonComes(d)'
    <3>1. CASE g = h
      BY <1>2, <3>1
    <3>2. CASE g # h
      BY <1>1, <1>2, <1>12, <3>2 DEF EntitiesOK
    <3> QED
      BY <3>1, <3>2
  <2> QED
    BY <2>1, <2>2, <2>3 DEF EntitiesOK
<1> QED
  BY <1>4, <1>5, <1>8, <1>10, <1>11, <1>13

LEMMA CallPreserves ==
  ASSUME DeviceAssumption, DeviceInv, NEW h \in Handlers, Call(h)
  PROVE  DeviceInv'
<1>1. TypeOK /\ calls \in Nat
  BY DEF DeviceInv, TypeOK, Calls, DeviceAssumption
<1>2. ASSUME calls < MaxCalls
      PROVE  calls + 1 \in Calls
  BY <1>1, <1>2 DEF Calls, DeviceAssumption
<1>3. ASSUME NEW d \in Devices, NEW ks \in SUBSET Keys, Create(h, d, ks)
      PROVE  DeviceInv'
  <2> DEFINE fs == {Name} \cup ks
  <2>0. PICK j : j = Job("loading", "create", d, fs, calls + 1, Fresh(fs, calls + 1))
    OBVIOUS
  <2>1. Start(h, j) /\ d \notin known /\ known' = known \cup {d} /\ fs \subseteq Fields
    BY <1>3, <2>0 DEF Create, Free, Fields
  <2>2. calls + 1 \in Calls
    BY <1>2, <2>1 DEF Start
  <2>3. Fresh(fs, calls + 1) \in Records /\ Fresh(fs, calls + 1) # None
    BY <2>1, <2>2, NoneApart DEF Fresh, Records
  <2>4. /\ j.at = "loading" /\ j.op = "create" /\ j.dev = d /\ j.what = fs /\ j.tag = calls + 1
        /\ j.set = Fresh(fs, calls + 1) /\ j.pass = 1 /\ j.base = None
    BY <2>0 DEF Job
  <2>5. j \in Jobs
    BY <2>0, <2>1, <2>2, <2>3 DEF Job, Jobs, Ops
  <2>6. j.set = Fresh(j.what, j.tag) /\ j.set # None /\ d \in known'
    BY <2>1, <2>3, <2>4
  <2>7. JobOK(j)'
    BY <2>4, <2>6, NoneApart DEF JobOK, Ops
  <2> QED
    BY <1>1, <2>1, <2>4, <2>5, <2>7, StartKeeps DEF TypeOK, Ops
<1>4. ASSUME NEW d \in Devices, NEW op \in {"update", "edit", "remove"}, NEW fs \in SUBSET Fields,
             op # "update" => Name \notin fs,
             d \in known, UNCHANGED known,
             Start(h, Job("getting", op, d, fs, calls + 1, None))
      PROVE  DeviceInv'
  <2>0. PICK j : j = Job("getting", op, d, fs, calls + 1, None)
    OBVIOUS
  <2>1. calls + 1 \in Calls
    BY <1>2, <1>4 DEF Start
  <2>2. /\ j.at = "getting" /\ j.op = op /\ j.dev = d /\ j.what = fs /\ j.set = None
        /\ j.pass = 1
    BY <2>0 DEF Job
  <2>3. j \in Jobs
    BY <1>4, <2>0, <2>1 DEF Job, Jobs, Ops
  <2>4. JobOK(j)'
    BY <1>4, <2>2, NoneApart DEF JobOK, Ops
  <2>5. Start(h, j)
    BY <1>4, <2>0
  <2> QED
    BY <1>1, <1>4, <2>2, <2>3, <2>4, <2>5, StartKeeps DEF TypeOK, Ops
<1>5. ASSUME NEW d \in Devices, NEW fs \in Edits, Update(h, d, fs)
      PROVE  DeviceInv'
  BY <1>4, <1>5 DEF Update, DeviceAssumption
<1>6. ASSUME NEW d \in Devices, NEW k \in Keys, NEW op \in {"edit", "remove"}, Command(h, op, d, k)
      PROVE  DeviceInv'
  <2>1. {k} \in SUBSET Fields /\ Name \notin {k}
    BY DEF Fields, DeviceAssumption
  <2> QED
    BY <1>4, <1>6, <2>1 DEF Command
<1>7. ASSUME NEW d \in Devices, Delete(h, d)
      PROVE  DeviceInv'
  <2>0. PICK j : j = Job("loading", "delete", d, {}, calls + 1, None)
    OBVIOUS
  <2>1. Start(h, j) /\ d \in known /\ UNCHANGED known
    BY <1>7, <2>0 DEF Delete
  <2>2. calls + 1 \in Calls
    BY <1>2, <2>1 DEF Start
  <2>3. /\ j.at = "loading" /\ j.op = "delete" /\ j.dev = d /\ j.set = None /\ j.pass = 1
    BY <2>0 DEF Job
  <2>4. j \in Jobs
    BY <2>0, <2>2 DEF Job, Jobs, Ops
  <2>5. JobOK(j)'
    BY <2>1, <2>3, NoneApart DEF JobOK, Ops
  <2> QED
    BY <1>1, <2>1, <2>3, <2>4, <2>5, StartKeeps DEF TypeOK, Ops
<1> QED
  BY <1>3, <1>5, <1>6, <1>7 DEF Call

-------------------------------------------------------------------------------
(* Steps that read the document.                                           *)

\* A handler goes on with what it read: whatever it holds now is stored, or was
\* held before.
LEMMA MoveKeeps ==
  ASSUME DeviceAssumption, DeviceInv, NEW h \in Handlers, NEW j \in Jobs,
         job' = [job EXCEPT ![h] = j],
         UNCHANGED <<store, live, cache, registered, missed, known, calls, starts, overlap, torn>>,
         JobOK(j), job[h].at # "idle",
         j.op = job[h].op, j.dev = job[h].dev, j.at \in {"loading", "writing"},
         j.op = "create" => job[h].at = "loading",
         j.op = "delete" /\ j.at = "writing" => store[j.dev] # None,
         \A d \in Devices : Holds(j, d) => Holds(job[h], d) \/ store[d] # None,
         \A d \in Devices : Pushes(job[h], d) => Pushes(j, d),
         \A d \in Devices \ torn :
           \/ j.at = "writing" /\ j.dev # d /\ j.base[d] # None /\ Commands(j.base[d]) # {}
           \/ j.dev = d /\ j.op = "remove" /\ Commands(j.set) # {}
           => ButtonComes(d)
  PROVE  DeviceInv'
<1> USE DEF DeviceInv
<1>1. job'[h] = j /\ \A g \in Handlers \ {h} : job'[g] = job[g]
  BY DEF TypeOK
<1>2. job' \in [Handlers -> Jobs]
  BY DEF TypeOK
<1>3. TypeOK' /\ KnownOK' /\ CacheOK'
  BY <1>2 DEF TypeOK, KnownOK, CacheOK
<1>4. \A g \in Handlers : JobOK(job[g])'
  <2>1. JobOK(j)'
    BY JobStays
  <2>2. \A g \in Handlers \ {h} : JobOK(job[g])'
    BY <1>1, JobStays DEF JobOK
  <2> QED
    BY <1>1, <2>1, <2>2 DEF JobOK
<1>5. \A g \in Handlers, d \in Devices :
        /\ Creates(g, d)' <=> Creates(g, d)
        /\ Pushes(job[g], d) => Pushes(job'[g], d)
        /\ Holds(job'[g], d) => Holds(job[g], d) \/ (g = h /\ store[d] # None)
  BY <1>1 DEF Creates
<1>6. CreatorsOK'
  <2>1. ASSUME NEW g \in Handlers, job'[g].op = "create", job'[g].at \in {"loading", "writing"},
               NEW d \in Devices, d = job[g].dev
        PROVE  /\ store'[d] = None /\ d \notin torn' \cup Accounted'
               /\ \A k \in Handlers \ {g} : ~Holds(job'[k], d) /\ ~Creates(k, d)'
    <3>1. job[g].op = "create" /\ job[g].at \in {"loading", "writing"}
      BY <1>1, <2>1
    <3>2. /\ store[d] = None /\ d \notin torn \cup Accounted
          /\ \A k \in Handlers \ {g} : ~Holds(job[k], d) /\ ~Creates(k, d)
      BY <2>1, <3>1 DEF CreatorsOK
    <3> QED
      BY <1>5, <3>2
  <2>2. ASSUME NEW g \in Handlers, job'[g].op = "create", job'[g].at \in {"loading", "writing"}
        PROVE  job'[g].dev = job[g].dev /\ job[g].dev \in Devices
    <3>1. job[g].at # "idle" /\ job'[g].dev = job[g].dev
      BY <1>1, <2>2
    <3> QED
      BY <3>1, JobFacts
  <2> QED
    BY <2>1, <2>2 DEF CreatorsOK
<1>7. \A d \in Devices : Registering(d)' <=> Registering(d)
  BY <1>5 DEF Registering
<1>8. \A d \in Devices : store[d] # None => Registering(d)
  BY DEF StoredIsRegistered, Stored, Registering, Creates
<1>9. HoldersOK'
  BY <1>5, <1>7, <1>8 DEF HoldersOK
<1>10. StoredIsRegistered'
  <2>1. \A d \in Devices : store'[d] # None => Registering(d)'
    BY <1>7, <1>8
  <2> QED
    BY <2>1 DEF StoredIsRegistered, Stored, Registering, Creates
<1>11. \A d \in Devices : ButtonComes(d) => ButtonComes(d)'
  BY <1>5 DEF ButtonComes
<1>12. EntitiesOK'
  <2>1. \A g \in Handlers :
          job'[g].op = "delete" =>
            /\ job'[g].at = "writing" => store'[job'[g].dev] # None \/ job'[g].dev \in torn'
            /\ job'[g].at = "finishing" => job'[g].dev \in torn'
    BY <1>1 DEF EntitiesOK
  <2>2. ASSUME NEW d \in Stored(store') \ torn'
        PROVE  /\ d \in Primaries => live'[d].primary # None \/ \E g \in Handlers : Creates(g, d)'
               /\ Commands(store'[d]) # {} => ButtonComes(d)'
    <3>1. d \in Devices /\ d \in Stored(store) \ torn
      BY <2>2 DEF Stored
    <3> QED
      BY <1>5, <1>11, <3>1 DEF EntitiesOK
  <2>3. ASSUME NEW g \in Handlers, NEW d \in Devices \ torn'
        PROVE  /\ job'[g].at = "writing" /\ job'[g].dev # d /\ job'[g].base[d] # None /\ Commands(job'[g].base[d]) # {} =>
                    ButtonComes(d)'
               /\ job'[g].at \in {"loading", "writing"} /\ job'[g].dev = d /\ job'[g].op = "remove" /\ Commands(job'[g].set) # {} =>
                    ButtonComes(d)'
    <3>1. CASE g = h
      BY <1>1, <1>11, <3>1
    <3>2. CASE g # h
      BY <1>1, <1>11, <3>2 DEF EntitiesOK
    <3> QED
      BY <3>1, <3>2
  <2> QED
    BY <2>1, <2>2, <2>3 DEF EntitiesOK
<1> QED
  BY <1>3, <1>4, <1>6, <1>9, <1>10, <1>12

LEMMA GetPreserves ==
  ASSUME DeviceAssumption, DeviceInv, NEW h \in Handlers, Get(h)
  PROVE  DeviceInv'
<1> DEFINE r == store[job[h].dev]
<1>1. /\ job[h].at = "getting" /\ r # None
      /\ job' = [job EXCEPT ![h] = [job[h] EXCEPT !.at = "loading", !.seen = r,
                                                  !.set = Result(job[h], r)]]
      /\ UNCHANGED <<store, live, cache, registered, missed, known, calls, starts, overlap, torn>>
  BY DEF Get, Found, DeviceInv, TypeOK
<1>2. job[h] # NoJob /\ job[h].at # "idle" /\ JobOK(job[h])
  BY <1>1, IdleFacts DEF DeviceInv
<1>3. /\ job[h].op \in {"update", "edit", "remove"} /\ job[h].pass # 2
      /\ job[h].op \in {"edit", "remove"} => Name \notin job[h].what
      /\ job[h].dev \in known /\ job[h].set = None
  BY <1>1, <1>2 DEF JobOK
<1>4. job[h] \in Jobs /\ job[h].dev \in Devices /\ r \in Records
  BY <1>1, <1>2, JobFacts DEF DeviceInv, TypeOK, Stores
<1>5. Result(job[h], r) \in Records
  BY <1>3, <1>4, ResultType, NoneApart DEF Ops
<1>6. PICK j : j = [job[h] EXCEPT !.at = "loading", !.seen = r, !.set = Result(job[h], r)]
  OBVIOUS
<1>7. /\ j.at = "loading" /\ j.seen = r /\ j.set = Result(job[h], r)
      /\ j.op = job[h].op /\ j.dev = job[h].dev /\ j.what = job[h].what /\ j.tag = job[h].tag
      /\ j.pass = job[h].pass
  BY <1>4, <1>6 DEF Jobs
<1>8. j \in Jobs
  BY <1>4, <1>5, <1>6 DEF Jobs
<1>9. j.set = Result(j, j.seen)
  BY <1>7 DEF Result
<1>10. JobOK(j)
  BY <1>3, <1>4, <1>5, <1>7, <1>9, NoneApart DEF JobOK, Ops
<1>11. \A d \in Devices : ~Pushes(job[h], d)
  BY <1>1, <1>3 DEF Pushes
<1>12. \A d \in Devices : Holds(j, d) => store[d] # None
  BY <1>1, <1>7 DEF Holds
<1>13. ASSUME NEW d \in Devices \ torn, j.dev = d, j.op = "remove", Commands(j.set) # {}
       PROVE  ButtonComes(d)
  <2>1. j.set = Cleared(r, j.what)
    BY <1>7, <1>13 DEF Result
  <2>2. Commands(j.set) \subseteq Commands(r)
    BY <2>1 DEF Commands, Cleared, Fields
  <2>3. d \in Stored(store) \ torn /\ Commands(store[d]) # {}
    BY <1>1, <1>7, <1>13, <2>2 DEF Stored
  <2> QED
    BY <2>3 DEF DeviceInv, EntitiesOK
<1> QED
  BY <1>1, <1>2, <1>3, <1>6, <1>7, <1>8, <1>10, <1>11, <1>12, <1>13, MoveKeeps

LEMMA LoadPreserves ==
  ASSUME DeviceAssumption, DeviceInv, NEW h \in Handlers, Load(h)
  PROVE  DeviceInv'
<1>1. /\ job[h].at = "loading" /\ ~Unserializable(job[h])
      /\ job[h].op = "delete" => store[job[h].dev] # None
      /\ job' = [job EXCEPT ![h] = [job[h] EXCEPT !.at = "writing", !.base = store]]
      /\ UNCHANGED <<store, live, cache, registered, missed, known, calls, starts, overlap, torn>>
  BY DEF Load, DeviceInv, TypeOK
<1>2. job[h] # NoJob /\ job[h].at # "idle" /\ JobOK(job[h])
  BY <1>1, IdleFacts DEF DeviceInv
<1>3. job[h] \in Jobs /\ job[h].dev \in Devices /\ store \in Stores /\ store # None
  BY <1>2, JobFacts, NoneApart DEF DeviceInv, TypeOK
<1>4. PICK j : j = [job[h] EXCEPT !.at = "writing", !.base = store]
  OBVIOUS
<1>5. /\ j.at = "writing" /\ j.base = store /\ j.seen = job[h].seen /\ j.set = job[h].set
      /\ j.op = job[h].op /\ j.dev = job[h].dev /\ j.what = job[h].what /\ j.tag = job[h].tag
      /\ j.pass = job[h].pass
  BY <1>3, <1>4 DEF Jobs
<1>6. j \in Jobs
  BY <1>3, <1>4 DEF Jobs
<1>7. Result(j, j.seen) = Result(job[h], job[h].seen)
  BY <1>5 DEF Result
<1>8. JobOK(j)
  BY <1>1, <1>2, <1>3, <1>5, <1>7 DEF JobOK, Unserializable
<1>9. \A d \in Devices : /\ Holds(j, d) => Holds(job[h], d) \/ store[d] # None
                         /\ Pushes(job[h], d) => Pushes(j, d)
  BY <1>1, <1>5 DEF Holds, Pushes
<1>10. ASSUME NEW d \in Devices \ torn,
              \/ j.at = "writing" /\ j.dev # d /\ j.base[d] # None /\ Commands(j.base[d]) # {}
              \/ j.dev = d /\ j.op = "remove" /\ Commands(j.set) # {}
       PROVE  ButtonComes(d)
  <2>1. CASE store[d] # None /\ Commands(store[d]) # {}
    BY <2>1 DEF DeviceInv, EntitiesOK, Stored
  <2>2. CASE job[h].dev = d /\ job[h].op = "remove" /\ Commands(job[h].set) # {}
    BY <1>1, <2>2 DEF DeviceInv, EntitiesOK
  <2> QED
    BY <1>5, <1>10, <2>1, <2>2
<1> QED
  BY <1>1, <1>2, <1>4, <1>5, <1>6, <1>8, <1>9, <1>10, MoveKeeps

-------------------------------------------------------------------------------
(* The save.                                                               *)

\* What a save leaves in the document is what its handler holds, or creates.
LEMMA WrittenIsHeld ==
  ASSUME DeviceAssumption, DeviceInv, NEW h \in Handlers, Write(h)
  PROVE  /\ job[h] \in Jobs /\ job[h].dev \in Devices /\ job[h].op \in Ops
         /\ job[h].base \in Stores /\ job[h].set \in Records \cup {None}
         /\ store' \in Stores
         /\ \A d \in Devices \ {job[h].dev} : store'[d] = job[h].base[d]
         /\ store'[job[h].dev] = job[h].set
         /\ \A d \in Devices : store'[d] # None => Holds(job[h], d) \/ Creates(h, d)
<1>1. job[h].at = "writing" /\ store' = Doc(job[h])
  BY DEF Write
<1>2. /\ job[h] \in Jobs /\ job[h].dev \in Devices /\ job[h].op \in Ops
      /\ job[h].base \in Stores /\ job[h].set \in Records \cup {None}
  BY <1>1, JobFacts DEF DeviceInv, Jobs
<1>3. /\ store' \in Stores
      /\ \A d \in Devices \ {job[h].dev} : store'[d] = job[h].base[d]
      /\ store'[job[h].dev] = job[h].set
  BY <1>1, <1>2 DEF Doc, Stores
<1>4. ASSUME NEW d \in Devices, store'[d] # None
      PROVE  Holds(job[h], d) \/ Creates(h, d)
  BY <1>1, <1>3, <1>4 DEF Holds, Creates
<1> QED
  BY <1>2, <1>3, <1>4

\* A handler that has saved knows what it has saved.
LEMMA WriterKnows ==
  ASSUME DeviceAssumption, DeviceInv, NEW h \in Handlers, Write(h)
  PROVE  /\ job' \in [Handlers -> Jobs]
         /\ \A g \in Handlers \ {h} : job'[g] = job[g]
         /\ job'[h].op = job[h].op /\ job'[h].dev = job[h].dev /\ job'[h].set = job[h].set
         /\ job'[h].at = "finishing" \/ (job'[h].at = "loading" /\ job'[h].op = "update")
         /\ job'[h].op \in {"update", "edit"} => job'[h].at = "finishing" \/ job'[h].pass = 2
         /\ job[h].pass = 2 => job'[h].pass = 2 /\ job'[h].at = "finishing"
         /\ JobOK(job[h])'
<1> DEFINE again == job[h].op = "update" /\ job[h].pass = 1
<1>1. /\ job[h].at = "writing"
      /\ known' = known
      /\ job' = [job EXCEPT ![h] = [job[h] EXCEPT
                   !.at = IF again THEN "loading" ELSE "finishing",
                   !.pass = IF again THEN 2 ELSE job[h].pass,
                   !.seen = job[h].set, !.base = None]]
  BY DEF Write, DeviceInv, TypeOK
<1>2. job[h] # NoJob /\ JobOK(job[h])
  BY <1>1, IdleFacts DEF DeviceInv
<1>3. /\ job[h] \in Jobs /\ job[h].dev \in Devices /\ job[h].op \in Ops
      /\ job[h].set \in Records \cup {None}
  BY WrittenIsHeld
<1>4. PICK j : j = [job[h] EXCEPT !.at = IF again THEN "loading" ELSE "finishing",
                                  !.pass = IF again THEN 2 ELSE job[h].pass,
                                  !.seen = job[h].set, !.base = None]
  OBVIOUS
<1>5. /\ j.at = (IF again THEN "loading" ELSE "finishing")
      /\ j.pass = (IF again THEN 2 ELSE job[h].pass)
      /\ j.seen = job[h].set /\ j.set = job[h].set
      /\ j.op = job[h].op /\ j.dev = job[h].dev /\ j.what = job[h].what /\ j.tag = job[h].tag
  BY <1>3, <1>4 DEF Jobs
<1>6. j \in Jobs
  BY <1>3, <1>4 DEF Jobs
<1>7. job' = [job EXCEPT ![h] = j]
  BY <1>1, <1>4
<1>8. job' \in [Handlers -> Jobs] /\ job'[h] = j /\ \A g \in Handlers \ {h} : job'[g] = job[g]
  BY <1>6, <1>7 DEF DeviceInv, TypeOK
<1>9. job[h].pass \in {1, 2} /\ (job[h].pass = 2 => job[h].op = "update")
  BY <1>2, <1>3 DEF JobOK, Jobs
<1>10. ASSUME j.op = "update"
       PROVE  j.seen # None /\ j.set = Result(j, j.seen)
  <2>1. /\ job[h].seen # None
        /\ job[h].set = Edited(job[h].seen, job[h].what, job[h].tag)
    BY <1>1, <1>2, <1>5, <1>10 DEF JobOK, Result
  <2>2. j.set # None
    BY <1>1, <1>2, <1>5, <1>10 DEF JobOK
  <2>3. Result(j, j.seen) = Edited(job[h].set, job[h].what, job[h].tag)
    BY <1>5, <1>10 DEF Result
  <2>4. Edited(job[h].set, job[h].what, job[h].tag) = job[h].set
    BY <2>1 DEF Edited
  <2> QED
    BY <1>5, <2>2, <2>3, <2>4
<1>11. /\ j.at = "finishing" \/ (j.at = "loading" /\ j.op = "update")
       /\ j.op \in {"update", "edit"} => j.at = "finishing" \/ j.pass = 2
       /\ job[h].pass = 2 => j.pass = 2 /\ j.at = "finishing"
  BY <1>5, <1>9
<1>12. JobOK(j)
  <2>1. /\ j.op # None /\ j.dev \in known
        /\ j.op \in {"edit", "remove"} => Name \notin j.what
        /\ j.set = None <=> j.op = "delete"
        /\ j.pass = 2 => j.op = "update"
        /\ j.op = "create" => j.set = Fresh(j.what, j.tag) /\ j.what = {Name}
    BY <1>1, <1>2, <1>5, <1>9 DEF JobOK
  <2> QED
    BY <1>10, <1>11, <2>1 DEF JobOK
<1>13. JobOK(j)'
  BY <1>1, <1>12, JobStays
<1>14. JobOK(job[h])'
  BY <1>8, <1>13 DEF JobOK
<1> QED
  BY <1>5, <1>8, <1>11, <1>14

LEMMA WritePreserves ==
  ASSUME DeviceAssumption, DeviceInv, NEW h \in Handlers, Write(h)
  PROVE  DeviceInv'
<1> USE DEF DeviceInv
<1> DEFINE gone == Stored(store) \ Stored(store')
<1>1. /\ job[h].at = "writing"
      /\ UNCHANGED <<live, cache, registered, missed, known, calls, starts>>
      /\ overlap' = [d \in Devices |-> IF d \in gone THEN Busy ELSE overlap[d]]
      /\ torn' = torn \cup gone
  BY DEF Write
<1>2. /\ job[h].dev \in Devices /\ job[h].op \in Ops
      /\ store' \in Stores
      /\ \A d \in Devices \ {job[h].dev} : store'[d] = job[h].base[d]
      /\ store'[job[h].dev] = job[h].set
      /\ \A d \in Devices : store'[d] # None => Holds(job[h], d) \/ Creates(h, d)
  BY WrittenIsHeld
<1>3. /\ job' \in [Handlers -> Jobs]
      /\ \A g \in Handlers \ {h} : job'[g] = job[g]
      /\ job'[h].op = job[h].op /\ job'[h].dev = job[h].dev /\ job'[h].set = job[h].set
      /\ job'[h].at = "finishing" \/ (job'[h].at = "loading" /\ job'[h].op = "update")
      /\ job'[h].op \in {"update", "edit"} => job'[h].at = "finishing" \/ job'[h].pass = 2
      /\ job[h].pass = 2 => job'[h].pass = 2 /\ job'[h].at = "finishing"
      /\ JobOK(job[h])'
  BY WriterKnows
<1>4. \A d \in Devices : d \in gone <=> store[d] # None /\ store'[d] = None
  BY DEF Stored
<1>5. /\ \A d \in Devices : d \in gone => overlap'[d] = Busy /\ d \in torn'
      /\ \A d \in Devices : d \notin gone => overlap'[d] = overlap[d] /\ (d \in torn' => d \in torn)
      /\ torn \subseteq torn'
  BY <1>1
<1>6. \A g \in Handlers, d \in Devices :
        /\ Creates(g, d)' <=> Creates(g, d)
        /\ Holds(job'[g], d) => Holds(job[g], d)
        /\ Pushes(job[g], d) => Pushes(job'[g], d)
  <2>1. ASSUME NEW d \in Devices
        PROVE  /\ Creates(h, d)' <=> Creates(h, d)
               /\ Holds(job'[h], d) => Holds(job[h], d)
               /\ Pushes(job[h], d) => Pushes(job'[h], d)
    BY <1>1, <1>3 DEF Creates, Holds, Pushes
  <2>2. ASSUME NEW d \in Devices, NEW g \in Handlers \ {h}
        PROVE  Creates(g, d)' <=> Creates(g, d)
    BY <1>3 DEF Creates
  <2> QED
    BY <1>3, <2>1, <2>2
<1>7. \A d \in Devices : store'[d] # None => d \in known
  BY <1>2, HeldIsKnown
<1>8. TypeOK' /\ KnownOK' /\ CacheOK'
  <2>1. /\ overlap' \in [Devices -> SUBSET Handlers]
        /\ gone \subseteq Devices /\ gone \subseteq known
    BY <1>1 DEF TypeOK, KnownOK, Stored, Busy
  <2>2. TypeOK'
    BY <1>1, <1>2, <1>3, <2>1 DEF TypeOK
  <2>3. Stored(store') \subseteq known
    BY <1>7 DEF Stored
  <2> QED
    BY <1>1, <2>1, <2>2, <2>3 DEF KnownOK, CacheOK
<1>9. \A g \in Handlers : JobOK(job[g])'
  <2>1. \A g \in Handlers \ {h} : JobOK(job[g])'
    BY <1>1, <1>3, JobStays DEF JobOK
  <2> QED
    BY <1>3, <2>1
<1>10. CreatorsOK'
  <2>1. ASSUME NEW g \in Handlers, job'[g].op = "create", job'[g].at \in {"loading", "writing"},
               NEW d \in Devices, d = job[g].dev
        PROVE  /\ store'[d] = None /\ d \notin torn' \cup Accounted'
               /\ \A k \in Handlers \ {g} : ~Holds(job'[k], d) /\ ~Creates(k, d)'
    <3>1. g # h /\ job'[g] = job[g]
      BY <1>3, <2>1
    <3>2. /\ store[d] = None /\ d \notin torn \cup Accounted
          /\ \A k \in Handlers \ {g} : ~Holds(job[k], d) /\ ~Creates(k, d)
      BY <2>1, <3>1 DEF CreatorsOK
    <3>3. store'[d] = None /\ d \notin gone
      BY <1>2, <1>4, <3>1, <3>2
    <3> QED
      BY <1>1, <1>6, <3>2, <3>3
  <2>2. ASSUME NEW g \in Handlers, job'[g].op = "create", job'[g].at \in {"loading", "writing"}
        PROVE  job'[g].dev = job[g].dev /\ job[g].dev \in Devices
    <3>1. g # h /\ job'[g] = job[g]
      BY <1>3, <2>2
    <3> QED
      BY <2>2, <3>1, JobFacts
  <2> QED
    BY <2>1, <2>2 DEF CreatorsOK
<1>11. \A d \in Devices : Registering(d)' <=> Registering(d)
  BY <1>1, <1>6 DEF Registering
<1>12. HoldersOK'
  <2> SUFFICES ASSUME NEW g \in Handlers, NEW d \in Devices, Holds(job'[g], d)
               PROVE  /\ Registering(d)'
                      /\ store'[d] = None => g \in overlap'[d] /\ d \in torn'
    BY DEF HoldersOK
  <2>1. /\ Holds(job[g], d) /\ Registering(d)
        /\ store[d] = None => g \in overlap[d] /\ d \in torn
    BY <1>6 DEF HoldersOK
  <2>2. g \in Busy
    BY <2>1, IdleHoldsNothing DEF Busy
  <2> QED
    BY <1>4, <1>5, <1>11, <2>1, <2>2
<1>13. StoredIsRegistered'
  <2>1. \A d \in Devices : store'[d] # None => Registering(d)'
    BY <1>2, <1>11 DEF HoldersOK, Registering
  <2> QED
    BY <2>1 DEF StoredIsRegistered, Stored, Registering, Creates
<1>14. \A d \in Devices : ButtonComes(d) => ButtonComes(d)'
  BY <1>1, <1>6 DEF ButtonComes
<1>15. EntitiesOK'
  <2>1. ASSUME NEW g \in Handlers, job'[g].op = "delete"
        PROVE  /\ job'[g].at = "writing" => store'[job'[g].dev] # None \/ job'[g].dev \in torn'
               /\ job'[g].at = "finishing" => job'[g].dev \in torn'
    <3>1. CASE g = h
      <4>1. /\ store[job[h].dev] # None \/ job[h].dev \in torn
            /\ job'[h].at = "finishing"
        BY <1>1, <1>3, <2>1, <3>1 DEF EntitiesOK
      <4>2. job[h].set = None
        <5>1. job[h] # NoJob
          BY <1>1, IdleFacts
        <5> QED
          BY <1>1, <1>3, <2>1, <3>1, <5>1 DEF JobOK
      <4> QED
        BY <1>2, <1>3, <1>4, <1>5, <3>1, <4>1, <4>2
    <3>2. CASE g # h
      <4>1. job'[g] = job[g]
        BY <1>3, <3>2
      <4>2. /\ job[g].at = "writing" => store[job[g].dev] # None \/ job[g].dev \in torn
            /\ job[g].at = "finishing" => job[g].dev \in torn
        BY <2>1, <4>1 DEF EntitiesOK
      <4>3. job[g].at = "writing" => job[g].dev \in Devices
        BY JobFacts
      <4> QED
        BY <1>4, <1>5, <4>1, <4>2, <4>3
    <3> QED
      BY <3>1, <3>2
  <2>2. ASSUME NEW d \in Stored(store') \ torn'
        PROVE  /\ d \in Primaries => live'[d].primary # None \/ \E g \in Handlers : Creates(g, d)'
               /\ Commands(store'[d]) # {} => ButtonComes(d)'
    <3>1. d \in Devices /\ store'[d] # None /\ d \notin torn
      BY <1>5, <2>2 DEF Stored
    <3>2. store[d] = None => Creates(h, d)
      BY <1>2, <3>1 DEF HoldersOK
    <3>3. d \in Primaries => live'[d].primary # None \/ \E g \in Handlers : Creates(g, d)'
      BY <1>1, <1>6, <3>1, <3>2 DEF EntitiesOK, Stored
    <3>4. ASSUME Commands(store'[d]) # {}
          PROVE  ButtonComes(d)'
      <4>1. CASE d # job[h].dev
        BY <1>1, <1>2, <1>14, <3>1, <3>4, <4>1 DEF EntitiesOK
      <4>2. CASE d = job[h].dev /\ job[h].op \in {"update", "edit"}
        <5>1. Pushes(job'[h], d)
          BY <1>2, <1>3, <3>4, <4>2 DEF Pushes
        <5> QED
          BY <5>1 DEF ButtonComes
      <4>3. CASE d = job[h].dev /\ job[h].op = "remove"
        BY <1>1, <1>2, <1>14, <3>1, <3>4, <4>3 DEF EntitiesOK
      <4>4. CASE d = job[h].dev /\ job[h].op \in {"create", "delete"}
        <5>1. job[h] # NoJob /\ JobOK(job[h])
          BY <1>1, IdleFacts
        <5>2. job[h].op = "create" /\ job[h].set = Fresh({Name}, job[h].tag)
          BY <1>1, <1>2, <3>1, <4>4, <5>1 DEF JobOK
        <5>3. Name \notin Keys
          BY DEF DeviceAssumption
        <5>4. Commands(Fresh({Name}, job[h].tag)) = {}
          BY <5>3 DEF Commands, Fresh, Fields
        <5> QED
          BY <1>2, <3>4, <4>4, <5>2, <5>4
      <4> QED
        BY <1>2, <4>1, <4>2, <4>3, <4>4 DEF Ops
    <3> QED
      BY <3>3, <3>4
  <2>3. ASSUME NEW g \in Handlers, NEW d \in Devices \ torn'
        PROVE  /\ job'[g].at = "writing" /\ job'[g].dev # d /\ job'[g].base[d] # None /\ Commands(job'[g].base[d]) # {} =>
                    ButtonComes(d)'
               /\ job'[g].at \in {"loading", "writing"} /\ job'[g].dev = d /\ job'[g].op = "remove" /\ Commands(job'[g].set) # {} =>
                    ButtonComes(d)'
    <3>1. CASE g = h
      BY <1>3, <3>1
    <3>2. CASE g # h
      <4>1. d \in Devices \ torn
        BY <1>5
      <4> QED
        BY <1>3, <1>14, <3>2, <4>1 DEF EntitiesOK
    <3> QED
      BY <3>1, <3>2
  <2> QED
    BY <2>1, <2>2, <2>3 DEF EntitiesOK
<1> QED
  BY <1>8, <1>9, <1>10, <1>12, <1>13, <1>15

-------------------------------------------------------------------------------
(* Home Assistant starts.                                                  *)

\* No handler runs, the entities are those of what is stored, the coordinator
\* tracks none of them, and what is stored is registered or was missed.
SetUp ==
  /\ TypeOK /\ KnownOK
  /\ job = [h \in Handlers |-> NoJob]
  /\ live = EntitiesOf(store)
  /\ cache = [d \in Devices |-> None]
  /\ Stored(store) \subseteq Accounted
  /\ torn = {}

LEMMA SetUpEstablishes == SetUp => DeviceInv
<1> SUFFICES ASSUME SetUp
             PROVE  DeviceInv
  OBVIOUS
<1> USE DeviceAssumption
<1>1. \A h \in Handlers : job[h] = NoJob
  BY DEF SetUp
<1>2. \A h \in Handlers :
        /\ job[h].op \notin Ops /\ job[h].at = "idle"
        /\ \A d \in Devices : ~Creates(h, d) /\ ~Holds(job[h], d)
  BY <1>1, IdleHoldsNothing, IdleFacts DEF Creates, Ops
<1>3. TypeOK /\ KnownOK /\ CacheOK
  BY DEF SetUp, CacheOK
<1>4. \A h \in Handlers : JobOK(job[h])
  BY <1>1 DEF JobOK
<1>5. CreatorsOK /\ HoldersOK
  BY <1>2 DEF CreatorsOK, HoldersOK, Ops
<1>6. StoredIsRegistered
  BY DEF SetUp, StoredIsRegistered
<1>7. \A d \in Stored(store) :
        /\ d \in Primaries => live[d].primary # None
        /\ Commands(store[d]) # {} => live[d].button # None
  BY EntitiesOfFacts DEF SetUp, TypeOK
<1>8. EntitiesOK
  BY <1>2, <1>7 DEF EntitiesOK, ButtonComes, Ops
<1> QED
  BY <1>3, <1>4, <1>5, <1>6, <1>8 DEF DeviceInv

LEMMA InitEstablishes == Init => DeviceInv
<1> SUFFICES ASSUME Init
             PROVE  SetUp
  BY SetUpEstablishes
<1> USE DeviceAssumption
<1>1. store \in Stores /\ Stored(store) \subseteq Devices
  BY DEF Init, DeviceAssumption, Stored
<1>2. job \in [Handlers -> Jobs]
  BY NoJobType DEF Init
<1>3. live \in [Devices -> Entities]
  BY <1>1, EntitiesOfFacts DEF Init
<1>4. 0 \in Calls /\ 0 \in 0 .. MaxStarts
  BY DEF Calls, DeviceAssumption
<1>5. TypeOK
  BY <1>1, <1>2, <1>3, <1>4 DEF Init, TypeOK
<1> QED
  BY <1>5 DEF Init, SetUp, KnownOK

LEMMA RestartPreserves ==
  ASSUME DeviceInv, Restart
  PROVE  DeviceInv'
<1> USE DeviceAssumption
<1>1. store \in Stores /\ Stored(store) \subseteq Devices /\ Stored(store) \subseteq known
  BY DEF DeviceInv, TypeOK, KnownOK, Stored
<1>2. job' \in [Handlers -> Jobs]
  BY NoJobType DEF Restart
<1>3. live' \in [Devices -> Entities]
  BY <1>1, EntitiesOfFacts DEF Restart
<1>4. starts' \in 0 .. MaxStarts
  BY DEF Restart, DeviceInv, TypeOK, DeviceAssumption
<1>5. TypeOK'
  BY <1>1, <1>2, <1>3, <1>4 DEF Restart, Backfilled, DeviceInv, TypeOK
<1>6. KnownOK' /\ Stored(store') \subseteq Accounted'
  BY <1>1 DEF Restart, Backfilled, DeviceInv, KnownOK
<1>7. SetUp'
  BY <1>5, <1>6 DEF Restart, SetUp, EntitiesOf
<1> QED
  BY <1>7, SetUpEstablishes, PTL

-------------------------------------------------------------------------------
(* The theorems.                                                           *)

LEMMA NextPreserves == DeviceInv /\ [Next]_vars => DeviceInv'
<1> SUFFICES ASSUME DeviceInv, [Next]_vars
             PROVE  DeviceInv'
  OBVIOUS
<1> USE DeviceAssumption
<1>1. CASE Restart
  BY <1>1, RestartPreserves
<1>2. ASSUME NEW h \in Handlers, Step(h)
      PROVE  DeviceInv'
  <2>1. CASE Call(h)
    BY <2>1, CallPreserves
  <2>2. CASE Get(h)
    BY <2>2, GetPreserves
  <2>3. CASE GetNothing(h)
    BY <2>3, GetNothingPreserves
  <2>4. CASE Load(h)
    BY <2>4, LoadPreserves
  <2>5. CASE LoadNothing(h)
    BY <2>5, LoadNothingPreserves
  <2>6. CASE Fail(h)
    BY <2>6, FailPreserves
  <2>7. CASE Write(h)
    BY <2>7, WritePreserves
  <2>8. CASE Finish(h)
    BY <2>8, FinishPreserves
  <2> QED
    BY <1>2, <2>1, <2>2, <2>3, <2>4, <2>5, <2>6, <2>7, <2>8 DEF Step
<1>3. CASE UNCHANGED vars
  <2>1. UNCHANGED <<store, job, live, cache, registered, missed, known, calls, starts, overlap, torn>>
    BY <1>3 DEF vars
  <2>2. (TypeOK /\ KnownOK /\ CacheOK)' /\ CreatorsOK'
    BY <2>1 DEF DeviceInv, TypeOK, KnownOK, CacheOK, CreatorsOK, Creates
  <2>3. HoldersOK' /\ StoredIsRegistered'
    BY <2>1 DEF DeviceInv, HoldersOK, StoredIsRegistered, Registering, Creates
  <2>4. EntitiesOK'
    BY <2>1 DEF DeviceInv, EntitiesOK, ButtonComes, Creates
  <2>5. \A h \in Handlers : JobOK(job[h])'
    BY <2>1 DEF DeviceInv, JobOK
  <2> QED
    BY <2>2, <2>3, <2>4, <2>5 DEF DeviceInv
<1> QED
  BY <1>1, <1>2, <1>3 DEF Next

\* The document changes by saves only, and a save is over when the task leaves it.
LEMMA OnlySavesChangeTheStore ==
  ASSUME [Next]_vars, store' # store
  PROVE  \E h \in Handlers : Write(h)
BY DEF Next, Step, Restart, Call, Create, Update, Command, Delete, Start, Get, GetNothing,
       Load, LoadNothing, Fail, Finish, vars

LEMMA OnlyASaveEndsWriting ==
  ASSUME DeviceInv, [Next]_vars, NEW h \in Handlers,
         job[h].at = "writing", job'[h].at \in {"loading", "finishing"}
  PROVE  Write(h)
<1> USE DeviceAssumption
<1>1. job \in [Handlers -> Jobs] /\ job'[h] # job[h] /\ job'[h] # NoJob /\ job[h] # NoJob
  BY IdleFacts DEF DeviceInv, TypeOK
<1>2. ~Restart /\ ~UNCHANGED vars
  BY <1>1 DEF Restart, vars
<1>3. PICK g \in Handlers : Step(g)
  BY <1>2 DEF Next
<1>4. g = h
  <2>1. \A j : job' = [job EXCEPT ![g] = j] /\ g # h => job'[h] = job[h]
    BY <1>1
  <2>2. CASE Call(g)
    BY <1>1, <2>1, <2>2 DEF Call, Create, Update, Command, Delete, Start
  <2>3. CASE GetNothing(g) \/ LoadNothing(g) \/ Fail(g) \/ Finish(g)
    BY <1>1, <2>1, <2>3 DEF GetNothing, LoadNothing, Fail, Finish, End
  <2>4. CASE Get(g)
    BY <1>1, <2>4 DEF Get
  <2>5. CASE Load(g)
    BY <1>1, <2>5 DEF Load
  <2>6. CASE Write(g)
    BY <1>1, <2>6 DEF Write
  <2> QED
    BY <1>3, <2>2, <2>3, <2>4, <2>5, <2>6 DEF Step
<1>5. ~Call(h)
  BY <1>1 DEF Call, Create, Update, Command, Delete, Start
<1>6. /\ ~GetNothing(h) /\ ~LoadNothing(h) /\ ~Fail(h) /\ ~Finish(h)
      /\ ~Get(h) /\ ~Load(h)
  BY DEF GetNothing, LoadNothing, Fail, Finish, Get, Load
<1> QED
  BY <1>3, <1>4, <1>5, <1>6 DEF Step

\* The inductive invariant of the device handlers and the coordinator: for any
\* number of devices, handlers, calls and restarts, a handler's record is what its
\* call makes of the device it read, and what a handler holds is registered or missed, with
\* its entities live or on their way (ha_store.py:128-146,
\* _coordinator.py:426-543).
THEOREM DeviceInvariance == Spec => []DeviceInv
<1>1. Init => DeviceInv
  BY InitEstablishes
<1>2. DeviceInv /\ [Next]_vars => DeviceInv'
  BY NextPreserves
<1> QED
  BY <1>1, <1>2, PTL DEF Spec

\* A stored device has a row in the device registry, or the call that created it still
\* runs, or the backfill of the latest start failed for it (_register_ha_device,
\* async_backfill_registry).
THEOREM EveryStoredDeviceIsRegistered == Spec => []StoredIsRegistered
<1>1. DeviceInv => StoredIsRegistered
  BY DEF DeviceInv
<1> QED
  BY <1>1, DeviceInvariance, PTL

\* A device that no handler works on has its entities once it is stored, unless it
\* vanished, or an update of it failed halfway, since Home Assistant started
\* (async_add_entities_for_device).
THEOREM EntitiesFollowProved == Spec => []EntitiesFollow
<1>1. DeviceInv => EntitiesFollow
  <2> SUFFICES ASSUME DeviceInv, NEW d \in Stored(store) \ torn,
                      \A h \in Handlers : job[h].dev # d
               PROVE  /\ d \in Primaries => live[d].primary # None
                      /\ Commands(store[d]) # {} => live[d].button # None
    BY DEF EntitiesFollow
  <2>1. \A h \in Handlers : ~Creates(h, d) /\ ~Pushes(job[h], d)
    BY DEF Creates, Pushes
  <2> QED
    BY <2>1 DEF DeviceInv, EntitiesOK, ButtonComes
<1> QED
  BY <1>1, DeviceInvariance, PTL

\* A device that vanished from the store comes back only in the save of a handler
\* that ran when it vanished, and appears otherwise only by the call that creates
\* it (upsert, ha_store.py:128-138).
THEOREM NothingComesBackProved == Spec => NothingComesBack
<1> DEFINE A == \A d \in Devices :
                  store[d] = None /\ store'[d] # None =>
                    \E h \in Handlers :
                      /\ job[h].at = "writing"
                      /\ job'[h].at # "writing"
                      /\ \/ h \in overlap[d]
                         \/ job[h].op = "create" /\ job[h].dev = d /\ d \notin torn
<1>1. DeviceInv /\ [Next]_vars => [A]_vars
  <2> SUFFICES ASSUME DeviceInv, [Next]_vars, NEW d \in Devices,
                      store[d] = None, store'[d] # None
               PROVE  \E h \in Handlers :
                        /\ job[h].at = "writing"
                        /\ job'[h].at # "writing"
                        /\ \/ h \in overlap[d]
                           \/ job[h].op = "create" /\ job[h].dev = d /\ d \notin torn
    OBVIOUS
  <2> USE DeviceAssumption
  <2>1. PICK h \in Handlers : Write(h)
    BY OnlySavesChangeTheStore
  <2>2. job[h].at = "writing" /\ job'[h].at # "writing"
    BY <2>1, WriterKnows DEF Write
  <2>3. CASE Holds(job[h], d)
    BY <2>2, <2>3 DEF DeviceInv, HoldersOK
  <2>4. CASE Creates(h, d)
    BY <2>2, <2>4 DEF DeviceInv, CreatorsOK, Creates
  <2> QED
    BY <2>1, <2>3, <2>4, WrittenIsHeld
<1> QED
  BY <1>1, DeviceInvariance, PTL DEF Spec, NothingComesBack

\* A save changes another device only if it changed since the save's own load, and
\* makes of its own device what the call asks for unless that changed since the
\* handler first read it (ha_store.py:128-146, the second save of
\* async_update_device included).
THEOREM SavesLoseOnlyWhatMovedProved == Spec => SavesLoseOnlyWhatMoved
<1> DEFINE A == \A h \in Handlers :
                  LET j == job[h]
                  IN j.at = "writing" /\ job'[h].at \in {"loading", "finishing"} =>
                       /\ \A d \in Devices \ {j.dev} :
                            store[d] = j.base[d] => store'[d] = store[d]
                       /\ j.op = "delete" => store'[j.dev] = None
                       /\ j.op = "create" => store'[j.dev] = [f \in Fields |-> IF f = Name THEN j.tag ELSE None]
                       /\ j.op \in {"update", "edit", "remove"} /\ store[j.dev] = j.seen =>
                            store'[j.dev] = [f \in Fields |->
                              IF f \notin j.what THEN store[j.dev][f]
                              ELSE IF j.op = "remove" THEN None ELSE j.tag]
<1>1. ASSUME DeviceInv, NEW h \in Handlers, Write(h)
      PROVE  /\ \A d \in Devices \ {job[h].dev} :
                  store[d] = job[h].base[d] => store'[d] = store[d]
             /\ job[h].op = "delete" => store'[job[h].dev] = None
             /\ job[h].op = "create" =>
                  store'[job[h].dev] = [f \in Fields |-> IF f = Name THEN job[h].tag ELSE None]
             /\ job[h].op \in {"update", "edit", "remove"} /\ store[job[h].dev] = job[h].seen =>
                  store'[job[h].dev] = [f \in Fields |->
                    IF f \notin job[h].what THEN store[job[h].dev][f]
                    ELSE IF job[h].op = "remove" THEN None ELSE job[h].tag]
  <2> USE DeviceAssumption
  <2>1. /\ \A d \in Devices \ {job[h].dev} : store'[d] = job[h].base[d]
        /\ store'[job[h].dev] = job[h].set
    BY <1>1, WrittenIsHeld
  <2>2. job[h].at = "writing" /\ job[h] # NoJob /\ JobOK(job[h])
    BY <1>1, IdleFacts DEF Write, DeviceInv
  <2>3. job[h].op = "delete" => job[h].set = None
    BY <2>2 DEF JobOK
  <2>4. job[h].op = "create" => job[h].set = Fresh({Name}, job[h].tag)
    BY <2>2 DEF JobOK
  <2>5. job[h].op \in {"update", "edit", "remove"} => job[h].set = Result(job[h], job[h].seen)
    BY <2>2 DEF JobOK
  <2>6. job[h].op \in {"update", "edit"} =>
          job[h].set = Edited(job[h].seen, job[h].what, job[h].tag)
    BY <2>5 DEF Result
  <2>7. job[h].op = "remove" => job[h].set = Cleared(job[h].seen, job[h].what)
    BY <2>5 DEF Result
  <2>8. job[h].op = "create" =>
          store'[job[h].dev] = [f \in Fields |-> IF f = Name THEN job[h].tag ELSE None]
    BY <2>1, <2>4 DEF Fresh
  <2>9. CASE job[h].op \in {"update", "edit"} /\ store[job[h].dev] = job[h].seen
    BY <2>1, <2>3, <2>6, <2>9 DEF Edited
  <2>10. CASE job[h].op = "remove" /\ store[job[h].dev] = job[h].seen
    BY <2>1, <2>3, <2>7, <2>10 DEF Cleared
  <2> QED
    BY <2>1, <2>3, <2>8, <2>9, <2>10
<1>2. ASSUME DeviceInv, [Next]_vars, NEW h \in Handlers,
             job[h].at = "writing", job'[h].at \in {"loading", "finishing"}
      PROVE  Write(h)
  BY <1>2, OnlyASaveEndsWriting
<1>3. DeviceInv /\ [Next]_vars => [A]_vars
  BY <1>1, <1>2
<1> QED
  BY <1>3, DeviceInvariance, PTL DEF Spec, SavesLoseOnlyWhatMoved

===============================================================================
