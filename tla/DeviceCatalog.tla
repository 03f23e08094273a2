----------------------------- MODULE DeviceCatalog -----------------------------
(***************************************************************************)
(* The device catalog: the device and command handlers of the WebSocket    *)
(* API (websocket_api.py), the document they keep (HAStoreDeviceRepository *)
(* in adapters/storage/ha_store.py) and the entities and device-registry   *)
(* rows the platform coordinator makes of it                               *)
(* (_platform_support/_coordinator.py).                                    *)
(*                                                                         *)
(* A device is one record: its name and its commands.  Each field holds    *)
(* the number of the call that last wrote it.  A handler gets the device,  *)
(* builds the new record, and then the repository loads the whole document *)
(* again and saves it whole; device/update saves twice.  Each load and     *)
(* each save is a step, and any other handler may run between two steps.   *)
(*                                                                         *)
(* Home Assistant keeps the entity it has when it is given another with    *)
(* the same unique id.  Every button of a device has the same one, so a    *)
(* device has at most two live entities: one of its category, one button.  *)
(* Home Assistant removes an entity without giving up control, since no    *)
(* entity of this integration has a hook to wait for.                      *)
(***************************************************************************)
EXTENDS Naturals, FiniteSets

CONSTANTS
  Devices,        \* device ids (uuid4)
  Keys,           \* command keys
  Name,           \* the field that holds the name
  Handlers,       \* tasks running a handler
  None,
  Primaries,      \* the devices whose category has a platform of its own
  PrimaryLast,    \* those among them whose platform is set up after button's
  InitialStores,  \* what the store may hold when Home Assistant starts
  Edits,          \* the sets of fields a device/update may carry
  MaxCalls,       \* bound on the calls
  MaxStarts       \* bound on the restarts of Home Assistant

Fields  == {Name} \cup Keys
Calls   == 0 .. MaxCalls
Records == [Fields -> Calls \cup {None}]
Stores  == [Devices -> Records \cup {None}]

\* device/create, device/update, command/update, command/delete, device/delete.
Ops == {"create", "update", "edit", "remove", "delete"}

Stored(s) == {d \in Devices : s[d] # None}

Commands(r) == {k \in Keys : r[k] # None}

ASSUME DeviceAssumption ==
  /\ MaxCalls \in Nat /\ MaxStarts \in Nat
  /\ Name \notin Keys
  /\ None \notin Records \cup Calls \cup Stores \cup Devices \cup Ops
  /\ Primaries \subseteq Devices /\ PrimaryLast \subseteq Primaries
  /\ InitialStores \subseteq Stores
  /\ Edits \subseteq SUBSET Fields

VARIABLES
  store,       \* the stored document
  job,         \* job[h]: the call h handles and how far it is
  live,        \* live[d]: the entities Home Assistant has, as the device they hold
  cache,       \* _entities of the coordinator: the descriptor of a device
  registered,  \* devices with a row in the device registry
  missed,      \* history: devices the latest start found stored and did not register
  known,       \* device ids given out
  calls,       \* calls so far
  starts,      \* restarts so far
  overlap,     \* history: tasks that were running when a device vanished
  torn         \* history: devices since the start that vanished, or had a
               \* device/update fail between its two saves

vars == <<store, job, live, cache, registered, missed, known, calls, starts, overlap, torn>>

-------------------------------------------------------------------------------
\* at: reading the device, in the repository's load, in its save, after it.  set
\* is the record the task writes, seen the one it replaces as the task knows it,
\* base the document its save starts from; pass counts the saves of an update.
Jobs == [at   : {"idle", "getting", "loading", "writing", "finishing"},
         op   : Ops \cup {None},
         dev  : Devices \cup {None},
         what : SUBSET Fields,
         tag  : Calls,
         set  : Records \cup {None},
         seen : Records \cup {None},
         base : Stores \cup {None},
         pass : {1, 2}]

Job(a, o, d, fs, t, r) ==
  [at |-> a, op |-> o, dev |-> d, what |-> fs, tag |-> t, set |-> r,
   seen |-> None, base |-> None, pass |-> 1]

NoJob == Job("idle", None, None, {}, 0, None)

Entities == [primary : Records \cup {None}, button : Records \cup {None}]

NoEntities == [primary |-> None, button |-> None]

\* A descriptor: which entity, and whether it is the very one Home Assistant has.
Descriptors == [role : {"primary", "button"}, own : BOOLEAN]

TypeOK ==
  /\ store \in Stores
  /\ job \in [Handlers -> Jobs]
  /\ live \in [Devices -> Entities]
  /\ cache \in [Devices -> Descriptors \cup {None}]
  /\ registered \subseteq Devices /\ missed \subseteq Devices
  /\ known \subseteq Devices
  /\ calls \in Calls
  /\ starts \in 0 .. MaxStarts
  /\ overlap \in [Devices -> SUBSET Handlers]
  /\ torn \subseteq Devices

Busy == {h \in Handlers : job[h] # NoJob}

-------------------------------------------------------------------------------
(* Entities.                                                               *)

\* Mutant: only devices with commands get entities.
BuiltIfLearned(d, r) ==
  IF Commands(r) = {} THEN NoEntities
  ELSE [primary |-> IF d \in Primaries THEN r ELSE None, button |-> r]

\* What the builders make of device d with record r.
Built(d, r) ==
  [primary |-> IF d \in Primaries THEN r ELSE None,
   button  |-> IF Commands(r) # {} THEN r ELSE None]

\* async_add_entities: what Home Assistant has already stays.
Merged(old, new) ==
  [primary |-> IF old.primary # None THEN old.primary ELSE new.primary,
   button  |-> IF old.button # None THEN old.button ELSE new.button]

\* The descriptor left after a push: that of the last entity built.  Of several
\* buttons Home Assistant takes the first.
LastBuilt(d, r, old) ==
  LET new == Built(d, r)
  IN IF new.button # None /\ d \notin PrimaryLast
     THEN [role |-> "button", own |-> old.button = None /\ Cardinality(Commands(r)) = 1]
     ELSE IF new.primary # None THEN [role |-> "primary", own |-> old.primary = None]
     ELSE None

\* async_add_entities_for_device.
AddEntities(d, r) ==
  /\ live' = [live EXCEPT ![d] = Merged(live[d], Built(d, r))]
  /\ cache' = [cache EXCEPT ![d] = LastBuilt(d, r, live[d])]

Without(e, role) ==
  [primary |-> IF role = "primary" THEN None ELSE e.primary,
   button  |-> IF role = "button" THEN None ELSE e.button]

\* Mutant: the descriptor stays.
RemoveKeepingDescriptor(d) ==
  /\ live' = IF cache[d] # None /\ cache[d].own
             THEN [live EXCEPT ![d] = Without(live[d], cache[d].role)] ELSE live
  /\ UNCHANGED cache

\* async_remove_device_entities: the tracked entity goes, if Home Assistant has it.
RemoveEntities(d) ==
  /\ live' = IF cache[d] # None /\ cache[d].own
             THEN [live EXCEPT ![d] = Without(live[d], cache[d].role)] ELSE live
  /\ cache' = [cache EXCEPT ![d] = None]

\* Home Assistant sets the entry up: every platform adds the entities of what is
\* stored, and the coordinator tracks none of them.
EntitiesOf(s) == [d \in Devices |-> IF s[d] # None THEN Built(d, s[d]) ELSE NoEntities]

-------------------------------------------------------------------------------
Init ==
  /\ store \in InitialStores
  /\ job = [h \in Handlers |-> NoJob]
  /\ live = EntitiesOf(store)
  /\ cache = [d \in Devices |-> None]
  /\ registered = Stored(store) /\ missed = {}
  /\ known = Stored(store)
  /\ calls = 0
  /\ starts = 0
  /\ overlap = [d \in Devices |-> {}]
  /\ torn = {}

-------------------------------------------------------------------------------
(* The records handlers build.                                             *)

\* Mutant: device/update keeps only the commands it was sent.
EditedAlone(r, fs, t) ==
  [f \in Fields |-> IF f \in fs THEN t ELSE IF f = Name THEN r[f] ELSE None]

\* What device/update (_merge_commands) and command/update make of record r.
Edited(r, fs, t) == [f \in Fields |-> IF f \in fs THEN t ELSE r[f]]

Cleared(r, fs) == [f \in Fields |-> IF f \in fs THEN None ELSE r[f]]

Fresh(fs, t) == [f \in Fields |-> IF f \in fs THEN t ELSE None]

\* What call j makes of a device whose record is r.
Result(j, r) ==
  CASE j.op = "create" -> Fresh(j.what, j.tag)
    [] j.op \in {"update", "edit"} -> Edited(r, j.what, j.tag)
    [] j.op = "remove" -> Cleared(r, j.what)
    [] j.op = "delete" -> None

\* A command of device/create keeps the signal category of the message, which is
\* no SignalCategory, so the save cannot serialise it.
Unserializable(j) == j.op = "create" /\ j.what # {Name}

\* The document task j saves.
Doc(j) == [j.base EXCEPT ![j.dev] = j.set]

-------------------------------------------------------------------------------
(* Calls.                                                                  *)

Start(h, j) ==
  /\ job[h] = NoJob
  /\ calls < MaxCalls
  /\ calls' = calls + 1
  /\ job' = [job EXCEPT ![h] = j]
  /\ UNCHANGED <<store, live, cache, registered, missed, starts, overlap, torn>>

\* Mutant: an id is free once its device is gone.
FreeIfGone(d) == store[d] = None

\* uuid4 gives out no id twice.
Free(d) == d \notin known

Create(h, d, ks) ==
  LET fs == {Name} \cup ks
  IN /\ Free(d)
     /\ known' = known \cup {d}
     /\ Start(h, Job("loading", "create", d, fs, calls + 1, Fresh(fs, calls + 1)))

Update(h, d, fs) ==
  /\ d \in known
  /\ Start(h, Job("getting", "update", d, fs, calls + 1, None))
  /\ UNCHANGED known

\* command/update and command/delete.
Command(h, op, d, k) ==
  /\ d \in known
  /\ Start(h, Job("getting", op, d, {k}, calls + 1, None))
  /\ UNCHANGED known

Delete(h, d) ==
  /\ d \in known
  /\ Start(h, Job("loading", "delete", d, {}, calls + 1, None))
  /\ UNCHANGED known

Call(h) ==
  \E d \in Devices :
    \/ \E ks \in SUBSET Keys : Create(h, d, ks)
    \/ \E fs \in Edits : Update(h, d, fs)
    \/ \E k \in Keys, op \in {"edit", "remove"} : Command(h, op, d, k)
    \/ Delete(h, d)

-------------------------------------------------------------------------------
(* Steps of a handler.                                                     *)

\* The call is answered, or has failed.
End(h) ==
  /\ job' = [job EXCEPT ![h] = NoJob]
  /\ overlap' = [d \in Devices |-> overlap[d] \ {h}]

\* Does the handler go on with what get returned?  command/update and
\* command/delete need the command as well.
Found(j) ==
  /\ store[j.dev] # None
  /\ j.op # "update" => \A k \in j.what : store[j.dev][k] # None

Get(h) ==
  LET j == job[h]
  IN /\ j.at = "getting"
     /\ Found(j)
     /\ job' = [job EXCEPT ![h].at = "loading", ![h].seen = store[j.dev],
                           ![h].set = Result(j, store[j.dev])]
     /\ UNCHANGED <<store, live, cache, registered, missed, known, calls, starts, overlap, torn>>

GetNothing(h) ==
  /\ job[h].at = "getting"
  /\ ~Found(job[h])
  /\ End(h)
  /\ UNCHANGED <<store, live, cache, registered, missed, known, calls, starts, torn>>

\* upsert and delete load the document.
Load(h) ==
  LET j == job[h]
  IN /\ j.at = "loading"
     /\ ~Unserializable(j)
     /\ j.op = "delete" => store[j.dev] # None
     /\ job' = [job EXCEPT ![h].at = "writing", ![h].base = store]
     /\ UNCHANGED <<store, live, cache, registered, missed, known, calls, starts, overlap, torn>>

\* delete finds no such device; its entities are removed all the same.
LoadNothing(h) ==
  LET j == job[h]
  IN /\ j.at = "loading"
     /\ j.op = "delete"
     /\ store[j.dev] = None
     /\ RemoveEntities(j.dev)
     /\ End(h)
     /\ UNCHANGED <<store, registered, missed, known, calls, starts, torn>>

\* A load raises StorageError, or the record cannot be serialised.
Fail(h) ==
  LET j == job[h]
  IN /\ j.at \in {"getting", "loading"}
     /\ End(h)
     /\ torn' = IF j.pass = 2 THEN torn \cup {j.dev} ELSE torn
     /\ UNCHANGED <<store, live, cache, registered, missed, known, calls, starts>>

\* The save.  async_update_device then saves the same record again.
Write(h) ==
  LET j == job[h]
      gone == Stored(store) \ Stored(Doc(j))
      again == j.op = "update" /\ j.pass = 1
  IN /\ j.at = "writing"
     /\ store' = Doc(j)
     /\ overlap' = [d \in Devices |-> IF d \in gone THEN Busy ELSE overlap[d]]
     /\ torn' = torn \cup gone
     /\ job' = [job EXCEPT ![h].at = IF again THEN "loading" ELSE "finishing",
                           ![h].pass = IF again THEN 2 ELSE j.pass,
                           ![h].seen = j.set, ![h].base = None]
     /\ UNCHANGED <<live, cache, registered, missed, known, calls, starts>>

\* Mutant: only device/update registers the device.
RegistersUpdated(op) == op = "update"

\* _register_ha_device
Registers(op) == op \in {"create", "update"}

\* What follows the save.  command/delete retires the entity whose sub-role is
\* the command's key, and no entity has a sub-role.
Finish(h) ==
  LET j == job[h]
  IN /\ j.at = "finishing"
     /\ CASE j.op \in {"create", "update", "edit"} -> AddEntities(j.dev, j.set)
          [] j.op = "delete" -> RemoveEntities(j.dev)
          [] j.op = "remove" -> UNCHANGED <<live, cache>>
     /\ registered' = IF Registers(j.op) THEN registered \cup {j.dev} ELSE registered
     /\ End(h)
     /\ UNCHANGED <<store, missed, known, calls, starts, torn>>

\* async_backfill_registry, where the load may fail, and any row be refused.
Backfilled(s) == {registered \cup rows : rows \in SUBSET Stored(s)}

\* Home Assistant stops, whatever the handlers were doing, and starts again: the
\* platforms add the entities of what is stored and the coordinator registers it.
\* The commands are registered last, so no call arrives before setup is done.
Restart ==
  /\ starts < MaxStarts
  /\ starts' = starts + 1
  /\ job' = [h \in Handlers |-> NoJob]
  /\ live' = EntitiesOf(store)
  /\ cache' = [d \in Devices |-> None]
  /\ registered' \in Backfilled(store)
  /\ missed' = Stored(store) \ registered'
  /\ overlap' = [d \in Devices |-> {}]
  /\ torn' = {}
  /\ UNCHANGED <<store, known, calls>>

Step(h) ==
  \/ Call(h)
  \/ Get(h) \/ GetNothing(h)
  \/ Load(h) \/ LoadNothing(h) \/ Fail(h)
  \/ Write(h) \/ Finish(h)

Next == Restart \/ \E h \in Handlers : Step(h)

Spec == Init /\ [][Next]_vars

-------------------------------------------------------------------------------
(* Correctness.                                                            *)

\* What a handler knows: the record it will save is what the call makes of the
\* device it read; in the second round of an update it is the one it saved.
JobOK(j) ==
  \/ j = NoJob
  \/ /\ j.at # "idle" /\ j.op # None /\ j.dev \in known
     /\ j.op \in {"edit", "remove"} => Name \notin j.what
     /\ j.at = "getting" => j.op \in {"update", "edit", "remove"} /\ j.set = None
     /\ j.at # "getting" => (j.set = None <=> j.op = "delete")
     /\ j.at = "writing" => j.base # None
     /\ j.pass = 2 => j.op = "update" /\ j.at # "getting"
     /\ j.op = "create" => j.set = Fresh(j.what, j.tag)
     /\ j.op = "create" /\ j.at \in {"writing", "finishing"} => j.what = {Name}
     /\ j.op \in {"update", "edit", "remove"} /\ j.at \in {"loading", "writing"} =>
          /\ j.seen # None
          /\ j.set = Result(j, j.seen)

\* Devices with a row in the registry, or known to lack one.
Accounted == registered \cup missed

Creates(h, d) == job[h].op = "create" /\ job[h].dev = d

\* Task j saves device d, other than by creating it.
Holds(j, d) ==
  \/ j.at = "writing" /\ j.dev # d /\ j.base[d] # None
  \/ j.dev = d /\ j.op # "create" /\ j.set # None

\* Nobody else has seen a device that is still being created.
CreatorsOK ==
  \A h \in Handlers :
    job[h].op = "create" /\ job[h].at \in {"loading", "writing"} =>
      LET d == job[h].dev
      IN /\ store[d] = None /\ d \notin torn \cup Accounted
         /\ \A g \in Handlers \ {h} : ~Holds(job[g], d) /\ ~Creates(g, d)

Registering(d) == d \in Accounted \/ \E h \in Handlers : Creates(h, d)

\* A held device is registered or about to be, and if it is gone from the store,
\* its holder ran when it went.
HoldersOK ==
  \A h \in Handlers, d \in Devices :
    Holds(job[h], d) =>
      /\ Registering(d)
      /\ store[d] = None => h \in overlap[d] /\ d \in torn

\* The task pushes a button of device d once it has saved.
Pushes(j, d) ==
  /\ j.dev = d /\ j.op \in {"update", "edit"}
  /\ j.at = "finishing" \/ j.pass = 2
  /\ Commands(j.set) # {}

ButtonComes(d) == live[d].button # None \/ \E h \in Handlers : Pushes(job[h], d)

\* Entities follow the store, and what is about to be stored.
EntitiesOK ==
  /\ \A h \in Handlers :
       job[h].op = "delete" =>
         /\ job[h].at = "writing" => store[job[h].dev] # None \/ job[h].dev \in torn
         /\ job[h].at = "finishing" => job[h].dev \in torn
  /\ \A d \in Stored(store) \ torn :
       /\ d \in Primaries => live[d].primary # None \/ \E h \in Handlers : Creates(h, d)
       /\ Commands(store[d]) # {} => ButtonComes(d)
  /\ \A h \in Handlers, d \in Devices \ torn :
       LET j == job[h]
       IN /\ j.at = "writing" /\ j.dev # d /\ j.base[d] # None /\ Commands(j.base[d]) # {} =>
               ButtonComes(d)
          /\ j.at \in {"loading", "writing"} /\ j.dev = d /\ j.op = "remove" /\ Commands(j.set) # {} =>
               ButtonComes(d)

\* A descriptor called Home Assistant's own is of a live entity.
CacheOK == \A d \in Devices : cache[d] # None /\ cache[d].own => live[d][cache[d].role] # None

KnownOK == Stored(store) \cup Accounted \cup torn \subseteq known

\* A stored device has a row in the device registry, unless the call that created
\* it is still running, or the backfill of the latest start failed for it
\* (_register_ha_device, async_backfill_registry): neither a crash between a save and
\* its registration nor another handler's save leaves one out beyond a backfill that
\* succeeds.
StoredIsRegistered ==
  \A d \in Stored(store) \ Accounted :
    \E h \in Handlers : job[h].op = "create" /\ job[h].dev = d

\* The inductive invariant: what each handler knows about the device it saves and
\* the document it saves it in (ha_store.py:128-146), that a device held by a
\* handler is registered, and its entities live or on their way
\* (_coordinator.py:426-543), and that the coordinator takes no entity for Home
\* Assistant's that is not (_coordinator.py:588-616).
DeviceInv ==
  /\ TypeOK /\ KnownOK /\ CacheOK
  /\ \A h \in Handlers : JobOK(job[h])
  /\ CreatorsOK /\ HoldersOK /\ StoredIsRegistered /\ EntitiesOK

\* A device that vanished from the store comes back only in the save of a handler
\* that was already running when it vanished; otherwise a device appears only by
\* the one call that creates it (upsert appends what it does not find,
\* ha_store.py:128-138).
NothingComesBack ==
  [][\A d \in Devices :
       store[d] = None /\ store'[d] # None =>
         \E h \in Handlers :
           /\ job[h].at = "writing"
           /\ job'[h].at # "writing"
           /\ \/ h \in overlap[d]
              \/ job[h].op = "create" /\ job[h].dev = d /\ d \notin torn]_vars

\* A save changes another device only if that device changed since the save's own
\* load, and makes of its own device what the call asks for unless that device
\* changed since the handler first read it: outside those windows a handler is
\* as good as atomic, the second save of device/update included.
SavesLoseOnlyWhatMoved ==
  [][\A h \in Handlers :
       LET j == job[h]
       IN j.at = "writing" /\ job'[h].at \in {"loading", "finishing"} =>
            /\ \A d \in Devices \ {j.dev} :
                 store[d] = j.base[d] => store'[d] = store[d]
            /\ j.op = "delete" => store'[j.dev] = None
            /\ j.op = "create" => store'[j.dev] = [f \in Fields |-> IF f = Name THEN j.tag ELSE None]
            /\ j.op \in {"update", "edit", "remove"} /\ store[j.dev] = j.seen =>
                 store'[j.dev] = [f \in Fields |->
                   IF f \notin j.what THEN store[j.dev][f]
                   ELSE IF j.op = "remove" THEN None ELSE j.tag]]_vars

\* A stored device that no handler works on has the entity of its category, and a
\* button once it has a command, unless since Home Assistant started it vanished
\* from the store or an update of it failed halfway (async_add_entities_for_device
\* and the platforms' setup).
EntitiesFollow ==
  \A d \in Stored(store) \ torn :
    (\A h \in Handlers : job[h].dev # d) =>
      /\ d \in Primaries => live[d].primary # None
      /\ Commands(store[d]) # {} => live[d].button # None

\* What websocket_api.py:1124-1129 says: after a command was edited the button
\* Home Assistant has knows the command as stored, once no handler works on the
\* device and no save was lost.
ButtonsSendWhatIsStored ==
  \A d \in Stored(store) \ torn :
    (\A h \in Handlers : job[h] = NoJob) /\ live[d].button # None =>
      \A k \in Commands(store[d]) : live[d].button[k] = store[d][k]

===============================================================================
