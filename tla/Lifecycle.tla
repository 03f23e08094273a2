------------------------------- MODULE Lifecycle -------------------------------
(***************************************************************************)
(* __init__.py, migrations.py, config_flow.py, _platform_support/setup.py  *)
(* and the platform factories: the config entry of the integration, its    *)
(* setup step by step, its unload, its removal and another added after it, *)
(* and the handlers of the WebSocket API that are in flight meanwhile.     *)
(*                                                                         *)
(* There is one entry at a time, each with an id of its own under which    *)
(* hass.data keeps what its setup built.  Home Assistant runs one setup or *)
(* unload of it at a time, unloads only what was set up, and every await   *)
(* lets handlers run.  A setup builds a coordinator and a sniffer, named   *)
(* by the number of the setup; the device store is one file shared by all. *)
(* The other two stores are migrated by the same loop.                     *)
(***************************************************************************)
EXTENDS Naturals

CONSTANTS
  Tasks,      \* calls of device/create and device/update under way
  Devices,    \* devices, each with an entity on every platform considered
  Platforms,
  MaxSetups,  \* bound on the setups
  MaxEntries  \* bound on the entries added; the last one is not removed

ASSUME LifecycleAssumption == MaxSetups \in Nat /\ MaxEntries \in Nat

VARIABLES
  entry,     \* Home Assistant's state of the config entry
  eid,       \* id of the entry, or of the latest one that was removed
  at,        \* the await the setup or unload is in
  copy,      \* records the migration has read
  doc,       \* the device store: ids of its devices
  gen,       \* number of the latest setup
  data,      \* hass.data[DOMAIN]: what an entry id has there, or none
  subs,      \* the sniffers that are subscribed to the receivers
  services,  \* the coordinator the registered services send through, or none
  ws,        \* are the WebSocket commands registered?
  adders,    \* adders[g]: _entity_adders and _entity_builders of coordinator g
  plat,      \* the setup of each platform
  listed,    \* devices a platform has read and will add
  entities,  \* live entities
  tasks,     \* the calls
  born,      \* history: every device ever created
  failed,    \* history: setups that failed with their sniffer subscribed
  deserted,  \* history: ids of entries removed while Home Assistant does not unload
             \* them, their setup or their unload having failed
  astray     \* history: devices saved since the setup by a call that did not push
             \* them through its coordinator, or brought back by another's save

lifecycleVars == <<entry, eid, at, copy, doc, gen, data, subs, services, ws, adders, plat,
                   listed, entities, tasks, born, failed, deserted, astray>>

-------------------------------------------------------------------------------
NoSetup == 0
Setups == 1 .. MaxSetups
EntryIds == 1 .. MaxEntries

NoData == [coordinator |-> NoSetup, sniffer |-> NoSetup]
NoTask == [phase |-> "idle", device |-> NoSetup, seen |-> {}, via |-> NoSetup]

Phases == {"idle", "upsert", "saving", "load", "save"}

LifecycleTypeOK ==
  /\ entry \in {"absent", "not_loaded", "setting_up", "loaded", "unloading",
                "setup_error", "failed_unload"}
  /\ at \in {"rest", "read", "write", "pipeline", "forward", "backfill", "panel", "unload"}
  /\ copy \subseteq Devices /\ doc \subseteq Devices
  /\ gen \in 0 .. MaxSetups /\ eid \in 0 .. MaxEntries
  /\ data \in [EntryIds ->
               [coordinator : Setups \cup {NoSetup}, sniffer : Setups \cup {NoSetup}]]
  /\ deserted \subseteq EntryIds
  /\ subs \subseteq Setups /\ failed \subseteq Setups
  /\ services \in Setups \cup {NoSetup}
  /\ ws \in BOOLEAN
  /\ adders \in [Setups -> SUBSET Platforms]
  /\ plat \in [Platforms -> {"off", "loading", "read", "up", "failed"}]
  /\ listed \in [Platforms -> SUBSET Devices]
  /\ entities \subseteq Platforms \X Devices
  /\ tasks \in [Tasks -> [phase : Phases, device : Devices \cup {NoSetup},
                          seen : SUBSET Devices, via : Setups \cup {NoSetup}]]
  /\ born \subseteq Devices /\ astray \subseteq Devices

LifecycleInit ==
  /\ entry = "absent" /\ eid = 0 /\ at = "rest"
  /\ copy = {} /\ doc = {} /\ born = {} /\ gen = 0
  /\ data = [e \in EntryIds |-> NoData] /\ subs = {} /\ services = NoSetup /\ ws = FALSE
  /\ adders = [g \in Setups |-> {}]
  /\ plat = [p \in Platforms |-> "off"]
  /\ listed = [p \in Platforms |-> {}]
  /\ entities = {}
  /\ tasks = [t \in Tasks |-> NoTask]
  /\ failed = {} /\ deserted = {} /\ astray = {}

CallVars   == <<tasks, born>>
StoreVars  == <<copy, doc>>
PlatVars   == <<adders, plat, listed, entities>>
PublicVars == <<services, ws>>

\* hass.data[DOMAIN][entry.entry_id] of the entry there is
Own == data[eid]
SetOwn(d) == data' = [data EXCEPT ![eid] = d]

-------------------------------------------------------------------------------
(* The entry.                                                              *)

\* async_step_user: a second entry is refused, the unique id being the domain.
AddEntry ==
  /\ entry = "absent" /\ eid < MaxEntries
  /\ entry' = "not_loaded" /\ eid' = eid + 1
  /\ UNCHANGED <<at, gen, data, subs, failed, deserted, astray, StoreVars, PlatVars,
                 PublicVars, CallVars>>

\* async_remove_entry keeps the stores.  A loaded entry is unloaded first; one whose
\* setup or unload failed is not, and what it has in hass.data stays.  Home Assistant
\* drops the entities.
RemoveEntry ==
  /\ entry \in {"not_loaded", "setup_error", "failed_unload"} /\ eid < MaxEntries
  /\ entry' = "absent"
  /\ deserted' = IF Own = NoData THEN deserted ELSE deserted \cup {eid}
  /\ plat' = [p \in Platforms |-> "off"]
  /\ entities' = {}
  /\ UNCHANGED <<eid, at, gen, data, subs, adders, listed, failed, astray, StoreVars,
                 PublicVars, CallVars>>

\* Home Assistant stops, or crashes, and starts again: the store survives.
Restart ==
  /\ entry' = IF entry = "absent" THEN "absent" ELSE "not_loaded"
  /\ at' = "rest"
  /\ copy' = {} /\ data' = [e \in EntryIds |-> NoData] /\ subs' = {}
  /\ services' = NoSetup /\ ws' = FALSE
  /\ adders' = [g \in Setups |-> {}]
  /\ plat' = [p \in Platforms |-> "off"]
  /\ listed' = [p \in Platforms |-> {}]
  /\ entities' = {}
  /\ tasks' = [t \in Tasks |-> NoTask]
  /\ failed' = {} /\ deserted' = {} /\ astray' = {}
  /\ UNCHANGED <<eid, doc, born, gen>>

-------------------------------------------------------------------------------
(* async_setup_entry                                                       *)

\* Of an entry that is new, was unloaded, or whose last setup failed: then
\* Home Assistant does not call async_unload_entry.
SetupBegins ==
  /\ entry \in {"not_loaded", "setup_error"}
  /\ gen < MaxSetups
  /\ entry' = "setting_up"
  /\ at' = "read"
  /\ gen' = gen + 1
  /\ astray' = {}
  /\ UNCHANGED <<eid, data, subs, failed, deserted, StoreVars, PlatVars, PublicVars,
                 CallVars>>

\* _run from version 0: the steps registered so far pass the records through.
Migrated(records) == records

\* The store is read as it is, records that cannot be parsed included.
MigrationReads ==
  /\ at = "read"
  /\ copy' = doc
  /\ at' = "write"
  /\ UNCHANGED <<eid, entry, gen, data, subs, doc, failed, deserted, astray, PlatVars,
                 PublicVars, CallVars>>

\* The coordinator, in hass.data under the entry's id from now on: what a failed
\* setup of the same entry left there is replaced, nothing else is.
Build ==
  /\ SetOwn([coordinator |-> gen, sniffer |-> NoSetup])
  /\ at' = "pipeline"
  /\ copy' = {}

\* What was saved since the read is lost.
MigrationSaves ==
  /\ at = "write"
  /\ doc' = Migrated(copy)
  /\ astray' = astray \cup (doc' \ doc)
  /\ Build
  /\ UNCHANGED <<eid, entry, gen, subs, failed, deserted, PlatVars, PublicVars,
                 CallVars>>

\* An error is logged and the setup goes on.
MigrationFails ==
  /\ at \in {"read", "write"}
  /\ Build
  /\ UNCHANGED <<eid, entry, gen, subs, doc, failed, deserted, astray, PlatVars,
                 PublicVars, CallVars>>

\* _start_capture_pipeline, its devices loaded.  The sniffer may have nothing to
\* subscribe to, or raise while it subscribes: it is kept.
PipelineStarts ==
  /\ at = "pipeline"
  /\ subs' \in {subs, subs \cup {gen}}
  /\ SetOwn([Own EXCEPT !.sniffer = gen])
  /\ at' = "forward"
  /\ UNCHANGED <<eid, entry, gen, failed, deserted, astray, StoreVars, PlatVars,
                 PublicVars, CallVars>>

\* The load raises, and so does the setup.
PipelineRaises ==
  /\ at = "pipeline"
  /\ entry' = "setup_error" /\ at' = "rest"
  /\ UNCHANGED <<eid, gen, data, subs, failed, deserted, astray, StoreVars, PlatVars,
                 PublicVars, CallVars>>

\* async_forward_entry_setups raises, say because a platform cannot be imported.
ForwardRaises ==
  /\ at = "forward"
  /\ \A p \in Platforms : plat[p] = "off"
  /\ entry' = "setup_error" /\ at' = "rest"
  /\ failed' = failed \cup (subs \cap {gen})
  /\ UNCHANGED <<eid, gen, data, subs, deserted, astray, StoreVars, PlatVars,
                 PublicVars, CallVars>>

\* Mutant: the adder and the builder are not registered.
PlatformBeginsUnregistered(p) ==
  /\ at = "forward" /\ plat[p] = "off"
  /\ plat' = [plat EXCEPT ![p] = "loading"]
  /\ UNCHANGED <<eid, entry, at, gen, data, subs, adders, listed, entities, failed,
                 deserted, astray, StoreVars, PublicVars, CallVars>>

\* setup_rune_platform, up to the load of async_setup_platform
PlatformBegins(p) ==
  /\ at = "forward" /\ plat[p] = "off"
  /\ plat' = [plat EXCEPT ![p] = "loading"]
  /\ adders' = [adders EXCEPT ![Own.coordinator] = @ \cup {p}]
  /\ UNCHANGED <<eid, entry, at, gen, data, subs, listed, entities, failed, deserted,
                 astray, StoreVars, PublicVars, CallVars>>

PlatformReads(p) ==
  /\ plat[p] = "loading"
  /\ plat' = [plat EXCEPT ![p] = "read"]
  /\ listed' = [listed EXCEPT ![p] = doc]
  /\ UNCHANGED <<eid, entry, at, gen, data, subs, adders, entities, failed, deserted,
                 astray, StoreVars, PublicVars, CallVars>>

PlatformAdds(p) ==
  /\ plat[p] = "read"
  /\ plat' = [plat EXCEPT ![p] = "up"]
  /\ entities' = entities \cup ({p} \X listed[p])
  /\ listed' = [listed EXCEPT ![p] = {}]
  /\ UNCHANGED <<eid, entry, at, gen, data, subs, adders, failed, deserted, astray,
                 StoreVars, PublicVars, CallVars>>

\* The adder is taken back, and Home Assistant goes on without the platform.
PlatformRaises(p) ==
  /\ plat[p] = "loading"
  /\ plat' = [plat EXCEPT ![p] = "failed"]
  /\ adders' = [adders EXCEPT ![gen] = @ \ {p}]
  /\ UNCHANGED <<eid, entry, at, gen, data, subs, listed, entities, failed, deserted,
                 astray, StoreVars, PublicVars, CallVars>>

Forwarded ==
  /\ at = "forward"
  /\ \A p \in Platforms : plat[p] \in {"up", "failed"}
  /\ at' = "backfill"
  /\ UNCHANGED <<eid, entry, gen, data, subs, failed, deserted, astray, StoreVars,
                 PlatVars, PublicVars, CallVars>>

\* Mutant: the test for a registered service is the wrong way round.
RegisterServicesAgain == services' = IF services = NoSetup THEN services ELSE Own.coordinator

\* _register_services: a service that is there already is left as it is.
RegisterServices == services' = IF services = NoSetup THEN Own.coordinator ELSE services

\* async_register_websocket_commands, which replaces what is registered
RegisterCommands == ws' = TRUE

\* async_backfill_registry has loaded, or failed to; services, WebSocket commands.
Backfilled ==
  /\ at = "backfill"
  /\ RegisterServices
  /\ RegisterCommands
  /\ at' = "panel"
  /\ UNCHANGED <<eid, entry, gen, data, subs, failed, deserted, astray, StoreVars,
                 PlatVars, CallVars>>

\* _register_panel, which catches whatever goes wrong.
PanelRegistered ==
  /\ at = "panel"
  /\ entry' = "loaded" /\ at' = "rest"
  /\ UNCHANGED <<eid, gen, data, subs, failed, deserted, astray, StoreVars, PlatVars,
                 PublicVars, CallVars>>

-------------------------------------------------------------------------------
(* async_unload_entry                                                      *)

UnloadBegins ==
  /\ entry = "loaded"
  /\ entry' = "unloading" /\ at' = "unload"
  /\ UNCHANGED <<eid, gen, data, subs, failed, deserted, astray, StoreVars, PlatVars,
                 PublicVars, CallVars>>

\* A platform does not unload.
UnloadRefused ==
  /\ at = "unload"
  /\ entry' = "failed_unload" /\ at' = "rest"
  /\ UNCHANGED <<eid, gen, data, subs, failed, deserted, astray, StoreVars, PlatVars,
                 PublicVars, CallVars>>

\* _unregister_services
UnregisterServices == services' = NoSetup

\* Mutant: the sniffer goes on listening.
SnifferStays == UNCHANGED subs

StopSniffer == subs' = subs \ {Own.sniffer}

\* The entry ids that have data
WithData == {e \in EntryIds : data[e] # NoData}

\* The platforms are unloaded.  The adders stay with the old coordinator.  Services
\* and WebSocket commands are unregistered only when no data is left, the commands
\* last; should Home Assistant refuse those, the unload fails and they stay.
UnloadEnds ==
  /\ at = "unload"
  /\ StopSniffer
  /\ SetOwn(NoData)
  /\ plat' = [p \in Platforms |-> "off"]
  /\ entities' = {}
  /\ \/ /\ WithData = {eid} /\ UnregisterServices
        /\ \/ ws' = FALSE /\ entry' = "not_loaded"
           \/ UNCHANGED ws /\ entry' = "failed_unload"
     \/ WithData # {eid} /\ UNCHANGED PublicVars /\ entry' = "not_loaded"
  /\ at' = "rest"
  /\ UNCHANGED <<eid, gen, adders, listed, failed, deserted, astray, StoreVars,
                 CallVars>>

-------------------------------------------------------------------------------
(* Handlers in flight.  upsert loads the store, changes its copy and saves  *)
(* it; a load and a save are awaits.                                        *)

\* RuneWebSocketContext.coordinator: of the data there is, that of the first entry.
\* A dict keeps the order of insertion, and ids are counted in it.
Found ==
  IF WithData = {} THEN NoSetup
  ELSE data[CHOOSE e \in WithData : \A other \in WithData : e <= other].coordinator

\* The coordinator the platforms of the entry belong to
Current == IF entry = "absent" THEN NoSetup ELSE Own.coordinator

Put(t, task) == tasks' = [tasks EXCEPT ![t] = task]

EntryVars == <<entry, eid, at, copy, gen, data, subs, adders, plat, listed, failed, deserted,
               PublicVars>>

\* device/create looks the coordinator up before it saves.
CreateBegins(t, d) ==
  /\ ws /\ tasks[t] = NoTask
  /\ d \notin born
  /\ born' = born \cup {d}
  /\ Put(t, [phase |-> "load", device |-> d, seen |-> {}, via |-> Found])
  /\ UNCHANGED <<EntryVars, doc, entities, astray>>

\* device/update has found its device, and looks up the coordinator after a save.
UpdateBegins(t, d) ==
  /\ ws /\ tasks[t] = NoTask
  /\ d \in doc
  /\ Put(t, [phase |-> "upsert", device |-> d, seen |-> {}, via |-> NoSetup])
  /\ UNCHANGED <<EntryVars, doc, entities, born, astray>>

Loads(t) ==
  /\ tasks[t].phase \in {"upsert", "load"}
  /\ Put(t, [tasks[t] EXCEPT !.seen = doc,
                             !.phase = IF @ = "upsert" THEN "saving" ELSE "save"])
  /\ UNCHANGED <<EntryVars, doc, entities, born, astray>>

\* A load or a save raises.
TaskRaises(t) ==
  /\ tasks[t].phase # "idle"
  /\ Put(t, NoTask)
  /\ astray' = astray \cup {tasks[t].device}
  /\ UNCHANGED <<EntryVars, doc, entities, born>>

Written(t) == doc' = tasks[t].seen \cup {tasks[t].device}

\* The devices this save brings back, but for the task's own.
BroughtBack(t) == tasks[t].seen \ doc

\* The first save of device/update, before it looks the coordinator up.
UpdateSaves(t) ==
  /\ tasks[t].phase = "saving"
  /\ Written(t)
  /\ IF Found = NoSetup
     THEN Put(t, NoTask) /\ astray' = astray \cup BroughtBack(t) \cup {tasks[t].device}
     ELSE /\ Put(t, [tasks[t] EXCEPT !.phase = "load", !.seen = {},
                                     !.via = Found])
          /\ astray' = astray \cup BroughtBack(t)
  /\ UNCHANGED <<EntryVars, entities, born>>

\* What async_add_entities_for_device of coordinator g adds: nothing is sure of
\* a platform that has been unloaded.
Pushed(g, d) ==
  IF g = NoSetup THEN {{}}
  ELSE IF g = Current THEN {adders[g] \X {d}}
  ELSE SUBSET (adders[g] \X {d})

\* async_create_device, async_update_device; without a coordinator just the save.
SavesAndPushes(t) ==
  LET d == tasks[t].device
      g == tasks[t].via
  IN /\ tasks[t].phase = "save"
     /\ Written(t)
     /\ \E new \in Pushed(g, d) : entities' = entities \cup new
     /\ astray' = astray \cup BroughtBack(t)
                  \cup (IF g # NoSetup /\ g = Current THEN {} ELSE {d})
     /\ Put(t, NoTask)
     /\ UNCHANGED <<EntryVars, born>>

-------------------------------------------------------------------------------
Setup ==
  \/ SetupBegins \/ MigrationReads \/ MigrationSaves \/ MigrationFails
  \/ PipelineStarts \/ PipelineRaises \/ ForwardRaises \/ Forwarded
  \/ \E p \in Platforms : \/ PlatformBegins(p) \/ PlatformReads(p)
                          \/ PlatformAdds(p) \/ PlatformRaises(p)
  \/ Backfilled \/ PanelRegistered

Call(t) ==
  \/ \E d \in Devices : CreateBegins(t, d) \/ UpdateBegins(t, d)
  \/ Loads(t) \/ TaskRaises(t) \/ UpdateSaves(t) \/ SavesAndPushes(t)

LifecycleStep ==
  \/ AddEntry \/ RemoveEntry \/ Restart
  \/ Setup
  \/ UnloadBegins \/ UnloadRefused \/ UnloadEnds
  \/ \E t \in Tasks : Call(t)

LifecycleSpec == LifecycleInit /\ [][LifecycleStep]_lifecycleVars

-------------------------------------------------------------------------------
(* Correctness.                                                            *)

\* What a deserted entry's setup left behind
LeftBehind == {data[e].sniffer : e \in deserted}

\* A loaded entry has a sniffer of the setup that made its coordinator, whose gate
\* and mirror it shares, and its commands are registered.  It sends through one gate:
\* the services, which are registered only where there are none, and the handlers,
\* which look the coordinator up, use that coordinator, unless an entry was removed
\* since the start that Home Assistant did not unload, its setup or its unload
\* having failed: what that one left in hass.data is found first.
OneGate ==
  entry = "loaded" =>
    /\ ws
    /\ Own.coordinator # NoSetup /\ Own.sniffer = Own.coordinator
    /\ deserted = {} => services = Own.coordinator /\ Found = Own.coordinator

\* Only the sniffer of the entry listens, and that of any setup that failed once
\* it had subscribed, or of an entry removed without an unload: neither is stopped.
SniffersAreOwned ==
  subs \subseteq failed \cup LeftBehind
                 \cup {IF entry = "absent" THEN NoSetup ELSE Own.sniffer}

\* When the entry is loaded and no call runs, a stored device has its entities on
\* every platform that came up, unless a call failed, outlived its setup or was led
\* to the coordinator of a removed entry, or a save brought the device back.
StoredHaveEntities ==
  entry = "loaded" /\ (\A t \in Tasks : tasks[t] = NoTask) =>
    \A d \in doc \ astray, p \in Platforms :
      plat[p] = "up" => <<p, d>> \in entities

================================================================================
