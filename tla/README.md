# RUNE in TLA+

Specifications of `custom_components/rune`, a Home Assistant integration that
learns, sends and recognises infrared and radio remote signals. Paths below are
relative to `src/custom_components/rune/`.

Everything runs on one asyncio event loop: code is atomic between two `await`s
that suspend, and every hazard of this program lies in what another callback
may do at such an `await`. An action of these modules is what one callback
does from one suspension to the next.

## The system

| Part | State | Operations | Interacts with |
|---|---|---|---|
| Capture orchestrator (`adapters/capture/orchestrator.py`) | the lock, active session id, task, results, listeners | `start_capture`, `cancel_capture`, `subscribe`, `get_session_result`, the capture task | a capture provider, the learn handlers |
| Learn handlers (`websocket_api.py` 703-917) | one coroutine per call | `command/learn`, `command/learn/cancel` | the orchestrator, by session id |
| Transmission gate (`adapters/tx_gate.py`) | lock, ledger of sends | `send` | every transmitter; the mirror log |
| Mirror log (`sniffer/mirror.py`) | recent sends, who heard them | `record_send`, `record_echo`, expiry | the gate writes it, the sniffer reads it |
| Sniffer engine (`sniffer/engine.py`) | subscriptions, running flag | `start`, `stop`, `handle_capture` | receivers, signal repository, limiter, mirror |
| Capacity guard (`sniffer/capacity.py`) | none | eviction order and caps | called by the sniffer with the catalog |
| Rate limiter (`sniffer/rate_limiter.py`) | token buckets | `allow` | called by the sniffer |
| Repositories (`adapters/storage/`) | the stored documents | load, save, upsert, remove | Home Assistant's `Store`; both load and save suspend |
| Device and command handlers (`websocket_api.py`) | none of their own | device and command create, update, delete | device repository, platform coordinator |
| Platform coordinator (`_platform_support/`) | cache of entities, add callbacks | add and remove entities | Home Assistant's entity registry |
| Trigger engine (`domain/triggers/engine.py`) | hit windows, dedup times | `evaluate`, `reset`, `reset_binding` | meant to be fed by the sniffer; nothing calls it yet |
| Power monitor (`adapters/power_monitor.py`) | last verdict and its time | state-change callback | meant for the platform entities; nothing starts one yet |
| Speed mapper, encodings, matching (`domain/`) | none | pure functions | entities, sniffer, providers |
| Capture providers, receivers, transmitters (`adapters/`) | hardware sessions | start, wait, stop; subscribe; send | Home Assistant services |
| Platform entities (`fan.py`, ...) | optimistic state | service calls | gate, power monitor |
| Lifecycle and migrations (`__init__.py`, `migrations.py`) | runtime data | setup, unload, migrate | everything |
| Panel (`frontend/src/`) | learn dialog, store | WebSocket calls with retries | the handlers |

`PROJECT.json` lists each part with what is modelled of it, and every hazard
with its line.

What makes each part hard, and what makes it correct:

* orchestrator: a cancellation may reach the task before its first step, in the
  provider's wait, or while it stops the provider. Correct: one session at a
  time, the lock is released once and by its owner, results are never stale.
* learn handlers: several handlers share the orchestrator by session id.
  Correct: a handler returns a capture of its own command, made since it was
  called, and every call returns.
* transmission gate: several senders, a sleep under the lock, a transmission
  outside it. Correct: the gaps hold, the ledger never goes back, no send times
  out while the timeout covers the gaps.
* sniffer and signal store: captures handled concurrently, each a read, modify
  and write with suspensions. Correct: nothing stored is lost but by the caps, no
  hit is counted that was not heard, a stopped sniffer is subscribed nowhere.
* devices and coordinator: handlers that suspend between reading and writing a
  device. Correct: only overlapping calls lose each other's edits or bring a deleted
  device back; what is stored is registered and has its entities.
* mirror and limiter: an echo is handled in a task of its own, when the entry of
  its send may have expired, and may be heard otherwise than it was logged. Correct: of the
  echoes heard as they were logged only late ones reach the matcher, no burst does.
* providers and receivers: a request handed to the Broadlink device outlives the
  session that made it. Correct: no session is disturbed by, or given the pulse of,
  one before it; the device is not left sweeping.
* trigger engine and power monitor: time windows, dedup, debounce. Correct: a
  binding fires on presses made by hand, each used once; only a bounced verdict is stale.
* entities: optimistic state set after a send, calls that overlap. Correct: what an
  entity shows is what its device heard, unless calls overlapped or a send failed.
* codec and identity: a pulse goes through four encodings. Correct: what is played is
  what was learned, and is recognised when it is heard.
* lifecycle: setups that fail half way, entries removed and added again, handlers that
  outlive an unload. Correct: one gate, no sniffer too many, entities for what is stored, unless
  a failed entry that was removed left its data behind.

## Modules

| Module | What it models |
|---|---|
| `CaptureSessions` | what the orchestrator promises: sessions one at a time, an old result gone when its session opens again, results only by the session that runs |
| `CaptureOrchestrator` | `orchestrator.py`, and that it implements `CaptureSessions` |
| `CaptureOrchestrator_proofs` | its theorems |
| `CaptureProviders` | the orchestrator (it extends it) with the Broadlink and native providers, the device's queue of requests and the infrared receiver |
| `CaptureProviders_proofs` | its theorems |
| `LearnCommand` | the learn handlers, composed with the orchestrator (it extends it) |
| `LearnCommand_proofs` | its theorems |
| `TxGate` | `tx_gate.py` with asyncio's lock |
| `EchoLog` | the gate (it extends it) with the mirror log, the rate limiter and the captures of what it sends |
| `EchoLog_proofs` | the theorems of the gate, the mirror log and the limiter |
| `Sniffer` | the sniffer engine, the capacity guard, the signal repository on Home Assistant's store, and `sniffer/dismiss` |
| `Sniffer_proofs` | its theorems |
| `DeviceCatalog` | the device and command handlers, the device repository on Home Assistant's store, the coordinator's entities and registry rows, restarts |
| `DeviceCatalog_proofs` | its theorems |
| `SpeedMapper` | `speed_mapper.py`, operators only |
| `Entities` | the handlers of the eight platforms, over the coordinator's send path and the mapper |
| `TriggerEngine` | `triggers/engine.py` and people who press buttons |
| `PowerMonitor` | `power_monitor.py` and a wattage sensor |
| `PulseCodec` | packets, transmit boundary, Pronto hex, the transmitters' encodings, byte hash and S/L pattern |
| `PulseCodec_proofs` | its theorems, and the lemma on the rounding that the codec and the mapper share |
| `Lifecycle` | the config entry: setup, migration, platforms, unload, restart, and the handlers in flight |
| `Parts_proofs` | the theorems of `Entities`, `TriggerEngine`, `PowerMonitor` and `Lifecycle` |
| `MC...` | small instances for TLC |

`MCParts` runs five parts in one model: entities, triggers, power, codec and
lifecycle share no state, so a behaviour is one of theirs.

Operators whose comment begins with "Mutant:" are not part of the
specifications. Each is a plausible slip of the definition below it,
kept to show that the properties can tell the difference.

### CaptureOrchestrator

`lock`, `active`, `task`, `results` are `_lock.locked()`, `_active_session_id`,
`_task` with what its coroutine closed over, and `_results`. `subscribed` is
`_listeners`; `heard` is what a listener was last called back with and how often it was called, so that
a state announced twice is a step like any other;
`awaiting` are the callers suspended at `await self._task`. `serial` numbers the
sessions; it tells two sessions of one id apart and stands for the provider,
of which every learn call builds its own (`armed` are the providers started and
not stopped), and for what it captures.

`Start` is `start_capture` when the provider's start does not suspend;
`StartSuspends` and `StartResumes` the same when it does, `StartRaises` and
`StartResumesRaising` when it raises. `TaskBegins`, `WaitEnds`,
`WaitEndsThenSuspends`, `StopResumes` are the capture loop, with the order of
announcing, stopping, storing and releasing that each exit has.
`TaskCancelledUnbegun` and `StopCancelled` are the two places where asyncio
throws the cancellation outside the loop's `try`. No provider of the
repository suspends in `start` or `stop`, but their protocol allows it:
`ProviderSuspends = TRUE` adds these steps to the others.

### CaptureProviders

`kind` is the provider that `command/learn` picked for the latest session: a
Broadlink sweep, a direct radio capture with or without a frequency, Broadlink
infrared, native infrared, or any other that the protocol admits. `phase` is the
request or the sleep in which its `async_wait_for_signal` is suspended. `requests`
is the queue of the Broadlink integration's `async_request`: what was handed over
is carried out in order, even when the coroutine that awaited it has been cancelled
and the next session has begun. `mode` and `code` are the device. A request may
fail, and then may or may not have been carried out. `pulses[n]` is the pulse of
the n-th session's native receiver: dispatched as a task of its own, it may arrive
after the session stopped. `SweepIsEnded` has an exception for failures that it
must have: `sweep_frequency` ends its sweep when it is cancelled and at its deadline,
but a read error leaves it sweeping.

### LearnCommand

Each handler has a place where it is suspended (`at`), the session id it wants,
the serial it opened and the reply it gave. Polling is not counted: a deadline
may strike at any poll, as the providers' own windows may be longer than the
handler's. Validation, unknown devices and unavailable providers are one
refusal (`LearnRefused`).

### TxGate

`lastBy` and `lastAll` are the ledger. `holder` and `queue` are the asyncio lock,
first come, first served. `at` says where a send is suspended: waiting for the
lock at the gate, asleep under it, transmitting, or waiting for the lock to
write the ledger. The clock ticks by 0.1 s, the granularity of the two gaps;
a callback may run arbitrarily late. The stamp is read before the lock is
taken the second time, as in the code.

### EchoLog

`send` writes the mirror entry before it asks for the gate's lock, so `SendRecorded`
is `Send` with the entry. `entries` and `buckets` are `MirrorLog._entries` and
`RateLimiter._buckets`. A signal is the timings a command stores and its transport; `SentBy`
says which emitter can send it. The entry has the stored timings, not those that are
prepared for the emitter, and receivers may report others: `HeardAs` says which.
`IsEchoOf` is `_is_echo_of`: infrared timings exactly as logged, radio timings of the
same length with at most 35 % of the pulses more than 35 % off. So an echo may not match
the entry of its own send, and it may match that of another.
A transmission under way may be heard by any receiver, and so
may a remote with the same signals; each capture waits in `captures` until a task
handles it, in any order. `Handle` is `handle_capture` up to its first
suspension: limiter, then mirror; what passes both, `passed`, is what `Sniffer` begins with.
`LeaksOnlyLate` speaks of the echoes that match what their send logged; the others
reach the matcher at once, within the lifetime of the entry. Both happen in the run.
The limiter's key is the receiver and the transport, and a receiver has one transport
here. Echoes use up tokens, and a press of a key that was sent within the entry's
lifetime is swallowed as an echo: both as in the code. The list of entries is only
appended to and filtered, so it is here the set of its entries with their numbers, and
what `record_echo` finds first is the one with the least.

### Sniffer

`slots` is `_subscriptions` of the engine, `live` the subscriptions that
receivers still call: a slot holds one unsubscribe callback, so the two can
differ. `catalog` is the document in the store, as a set of remotes and a
function from signal ids to rows. `job[t]` is what the coroutine of task `t` has
in its local variables: the row it will write, the catalog it loaded first
(`seen`) and the document it is saving (`doc`).

Every repository method loads the whole document, changes it without a
suspension, and saves it whole, and Home Assistant's store suspends in both.
So an operation is three steps: the first load (`Capture`, `Dismiss`), the load
inside the repository method (`UpsertReads`, `DismissReads`), and the save
(`MintSaved`, `Saved`). A load takes its value when it ends and a save
gives it away when it ends; other tasks may do anything between.
A new signal saves twice: itself, then what the caps left of the catalog
loaded first. `UpsertRaises` is the attribute error of `upsert_signal` for a
remote that is not stored.

A capture's key stands for its three fingerprints: two captures have the same or
not. Captures dropped by the limiter or as an echo change nothing here.
The matcher returns some row with the key (`match_signals` takes the first in
document order, which a save changes). Only receivers that decode no protocol
listen continuously, so the remote a signal is filed under is the receiver's.
The clock counts captures; `age` of a signal is measured in it. Signals the caps
compare as equal are dropped in any order. Setup and the subscription of its
receivers are one step, which may be broken off before any entry: nothing
else touches the slots meanwhile. `first`, `matches` and `evicted` are history.

### DeviceCatalog

`store` is the document `devices` of Home Assistant's store. A record has a name
and a command per key, and each of them is the number of the call that last
wrote it (0 for what was stored at first). That is all the properties tell apart:
which call's edit survives. `job[h]` is what the coroutine of one handler has in
its local variables: what it was asked (`op`, `dev`, `what`), the record it will save
(`set`), the one it replaces (`seen`) and the document its save starts from
(`base`).

A handler reads the device (`Get`; `GetNothing` answers `not_found`), then
`upsert` or `delete` of the repository loads the document again (`Load`) and saves
it whole (`Write`), and then come the coordinator and the answer without
another suspension (`Finish`). `device/create` and `device/delete` begin with
the repository's own load. `device/update` saves twice: `async_update_device` calls
`upsert` again. Between these steps any other handler may run. `Fail` is a load that
raises `StorageError`, and the record that cannot be written to JSON. `Restart`
stops Home Assistant wherever the handlers are; the platforms then add the
entities of what is stored, `async_backfill_registry` registers it, and no handler
can be called before, as the commands are registered last. The load of the backfill may fail,
and so may each row (`Backfilled`); `missed` is history: the devices it failed for.

`live` are the entities Home Assistant has, `cache` the coordinator's
`_entities`. A push offers entities that may exist; Home Assistant keeps the one
it has, which the coordinator's comment at line 490 relies on too. The
descriptor the coordinator then keeps is that of the last entity built, and it is
Home Assistant's own (`own`) only if that was not refused. `overlap` and `torn` are
history.

The code differs from its prose where no run judges it, and the module follows
the code. `device/create` with a command always raises, as
`signal_category` stays a string whose `.value` the serialiser asks for
(`websocket_api.py` 513-521; `Unserializable`). All buttons of a device share one unique id, so
it has one button, of its first command (`button.py` 1 says one per command).
`device/delete` retires at most the one entity the coordinator tracks and none
after a restart (its docstring, 564-571, says all), and never the row in the
registry. `command/delete` looks for a sub-role that no entity has, so it retires none.

Abstracted: refused messages (nothing is read), a reload while a handler runs
(`Lifecycle` has it), records that cannot be parsed, a document half written, and a save
that Home Assistant itself fails to write.

### Entities and SpeedMapper

One entity of one kind. `shown` is what it shows, `actual` what its device is in after
the pulses it heard, as a function of the same fields. A handler sends its keys one
after the other (`Proceed`) and then sets its fields; `calls[c]` is what it has left
to do. A send may be skipped (no emitter, or the first that fits is unavailable), may raise
before or after the pulse, or wait. Buttons, the `send_command` service, bindings and
`command/test` send past the entity. `drift` is history: the fields that were not last
changed by a pulse of the handler that set them, without another pulse in between.
`ShownIsHeard` says that in all other fields the entity is right, which takes both the
key each handler picks and what it then assumes to agree, through two roundings for
a fan and a light. Transport keys of a media player stand for one, `volume_up`.

`SpeedMapper` computes with ratios where the code has floats; up to 25 steps the results
are the same. `NamesComeBack` of `MCParts` checks the named speeds.

### TriggerEngine and PowerMonitor

Times are ages, cut off beyond the longest comparison. In `TriggerEngine` a press is
heard by each receiver at most once, within the dedup window: that is what the window is
meant for. `Capture` evaluates all the bindings, as a caller would; `counted` and `fires`
are history. The memory of a signal is shared by the bindings: a second receiver's
capture counts for none of them, also for one whose scope leaves out the first receiver
(`InScope` is asked before the memory, and only bindings that count write it). In
`PowerMonitor` the verdict of a reading that comes within the debounce is dropped
and never looked at again, which `StaleOnlyIfBounced` allows and nothing else.

### PulseCodec

A packet is learned, as infrared or as radio, and then handed to emitters:
as prepared timings, as timings by way of Pronto hex, or as a packed
buffer by way of both. Bytes, words and digits have their widths: a gap of more than
16 bits becomes a Pronto word of five digits, which the parser refuses or misreads.
`DecodeIr`, `DecodeRf`, `Prepared`, `ProntoHex`, `ProntoTimings`, `LircToBroadlink`,
`ByteHash` and `SlPattern` are the functions of the same names. The digest of the hash is
left out (equal inputs, equal hashes), as is the frequency word: all callers leave it zero.

`Bodies` are the packed ticks of the packets that may be heard: any sequences of bytes for
the theorems, the sets of `MCPulseCodec` for TLC. `FitsPronto` says what Pronto hex can
carry: the capture begins with a mark and no gap inside the pulse needs more than 16 bits. `PlaysWhatWasLearned`
needs it: one such gap makes the number of digits no multiple of
four, which the parser refuses, but the surplus digits of four of them make a whole word, and
everything from the first long gap on is read as another pulse.

### Lifecycle

`entry` is Home Assistant's state of the config entry, `eid` the id of the one there is, and
`at` the `await` that its setup or unload is in; between two of them handlers run. There is one
entry at a time, but it may be removed and another added. A setup is named by its number, which
stands for its coordinator and its sniffer. `data` is `hass.data[DOMAIN]`, by entry
id: `Build` puts the coordinator there, `PipelineStarts` the sniffer, and only `UnloadEnds` takes them
away. Home Assistant does not unload an entry whose setup failed, so what such an
entry has there stays when it is removed (`deserted`, history). `Found` is
`RuneWebSocketContext.coordinator`: that of the first entry there is, in the order of insertion.
`services` is the coordinator that the registered services closed over; they are registered only
where there are none, and services and commands (`ws`) are unregistered only by an unload that
leaves `hass.data[DOMAIN]` empty.

`doc` is the device store: a migration reads it, and writes back what it read.
Platforms are set up concurrently: each registers its adder, reads the store and adds
what it read (`listed`). `tasks` are `device/create` and the first and second save of
`device/update`, with the coordinator each has looked up (`via`). `failed` and
`astray` are history: setups that failed with their sniffer subscribed, and devices whose
entities nobody promises (a call failed, outlived its setup or was led to the coordinator
of a deserted entry, or another's save brought the device back). A call that pushes through
another coordinator than the entry's meets platforms that may or may not still add (`Pushed`).

What the three properties except is what the code does: after a deserted entry, services
and handlers may use different coordinators, each with a gate of its own, and a device may be
stored without its entities until the next start.

## Runs

| Run | Shows |
|---|---|
| `orchestrator` | with the providers in use and any other: the safety of the orchestrator, its inductive invariant, that a listener hears beginnings and endings in turn, that it implements `CaptureSessions`, that no session is disturbed by requests of one before it or given its pulse, that the device is not left sweeping but by a request that failed, and that `cancel_capture` returns |
| `orchestrator_lost` | *finding*: a cancel before the task's first step loses the session |
| `learn` | what a learn call returns is fresh and of its command; it is not told "cancelled" while its own session runs; every call returns |
| `tx_gate` | with three senders no send times out when the timeout covers the gaps, and the ledger is written in order |
| `echo_log` | with one sender all gaps hold in the ledger, every send returns though some time out, of the echoes heard as they were logged only late ones reach the matcher, and the limiter is bounded |
| `tx_gate_ledger` | *finding*: with two senders the stagger gap can be skipped |
| `sniffer` | two captures and a dismissal at once lose nothing known and invent no hit; only replaced subscriptions outlive the engine |
| `sniffer_new` | *finding*: a new signal is overwritten by the catalog loaded before it |
| `devices` | any two of the five handlers, interleaved at every load and save, with failures and a restart: what a save may lose, what may come back, that what is stored is registered, unless the backfill failed for it, and has its entities |
| `devices_buttons` | *finding*: after an edit the live button keeps the old command |
| `parts` | entities show what their device heard; a fan turned on again resumes its step exactly when the percentage it shows was not rounded up, and the next step else; bindings fire on fresh presses and seldom; a stale power verdict was bounced; an emitter plays what was learned and the replay is recognised; one gate, no sniffer too many and entities for what is stored, across setups that fail, unloads, removals and restarts |
| `codec_spaces` | *finding*: a learned infrared pulse loses its spaces on the way to a Broadlink emitter |

Bounds.

* `orchestrator`: two session ids and two sessions, which may have the same id: one leaves
  requests, pulses or results behind and the next meets them. Two polls a phase: one
  that is followed by another and one that is not. Two callers of `cancel_capture` give a
  second cancellation of the same task. Deadlock is checked here and in `learn`.
* `learn`: three sessions over two ids: a session, a second of the same id and one of
  another between or after them, the longest pattern a stale result needs. Two learn
  handlers and a cancel handler: two may share an id while the third cancels; they
  call again and again.
* `tx_gate`: the gaps are those of `const.py` in ticks of 0.1 s (1 and 3). Since its timeout
  (50 ticks) would never be reached it is 3, just enough. Three senders and four sends give
  each a queue before it and a ledger with several emitters. The clock is bounded by
  `MaxTime` but always reaches the end of a sleep. The models stop when their sends are used up.
* `echo_log`: one sender, three sends and three captures, of which two may wait; gaps of one and two ticks and
  a timeout of one, just too short; three ticks, enough for an entry to expire, for another
  send after it and for an echo of that. A lifetime of one tick, which a wait in the gate
  outlives, and a bucket of one token refilled by one a tick, so that captures find it empty,
  filling and full. An infrared signal is heard as it is stored or with the terminator that
  preparing it adds, a radio signal with one of its three pulses wrong; the other boundaries of the
  comparison are the assumption `EchoBoundaries` of `MCEchoLog`. (1.06 million states.)
* `sniffer`: two captures and one dismisser are every pair of operations at once, and the
  dismisser with both; three captures let one come after two that overlapped. Caps of 2 and 3
  are reached by them, as the store starts empty or with two signals of one remote. The
  list of receivers names one twice, as setup does for two devices that share a receiver.
* `devices`: three calls of two handlers are a call that meets another and one that comes
  after or between (a save, an overlapping deletion, a creation that loaded before it);
  two devices tell one's own from another's, one with a platform of its own and one with
  buttons only; two keys let an edit keep a command it was not sent. One restart comes
  anywhere.
* `parts`, entities: two handlers at once and three calls, so that a pulse may come
  between a pulse and the end of its handler, and another after both. Four
  speeds, three brightness steps with gaps between them, percentages and brightnesses at
  the ends and in between; temperatures half way between whole degrees. At most one key is missing
  or untaught. Triggers: a binding of two presses that any receiver may count and one of a single
  press with a scope; three presses; a window of three ticks, a dedup of one.
  Power: a reading on each threshold and one between them. Codec: all packets of up to five bytes of
  four values, which make ticks of one and of three bytes, zero ticks, gaps that are idle,
  between the two thresholds for idle, and too long for 16 bits; and all packets of up to six
  ticks of three kinds, short, idle and too long for 16 bits, so that four long gaps may
  lie inside a pulse. Lifecycle: two entries and two setups, enough for one that fails, is removed
  and leaves its data to the other; two devices, two calls, one platform. Devices and calls
  are interchangeable there. (1.6 million states in all.)

Deadlock is not checked where calls, sends or captures run out. The properties of
`parts` are about one part each, so that running them together asks nothing less.

The store may start with a document. Nothing in this version creates a remote
in Home Assistant's store (`upsert_signal` raises instead), so such a document
comes from an earlier version or from a backup.

Fairness. `CaptureOrchestrator` and `LearnCommand` assume that the event loop
runs a task that is ready and that a provider's start, wait and stop end: the
waits have timeouts of their own (`asyncio.wait_for`) and the others are Home
Assistant calls. `CaptureProviders` has these waits step by step: sleeps end, the
integration carries out its requests, and each phase ends after its polls whether
or not anybody presses a key. Handlers go on polling and their deadline comes. Nothing is
assumed of anyone calling anything. `TxGate` and `EchoLog` assume that time passes
and that transmissions end. Weak fairness is enough everywhere: what is waited for stays
enabled until it happens.

## Findings

1. `cancel_capture` between the creation of the capture task and its first step:
   asyncio throws the cancellation before the coroutine's `try`, so the provider
   is never stopped and the lock never released. The module comment says that
   cancellation reaches the provider. `ReleasedUnlessDead` and `LearnReturns`
   state what still holds then.
2. The gate exempts the emitter that sent last from the stagger gap, and is left
   before the transmission: with two senders a send may begin right after one
   of another emitter, against the docstring of `_enforce_stagger`.
3. `_mint_new` saves the catalog it loaded before the new signal over the one that
   has it: in a store with any remote no new signal stays. The module comment
   says that a capture bumps a row or mints a new one.
4. After `command/update` and `device/update` the comment in the handler says
   that the existing button is refreshed in place; the coordinator
   offers a new button with the same unique id, which Home Assistant
   refuses, and the live one keeps the command it was built with until the
   next start.
5. `lirc_to_broadlink` packs a negative width as zero, and the Broadlink infrared
   transmitter gives it signed timings: every space is lost. `broadlink_to_lirc`
   is documented as its inverse.

Observations that the models state and no run judges:

* `command/learn/cancel` replies `cancelled: true` always; its docstring says `False` when
  nothing was cancelled (`LearnCommand`). A direct radio capture without frequency ends in
  a timeout, for its assertion is swallowed with the device's errors (`CaptureProviders`).
* Of two captures of one signal handled at once one hit is lost, and a capture saved after a
  dismissal may undo it. The caps keep the oldest signals, while `capacity.py` says the freshest
  (`KeptBefore`). The suppression of repeats reads a table that nothing writes.
* The mirror compares what was heard with the timings before they were prepared for the emitter,
  and by exact equality for infrared: an echo with the terminator that was added to it is no
  echo to the mirror, and is matched as a press would be (`EchoLog`).
* A fan does not always resume its speed. `fan.py` 125 says "resume last speed or step 1" and
  `speed_mapper.py` 12-13 that values round-trip exactly, but a step whose percentage was rounded
  up comes back as the next: step 3 of 4 is shown as 67 % and resumes step 4.
  `ResumesItsSpeed` says exactly which do; with the run's four speeds this is the one (`ThirdOfFourRoundedUp`
  of `MCParts`).
* When a setup failed, its entry was removed and another was added, `RuneWebSocketContext.coordinator`
  returns the coordinator of the first, although its docstring (`websocket_api.py` 74) promises
  the live one: handlers push through platforms that are gone, services may send through
  another gate, and both stay registered when the second entry is unloaded (`Lifecycle`).
* A light's brightness of 1 or 2 sends its *brightest* step; a fan that was turned off shows zero percent and does not resume; an entity sets its
  state although the key is not learned or the pulse was skipped. The first emitter that fits
  is chosen even if it is unavailable (`Entities`).
* The packed buffer for a Broadlink emitter has no packet header; the native infrared path hands
  its base64 to a Pronto parser; an odd number of idle entries trimmed from the front, or
  a zero tick, turns marks into spaces on the way through Pronto hex. Two captures
  with different decoded fingerprints still match by hash or pattern (`PulseCodec`).
* `raw_timings_to_pronto_hex` writes a gap of more than 16 bits with five digits. Four of
  them inside a pulse make a code that the parser accepts and reads as other marks and spaces, though
  the docstring says that the timings are stored verbatim. Packets of up to five bytes could
  not show this; the proof of `PlaysWhatWasLearned` did, and its condition `FitsPronto` says it (`PulseCodec`).
* A migration may write back what it read over a device that a handler in flight has saved
  meanwhile; adders and builders are never unregistered on unload; a setup that fails
  after its sniffer subscribed leaves it listening; a capture under way outlives a reload on
  the old orchestrator (`Lifecycle`).

## Proofs

All theorems hold for every value of the constants that the named assumptions
allow; `OrchestratorAssumption`, `ProvidersAssumption`, `LearnAssumption`, `TxGateAssumption`,
`EchoAssumption`, `SnifferAssumption`, `DeviceAssumption`, `LifecycleAssumption`, `EntityAssumption`,
`TriggerAssumption`, `PowerAssumption` and `CodecAssumption` only say what the constants are.
`ThresholdAssumption` says of the codec's thresholds what `const.py` sets (20000, 25000 and 50000 µs): the
idle that is trimmed is no longer than the terminator, which is a gap to the hash and fits 16 bits. Three theorems have a
hypothesis of their own, named below (`GapsFit`, `FewLevels`, `Speeds <= 200`). No lemma is assumed.

**Orchestrator.** `Invariance` proves `Spec => []IInv`. `SingleFlight` alone is
not inductive: that no provider still listens when the next session starts
depends on the lock being released only after the provider was stopped, on the
task being that of the session that holds the lock, and on a suspended start
having no task yet. `IInv` adds those, and `StartPreserves`-style lemmas prove it
action by action. `TypeCorrect`, `OneSessionAtATime`, `LockReleasedByItsOwner` and
`NothingLeftBehind` follow from it. `Implements` is the refinement: `current` is
the active session, and every step is a step of `CaptureSessions` or a stutter;
the invariant is needed to know that the task that stores a result does so for
the active session. `OneEndingHeard` (the action property `OneEndingPerSession`) speaks of
every call of a listener, also one with what it heard before. It needs two facts.
`NoneHeardItsEnd`: until the running session has announced its ending, no listener of its id
that is still subscribed was last told of one; a listener of the session before was told
that this one listens, one that came since was told nothing. `IsStillToHear`: a listener last
told LISTENING is of the session that holds the lock and has yet to announce its ending, or whose
task died, so that no second LISTENING can reach it.

**Providers.** `ProvidersRefinement` proves that every step with providers is a step of the orchestrator
or none, so that `IInv` holds. `ProvidersInvariance` proves `ProvidersInv`. None of the three properties
is inductive, since what the device will do is decided by requests handed over by sessions that
are long over. `QueueFits` is the order they rest on: the request that the running session awaits
is the *last* of the queue and all others are of earlier sessions, so when it has been
answered the queue is empty and stays so until the session asks again. Hence nothing old is left when
the device sweeps or is armed for this session (`DeviceFits`), which gives `SweepNotStopped` and
`OwnPulse`. `SweepsEnd` says that each request to sweep in the queue is the one the session still
awaits or has a request to end it somewhere behind it, and that a sweeping device has a session that looks
at it, such a request to come, or a failure behind it: `SweepEnded`.

**Transmission gate.** Under `GapsFit` (neither gap is longer than the timeout),
`GateInvariance` proves `GateInv` and `NoSendTimesOut` follows. The argument: the
ledger changes only when the lock is free, and a sender asleep holds it, so
its wait computed again when it wakes is zero (`SleepIsLongEnough`); hence it
checks once before its sleep, where the wait is at most the longer gap. For one
sender `OneSenderKeepsEmittersApart` proves the stagger promise
(`StaggeredInLedger`) from `SequentialInv`: ledger entries of different emitters
are already apart, so being apart from the latest is being apart from all,
which is what exempting the latest emitter relies on and what concurrency
breaks. `LedgerNeverGoesBack` (the action property `LedgerIsMonotone`) needs neither hypothesis. A
stamp is read before the lock is asked for, so a write could bring the ledger back if writers overtook
each other; `QueueOrder` says that those who wait to write stand in the queue in the order of
their stamps, each no earlier than what is written, and `LedgerOrder` that no emitter is
ahead of the last send of all.

**Mirror log.** `EchoesLeakOnlyLate` proves `LeaksOnlyLate` from `MirrorInv`: every call of `send` that a
capture may still be an echo of, the one under way or that of a capture not yet handled, is
`Remembered`, that is, an entry has its signal and its time, or its lifetime is over. An echo that was
heard as its send logged it then matches an entry. Nothing is assumed of what receivers hear. The purge
drops only what is expired, and claiming an echo keeps the entry. The clock never goes back,
so what was forgotten stays so. `EchoRefinement` carries the gate's theorems over.

**Learn handlers.** `LearnInvariance` proves `LearnInv`, of which `FreshCapture` and
`CaptureOfItsCommand` are parts. Neither is inductive: what a poll will return is whatever
stands under its session id then. `ResultsAreFresh` says that this is nothing or no older than
the handler's session, since opening a session drops the old result, and
`SessionsAreWanted` that a serial belongs to one session id, by the lock while its session
runs and by the result afterwards; both need the orchestrator's `IInv`, which holds since every step of
the handlers is a step of the orchestrator or none (`HandlersOnlyOperate`). A step either
opens a session (`OpensKeeps`: the serial is new) or only lets results change as the lock allows
and learners follow (`Quiet`, `Follows`). `NotCancelledWhileRunningProved` needs only that a free
lock leaves no task.

**Limiter.** `LimiterInvariance` proves that every bucket is `Balanced`: from any
capture on, what was let through plus the tokens left is at most a full bucket and the refills
so far. A refill keeps the balance (`RefillBalances`), a token moves from one side to the other
(`SpendBalances`). `BurstIsBoundedProved` follows for every stretch of time.

**Lifecycle.** `LifecycleInvariance` proves `LifecycleInv`: `AwaitsFit` (which awaits each state of
the entry allows), `DataFit` (what is in `hass.data` is the entry's or was left by a deserted
one), `ServicesFit` (without a deserted entry no service is registered between an unload and the
panel step of the next setup, so the services are those of the entry's coordinator),
`SniffersFit`, `PlatformsFit`, and parts that follow a device from the store through a
platform's list, or through a call and the coordinator it looked up, to its entities. `FoundFits` says that
the coordinator handlers find is the entry's while none was deserted. `OneGateProved`,
`SniffersAreOwnedProved` and `StoredHaveEntitiesProved` follow, for any number of entries, setups,
platforms, devices and calls.

**Sniffer.** `CatalogInvariance` proves `CatalogInv`. That the stored document is
sound (`KnownRowsStay`, `HitsAreCaptures`) is not inductive: the next save may be
of a document computed long ago. So the invariant says the same of every
document any task holds, and of the row it will write into a document it has not
loaded yet (`JobOK`). `WithRowOK`, `ToggledOK` and `RestrictedOK` show that each way of
computing a document keeps it sound, `DocumentStays` and `JobStays` that what
other tasks do meanwhile (captures heard, signals evicted) only weakens what is
asked. A dismissal mixes two documents, which needs that no known signal moves
to another remote. `OnlyDuplicatesLeak` rests on `SubscriptionInv`: the running engine's
subscriptions are in their slots unless a later entry replaced them;
that a slot holds the last entry uses a well-founded order on the positions
(`LastPosition`).

**Device catalog.** `DeviceInvariance` proves `DeviceInv`. That what is stored is
registered (`StoredIsRegistered`) is not inductive, for a handler may be about to save
a device that another has just deleted. `HoldersOK` says the same of every device that a
handler *holds*, in its record or in the document it loaded, and that a
held device gone from the store went while its holder ran; `CreatorsOK`
that nobody holds a device whose first save is to come; `EntitiesOK` that the
buttons of what is stored or about to be are there or will be pushed; `JobOK` that a
handler's record is its call's effect on the one it read, also in the second
save, since an edit made twice is the edit. One lemma per action proves the
step; `EndKeeps`, `StartKeeps` and `MoveKeeps` are the parts that the actions
share. A device is `Accounted` for when it is registered or the latest backfill failed for it.
From the invariant follow `EveryStoredDeviceIsRegistered`, `EntitiesFollowProved` and the two
action properties `NothingComesBackProved` and `SavesLoseOnlyWhatMovedProved`.

**Power monitor.** `VerdictFollowsReading`: `StaleOnlyIfBounced` is inductive together with the types.
A look at the sensor either goes through the thresholds in the code's order or is bounced and says so.

**Trigger engine.** A hit is one capture, and one press may give a capture at each receiver. `FreshInv` says
why no press counts twice: `CountedIsRemembered`, that for a press that was counted and is young enough
to be a duplicate, what the engine remembers of its signal is as young and by a receiver that has
heard it, so the next receiver's capture is dropped; and `HitsArePresses`, that a chain which has
not fired counts no more hits than there are presses counted since its first one. The presses a
chain uses were made after it began, so those of a fire before it are not among them.
`FiresAreEarned` follows. `FiresKeepApart` (the action property `FiresAreRare`) needs `FiresFit`:
a chain that has not fired began after the latest fire, and a window after the one before that.

**Entities.** `EntityInv` follows a value from the handler to the device: what a handler will set fits
what its key means to the device (`CallFits`), after its pulse the device is as the pulse says but
where a later pulse crossed it (`HeardIn`), and every field outside `drift` agrees. `ShownIsHeard`
alone is not inductive: it says nothing of a handler between its pulse and its assignment. The lemmas
on the mapper (`PercentFacts`, `ResumedFacts`, `BrightnessFacts`) bound what the two roundings lose, and
`StepAtFacts` shows that a list of steps has one of every rank. A percentage cannot tell
more than 101 steps apart, which the hypotheses say: `AssumedStateIsHeard` assumes `FewLevels`,
at most 101 brightness steps a light can have (with 103 the brightness 130 is a step off), and
`FanResumes`, which says which steps come back exactly and that the others come back as the next,
assumes at most 200 speeds (of 201 the tenth resumes the ninth). Remotes have
a few of each.

**Codec.** `PlaysWhatWasLearnedAlways` and `ReplayIsRecognisedAlways` hold for packets of any bytes and any
length. The state's part is small (`HandedIsLearned`: what was handed was computed from the one
command that was learned); the work is in what the encodings compute. They are recursive on
sequences, and the library's induction takes an operator as its parameter, which the provers cannot
instantiate. `SetInduction` states induction for a *set* that has zero and, with each number, the next, and is
proved from the well-founded order of the numbers; `Recursion` shows with it that a function
defined from its values before an argument exists. From these follow that `Ticks`, `Widths` and
`FlattenSeq` are what their equations say (`TicksExist`, `WidthsFacts`, `FlattenIs`).

* What is played: `TrimIdleSplits` writes a capture as idle, signal and idle, `PreparedPlays` says that the
  prepared timings are the signal and a space that is bounded. `HexFacts` says that a word that
  fits has four digits which give it back, `FlattenWords` where the digits of each word lie if all
  fit; so what passes by way of Pronto hex comes back with its magnitudes
  (`ProntoFacts`) and, where marks and spaces take turns, with its signs (`ProntoGivesBack`).
* What is recognised: `WidthsConcat` says that the widths of a concatenation are the widths of its parts,
  and `TrimmedInside` that gaps before or after a sequence make no difference to what is left between its
  first and last width that is no gap. Hence the prepared timings and the capture leave the same
  (`SanitizedPrepared`), since what was trimmed and the terminator are all gaps to the hash. This is
  where the exception of `ReplayIsRecognised` is needed: an end that is idle but no gap is trimmed
  and would have been hashed.

Only model-checked: the liveness properties of every module (`CancelReturns`,
`ReleasedUnlessDead`, `LearnReturns`, `SendReturns`), since fairness and ENABLED are out of the prover's reach.

## Plan

The system's own logic is modelled, and every safety and action property that a run checks is
proved. Left: what the proofs lend themselves to beyond the properties that are checked, such
as the learn handlers over the providers' device, and several senders in the run of `EchoLog`.

## Not modelled

The panel only renders what the WebSocket API answers; its learn dialog's calls are those
of `LearnCommand`. The options flow cannot be reached: its factory is a function of the module
where Home Assistant looks for a method of the config flow. The action repository has
no caller that writes, the repositories in memory and the mock provider and receiver serve tests,
and `quality.py` has no caller. Records that cannot be parsed are left out:
what the models store comes from `RuneDevice.to_dict`. Nor are modelled: icons, translations, diagnostics text, the views of the
panel that only render state, and Home Assistant itself beyond what these
modules say of its store, registry and services.
