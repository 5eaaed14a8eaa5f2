# Verification of the RS485 HomeNet to MQTT bridge

TLA+ models of the bridge, its service and its web interface, with TLC
configurations that check them on small instances and TLAPS proofs of results
that hold for every instance. The reference is the source (`packages/core/src`,
`packages/service/src`, `packages/ui/src`, `hassio-addon/run.sh`); every definition
that stands for code is listed in `PROJECT.json` under `map` with the lines it
models.

- [1. The system](#1-the-system)
- [2. Plan](#2-plan)
- [3. Modules and the code they model](#3-modules-and-the-code-they-model)
- [4. Runs, bounds and what they show](#4-runs-bounds-and-what-they-show)
- [5. Fairness](#5-fairness)
- [6. Proofs](#6-proofs)
- [7. Disagreements found](#7-disagreements-found)
- [8. What is not modelled](#8-what-is-not-modelled)

To run: `tlc -config <run's cfg> <run's module>` and `tlapm <module>`.

## 1. The system

The bridge reads the RS485 bus of a wallpad, recognises the packets of devices,
publishes their states on MQTT for Home Assistant, and turns MQTT messages,
automations and requests of its web interface into packets on the bus. It is one
Node process with a parser thread: code runs to completion between two turns of
the event loop, so the hazards lie between callbacks, promise reactions, timers
and awaits, and between the process, the parser thread, the TCP peer, the MQTT
broker, the file system and the browser.

### Components, state and operations

| Component (source) | State | Operations | What makes it correct |
|---|---|---|---|
| Command queue (`core/service/command.manager.ts`) | two queues, `isProcessing`, attempts and timers of a job, listener maps | `send`, `sendRaw`, events `state:changed` and `packet`, ack and interval timers | no lost wake-up, one job on the bus, exact ack window, attempt budget, order, every promise resolves |
| TCP transport (`core/transports/serial/tcp-socket.ts`, `serial.factory.ts`) | socket, timers, backoff, write buffer | connect, socket events, `_write`, `requestReconnect`, `_destroy` | one connection, never stuck, no chunk lost before its callback |
| Protocol manager (`core/protocol/protocol-manager.ts`, `protocol-worker.ts`) | worker, readiness, pending chunks | chunk in, worker messages, fallback | each chunk parsed once, in order |
| Packet parser (`core/protocol/packet-parser.ts`), checksums | byte buffer, positions, memory of the sweep | parse a chunk | chunking does not change the packets |
| Packets built (`generic.device.ts`, `command.generator.ts`, `bridge.service.ts`) | none | frame a payload | what is built is read back, the builders agree |
| Devices and matching (`core/protocol/devices`, `utils/packet-matching.ts`, `utils/packet-analysis.ts`) | states of entities | parse a state, build a command, analyse a packet | what a device reports is what was asked; the analysis tells what the bridge does |
| Automations (`core/automation/automation-manager.ts`) | runs, queues, abort controllers; timers, debounce, scripts | triggers, runs, actions, edits, stop | the run modes mean what they say, runs end, aborts stop |
| State, MQTT, discovery (`core/state`, `core/transports/mqtt`, `core/mqtt`) | states, published set, rename timers, connection | apply a state, discover, rename, revoke, republish | the broker keeps what the bridge believes |
| Bridge (`core/service/bridge.service.ts`) | port contexts, raw listener counts, idle timers | initialize, stop, raw listeners, rename, commands | a listener exists while somebody needs it |
| Configuration (`core/config`) | none | `normalizeConfig`, `validateConfig` | ids stay over edits and restarts, what is written loads |
| Service process (`service/server.ts`, `hassio-addon/run.sh`) | bridges, statuses, files, markers | start, repair, restart | duplicate ports are repaired, restarts end |
| Log collector (`service/log-collector.service.ts`) | consent, buffers, counter | init, consent, packets, upload | collects with consent, counts agree |
| Logs (`log-retention`, `activity-log`, `raw-packet-logger`) | dictionary, history, batch, recording, files | entries, saves, removal, record | ids resolve, nothing lost or twice |
| Rate limiter (`utils/rate-limiter.ts`) | table of clients | check, cleanup, eviction | no second window |
| Routes (`service/routes`) | files of configurations and settings, backups | edits, gallery, settings, restart | memory, file and what runs agree; no configuration lost |
| Gallery (`gallery.routes.ts`, `gallery-template.ts`, …) | none; the modal's choices | expand, match, apply | an application touches what was shown |
| Streaming (`websocket/stream-manager.ts`) | subscriptions | start, stop, close | raw packets to who looks |
| Web UI (`ui/src`) | pages, dialogs, requests, copies of settings, logs | the user's acts and late answers | pages come back from everything and show what is there |

### Interactions

    port / TcpSocket --chunk--> bridge --> StateManager --> PacketProcessor
        --> ProtocolManager --(worker)--> parser --> devices --'state'--> StateManager
    StateManager --publish--> MQTT broker;  --'state:changed'--> DiscoveryManager,
        CommandManager (acknowledgement), AutomationManager (trigger)
    MQTT command topic --> subscriber --> CommandManager.send --> port.write
    AutomationManager --> CommandManager.send / sendRaw
    log collector, web clients --> bridge: raw listeners (counted)
    idle watchdog --> TcpSocket.requestReconnect
    web page --HTTP--> routes --> files, currentConfigs, AutomationManager
    web page --WebSocket--> StreamManager; its history <-- LogRetentionService
    run.sh --starts again--> server.ts --> files --> bridges

### What is hard here

- A completed command starts the next from a promise reaction; a caller may send
  in between. An acknowledgement can meet the timeout, the retry, or the next
  job on the same entity.
- Sockets, their timers and their late events outlive the attempt they belong to.
- A packet can be cut anywhere; the parser remembers across chunks what it tried.
- An automation can be triggered, edited or aborted while one of its runs awaits;
  its timers belong to the configuration they were made for.
- The parser thread can fail with chunks in four different places.
- MQTT connects before or after initialisation, breaks with messages on their way,
  and the last will overwrites the status; a rename spreads over two seconds.
- Requests that edit one file overlap, fail and meet restarts; nothing orders them.
- Pages press buttons again before the answer, are left before it comes, and
  share one dialog between all questions.

The full list, each at its line and with the properties that would catch it, is
in `PROJECT.json` under `hazards`.

## 2. Plan

Every module that was planned is written and checked. Proofs follow the order of the
rows; what is left of them is in the last column.

| # | Modules | State of the work |
|---|---|---|
| 1 | `CommandManager`, abstract `CommandService`, `ReconnectingTcpSocket`, `PortProof` | checked; every safety property and the refinement proved |
| 2 | `RawConsumers`, `WebStream`, `WebLogs`, `ConfigEdits`, `WebProof` | checked; safety proved |
| 3 | `AutomationManager`, `ActionRunner`, `AutomationTriggers`, `EntityDiscovery`, `AutomationProof` | checked; safety proved |
| 4 | `ProtocolManager`, `PacketParser`; `ParserLemmas`, `ProtocolProof` | checked; safety proved, the parser against its reference definition |
| 5 | `ServiceLifecycle`, `LogRetention`, `RawPacketLogger`, `RateLimiter`, `ServiceProof` | checked; safety proved |
| 6 | `GalleryView`, `SetupWizard`, `FrontendSettings`, `SettingsPage`, `LogSharing`, `FileLists`, `EntityDetail`, `Recording`, `DashboardPage`, joined in `UiPages`; `PagesProof` | checked; proved |
| 7 | `DeviceCommands`, `PacketMatching`, `EntityStates`, `ConfigLoading` | checked against reference definitions over bounded inputs; proved for the devices, matching and states, in `ProtocolProof`; not for `normalizeConfig` (section 6) |
| 8 | `Snippets`, `GalleryPreview`; templates and discovery in `MCPages` | checked; the application of a snippet proved, in `PagesProof`, for any expansion of templates; not the expansion itself (a RECURSIVE operator) |

## 3. Modules and the code they model

All modules follow the same conventions. One action is one synchronous run of the
event loop: a call, an event handler, a timer, the code between two awaits, the
arrival of an answer. Everything the handler does is in the action. Names are the
source's where TLA+ allows. Variables marked "history" record what happened and
guide no action. Every bound is a constant called a bound. A definition commented
"Variant with a fault" is not used by a specification; it is the kind of bug that
the property beside it in `PROJECT.json` (`mutants`) is meant to find, and TLC
does find it when the variant takes the place of the original.

### The bus

**CommandManager** — `command.manager.ts`. `Send` and `SendRaw` push a job and call
`ProcessQueue` when `isProcessing` is false. `ProcessQueue` takes the head of the
normal, else of the low priority queue and performs the first `attempt()`
(`Transmit`): listeners, write, timer. `StateChanged` and `PacketReceived` are the
two acknowledgement paths (`OnAck`), `AckTimeout` and `Retry`/`GiveUp` the two
timers, `Resolve` and `Finally` the two promise reactions after a job, which are
separate because other reactions can run between them. A request carries what the
control depends on: entity or none, expected packet or none, priority, attempts.

**CommandService** — what a caller may rely on, with no queue, listener or timer: a
set of accepted jobs, one active job, its bounded transmissions, its one result,
and the rule by which the next becomes active. `CommandManager!ImplementsService`
is the refinement: the backlog is the set of jobs in stage "queued", the active job
the one between the start of `executeJob` and its `finally`.

**ReconnectingTcpSocket** — `tcp-socket.ts`, the retries of `serial.factory.ts`, and
`stop()` and the watchdog of the bridge. A `net.Socket` is a status; node's part
(events, the one outstanding `_write` of a `Duplex`) and the network are external
and nondeterministic. `currentDelay` is modelled with its doubling and maximum.

**PacketParser** — `checksum.ts`, `packet-parser.ts`. A byte has
`ByteSize` values, so that every stream of a few bytes is enumerated while sums wrap
as they do in the code; the constants of the Samsung variants scale with them. A
step is the arrival of a chunk or one iteration of the loop, with the window of the
fixed strategy, the skipped footers, the sweep and its memory `lastScannedLength`,
the timeout and the overflow. `FramesFrom` is the reference: the packets of the
whole stream, defined without chunks. CEL and CRC checksums are left out. The last part of the module has the four builders of packets
(`framePacket`, `constructCommandPacket`, `constructCustomPacket`,
`executeSendPacketAction`), against each other and against the parser, for every
header, footer, checksum and outcome of an expression.

**ProtocolManager** — main thread and worker thread with a queue of messages in each
direction. `terminate()` takes effect later: the worker may still take messages,
and what it posted is still delivered.

**DeviceCommands** — one entity between its users and its device: the names and
values of three channels (`subscriber.ts`, `controls.routes.ts`, automations), the
packet the device class makes of them, the encoding (`generic.device.ts`) and the
decoding of the report (`state-normalizer.ts`).

**PacketMatching** — what a packet means: matching with masks, guards, exceptions and
offsets, `processPacket` with internal entities and proxies, the merge of states,
triggers; and the second implementation of it all in `packet-analysis.ts`, which
the web interface shows (`AnalysisForetells`).

**EntityStates** — `state-normalizer.ts` for every type with flags, `parseData` with
its expressions, `executeUpdateStateAction`, and the store of `state-manager.ts` with
optimistic defaults and commands, the cache of all states, the retained topic and a
restart. A state has values, words and flags; formats of values are left to
`DeviceCommands`, guards and masks to `PacketMatching`.

### What the bridge does on its own

**AutomationManager** — `runAutomation`, `executeAutomation`, `runAutomationThen`,
`upsertAutomation`, `removeAutomation`, `stop`. The tables are keyed by automation
id and no operation touches two ids, so one automation is modelled. A run is a
program counter over its actions; guards may hold or not.

**ActionRunner** — one run from inside: the stack of blocks, `if`, `choose`,
`repeat`, `wait_until`, scripts with the guard against recursion, the abort signal,
errors, the stop action, edits of the scripts underneath.

**AutomationTriggers** — timers (startup, interval, the chain of cron timers),
subscriptions, debounce, while automations are edited and the manager starts and
stops. A timer knows the configuration its closure was made for.

**EntityDiscovery** — `applyStateUpdate` and the optimistic defaults of the
`StateManager`, the whole of `DiscoveryManager` except the contents of its payloads,
and the MQTT connection that `initialize()` sets up (last will, `connect`
handlers). The configuration payload is the number of the entity's name, 0 for the
empty message. `Deliver` and the effects of a lost connection are the broker and
mqtt.js: QoS 0, order kept, messages queued while offline, those on their way lost.

### The service

**RawConsumers** — the counted raw listeners of the bridge with the two handlers of
the port's `data` event (`Attach`, `Detach`, `HandOver`, `BridgeStarted`), which every
action combines with the state of those who need them: the log collector, the web
clients and the boot sequence.

**ServiceLifecycle** — the start-up of `server.ts` over three configuration files with
the repair of duplicate ports, markers, the background start of the bridges, requests
that add, overwrite, promote or delete files, and the loop of `run.sh`. The container
may stop between any two awaits.

**LogRetention** — `log-retention.service.ts` and
`activity-log.service.ts` in memory (dictionary, history, expiry, batches) and on
disk (automatic saves, removal, the user's saves and deletions).
**RawPacketLogger** — the recorder, whose `start` awaits between check and assignment.
**RateLimiter** — `rate-limiter.ts`.

**ConfigEdits** — every route that edits a configuration, each as read, backup, write
and tell, with failures and restarts between; **Snippets** has how the gallery writes
items and which existing entity an entity of a snippet resembles.

**ConfigLoading** — `normalizeConfig` and `validateConfig`: ids and unique_ids with
their suffixes, defaults, aliases, proxies; the edits write what it returned and
the next start reads it again.

### The web UI

**WebStream** — a page and its connections against `stream-manager.ts`, with the
effects that start and stop raw packets; **WebLogs** — its packet log, dictionary and
the merge of the history.
**FrontendSettings**, **SettingsPage**, **LogSharing**, **FileLists** — the settings
file and its copies; the actions of the page behind one dialog; the consent; lists
of files.
**SetupWizard** — the wizard and its routes. **GalleryView**,
**GalleryPreview** — the gallery: what is shown of a port, and the way from the
preview to the application, for any expansion of templates (the constant operator
`ExpandSnippet`). **MCPages** has the expansion of `gallery-template.ts`, which the
configurations give for it, and what the discovery finds in the packets of a port.
**EntityDetail**, **DashboardPage**, **Recording** — the page of
an entity in front of the dashboard (`Targets` is what a route finds for an id or a port), additions and restarts on the dashboard, and
recording from the analysis page. Every opening of a page is a new component: its own
answers are lost when it has been closed, what the application does with an answer is
not.

### How modules are put together for TLC

The modules are joined in six MC modules by subject (`MCPages` adds templates and
discovery of the gallery to `UiPages`, which the proofs use); `part` says which component a
behaviour is about, and the others keep their initial values. It is a disjoint union
of state spaces, not a product: each component is checked exactly as it would be
alone, under its own constants and its own fairness, and the property of a bundle is
the conjunction of theirs. Components that do interact are composed in one module
instead: the raw listeners with their consumers in `RawConsumers`, the builders with
the parser in `PacketParser`, `GalleryPreview` with `Snippets`, and the page with the service
in the modules of the web UI.

## 4. Runs, bounds and what they show

| Run | Parts (module) | Result |
|---|---|---|
| `port` | command queue (`CommandManager`), stream (`ReconnectingTcpSocket`) | holds: `CommandInv`, `QueuedWorkIsDriven`, `AckWindow`, `AttemptBudget`, `FifoPerPriority`, `WriteIsExclusive`, `ImplementsService`, `EverySendReturns`; `ConnectionsInTurn`, `WritesReturn` |
| `bytes` | parser and builders (`PacketParser`), hand-over (`ProtocolManager`), a device (`DeviceCommands`), matching (`PacketMatching`), the store (`EntityStates`) | holds: `FramesAreSound`, `BytesMoveOn`; `ChunksAccountedFor`; `DeviceDoesAsAsked` |
| `automation` | runs (`AutomationManager`), one run (`ActionRunner`), triggers (`AutomationTriggers`), discovery (`EntityDiscovery`) | holds: `RunsInTurn`, `RunsEnd`, `AbortStops`; `TimersFollowTheList`; `BrokerAgrees`, `RenamedComesBack` |
| `service` | process (`ServiceLifecycle`), logs (`LogRetention`, `RawPacketLogger`), limiter (`RateLimiter`) | holds: `DuplicatePortsApart`, `StatusesTell`, `ServiceRestartsEnd`; `CacheHolds`, `LimitsHold` |
| `web` | consumers (`RawConsumers`), page and stream (`WebStream`), its logs (`WebLogs`), edits (`ConfigEdits`), loading (`ConfigLoading`) | holds: `ListenersSound`, `ConsumersAreFed`, `CollectionIsSound`; `StreamMatches`; `LogsSound`; `EditsAgree`, `BackupsHold`; `LoadingHolds` |
| `pages` | `GalleryPreview` with the templates and the discovery of `MCPages`, `GalleryView`, `SetupWizard`, `FrontendSettings`, `SettingsPage`, `LogSharing`, `FileLists`, `EntityDetail`, `Recording`, `DashboardPage` | holds: `SnippetIsApplied`, `SnippetIsMeant`, `GalleryFollowsThePort`, `WizardWritesItsChoice`, `SettingsAgree`, `PagesSettle`, `EntityPageSettles` |
| `tcp_dies` | as `port` | violated: `OnlyOwnerDestroys` |
| `automation_restart` | as `automation`, three triggers of a restart automation | violated: `RestartCancels` |
| `discovery_status` | as `automation` | violated: `StatusIsTrue` |
| `number_value` | as `bytes`, the number of the documentation | violated: `NumberIsInserted` |
| `web_packets` | as `web` | violated: `ShownPacketIsOwn` |
| `settings_locale` | as `pages` | violated: `LocaleIsKept` |

What each property says stands above it in its module, with the code it is about;
a property of an MC module that names others is their conjunction.

Why the bounds are enough to meet the interesting cases:

- *command queue*: three jobs are the smallest number with one running, one waiting and
  one sent between `Resolve` and `Finally`; two of them may name the same entity,
  which is when a stale listener could be overwritten. Attempts 0 and 1 give a job
  that fails at its first timeout and one that retries. The proofs cover the rest.
- *stream*: with three sockets a late timer or event of a first socket meets the second
  attempt while a third object remains; sockets are reused after they closed and
  their timer was cleared, so the number of attempts is not bounded. Two writes give
  one outstanding and one waiting chunk. Delays 1, 2, 4 reach the cap.
- *parser*: eighteen configurations, one for each way through the three strategies; up
  to six bytes of two bits in chunks of up to three, a buffer of five: two packets
  with garbage between, a packet cut at every place, an overflow, a sweep that
  continues after a chunk. Fewer valid headers than `SparseLimit` switch the sliding window
  off, more leave it on.
- *hand-over*: six chunks and a limit of three make both the limit and a failure with
  chunks in every queue reachable.
- *device*: every type with every kind of schema, optimistic or not; a number and a
  climate with an expression and with a place for the value in ten formats, which
  differ in encoding, length, byte order, sign and precision; values in halves at the
  boundaries of a byte, of BCD and of the sign. Two values asked, two commands queued.
- *matching*: six ways to match the first device at two places of its value, and four
  setups with an internal entity, a proxy, a short header and a guarded on-state; eight
  triggers; two packets, since the second meets the states the first left.
- *store*: twelve entities, each type by schemas, by expressions or both, with and
  without a header, internal, optimistic; packets that are too short, and values at
  zero and above a valve's limit; any two reports, updates, commands and restarts,
  since the second meets what the first left, and readers at any time.
- *automation*: three requests put one run in progress and two in the queue, or abort
  one and start two others. The mode starts as any of the four and is edited to
  those of `EditModes`, which are parallel and restart, the edits that keep the order
  of runs (`EditsKeepOrder`): with an edit from single or restart to queued, or
  from restart to single, TLC finds a queued run that nobody starts or two single
  runs side by side (section 7). The
  program of `ActionRunner` has every kind of action, loops of two and three rounds,
  two scripts in two versions that call each other. Two automations with a timer
  of each kind; times up to twice the debounce.
- *discovery*: one budget `MaxInputs` for new states, renames, revocations, lost
  connections and Home Assistant restarts. Three of them cover rename-rename-revoke,
  state-loss-state, rename-loss-restart; unchanged states, timers, deliveries and
  reconnections are not bounded. Both kinds of start (client connected or not) are
  initial states.
- *service*: three files with two port names, so that two or all of them collide; one
  request and one stop of the container at any point; the starts after it are not
  bounded. The logs: two packets with different ages, entries of both logs at their
  limit; three recordings, so that an error of the first meets the third; three
  clients in a table of two.
- *web*: two bridges, two clients, two answers, a target of two packets; three
  connections (first, after a loss, after a loss during a reconnection) with two changes of
  state and two choices of the user; a log of four entries and two reconnections. Two edits at
  a time of two files that share ids. Files with ids that are equal, missing, alike
  up to the suffix, legacy; two edits and any number of restarts.
- *pages*: two snippets, with nested and counted repetitions and conditions; three
  inputs and one foreign edit. Three ports, four selections: leave and come back
  twice. Five acts in the wizard: choose, choose another, test, tick, write. Two
  pages and two changes of settings, one restart. Three dialogs: one whose
  answer is late, one that it meets, one after. Three requests of an entity page over two
  ports with a shared id. Two recordings.

`CHECK_DEADLOCK FALSE` appears where the bounded instance ends: all writes, chunks,
requests or inputs are used up, the stream was destroyed, or a page is closed.
Symmetry is used in the `web` runs only (clients, requests, packets), which check no
liveness.

What the qualifiers in properties mean. Many properties have a condition that names a
cause, kept in a history variable: `excused`, `causes`, `stranded`, `astray`, `misled`,
`overlapped`, `lost`, `clash`. In each case the property without the condition fails
in the code, for a reason given in section 7, and the condition is as narrow as
the failure: only what has this cause is excused.

## 5. Fairness

- *command queue*: weak fairness of each job's timers and promise reactions. Node runs
  due timers and reactions; no device has to answer and nobody has to send.
- *stream*: weak fairness of timers, of the `close` event after `destroy()`, of node's
  callbacks on a socket that is not silent. `WritesReturn` needs a network on which
  attempts do not fail for ever, and with `SilenceIsNoticed` the idle watchdog: these
  are antecedents of the properties (`GoodNetwork`, `Watched`), not part of the
  specification, because the code guarantees neither (the watchdog is optional).
- *hand-over*: weak fairness of the main thread's handling of messages and of the worker.
- *automation*: weak fairness of each run: what an action awaits is answered (a command
  by the queue's `EverySendReturns`), a delay ends, a wait has a time limit.
- *discovery*: weak fairness of the rename timer and of delivery while connected.
  Reconnection is not assumed; `RenamedComesBack` is about behaviours in which the
  client gets and stays connected and no message is lost.
- *service*: weak fairness of the start-up sequence and of `run.sh`, which starts the
  process again. No request has to come.
- *web*, *pages*: safety only. Whether an answer comes is up to the network; the
  properties say how the page is once every answer has come or failed.

## 6. Proofs

Seven modules hold theorems: one for each MC module (for `MCPages`
it is about `UiPages`), and `ParserLemmas`, on which `ProtocolProof` rests. A theorem is about the specification its statement names: `Spec` is that
of the component whose name the module extends last (`CommandManager`,
`AutomationManager`, `RawConsumers`); `PortSpec`, `AutomationsSpec`, `BytesSpec`,
`ServiceSpec`, `WebSpec` are the specifications that the runs check, and `UiSpec` is
the one of `pages` without the dictionary of packets that `MCPages` adds. They hold for all values of the
constants that satisfy the assumptions named below; sizes that a cfg bounds (jobs,
runs, chunks, connections, files, packets, requests) are arbitrary.

| Module | Theorems | Assumptions on the constants |
|---|---|---|
| `PortProof` | queue: `TypeCorrect`, `CommandCorrect`, `OneJobAtATimeCorrect`, `QueuedWorkIsDrivenCorrect`, `AckWindowCorrect`, `AttemptBudgetCorrect`, `FifoPerPriorityCorrect`, `WriteIsExclusiveCorrect`, `SettledIsFinalCorrect`, the refinement `ServiceImplemented`; stream: `ConnectionCorrect`, `PortCorrect` | `CommandAssumption` (values that stand for none are none), `TcpAssumption` (delays positive, the first at most the maximum) |
| `AutomationProof` | `ManagerCorrect`, `TrackedRunIsAliveCorrect`, `RunsInTurnCorrect`, `AbortStopsCorrect`, `TimersFollowTheListCorrect`, `BrokerAgreesCorrect` | `AutomationAssumption`, `AutomationsAssumption` (programs and scripts are sequences of steps), `DiscoveryAssumption` (finitely many entities; values are numbers, 0 for none); `EditsKeepOrder` for `RunsInTurnCorrect` |
| `ProtocolProof` | hand-over: `ChunksAccountedForCorrect`; parser: `ParserReadsAlways`, `FramesAreSoundCorrect`, `IterationsConsumeCorrect`; devices, matching and states: `DeviceSoundAlways`, `DeviceDoesAsAskedCorrect` | `BytesAssumption` (bounds are numbers), `ByteAssumption` (a byte has an even number of values), `ParserAssumption` (configurations have the types of `packet_defaults`), `BuildersAssumption` (headers and footers are bytes, expressions that give a number give an integer), `EntitiesAssumption` (formats have at least one byte; only numbers and climates have one of their own, the other types write one byte and are taken to read it back as it is), `SetupsAssumption` (no two devices have one id: `config/index.ts` renames duplicates), `DescriptionsAssumption` (the schemas of an entity are those its type has) |
| `ServiceProof` | `DuplicatePortsApartCorrect`, `StatusesTellCorrect`, `CacheHoldsCorrect`, `LimitsHoldCorrect` | `LifecycleAssumption` (the files are numbered), `StorageAssumption` (limits are positive) |
| `WebProof` | `ListenerCorrect`, `ParsedOnceCorrect`, `NoListenerLeftCorrect`, `ListenersSoundCorrect`, `ConsumersAreFedCorrect`, `ConsentRespectedCorrect`, `CollectionIsSoundCorrect`, `StreamMatchesCorrect`, `BackupsHoldCorrect`, `EditsAgreeCorrect`, `LogsSoundCorrect` | `ConsumersAssumption` (finitely many bridges), `WebAssumption` (connections are numbered from 1), `InitialAssumption` (a content for each file), `EditsAssumption` (the files hold lists of items or do not parse, requests carry what the routes take) |
| `PagesProof` | `GalleryFollowsThePortCorrect`, `WizardWritesItsChoiceCorrect`, `PagesSettleCorrect`, `EntityPageSettlesCorrect`, `SettingsAgreeCorrect`, `SnippetIsAppliedCorrect` | `UiAssumption` (there is a name, no automation is a device, values that stand for none are none), `PreviewAssumption` (the items of the configuration, of an expanded snippet and of its automations have ids: `normalizeConfig` gives them, `gallery-validation.ts` refuses a snippet without) |

Few of the properties are inductive alone. What each argument adds:

*Command queue.* `AckWindow` needs that a job with a timer is running and unsettled,
and that there is only one such job, since listeners are deleted by entity id,
whoever registered them; that needs `OneJobAtATime`; that needs that a queued job is
not in progress and appears in its queue (`QueueHolds`); `FifoPerPriority` needs
that the tickets in a queue increase and lie above those of every job already
written. `StageShape` ties these to the stage of the job. `CommandInv` is the
conjunction. Everything happens in two places: lemmas for `Transmit` and
`ProcessQueue` say what they keep, whatever queues they are called with, and each
action is one step that cites them. For the refinement, `CommandInv` and its
next-state copy are assumed at each step, a lemma says how the mapped backlog,
active job and transmissions change, and each action is then an action of
`CommandService` or leaves its variables alone. `CommandService` states no fairness;
that every send returns is a property of its own.

*Stream.* `ConnectionInv` adds to `ConnectionsInTurn` the shapes of sockets, of a
destroyed stream and of the factory, and counts chunks (`ChunkCount`): what waits is
the sequence of numbers between those completed and those written, which a lemma
turns into `ChunksInOrder`.

*Automations.* `ManagerInv` holds whatever is edited. That runs take turns needs an
order of the modes over time (`ModesMet`): it holds as long as edits do not lead
from restart to single or queued, nor from single to queued, which is the hypothesis
`EditsKeepOrder`; section 7 has what happens otherwise. `AbortStops` needs that an
aborted run stays where it is (`AbortedStays`), and inside a run lemmas about the
stack of blocks and the scripts on it. `TimersFollowTheList` needs that a timer's
handle is tracked under its id and that equal id and kind mean the same timer.

*Broker.* `BrokerInv` says of each entity what the broker will retain once the
outbox is delivered (`BrokerWillAgree`): the last message about it in the outbox, or
what is retained if there is none, is what the bridge believes. Appending the
messages of one handler is split by handler; that a set of messages can be listed
needs finitely many entities.

*Hand-over.* `HandOverInv` orders the numbers of chunks over all the places they may
be in: kept for the worker, in its inbox, in its outbox, handed out. That nothing is
left out before what the worker posted (`NoneLeftOut`) and that what is missing was
lost with a worker (`LostOnlyByWorker`) then survive each of its failures.

*Parser.* That packets do not depend on the division of the stream is not inductive:
it speaks of the end of a call only. `ParserReads` adds what holds in between. The
packets found so far, followed by those that reading the stream from the place
consumed gives, are those of the whole stream, and remain so whatever arrives behind
(`Promise`); when a call ends nothing is left to read (`Done`); the lengths that the
sweep remembers, tried again, would not fit (`Remembered`), without which skipping
them would lose packets. `ParserSafe` has the types, the limit of the buffer and what
every emitted packet is. An iteration is reduced to three outcomes: it passes over
bytes at which no packet starts, takes the first piece of the stream, or waits because
the bytes so far decide nothing. The window needs that a byte may leave a running
checksum as it came: sums of bytes and exclusive or commute (`UpdateSwaps`,
`SlideUndoes`), bestin_sum does not, which the code never slides. `WindowCovers` is a
condition of `FramesAreSound`, not an assumption on the constants; section 7 has what
it is for. `BuiltRead` follows from `Done`: what a built packet has in front of its end
is no packet, so its end is the first that fits.

*Recursive functions.* `FramesFrom`, `Xor`, `Running`, the window, the free ids and the
items of a snippet are recursive functions, of which nothing is known until it is
shown that a function with their rule exists. The theorems of the library that do
this, and induction itself, take an operator as a parameter. Instead, numbers are
ordered by the proper subsets of their intervals, whose order is well-founded: a set of
numbers has a least member (`LeastExists`); a set that has 0 and each successor has all
numbers; and a recursion whose measure falls has a solution, on every interval of
measures by induction and together by their union (`Recursion`, `Recursively`,
`CountedUp`). Sets and functions take the place of the parameter.

*Devices, packets and states.* Three arguments that share no state, joined in
`DeviceSound`. `ReportedAsAsked` needs to know where the value is before it is reported:
`DeviceInv` says that the last packet that carries one is at the end of the queue, or in
the register once nothing waits. What remains is that decoding undoes encoding. Both
recursions are reduced to one statement about a number and its digits in a base
(`NumberOfDigits`): reading the highest k digits gives the number divided by the power
of what is left, for bytes and for pairs of decimal digits, whatever the order of the
bytes; the sign is then the quotient, 0 or -1. `Fits` names the values for which this
is so. It was a case distinction whose conditions overlapped, of which TLC
takes the first and the logic none in particular; it is now a condition for each encoding. For
`AnalysisForetells`, `Through` says of the loop over the devices that after the first n
the states are the old ones with what the analysis foretells for those n, which needs
that no two devices write under one id. For `StoreHolds`, without a header the places
that `extractFromSchema` and `normalizeDeviceState` read are the same, so the values,
words and flags an update finds are those of a report of the packet, group of flags by
group of flags; what is cleaned away is found by type.

*Service.* `PortsRead` says which files the loop has compared so far,
`NothingLoaded` what holds before. The dictionary needs that ids are given once and
never reused; the flush of activities that one is scheduled while any wait; the
removal of files that what is in its list is still due when it is removed
(`RemovalIsDue`), by counting newer files in an interval; the limiter that its
counter stands for the last requests that were granted (`RecordCounts`) and that an
allowance before them lies a window earlier (`WindowsApart`), for a client that was
not evicted.

*Raw packets.* `ListenersSound` is two facts: `ParsedOnce` needs that the raw listener is registered once exactly
while it is counted; `NoListenerLeft` that a counted bridge is up and in the list
the next release goes through; `ConsumersAreFed` that a bridge no request missed is
counted by every consumer and reached by each release. Every action is first reduced
to an `Outline` (at most one consumer comes or goes, at most one chunk is handed
over, no bridge is taken away). The counter of the collection is the number of the
packets in its buffers, a cardinality: a packet more is an injection of the old
packets and a new one.

*Stream to the page.* `StreamInv` says what each queue of messages ends with: the
state the page will show, the subscription the service will have. *Edits.* One file
and one request at a time (`Alone`, `First`, `Holds`), with opaque contents:
whatever an edit or `normalizeConfig` makes of a file, its last content is on disk
or in a backup. That memory, disk and what runs agree (`EditsAgree`) needs more of the
contents. `EditorInv` says of a file that nothing excuses: at rest, memory is the file
with its ids repaired and what runs is what it enables (`Agree`); the lists in memory
have different ids (`Clear`), so that removing the old id and putting the new item,
as the bridge is told, is what loading the new file would give (`ToldIs`); and the one
request in progress works on what the memory holds (`GoesOn`, in the run as
`EditsInTime`), also while the file is empty. Its data are no longer opaque: repaired
ids differ within every list (`FreeIdsAre`: a counter up to the number of ids before
finds a free one), and each edit of a content gives a content (`EditedIs`).
*Packet log.* Entries descend in time, each id is in the dictionary
with its own packet, and what was heard is in the log or in the buffer.

*Pages.* Each page has an invariant of its own. A button that is disabled, or a
dialog that waits, waits for a request of this opening (`BoardWaits`,
`ThePageWaits`, `ThePageComesBack`); a list is current or a request made after the
last change is on its way (`ListsAreTold`, `ListsFollow`); an answer that matters
has not been served, or what it will say is still right (`ConsentIsHeard`, `Calm` of
recordings). `TextIsOwn`: a request of the opening that is shown is about the entity
that is shown, so the text it brings is of that id. `StoredInv` says what the file of
settings holds while a single writer is at work, and that writers that overlap leave a cause. `WizardInv`: from the list
of entities to the end of the request, the ticks are of the example chosen, unless
an answer was for another one (`unlike`). `ViewInv`: the request under way or the
results are for the port of the last discovery, and timers are for the port
selected.

*Snippets.* `PreviewInv` says that the matches stand in the order of the items of the
expansion, then of the automations, that there is a choice for each of their ids, and
that an automation that shares its id with no item is directed to itself alone; the lists of the configuration
have ids, whatever other clients do. How a template expands is a constant operator, so
the theorem does not depend on it. Writing a snippet is a recursive function over its
items; by induction on their number each list that it passes through has the ids of
the one before it, has none twice if the first had none, differs from the first only
where an item was written, and has every item written so far unless another was
written to the same id. That two items go to one id (`Twice`) is not excluded by the
code, hence not by the property.

Only model-checked, and why:

- Liveness (`EverySendReturns`, `WritesReturn`, `BytesMoveOn`, `RunsEnd`,
  `RenamedComesBack`, `ServiceRestartsEnd`): fairness is defined with ENABLED, which
  the prover does not do.
- `LoadingHolds`: it does not hold for every file a user may write. `normalizeConfig`
  gives an item whose id is taken the next suffix, and so it does to a `unique_id`; a
  given `homenet_x` that becomes `homenet_x_2` may be the old default of an item with
  the id x_2, and the next start then takes it for one and replaces it.
- `SnippetIsMeant`: the expansion of templates is a RECURSIVE operator, and the
  discovery uses Bitwise.

## 7. Disagreements found

Each of these has a run whose counterexample shows it, and a finding in
`PROJECT.json` with the quoted text.

- `tcp_dies`: a write whose callback fails destroys the stream that "automatically
  reconnects": the `Duplex` calls `_destroy`, after which nothing reconnects.
- `automation_restart`: the `finally` of an aborted run deletes the entry of the run
  that replaced it; a third trigger does not cancel the second run.
- `discovery_status`: after a reconnection to the broker the retained status stays at
  the last will 'offline'; nothing publishes 'online' again, and every announced
  entity names that topic as its availability.
- `number_value`: a number set over MQTT or from the web interface goes out as a packet
  without the value: both name the command 'number', the device knows 'set'.
- `web_packets`: page and service number packets in the same way and independently;
  after the merge of the history an entry shows another packet.
- `settings_locale`: the locale is dropped whenever settings are normalised.

Observed while modelling, without a run of their own, by part. Where a property has a
condition, these are its reasons.

*Configuration files.* The alias `automations` is merged into `automation` and never
removed (`config/index.ts:45-54`, `docs/AUTOMATION.md:5`): every edit writes both keys
and the next read merges again, so automations multiply as id_2, id_2_2 and run several
times, and one deleted in the UI comes back (the condition in `NormalFormHolds`). An
edited automation or script goes un-normalised into the running bridge, so the
documented keys `actions`, `duration` and `delay` do nothing until a restart. An id
that is given twice takes the next suffix even from a later item that has it. The
routes do not call `validateConfig`: deleting the target of a proxy leaves a file the
next start refuses. An update that changes an id, an addition of an id a snippet has
twice, or equal ids of an automation and an entity make ids ambiguous; the next load
renames one, which cannot be edited until then. Edits of one file that overlap lose
updates or meet a torn file; the editor does not update the memory and goes on
without a backup; the removal of old backups may take that of an edit still writing.

*Gallery.* A `$if` whose text is only partly a template, as in
`gallery/kocom/lights_new.yaml:99`, is always true, against `docs/GALLERY.md`
(`SnippetIsMeant` fails for `MCPartlyTemplate`). A `$nested` that is directly a node
with a false `$if` is a 400. With an exact id the chosen target is ignored; "add"
discards the new id and overwrites; two items that resemble one entity both
overwrite it; the comparison keeps id and name, the application writes the snippet's.
Discovered arrays are not taken as defaults. A cached answer does not number itself,
so a later one for a port left before overtakes it (`stray`).

*Wizard and settings.* Requests for example settings are not aborted; a failed list
of entities keeps the old ticks, a late one jumps to the next step with another
example's list. The check for a duplicate serial line sees only configurations loaded
at the start. Changing the cache and then any setting writes the old state of the
cache to the file; a torn settings file stops the start of the whole core; a refused
consent is not taken back on the page. The dialog of a deletion is never closed,
`isRestarting` and `isClearingMqtt` stay after failures; a dialog closed by Esc and
opened for another question is closed by the first one's answer (`stranded`).

*Entity page, dashboard, recording.* `onUpdate` takes the entity that is selected when
the answer comes, so a late answer changes the flag of another; the port is not
looked at. Errors and the running rename are kept by id and outlive the page
(`misled`). The configuration is fetched by kind and id alone
(`EntityDetail.svelte:433`), and the route answers with the first port that has the id
(`config.routes.ts:46-76`), while saving names the port (`EntityDetail.svelte:489`):
where two ports share an id, the page of the second shows the text of the first and
saves it over its own. So `EntityPageSettles` says of the text only that it is of that
id. Revoking, and everything done to an automation or a script, is by id alone too and
reaches the first port that has it (`First`). On the dashboard the port of an addition is read when the question is
confirmed; a restart that fails leaves the button disabled and, after an addition, the
dialog loading; the success of one addition closes the modal of the next. A recording
asked for twice or stopped by its limit twice, the answer of an earlier status request,
and a failed stop leave page and recorder apart (`astray`); leaving the page suspends
the limits; confirming a deletion deletes the file recorded by then.

*Packets.* Under a fixed length, a header and samsung_xor the window leaves out the
header (`packet-parser.ts:327`), which `verifyChecksum` and
`docs/config-schema/packet-defaults.md:55` count, so the packet that verifies is not the
one that is found; so does a length with no room for a window (`WindowCovers`). With a header the fixed strategy looks at offsets without one and
`rx_max_length` stops the sweep when a chunk ends at the maximum
(`packet-parser.ts:767`, against `rx_length_bounds.test.ts:28`); the comment at 755
describes another sweep. `crc_ccitt_xmodem` as second checksum is taken for an expression by
`framePacket`, which sends without checksum; the superseded generator lacks
`bestin_sum` and pads failures with zeros; the custom builder prefers the second
checksum where the others prefer the first (the conditions in `BuildersAgree`).
`Device.updateState` has no caller, so `state` in guards and expressions is empty,
against `docs/CEL_GUIDE.md:30`; an exception of a device with a guard is judged by the
device's guard instead of its own (`packet-matching.ts:78-88`); the analysis ignores
proxies and debounce and matches triggers on the packet's own updates instead of the
merged state. `inverted` inverts the match in `matchesPacket`, while
`docs/config-schema/schemas.md:28` says bits.

*Devices.* Set, select, text and lock fall back to unframed packets; the half-degree
encoding never sets its sign; what reads it takes bit 6 for one and for a part of the value; BCD
ignores the byte order, integers longer than four bytes wrap (`Fits`); a light's colour temperature is
written with two bytes and read with one; a virtual text over MQTT never changes;
an optimistic entity without a command sends an empty packet from the UI
(`carried`).

*States.* `update_state` hands the normalisation a packet without its header, and the
length of the header besides (`automation-manager.ts:847-854`), so with a header the
schemas of the entity that the action does not give are read one header too far,
against `docs/config-schema/schemas.md:287`, which promises the interpretation of
`parseData` (`UpdateMeansReport` fails for such an entity, and `StoreHolds` asks it only
of those without one; nor does the action clamp the position of a valve). An expression
that gives 0 counts as missing: the value is read again with the text of the expression
for a schema, whose `length` is that of the text, so a long enough packet gives another
number. A flag's expression that fails counts as matched; for a lock none counts, and an
offset has the header added. Once `oscillating` holds, no report of a fan takes it back;
`action` of a climate stays 'off' after it heats again, unless it has schemas of its own.
`send_packet` sums the header as data for checksums that leave it out elsewhere (the
last condition in `BuildersAgree`).

*Automations.* Debounce takes the first trigger of a window, not the last, and its
key is shared between automations (`docs/AUTOMATION.md:53`). Editing an automation from
single or restart to queued while it runs can leave a queued run behind one that does
not serve the queue, and from restart to single starts a second run beside it. The handles of a cron trigger accumulate; `stop()` leaves runs in progress.

*Broker.* A revocation within two seconds after a rename is undone by the rename's
timer; the same force announces an entity that was never heard of
(`DiscoveredForAReason` names both). Optimistic defaults are published before the
DiscoveryManager listens. What was on its way when a connection broke is not sent
again until the next change (`lost`). A revoked device that repeats its last state is
not registered again.

*Logs and raw packets.* The collection of a service that starts with consent attaches
before any bridge has a context and gets no packets by itself; its end releases a
reference it never took. A second yes collects and sends again; answers that overlap may
be applied in the opposite order (`overlapped`). A stop while `start` awaits returns
nothing and the recording starts anyway; a late error of an old stream stops the
current recording. On the page: streaming is not resumed after a reconnection on the
analysis page (`App.svelte:642-644`), the logs are neither sorted nor free of
duplicates after the merge of the history, states of topics the server dropped stay
shown, and a late echo can step a state back.

*Service.* The alias `port_id` is not seen by the check for duplicate ports; when
every repair fails the service starts with duplicates (`tampered`); `.restart-required` is
cleared right after the launch. A command kept in the write buffer is flushed after
the reconnection although its queue gave it up. The listener of 'state:changed' of a
command queue is never removed.

## 8. What is not modelled

- CEL expressions: an evaluator over an external library. Where a result matters it is
  a choice in the module that asks for it, or an expression of one shape (`EntityStates`).
- Formatting and parsing: discovery payloads, YAML, schemas of the configuration beyond
  ids, proxies and automations, the CRC tables, pasted packets, names of presets.
- Durations: timers fire in any order except where node guarantees one (timers of one
  duration fire in the order they were set; a `close` event precedes timers of a
  second or more). No property is about how long something takes.
- Inside the bridge: the statistics of packet intervals, the order of the steps of
  `initialize` beyond what the modules above have; of the automations the evaluation
  of conditions, which is a choice.
- Web UI: markup, styles, lists, filters, drawings, the editors; the packet tools
  (packet log, dictionary view, topology), which hold no state that another part
  depends on.
- Listings, downloads and authentication of the routes; the registration of routes and
  signal handlers.
- Simulator, data of the gallery, deployment: not part of the running program.
