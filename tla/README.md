# ChirpStack Gateway Mesh: TLA+ models, checks and proofs

ChirpStack Gateway Mesh extends LoRaWAN coverage with relay gateways. A *relay
gateway* has no internet connection: it wraps what it hears from end-devices into
mesh packets and sends them over a second LoRa radio; other relays re-transmit
them; a *border gateway* unwraps them and gives them to the server (through the
ChirpStack Concentratord API), and sends the server's downlinks and commands into
the mesh. This directory holds models of the Rust program under `src/src/`, TLC
configurations that check them on small instances, and TLAPS proofs of the
properties that matter most, for every value of the constants.

Line numbers refer to the files under `src/src/`.

## 1. Inventory

| Component | State | Operations | Interacts with |
|---|---|---|---|
| **Mesh** (`mesh.rs`) | statics `MESH_CHANNEL`, `UPLINK_ID`, `UPLINK_CONTEXT`, `PAYLOAD_CACHE` | `handle_uplink`, `handle_mesh`, `handle_downlink`, `send_mesh_command`, `relay_mesh_packet`, `get_mesh_frequency`, `get_uplink_id`, `store_/get_uplink_context` | called by the two event loops and the proxy's command loop; calls backend, proxy, commands, packets, cache |
| **Cache** (`cache.rs`) | a FIFO of 64 keys | `Cache::add`, the key of a packet | behind a mutex in `handle_mesh` |
| **Packets** (`packets.rs`) | none | encode, decode, encrypt, sign, verify | every sender and receiver |
| **Commands** (`commands.rs`) | `LAST_TIMESTAMP`, the table of commands | `execute_commands`, child processes | awaited by the mesh event loop |
| **Events** (`events.rs`) | none | heartbeat loop, event-set loops | send into the mesh through backend |
| **Backend** (`backend.rs`) | two threads with a REQ socket and a command channel each; two SUB sockets; `RELAY_ID` | `send_command`, `send_mesh_command`, `event_loop`, `mesh_event_loop`, the filters | external: the ChirpStack Concentratord |
| **Proxy** (`proxy.rs`) | PUB and REP sockets, two channels | `send_event`, `send_stats`, `send_mesh_event`, command loop | external: the server's side |
| **Helpers** (`helpers.rs`) | none | frequency, modulation and power mappings, acknowledgement codes | mesh |
| **Startup** (`main.rs`, `cmd/root.rs`, the `setup` functions) | the `OnceLock`s and `OnceCell`s that are set one by one | `run` | everything |
| **Configuration, keys, logging, template** (`config.rs`, `aes128.rs`, `logging.rs`, `cmd/configfile.rs`) | constants | parsing, derivation, printing | |

What is hard in this program:

* *Flooding.* Every gateway hears several copies of every packet, over paths of
  different lengths, interleaved with other packets. De-duplication rests on a
  bounded cache whose keys are shorter than the packets, the end of a flood on the
  cache and on a hop count of three bits.
* *Every hop modifies the packet* (hop count, relay path), encrypts and signs it
  again: one step out of order and the next gateway cannot verify it.
* *State that only lives in memory.* A restart resets the uplink IDs, the contexts,
  the cache and the last command timestamp, while packets and downlinks that refer
  to them are still on their way.
* *Identifiers that run out.* Uplink IDs are 12 bits wide; events and commands are
  told apart by whole seconds.
* *Late answers.* A command to the concentratord is given up after 100 ms, its
  answer may come later, over a socket with a strict alternation.
* *Partial failure.* The cache is filled and the uplink ID is used before the
  handling that may fail; a downlink whose transmission is reported as failed, though
  it may have been sent, is sent again for the next receive window.
* *Two loops on one stream* when one concentratord serves both roles.
* *Few bits on the air.* Frequencies, data-rates, levels, powers and delays are squeezed
  into indexes, 6, 8 and 12-bit fields and casts, every relay reads and writes them
  anew, and the MIC is computed over what was written anew.
* *A reply for every request.* The REP socket of the proxy takes no request before the
  one before it is answered, whatever becomes of the concentratord meanwhile.
* *Loops that run before the start is over.* Each is spawned as soon as its own sockets
  are set up, while what its handlers read may not be set yet.

What makes each component correct:

* Mesh: a downlink leaves the mesh at the gateway that heard the uplink, with the
  context of that uplink; nothing is handled twice while the cache remembers it; a
  published packet was sent by the relay it names; hop counts, signatures and relay
  paths are right on every hop; floods end and, without loss, uplinks arrive.
* Cache: exactly the last packets are remembered.
* Commands: each at most once between restarts, in the order of their timestamps,
  only those that a border gateway sent to this relay.
* Backend: a caller never gets the answer to another's command; every call returns.
* Event loops: each intact frame is handled by one loop, nothing else by any.
* Packets and helpers: what is asked for or heard at one end is what comes out at the
  other, or is refused; every relay accepts what the one before it sent; never more power
  than was asked for.
* Proxy: every request is answered, and what the answer says of a downlink is true.
* Startup: nothing misses anything once it is over, and before only what cannot be
  avoided.

## 2. Modules

| Module | What it is | Code |
|---|---|---|
| `Cache` | the deque as constant-level operators, and the notions it is specified by (`LastOf`, `Spaced`) | `cache.rs:6-34` |
| `MeshPacket` | packets, frames, encryption, MIC, cache key as records | `packets.rs:43-157, 202-259`, `cache.rs:36-84` |
| `MeshService` | abstract specification: what the mesh promises from end to end, without packets, hops, IDs and caches | |
| `Mesh` | the network of gateways, each with the statics of the program; extends `Cache` and `MeshPacket`, implements `MeshService` | `mesh.rs`, `commands.rs`, `events.rs`, parts of `proxy.rs` and `backend.rs` |
| `MCMesh` | small networks for TLC | |
| `CacheLemmas` | what one add keeps, proved | |
| `MeshProofs` | the invariants of `Mesh`, proved | |
| `CommandService` | abstract specification: what the callers of `send_command` count on | `backend.rs:349-371` |
| `Backend` | command channel, worker thread, REQ socket, concentratord; implements `CommandService` | `backend.rs:134-158, 349-371, 435-449` |
| `BackendProofs` | the inductive invariant and the refinement | |
| `Proxy` | the REP thread and the command loop of the proxy API, with the windows of a downlink; extends `Backend`, whose caller it is | `proxy.rs`, `mesh.rs:508-626`, `helpers.rs` |
| `MCProxy` | the requests of a border gateway | |
| `ProxyProofs` | what the server is told is true; the proxy uses `Backend` as its other callers do | |
| `EventLoop` | the two event handlers and their filters, in every configuration | `backend.rs:84-105, 191-216, 234-347` |
| `MCEventLoop` | its events | |
| `Startup` | the steps of the start and what handlers need of them; extends `EventLoop` with the loops that run meanwhile | `main.rs`, `cmd/root.rs`, the `setup` functions |
| `MCStartup` | its events | |
| `StartupProofs` | its safety properties, for every stream of events | |
| `TxPower` | the search of `tx_power_to_index`, as it runs | `helpers.rs:127-147` |
| `TxPowerProofs` | what it finds, for every table | |
| `Codec` | every field of the mesh packets as bytes, both ways | `packets.rs:192-910` |
| `CodecProofs` | what is read back is what was written, and writing it anew gives the same bytes; the invariant of `Report` | |
| `Report` | the items of events and commands, the loop that reads them, relays that extend paths | `packets.rs:453-866`, `mesh.rs:352-375` |
| `Air` | an uplink, a downlink or a report from one end of the mesh to the other; extends `TxPower` and `Report` | `mesh.rs:182-252, 312-350, 437-571`, `helpers.rs` |
| `MCAir` | boundary values of every field | |
| `AirProofs` | its safety properties, for every mapping and every uplink, downlink and report | |

### How `Mesh` corresponds to the code

A gateway is a process that runs the program; its statics are functions from
gateways (`uplinkId`, `uplinkContext`, `payloadCache`, `lastTimestamp`,
`meshChannel`). `inbox` is the channel of `mesh_event_loop` (`backend.rs:256`): frames
wait in it in the order of reception and are handled one at a time. `executing` is the
command the loop awaits (`relay_mesh_packet` awaits `execute_commands`). `retrying`
is the downlink whose next item the proxy's command loop is about to try. `now` is
the clock in seconds. The other variables are histories that properties refer to
(`heard`, `stored`, `seen`, `published`, `unmapped`, `answered`, `radioed`, `issued`, `executed`,
`reported`); a few of them also serve as bounds: an uplink is heard once per gateway, an
uplink is answered once, a report is sent once. No guard of the code is expressed with
them.

| Action | Handler |
|---|---|
| `ProxyUplinkLora` | `handle_uplink`, border: `proxy_uplink_lora_packet` |
| `RelayUplinkLora` | `handle_uplink`, relay: the ID is taken and the context stored before the data-rate and the channel are looked up and the packet is written, so that an uplink that cannot be mapped or encoded still uses an ID |
| `DropInvalidMic`, `DropSeen`, `Accept` | the first half of `handle_mesh`: MIC, cache |
| `ProxyMesh`, `ProxyMeshFails`, `BorderIgnores` | `handle_mesh` on a border gateway: published, not in its mappings (`mesh.rs:226-227`), not for it |
| `DropOwn`, `UnwrapDownlink`, `ExecuteCommands`, `RejectCommands`, `RelayMesh` | `relay_mesh_packet`, by packet type and addressee |
| `FinishCommands` | the second half of a command: the response event is sent, or encoding or sending it failed |
| `ProxyDownlink`, `RelayDownlink`, `RetryDownlink` | `handle_downlink`: direct, relayed, relayed with the next item |
| `SendMeshCommand` | `send_mesh_command` |
| `SendEvents` | `report_heartbeat`, `report_events` |
| `Restart` | the process starts again with fresh statics and empty channels |

*Atomicity.* `mesh_event_loop` awaits the handling of a frame, so the handling of mesh
frames by one gateway does not interleave with itself, except for the wait for a
command, which is a state of its own. The other entry points (`handle_uplink`,
`handle_downlink`, the report loops) share with it the uplink contexts, the uplink ID
and the mesh channel, each under its own mutex and touched once per handler; the time
between that access and the transmission is not visible to any other entry point, so
one action per handler is faithful. The exception is the loop over the items of a
downlink, which is split (`RelayDownlink`, `RetryDownlink`).

*Refinement.* `MeshService` knows who heard, reported, answered, issued and executed what,
and that a gateway says it to another of its network. `Mesh!Service` maps the histories to it:
a publication to its border, the relay it names and its body, a command to the border, the relay and
the body, a transmission to a device to the gateway and the body. Everything else of `Mesh` (relaying, dropping,
the cache, the contexts, losses, restarts, retries) is a stutter: it may cost a packet or repeat
it, never change what is said, by whom or to whom.

*Abstractions.* Radio metadata (frequency, data-rate, RSSI, SNR, power, delay) is
left out except for where it makes a handler fail: `Wrappable` says which uplinks a relay can map and encode,
`Unwrappable` which uplinks of a relay are in the mappings of a border (`Unwraps`). The gateways' mappings need not agree: what a border
cannot map it accepts and remembers, as the cache is filled first (`mesh.rs:55`), but publishes nothing (`ProxyMeshFails`, history
`unmapped`); a downlink that the addressed relay cannot map may be lost (`UnwrapDownlink`), and a
heartbeat whose reception does not fit its path entry may be lost (`RelayMesh`, when `Lossy`). Cryptography is
symbolic: a MIC verifies exactly under its key and over the packet it was made for; a
payload is encrypted under a key or clear. `Key` stands for `signing_key` and `root_key` together: gateways share both or
neither, so that a payload that cannot be decrypted behind a valid MIC (`mesh.rs:64`) is not modelled. One clock, `now`, that never goes back,
stands for the `SystemTime` of all gateways (`mesh.rs:104`, `events.rs`): `CommandArrives`, and of `PublishedWasSent` that an event is not
older than the command it answers, hold only as far as the clocks agree. A packet's body is a model value. A
relay ID is the gateway itself. A transmission (`Transmit`) reaches every neighbour, or, when
`Lossy`, any subset of them: also none, which is what `backend::mesh` failing looks
like to the rest of the mesh. Copies are re-ordered by travelling over different
paths; a frame is not duplicated by the radio itself.

### How the other modules correspond to the code

*Proxy.* The REP thread of `proxy::setup` is `Receive` and `Reply`; `serving` is the request
whose oneshot channel it waits for. The command loop, one task, is the other actor:
`Handle` takes a request, `SendItem` calls `send_mesh_command` for the window `item`,
`ItemSent` and `ItemFailed` are the two branches after `backend::mesh` returned
(`Acknowledged` is `tx_ack_to_err`), `FailItem` is the `?` of an item that cannot be written, which
ends the whole request, `AllFailed` the end of the loop over the items. The thread of the command path and the
concentratord are `Backend`'s actions (`ServeBackend`, `Transmit`); a `Transmit` that
leaves `sent` alone is an acknowledgement with an error. `OtherCall` stands for other
callers of the same path.

*Startup.* `Steps` is the sequence of what the program sets up, for a border gateway and
for a relay; `Advance` makes the next one available, `Fail` is an error that `main` unwraps, `Signal` ends
the process. The loops of `EventLoop`, the command loop and the report loops run as soon
as their step is made. `Needs` lists, per handler, the statics that it reads: a handler that misses one
fails (`anyhow!` or an empty ID), and the loop goes on. A frame that cannot be formatted for the log, as its `rx_info`, `tx_info` or modulation is
missing, ends its handler before it is handled (`Formats`, `helpers.rs:182-196`). `waiting` is the mesh loop of a relay while it
awaits the child process of a command: it takes no event until `FinishCommand`, which need never come. A restart is a new behaviour: nothing survives.

*Air.* One trip at a time: an uplink (`WrapUplink` at a relay, `Forward`, `UnwrapUplink` at the
border), a downlink (`SearchPower`, `WrapDownlink`, `Forward`, `UnwrapDownlink`), or a report (`ReadReport`,
`PassReport`). Trips do not influence each other, so nothing is lost by taking them one at
a time; how they interleave is the subject of `Mesh`. `frame.bytes` is what is on the air, `frame.mic` what its MIC was computed
over; CMAC and AES are left out, and so are the fields that are copied through unchanged
(relay ID and LoRaWAN frame). A cast is modelled by what it does: `AsI16`, `SnrAsI8`, `SecondsAsU8`, and the
`% 256` of `FrequencyToChan` and `ModulationToDr`. Frequencies in Hz go beyond TLC's
integers and are written as `100 * h + z`. A modulation is what tells data-rates apart (bandwidth, spreading factor and code rate,
or bit rate): polarization and FSK deviation, which `modulation_to_dr` drops and `dr_to_modulation` sets anew
(`helpers.rs:79-123`), are left out, so that "the modulation as heard" is the data-rate. Of a delay only the whole
seconds are modelled, as the code reads nothing else. In `Air` both ends have the same mappings; what becomes of an uplink where they differ is in `Mesh`.

## 3. Runs

`tlc -config X.cfg M`. Deadlock is not checked: every system here comes to rest when
its bounded inputs are used up.

| Run | Instance | Shows |
|---|---|---|
| `mesh_uplinks` | two relays that reach the border and each other, the border reaches one of them; loss, two uplinks, one heard by the border and by a relay, the other one with a data-rate that the border cannot map, two mesh channels | `TypeOK`, `HandledOnce`, `ServiceSpec` (refinement), `RefusedUplinkWasHandled` |
| `mesh_restart` | a line b - r1 - r2, three uplinks over two IDs, one that r2 cannot map, cache of two, r2 restarts once, loss | `DownlinkUsesItsContext` across the wrap of the IDs and a restart, `DownlinkGoesBack`, `HandledOnce`, `RemembersTheLast` with eviction |
| `mesh_events` | a loop of three relays and a border of another network in reach, a heartbeat and an event set in two seconds, loss | `AirVerifies`, `PathTellsTheWay`, `PathHasNoLoop`, `PublishedWasSent` |
| `mesh_commands` | a clique of a border and two relays, two commands, two seconds, cache of one | `CommandsInOrder`, `ServiceSpec` (refinement), and `CommandArrives` under fairness |
| `mesh_liveness` | the loop of relays, two uplinks, of which the border can map one, cache of one, two hops | `HopBound`, `FloodEnds`, `UplinkArrives` |
| `mesh_same_second` | a clique, a heartbeat and an event set in one second | refutes `RefusedEventWasPublished` (finding 1) |
| `mesh_rebooted` | a clique, one command, r2 restarts once | refutes `CommandsOnceEver` (finding 2) |
| `backend` | a border gateway that is asked any two of nine requests, among them downlinks with two windows, with one that cannot be written and with none, and a mesh command; a call of another task; a concentratord of any slowness that may refuse to transmit | `AckIsTrue`, `SecondWindowOnlyUnanswered`, `OneOutstanding`, `AnswersMatch`, `ServiceSpec` (refinement), and under fairness `CallsReturn`, `RequestsAreAnswered` |
| `backend_wedged` | two calls | refutes `UsableAfterTimeout` (finding 3) |
| `event_loop` | every configuration, from the start on, two events of any kind, complete or not, requests and reports at any time, commands that may never end | `OnlyEarlyFails`, `NeverBoth`, `OnlyIntact`, and under fairness `QueuedIsHandled` |
| `event_filter` | `EventLoop` alone, frames that the address filters refuse | refutes `FilteredIsDiscarded` (finding 4) |
| `tx_power` | boundary values of every field of uplinks, downlinks and reports; every table of up to four of four powers, every power asked for; a channel and a data-rate that do not fit a byte; one relay on the way of an uplink or a downlink, two on that of a report | `NeverMore`, `ExactIfListed`, `ClosestInOrder`, `MicSurvives`, `UplinkAsHeard`, `DownlinkAsAsked`, `WindowAsAsked`, `FrequencyAsAsked`, `LegalIsSent`, `ItemsSurvive`, and under fairness `DecodingEnds` |

*Bounds.* Two relays in a line are the smallest mesh with a re-transmission. A border that hears both of them gets copies
of one uplink over two ways, without which it never refuses one. `mesh_uplinks` has no restart, so that its uplinks share no ID;
with `Neighbours <- Triangle`, `Mesh_restart.cfg` shows `RefusedUplinkWasHandled` across the wrap and a restart too (2.7 million states, some
three minutes: left out of the runs, as the theorem covers it). The loop
behind the border is the smallest one in which a packet can come back to a relay that
has already sent it, over both directions. Two uplink IDs and three uplinks make every
ID be used twice, the first one skipped as in the code (0 is only used after the first
wrap). A cache of one or two keys forgets within these runs, so that what the cache
does when it is full is exercised and not only that it refuses. Two values of the clock
separate "same second" from "later". A restart of the relay in the middle of the line is
the one whose state others rely on. Two requests make the second wait in the REP
socket while the first is handled and find the path as a timeout of the first has left
it; two windows are what a class A downlink has. Two events are
enough for one to be handled while another is queued, in both loops. The values in
`MCAir` lie on both sides of every comparison and of every cut in the codec: RSSI -255, 0 and 1, SNR -33, -32,
31 and 32 dB, uplink IDs 0, 15, 255, 4095 and 4096, delays around 0, 16 and 256, frequencies around 1.2, 1.6777216
and 2.4 GHz, values of 255, 256 and 257 bytes. The proofs cover every other value of these
constants for the safety properties they name.

*Fairness.* `Mesh!FairSpec` assumes that every mesh event loop keeps handling frames
(`HandleMesh` is a task of the runtime; none of its awaits waits for another gateway;
the command path returns within 100 ms, which `CallsReturn` shows) and that commands
end (`FinishCommands`; the code does not bound a child process, see hazards). Nothing is
assumed of inputs, of the clock or of the radio: in the runs with fairness, `Lossy` is
FALSE, because no retransmission exists that would make up for a loss. `Backend!FairSpec`
assumes weak fairness of the worker thread only, not that the concentratord answers.
`Proxy!ProxyFairSpec` adds the REP thread and the command loop, of which each
waits only for the other or for the path. `Startup!StartFairSpec` assumes that the start goes on (setting up the log is
retried until it works) and that both loops take their events when they can, which the mesh loop cannot while it awaits a
command; nothing is assumed of `FinishCommand`, as the code gives a child process no timeout (`commands.rs:99-100`). `QueuedIsHandled` is
therefore conditional for mesh frames: they are handled unless a command keeps the loop for ever (`[]<>~ waiting`), frames of devices in any case; `Air!AirFairSpec` only that a loop over bytes is not interrupted.

*Histories.* `NothingForgotten` in `PathHasNoLoop` restricts it to states in which no cache has evicted a key;
in `mesh_events` the cache has four places and three packets, so that it does
hold there; the mutant of that property breaks it.

Every property of a passing run has a mutant of a definition (marked as a slip beside the
definition it distorts) under which the very
same configuration refutes it.

## 4. Proofs

`tlapm M.tla` checks `CacheLemmas`, `MeshProofs`, `BackendProofs`, `ProxyProofs`, `StartupProofs`,
`TxPowerProofs`, `CodecProofs` and `AirProofs`.
The assumptions are the named ASSUMEs of `Mesh`, `MeshPacket`, `Backend`, `Proxy`, `EventLoop`, `TxPower`, `Report`
and `Air`: types of the constants, positive sizes, distinct markers; that a heartbeat is not an uplink or a command
(bodies are model values, the code tells them apart by the packet's type); that each call of a request belongs to one
window of one request (a call is an execution of `send_mesh_command`, so this only names them);
that a table of powers has at most 256 entries, as the index of one is cast to a byte (`helpers.rs:146`); that an error is
not a downlink (`RefusedIsNoDownlink`); that the sender of a report gives it items as the code makes them, heartbeats with an
empty path in events only and types that are a u8 in events and a u32 in commands (`ReportsAreItems`), and that at most seven relays
pass it on (`MaxRelaysFits`: the header counts eight transmissions). In particular nothing is
assumed about the topology, the number of networks, who hears whom, the sizes or the
hop count, or about what the server asks. About the mappings `Mesh` assumes nothing, neither what they hold nor that two gateways
have the same ones (`Wrappable` and `Unwrappable` are any sets); `Air` has one set of mappings for both ends of a trip, of any contents.

**Mesh.** The safety properties follow from invariants in layers; each layer is
inductive relative to those below it.

1. `AirInv`: types, and where everything on the air comes from. `Genuine(p, k)` says what
   a packet travelling under key `k` tells has happened: for an uplink or a downlink, that
   the relay it names has key `k` and heard its body; for an event, that its relay reported it or
   executed the command it answers; for a command, that a border with key `k` issued it.
   `Good[k]` is the set of clear packets that are genuine and have an admissible hop count,
   and `AirIsGood` says that every inbox holds only sealed members of `Good`. The
   properties alone are not inductive: `PublishedWasSent` about a border needs to know the
   same of the frames that reach it, and through them of the packets that relays re-sign.
   `Genuine` only refers to histories that grow, so good packets stay good
   (`GoodGrows`); the lemma `Opens` says that a frame that verifies under `k` opens to a
   member of `Good[k]`. From `AirInv`: `HopCountsBounded`, `FramesVerify`,
   `PublishedIsAuthentic`, and with the type of `radioed`, `TypesCorrect`.
2. `RadioInv`: downlinks handed to a device were heard there: `DownlinksGoBack`.
3. `CacheInv`: `payloadCache[g]` is the last `CacheSize` keys of `seen[g]`, and equal
   keys in `seen[g]` are more than `CacheSize` apart. The step is `AddKeepsLast` and
   `AddKeepsSpaced` of `CacheLemmas`, facts about sequences alone: `CachesRemember`.
4. `HandledInv`: every record of `published` and `radioed` of the current boot points at the
   place of its key in `seen`. A new record points at the end, and by 3 a place with the same
   key is far: `NothingHandledTwice`.
5. `ExecutedInv`: every executed command of the current boot has a timestamp that is at most
   `lastTimestamp`, and a place inside `seen`: `CommandsExecuteInOrder`.
6. `PathInv`: every frame in an inbox `Tells` the way to the gateway that is about to take it: its path
   continues to that gateway's neighbours. The lemma `Moves` says once what a step does to the
   inboxes: what is in one was in one before, or is what the step `Sends`. `PathsTellTheWay`.
7. `LoopInv`: as long as nothing was forgotten, every relay on the path of a heartbeat
   has its key in `seen`, and a gateway that accepts it has not: `PathsHaveNoLoop`.
   `ForgottenForGood` is what lets the condition be used one step earlier.
8. `ContextInv`: the context under an ID is that of the last uplink that took it (`ContextsKept`). `IdAt(c, d)` is the ID
   taken `d` uplinks before `c`, so that two of one round differ; an uplink or a downlink whose context is still
   kept carries the ID it is stored under (`NamesItsId`): `DownlinksUseTheirContext`.
9. `SeenHandled`: every key of an uplink or an event that a border has accepted is that of a packet that it has published under the same
   place, or, of an uplink, could not map (`unmapped`).
   With `CacheInv`, which says where in `seen` the key of a refused packet is: `RefusedPacketsShareTheirKey`. What differs for
   events is only that two may have one key (difference 1). For uplinks `NumberInv` adds that the ID in a packet of a relay that has not restarted is
   the number of its place among the uplinks that the relay has stored, modulo `MaxUplinkId + 1` (`CountsUp`): two uplinks with one ID
   are whole rounds of IDs apart. `RefusedUplinksAreHandled`: among the last `CacheSize` packets that a border has accepted there is the uplink it refuses,
   published or not in its mappings, or another one under the same ID, and then the relay has restarted or given out a whole round of IDs
   between the two. `UnmappedInv` is what `AirInv` says of `published`, for the uplinks in `unmapped`.
10. `AnsweredInv`: a downlink in an inbox answers what the server has answered. With `AirInv` it gives
   `ServiceNext`, one case per action of `Mesh`, and `MeshImplementsService`.

**Backend.** The invariant `IInv` ties the REQ socket's state to the messages in
flight: at most one command or answer is outstanding, and while the thread waits for a
call it is that call's. `AnswersReachTheirCalls`, and `BackendImplementsService`: every step
is a step of `CommandService` or a stutter. `GivenUpForGood` says why finding 3 is one: the state in which the thread waits for
a call while the socket expects an answer is never left, and every call that comes then gets an error.

**Proxy.** `ProxyInv` adds to `IInv` that a request is in one place and has made no calls
before it is handled (`InOnePlace`), that the windows before the current one have failed and those after it
were never tried (`Trying`, `InOrder`), and that every answer, in the oneshot channel
or replied, is true (`Truthful`). `Failed(c)` is what makes it inductive: a call that failed stays failed, because
the concentratord settles whether it transmits when it does a command, and does each once, and a call that was given up
has its error for good; `AckIsTrue` alone would not survive a late transmission.
`ProxyTellsTheTruth` and `ProxySecondWindow` follow. `ProxyUsesBackend` says that every step is a step of `Backend` or leaves it
alone, so what is proved there holds here: `ProxyImplementsService`, `ProxyOneOutstanding`.

**Startup.** `EventInv`: the queues hold places of received events, and what is handled was let
through by its loop, whose kinds of frames exclude each other: `HandledByOneLoop`, `HandledIsIntact`. `OnlyEarlyOnesFail` needs the
order of the steps: `StepsOfBorder` and `StepsOfRelay` put the sequence together, `OrderOfBorder` and
`OrderOfRelay` read off it what is there when a loop runs.

**TxPower.** The loop invariant describes what the entries considered so far have
selected: `PowerNeverMore`, `PowerExact`, `PowerClosest`.

**Codec and Air.** `CodecProofs` shows of every field that reading inverts writing, and of a packet that writing what
was read gives the same bytes, also where reading does not invert writing (frequencies between 1.2 and 1.678 GHz).
In `AirProofs` the invariant is that the bytes on the air are those of the packet that the first
gateway wrote, with some hop count; from it `AirMic`, `AirUplink`, `AirDownlink` (with the invariant of `TxPower`: the
index found is one of the table), `AirWindow` and `AirFrequency`. `AirLegal` adds where a refusal can come from: the first
gateway, only when the packet does not hold a field (`Unwritten` says which), and never the last one, as both ends share the mappings.

**Report.** `AirItems` is about lists of any length, joined to one string of bytes and taken apart again. `Pieces` says where in the
bytes each of the joined sequences is, by induction over a set of numbers (`NatSetInduction`, as an induction rule over a predicate is not
available to the provers); `PathRead`, `EncodedItem` and `DecodedAsSent` read one path, write one item, and read one. `ItemsSurvive` speaks
only of what is read when everything is; the invariant `ReportInv` says of every state that there is a list of items which the
last sender wrote (`Sending`), in which the clean items of the report are at their places, and that either the cursor is at the start of
an item and all items before it were clean and read as they were written (`Aligned`), or all clean items are read (`Past`).
The first item that is not clean is where the cursor may lose the boundaries; from there on it is `Past`, and the items read before it stay
(`PastGrows`). `AirReading` is the safety half of `DecodingEnds`: each step of the loop leaves fewer bytes to read.

Only model-checked: all liveness (`FloodEnds`, `UplinkArrives`, `CommandArrives`, `CallsReturn`,
`RequestsAreAnswered`, `QueuedIsHandled`, `DecodingEnds`), which is out of the prover's reach. Every safety and every refinement property of the
passing runs is proved.

## 5. Where the code and its words differ

1. **Two events of one relay within a second** (`mesh_same_second`). `mesh.rs:53-54`
   takes a refusal by the cache to mean that the packet was seen before. The key of an
   event is its type, relay and whole second (`cache.rs:62-71`), so a heartbeat and an
   event set, or a command's response, of the same second are one packet to the cache and
   the later one is lost at the border.
2. **Commands across a restart** (`mesh_rebooted`). `commands.rs:38-39` means the
   timestamp to increment from one command to the next; the last one is lost by a
   restart, and a copy of the command that another relay re-transmits is executed again.
3. **One late answer disables the command path** (`backend_wedged`). After the 100 ms of
   `backend.rs:439` the REQ socket still expects an answer that nobody reads; every
   later send fails until the process is restarted.
4. **The address filters do not filter** (`event_filter`). `backend.rs:301-304` logs
   that the uplink is discarded, and goes on to handle it.

Also met while modelling, without a run of its own, since no words of the repository say otherwise, the property states what holds,
or the words are those of difference 1:

* The words of difference 1 fail for uplinks too. Their key is type, relay and uplink ID (`cache.rs:50-55`), and a relay counts its
  IDs in memory (`mesh.rs:26, 643-652`): after a restart it uses those again that the border's cache still holds, and the border drops
  the new uplinks unseen until the IDs have passed the ones it remembers. After a whole round of 4096 IDs it would do so too, if its cache still held one
  of the round before. `RefusedUplinkWasHandled` states what holds: no uplink is lost to the cache otherwise.
* They also fail for an uplink that the border cannot map: it is in the cache, but was never published, and so is every later copy
  refused. The copies would fail in the same way, so that nothing is lost by it (`ProxyMeshFails`).
* `tx_power_to_index` returns the last lower power listed, which is the closest lower one that `helpers.rs:125-126` promises only
  in an ascending table (as in the shipped configurations); `ClosestInOrder` states what holds.
* A downlink frequency from 1.2 GHz up to 1.678 GHz is encoded and read back as twice the
  frequency (`packets.rs:870-910`); no LoRa band lies there. `FrequencyAsAsked` excepts it.
* A delay of 257 seconds or more is cut to a byte before it is checked (`mesh.rs:536`); `WindowAsAsked` excepts it.
* The fraction of a second of a delay is dropped without an error (`mesh.rs:536`); the model has whole seconds only.
* Indexes of channels and data-rates are cut to a byte (`helpers.rs:10, 69`); `UplinkAsHeard` and `DownlinkAsAsked` except entries from the 257th on.
* A request for the gateway ID that comes before it is known is answered with zeros, and a command that
  comes before `commands::setup` has its timestamp stored but is not executed; `OnlyEarlyFails` lists what can come too early.

## 6. Plan

Done: `Cache`, `MeshPacket`, `MeshService`, `Mesh`; `CommandService`, `Backend`, `Proxy`; `EventLoop`, `Startup`; `TxPower`,
`Codec`, `Report`, `Air`; the runs and findings above; the proof modules above. Left, in order:

1. A mesh whose paths differ by more hops than a packet may make, where the copy that comes first is not the one that
   could have gone on.
2. Proofs: that a gateway handles each key once while it remembers it, for what it re-transmits too (today a consequence of
   `CachesRemember` that no property states); the measure by which a flood ends.

## 7. Not modelled

* `config.rs` and `cmd/configfile.rs`: deserialisation by library code, a textual substitution
  of environment variables, and a template printed on request. They keep no state and run before anything else; their
  results are the CONSTANTS and, in `EventLoop`, the initial states of the models. Two things a reader should know of, as hazards without a
  property: variables are substituted one after the other, so that a name that begins another one depends on the order of the
  environment (`config.rs:33`), and the code-rate 4/8LI is written as 4/5LI (`config.rs:237`).
* `aes128.rs`, and AES and CMAC in `packets.rs`: a MIC and an encryption are ideal in `Mesh`; in `Air` a MIC is the
  bytes it was computed over.
* `logging.rs` and the `format_*` texts of `helpers.rs`: output only. That the set-up of the log is retried is part of `Startup`.
* Statistics beyond the path they take, the program that a command runs, and the concentratord and the
  server beyond the messages they exchange with this program.
