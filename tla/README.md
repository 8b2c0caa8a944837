# Verification of node-red-contrib-eelectron-knxip

TLA+ models of the KNX/IP stack under `src/src`, the TLC configurations that
check them, and TLAPS proofs about them. Paths below are relative to `src/`.

## The system

The package gives Node-RED flows access to a KNX bus through KNXnet/IP gateways.

| Part | Code | State it keeps | Operations |
|---|---|---|---|
| Tunnel client | `src/io/tunnel.ts` | connection state, transport, channel id, one ACK slot, one response slot, two sequence counters, heartbeat and out-of-order timers, abort flag and promise of the reconnect loop | `connect`, `disconnect`, `sendCemi`, frame handlers, timers |
| Serial queue | `src/io/serialQueue.ts` | tail promise, depth | `run` |
| Transports | `src/io/udpTransport.ts`, `tcpTransport.ts` | socket, closed flag, receive buffer (TCP) | `bind`, `send`, `close` |
| Secure session | `src/io/secureSession.ts`, `src/secure/*` | session id, key, send and receive sequence numbers, keepalive timer | handshake in `bind`, wrapped `send`, `close` |
| Discovery | `src/io/discovery.ts` | the answers so far | one search |
| Config node | `src/nodes/config/config.ts` | the client, the set of attached children | `attach`, `detach`, close, admin endpoints |
| Stateful flow nodes | watchdog, dedupe, rate-limit, state-store, writer, schedule | last-seen times and alarms; windows per topic; the last values, in memory; last value written; next timer | message and timer handlers |
| Stateless flow nodes | listener, status, scene, color, mqtt-publish, ets, ets-inject, ets-config | — | translation of messages |
| Bus monitor | `src/runtime/busMonitor.ts` | ring of records, subscribers | `push`, subscribe |
| Frame codecs | `src/core/*` | — | parse and format |
| Datapoint codecs | `src/dpt/*` | — | encode and decode |
| ETS import | `src/ets/*` | — | parse project files |
| Editor pages | `src/nodes/*/*.html` | — | browser user interface |

**How they interact.** A flow node attaches to a config node; the first attach
calls `connect()` on its tunnel client and the last detach `disconnect()`, and
neither waits. A writer calls `sendCemi()`; the serial queue runs one such task
at a time. The client opens a transport (a new one for each connection), sends
requests through it and listens to its `message` event; inbound telegrams are
emitted as `cemi` events to listener, watchdog, state-store and bus monitor.
Everything runs on one thread: interleaving happens at each `await`, between a
frame, a timer, a socket event and a call of the API.

**What is hard.** One response slot serves connect, heartbeat and disconnect;
functions suspended on it are woken by frames, timers, and by the loss of the
tunnel, each of which can happen in any order. Heartbeats overlap.
`disconnect()` races the bind of a socket, the reconnect loop and its delay. A
send fails on one connection and acts on the next. Datagrams are lost,
duplicated, reordered and retransmitted under counters that wrap. What makes
each part correct:

* tunnel client: nobody waits for what cannot come, no socket leaks,
  `disconnect()` is final, a loss leads to a reconnection, the public calls
  return; telegrams reach the bus once and in order; inbound telegrams are
  emitted once and in order;
* serial queue: one task at a time, in order, a failure does not stop it;
* config node: a tunnel exactly while children are attached;
* secure session: wrapper sequence numbers never repeat or go back;
* TCP transport: the frames delivered are those in the byte stream, however it
  is cut;
* discovery: a search settles once, closes its socket, and reports each gateway once;
* watchdog: an alarm exactly for an address that is silent too long; alarm and
  recovery alternate;
* filters: dropping repeats hides no change; no window holds more than it may, and
  nothing is dropped from a window that is not full;
* state store and writer: what is stored, answered and on the bus is the latest value;
* schedule: fires once in each minute its expression names, and in no other;
* bus monitor: a stream, opened at any time, misses no telegram and repeats none;
* codecs and translating nodes: a value means the same at both ends of a connection;
* ETS import: the map is what the export says, whatever its layout.

`PROJECT.json` lists every component with its status, and every hazard with its
line and the properties that cover it.

## Modules

| Module | Models | Notes |
|---|---|---|
| `TunnelClient` | `tunnel.ts`, connection side | one record `tc` for the object; one action per callback or continuation |
| `Datagrams` | the UDP network and the counters | constants and assumptions that the next two share |
| `TunnelSend` | `tunnel.ts`, `sendCemi` and ACKs over UDP | with the gateway and the network |
| `TelegramDelivery` | what `sendCemi` promises | abstract specification, implemented by `TunnelSend` |
| `TunnelReceive` | `tunnel.ts`, inbound TUNNELLING_REQUESTs | with the gateway and the network |
| `SerialQueue` | `serialQueue.ts` | at the grain of microtasks |
| `ConfigNode` | `config.ts`, attach, detach and close | EXTENDS `TunnelClient` |
| `SecureSession` | `secureSession.ts` on `tcpTransport.ts` | with the gateway and the owner's calls |
| `Frames` | `core/knxipHeader.ts`, `knxipFrame.ts`, `hpai.ts`, `cri.ts`, `core/bodies/*` | operators on bytes |
| `Telegrams` | `core/address.ts`, `gaMatcher.ts`, `tpci.ts`, `apci.ts`, `cemi.ts`, `telegram.ts` | operators on bytes |
| `Datapoints` | `dpt/*` | encoder and decoder of every registered type |
| `Transports` | `tcpTransport.ts`, `udpTransport.ts` | the socket and the reassembly of frames |
| `Translators` | the nodes listener, ets, mqtt-publish, scene, color | operators from a message to what is sent |
| `Wire` | the layers above, composed; `_onFrame` and `_handleInboundTunnelling` of `tunnel.ts` | from the bytes a gateway writes to the messages of a flow |
| `MessageFilters` | `dedupe.ts`, `rateLimit.ts` | over `Clock`, with their histories |
| `Watchdog` | `watchdog.ts` | over `Clock` |
| `StateStore`, `Writer` | `stateStore.ts`, `writer.ts` | `Writer` over `Clock`, with its calls in flight |
| `Cron`, `Schedule` | `util/cron.ts`, `schedule.ts` | over `Clock`, with late timers |
| `BusMonitor` | `runtime/busMonitor.ts` and the monitor endpoints of `config.ts` | with the browser's view |
| `Discovery` | `io/discovery.ts` | one search |
| `EtsImport` | `csvParser.ts`, `dptNormalize.ts`, `projectMap.ts`, loading in `etsConfig.ts` | a text is a sequence of words and separators |
| `Clock` | `Date.now()` | the time they share |
| `Links`, `MCLinks` | — | the parts of `src/io` beside the connection (`TunnelSend`, `TunnelReceive`, `SecureSession`, `SerialQueue`, `Discovery`), in one run, and its values |
| `Parts`, `MCParts` | — | the wire and the nodes of a flow, in one run, and its values |
| `CounterArithmetic` | lemmas on `%`, and induction over numbers | used by the proofs of counters and sequences |
| `TunnelClient_proofs` | theorems about `TunnelClient` and `ConfigNode` | see Proofs |
| `TunnelSend_proofs`, `TunnelReceive_proofs`, `SecureSession_proofs` | theorems about the module named | see Proofs |
| `Io_proofs` | theorems about `SerialQueue`, `Transports` and `Discovery` | see Proofs |
| `FlowNodes_proofs` | theorems about `MessageFilters`, `Watchdog`, `StateStore`, `Writer`, `Schedule` and `BusMonitor` | see Proofs |
| `Wire_proofs` | theorems about `Frames`, `Telegrams`, `Datapoints`, `Translators` and `Wire` | see Proofs |

Expected values, histories and mutated forms stand beside the code's
definitions: a history variable (`received`, `passed`, `heard`, `asked`, `onBus`,
`latest`, ...) is written by the actions and read by no guard. A definition
whose comment calls it a mutated form is what a plausible slip in the code would
make of it; no specification uses one.

### TunnelClient

The fields of the class, and the position of every async function that can be
suspended, form the record `tc`. Its correspondence with the code:

| `tc` | code |
|---|---|
| `state`, `transport`, `channelId` | `_state`, `_transport`, `_channelId` |
| `sock`, `opening` | the sockets of the transports; the one local to a pending `_openTransport()` |
| `pendingAck` | `_pendingAck`; `orphan` when the function that took the slot has moved on |
| `pendingResponse` | `_pendingResponse`: the type awaited, who awaits it, through which transport |
| `heartbeatTimer`, `invalidSeqTimer`, `reconnectAbort` | the fields of those names |
| `loop` | `_reconnectPromise` with the position of the loop in `_onTunnelLost()` |
| `conn`, `beat`, `closer`, `sender` | positions in `connect()`, `_heartbeat()`, `disconnect()` and the running task of `sendCemi()` |

A method is an operator from a record to a record, so a handler that calls
another is their composition: `OnTunnelLost` runs up to the `await` inside the
loop's `connect()`, as the code does. Node runs all due microtasks before the
next callback. Functions whose promise has settled have the pc `rejected` or
`resumed`; actions for frames, timers, sockets and calls require `Quiet`, that
there is none. A continuation that is the only one due is part of the action
that woke it.

A `send()` on a closed TCP connection, or on a UDP socket without a network,
rejects at the next turn (`rejected`), while the slot taken for its answer stays taken (`owner` None, `orphan`) until
its timer: so the code behaves. A request that finds the slot taken sends
anyway and fails after its send (`busy`).

The options of the constructor are fields as well, `autoReconnect` and `overTcp`,
chosen by `Init` and never changed, so that one run covers each combination.

The gateway may do anything: answer, refuse, stay silent, send
DISCONNECT_REQUEST, close the TCP connection. A socket that is `dead` rejects what
is sent and delivers nothing: a TCP socket whose peer has closed, for good
(`PeerCloses`), or a UDP socket while the network is away (`BindCutOff`,
`NetworkFails`, `NetworkReturns`). `user` is the owner: `wants`
records the last call (`up` or `down`), and `habit` the situations in which this
owner calls `disconnect()`: the states of the client, with the reconnect loop
told apart as `reconnecting` (an attempt is under way) and `retrying` (the delay
between two attempts).

### TunnelSend and TunnelReceive

Here the sequence counters are real and the lifecycle is coarse: a connection
is lost for a failed send, or for no reason given (`TunnelLost`; `LinkLost` in
`TunnelReceive`). The network is
the set of all datagrams ever sent, from which any may be delivered at any time,
any number of times, or never, as long as it is alive: fewer than `Lifetime`
newer telegrams were sent since. The gateway follows the KNXnet/IP rule the
client is written for: it takes the number it expects, acknowledges the one
before again without forwarding, ignores others. `pos` counts a channel's
increments without wrapping and is used by no guard of the client. ACKs of an older
channel do not come: without the option `localPort` each connection has a port of
its own.

`TunnelSend` also keeps what nobody in the code remembers: `resolved`, the
telegrams whose promise resolved; `givenUp`, the telegram whose attempts failed
while its number stays the one to use next (0 if there is none); and `doubtful`,
the telegrams sent with such a number. `TelegramDelivery` promises order, one
delivery, and that a resolved telegram has been delivered unless it is doubtful.
In the refinement mapping `busy` is a running `sendCemi()` and `doubt` is
`givenUp # 0`.

`TunnelReceive` has the constant `EarlyRequests`: whether a TUNNELLING_REQUEST
can overtake the CONNECT_RESPONSE. With UDP it can.

### SerialQueue

Each promise of the chain (`next`, the caught tail, the one made by `finally`)
settles in a step of its own, so that the turn of a task is checked at each
microtask.

### ConfigNode

The owner of the client: `attach`, `detach` and close make the only calls of
`connect()` and `disconnect()`, without waiting. `AttachWhen` names the
situations in which a first child attaches; the habit those in which the last
one leaves. A child that leaves after the node was closed disconnects once more.

### SecureSession

One session, from the `bind()` of its owner to the end of its TCP connection.
The record `ss` joins the three objects involved:

| `ss` | code |
|---|---|
| `state`, `seq`, `key`, `keepalive`, `pending` | `_state`, `_sequenceId`, `_sessionKey`, `_keepaliveTimer`, `_pendingHandshake` |
| `sent` | the sequence ids of the wrappers handed to the socket |
| `closer` | where `close()` is suspended: on the write of its status, or on the end of the socket |
| `tcp` | the socket of `TcpTransport`; `ending` after `sock.end()` |
| `owner`, `listening` | the TunnelClient: its call of `bind()`, whether its listeners are attached |
| `crashed` | an `error` event without listener was thrown out of a callback |

`inbound` is what the gateway sent, in order. TCP cuts it anywhere: `TcpData(k)`
delivers a chunk that completes `k` frames, and `HandleFrame` takes them one
after the other with nothing in between, as the loop of `_onData()` does; an
awaiter that a frame resolved runs after the last one. The gateway follows the
protocol, but may refuse, be silent, end the session or close the connection at
any point. Keys and MACs are reduced to whether they agree.

### From bytes to messages

`Frames`, `Telegrams` and `Datapoints` are written as pairs: `XOut` is the encoder
and `XIn` the decoder of X, a byte string is a sequence of numbers, and a call that
throws is the empty set (a result is a set of at most one element). `Transports`
has the socket as the record `link`: `units` are what the peer writes, `arrived`
what has come completely, `rx` is `_rxBuf` and `out` what was emitted.
`OnData` takes a chunk of any of the sizes `ChunkSizes` and runs the loop of
`_onData()` to its end: `DrainStep` is one round of it, and `Drain` takes as many
rounds as there are bytes, of which those behind the last one change nothing.
`StreamsAssumption` says what the peer may send: each unit is either one frame by
its header (`Framed`) or stray bytes in which none starts (`Noise`), it is read as
its body or, without one, as no message, and it does not begin with the byte that
would complete a header with the end of stray ones before it. TLC evaluates this
for each stream of `Wire`, and `FramesRoundTrip` proves it of every message that
is written as a frame. `Wire` puts the layers together: what a
gateway encodes passes TCP or UDP in pieces, is decoded and handled by the
client, and translated by the nodes of a flow. `Absent` stands for what is null or
undefined in the code; that it is no number, datapoint type, payload or request is
`AbsentAssumption` and `NothingAssumption`. `Direct` telegrams (to an
individual address), unknown services, refused connections and stray bytes are
among the streams.

### Nodes with a clock

`now` counts seconds, or whatever unit the constants are given in; `Tick` advances
it by one and may be taken at any time, except that a timer is at most `MaxLate`
(watchdog) or `MaxDelay` (schedule) late. `Watchdog` holds per address when it was
`heard`, whether it is `alarmed`, and what was sent; `Schedule` holds the timer that is
due, the `fires` per minute of `Calendar`, and the sum of the delays so far: the code's
`setInterval` adds each delay to all later ticks, so the property is stated for
delays that sum up to less than a minute, and says that none fires wrongly in any
case. `Writer` has the calls of `groupValueWrite()` that were made and have not
returned, which end well or badly in any order.

### BusMonitor, Discovery, EtsImport

A viewer of the monitor is a stream with its `screen`, which `cleared` empties. A
response of `Discovery` may come at any time from the bind to the end of the
socket; errors too. In `EtsImport` a cell is a sequence of words, blanks, quotes
and delimiters; the words that are addresses, datapoint types or column titles
are given by constants together with what they mean, so that splitting,
quoting, detection of layout and delimiter, normalisation and the map are the
code's while spelling is not.

## Runs

Each `.cfg` is named after its run. All constants below are bounds of the runs,
not of the code, unless said otherwise.

| Run | Question |
|---|---|
| `ClientAnyUse` | a client used without restriction, over UDP and TCP, with and without reconnection: is anybody stranded on a promise nothing settles, and does an occupied slot name one who waits? |
| `ClientOrderly` | an owner that calls `connect()` at rest, in three habits of calling `disconnect()`: sockets, lifecycle, finality of `disconnect()`, reconnection, and do the public calls return? |
| `Node` | does the tunnel follow the children, and is a child served or the failure reported? |
| `Links` | sending: order, once, what a resolved promise means, refinement of `TelegramDelivery`; receiving: once and in order, and the gateway never goes on from what was not emitted; a secure session whose handshake fails, whose answers are late, whose connection breaks: are its ids unique, its timers stopped, its states in order, its promises settled, its socket given back?; the queue: order, exclusion and progress of tasks; a search that settles |
| `Parts` | frames whole; values across all layers; filters, watchdog, store, writer and schedule against their histories; streams without gaps; the map of a project |

**Bounds.** One caller and one closer may be active in the client beside the
loop, one send, and the heartbeats (two in `ClientAnyUse`, so that they overlap;
one in the others). The queue admits one send at a time by itself. Three
sockets are enough for the one in use, the one being bound by a caller and the
one being bound by the loop; `Quiet` keeps one free. One channel id is enough
because the client compares ids only with its own and foreign ids are ignored.
`HeartbeatMaxFailures` is 3 in the code; 2 has a first, a last and, in
`ClientAnyUse`, an overlapping attempt. Two children in `Node` have a first and a last, and two
closers let a child that leaves after the close call `disconnect()` beside it.
`SeqMod` is 256 in the code; 4 with five telegrams and `Lifetime` 2 makes the
counters wrap, and the proofs cover 256. Two channels show what a reconnection
does. Four tasks give the queue one that runs, two that wait and one submitted
late. For the session three frames in flight make a chunk with a DISCONNECT_REQUEST or an
answer and what follows it; `MaxSequenceId` is 2^48 - 1 in the code, and 3 puts the
end of the counter within reach of `MaxSent`, beyond which neither the owner nor
the keepalive sends.

`Links` and `Parts` pick one of their components at the start and run that one alone:
they share no variable but the clock of `Parts`, so nothing is lost against running them one by
one, and nothing is gained from running them interleaved. `Horizon` stops the clock of each: two
windows of a filter, three timeouts of the watchdog, a window of the writer on each side of
a write, five minutes of three units for a schedule (`MaxTime` is the largest of them). A window
of 2 has an inside, a border and an outside; two topics and three
contents, one of them in two key orders, tell a change from a repeat. The store
has caps 0 (none), 1 and 2 with three notations of addresses, the writer at most `MaxPending`
calls in flight, the ring `Capacity` 2 with `MaxRecords` 3 telegrams and two viewers. A
search in `Links` gets `MaxResponses` 3 answers from two gateways. `Calendar` has six minutes at the turn of a month, which makes day of
month, month and day of week change with the hour; the minutes each expression names
are written out by hand. `Parts` has no expression of which `cron.ts` says one thing
and does another (see Disagreements). `ChunkSizes` around 6, the
length of a header, cut a frame before, in and behind its header. `Values` in `Wire` has for
each datapoint type its borders and a value inside.

**Restrictions of the passing runs.** The client has defects, and a property
one of them breaks is stated for the owners that avoid it, by a premise on the
habit in the property itself:

| Premise | Leaves out | Because of |
|---|---|---|
| `Orderly` (`Lifecycle`, the habits of `Node`) | an owner that disconnects during the first bind | a zombie tunnel, `tunnel.ts:491` |
| no `retrying` (`DisconnectStopsAttempts`, the habits of `Node`) | `disconnect()` in the delay between two attempts | its return at `tunnel.ts:344` |
| only `connected` (`LossOfQuietOwnerStartsReconnect`, `ServedOrReported`) | `disconnect()` while an attempt is under way | its return at `tunnel.ts:356` |
| `~autoReconnect` (`Lifecycle`) | a send that outlives its connection and tears down the next one | `tunnel.ts:418` |
| `~autoReconnect`, or `GatewayFairness` (`SendSettles`) | a send that waits for a loop no gateway answers | `tunnel.ts:387` |

Constants do the same for all properties of a run: `ConnectAnyTime = FALSE`
leaves out a `connect()` while remains of an earlier connection are pending,
`StrayRequests = FALSE` the out-of-order timer armed before the connection is up,
`AttachWhen` a first attach while the tunnel is disconnecting or between two attempts, and
`EarlyRequests = FALSE` a request that overtakes the CONNECT_RESPONSE.
`ClientAnyUse` uses none of these. Removing a premise, or setting the constant,
and running the run again shows each of the counterexamples.

`CHECK_DEADLOCK FALSE` is set where the system may stop: a queue whose tasks
are done, a tunnel at its bound of telegrams and channels, a closed node or
session, and in
`ClientAnyUse` the client whose pool of sockets is used up by concurrent calls.
`ClientOrderly` checks deadlock.

**Fairness.** `ClientFairness` says that timers that stay armed fire, that
binds, sends and closes report, and that continuations run: Node's event loop
polls each phase on each turn. It is strong for timers and sockets, since a due
continuation disables them in the model for an instant, and says nothing of the
gateway or of the owner. `ClientOrderly` and `Node` assume it. `GatewayFairness`
says that sockets bind, CONNECT_REQUESTs go out and are accepted again and again; no
specification assumes it, it is the premise of the three properties that need a
gateway: `Recovers`, `ServedOrReported` and the reconnecting half of `SendSettles`.
`SerialQueue` assumes that promise reactions run and tasks settle: its one user is
`sendCemi()`, for which that is `SendSettles`. `Discovery` assumes that a bind
reports success or failure and that the timer fires; nothing is assumed of gateways.
`SessionFairness` says that connecting comes to an end (it has a timeout), that
the handshake's timer fires, and that the socket reports what was written and
when it is destroyed; nothing is assumed of the gateway.

## Disagreements between code and documents

Runs with `expect: violation`; each trace is short and follows the code. The
lines quoted are in `PROJECT.json` under `findings`.

| Run | What happens |
|---|---|
| `SendViolation` | a third attempt without ACK keeps its number; the next telegram is taken for its duplicate, acknowledged and dropped |
| `QueueViolation` | `finally()` leaves a rejected promise nobody handles |
| `AttachViolation` | a first attach while disconnecting gets no tunnel |
| `NodeViolation` | a last detach waits for the reconnect loop, a child attaches between two attempts, and the resumed `disconnect()` takes the tunnel down under it |
| `ScheduleViolation` | the step of `1/2` is ignored (`cron.ts:73`): the schedule fires in minute 1 only |
| `SecureBindViolation` | a handshake that fails leaves its TCP connection open, and `TunnelClient` has no reference to close it with |
| `SecureErrorViolation` | a session emits `error` after its owner removed its listeners: Node throws it out of the socket's callback |

Six more show when a premise or a constant of the section above is changed:

* `disconnect()` during a failing attempt leaves `_reconnectAbort` set, and the
  next loss is not repaired (`tunnel.ts:356`; premise of
  `LossOfQuietOwnerStartsReconnect`);
* a last detach in the retry delay is ignored, and the loop connects a tunnel
  nobody uses (`tunnel.ts:344`; `{"connected", "retrying"}` among the habits of `Node`);
* a request before the CONNECT_RESPONSE is counted, then the counter is reset,
  and its retransmission is emitted again (`tunnel.ts:693`, 337;
  `EarlyRequests = TRUE`);
* a send of the lost connection tears down the one being opened
  (`tunnel.ts:418`, 434; premise of `Lifecycle`);
* a last detach during the first bind leaves a tunnel nobody uses
  (`tunnel.ts:491`; `"connecting"` among the habits of `Node`);
* `sendCemi()` never returns while the gateway is silent (`tunnel.ts:387`; premise
  of `SendSettles`).

In the following the models do what the code does, and a text says otherwise.

* `cron.ts:16-17` and 115, and `schedule.html:180`, accept 7 as Sunday. The code
  replaces a 7 that touches no digit and no dash: `5-7` is refused, and in `*/7` the
  step becomes 0, which is refused too.
* `watchdog.ts:161-163` says that an address never heard alarms when silent past the
  timeout since reset or seed. Without the seed the code counts from the epoch
  (`lastSeen ?? 0`), so the first check raises the alarm. The help text
  (`watchdog.html:145-147`) says just that, "turn it off when you want to alarm
  immediately on GAs that haven't been seen yet", and `AlarmsFollowSilence` follows it.
* `dpt16.ts:2` says that 16.000 drops characters above 127 when it encodes. It sends
  them as bytes of Latin-1, and its decoder takes the seven lower bits. `Wire` has no
  such character among its values of 16.000.

## Proofs

Checked by TLAPS for all values of the constants that satisfy the named
assumptions. Every module that is proved about declares its own
(`OptionsAssumption`, `NamesAssumption`, `SizesAssumption`, `FilterAssumption`,
...): that bounds are numbers, that sets of names are disjoint. TLC evaluates
them in each run. A theorem that needs more says so in its `ASSUME`; those
hypotheses are named below with what they leave out.

**Tunnel client** (`TunnelClient_proofs`), for every set of callers, closers,
heartbeats and sockets. The proof has two halves.

The first is of a client used without restriction, as in `ClientAnyUse`:
`ClientTypes`, `ClientStrandsNobody`, `ClientSlotOwnerWaits`, all from
`ClientStaysGood`. Neither `NobodyStranded` nor `SlotOwnerWaits` is inductive. A
CONNECT_RESPONSE is matched by its type only, so it must be known that a slot of
that type belongs to a `connect()` (`OwnerOfItsKind`); the return of a bind
touches the socket of one `connect()` only if no two share it and the transport
is none of theirs (`BindsAreOwned`); and who waits for the loop is woken when
the loop's `connect()` ends, so the loop must be in an attempt exactly while
that runs (`LoopConnects`). `Good` has these and the two properties. `Room`
concerns the model's pool of sockets: a due continuation finds one free. Each
method is an operator from a record to a record, so each has lemmas of its own:
what it changes (`Only`), and that it preserves `Good`. Two methods are entered
in the middle of another, when `Good` is suspended for the caller: `Returning`
and `Leaving` say what is left of it.

The second half is of the orderly owner of `ClientOrderly`, for which
`Restrained` says that `ConnectAnyTime` and `StrayRequests` are FALSE:
`ClientOwnsItsSockets`, `ConnectedClientIsWhole`,
`DisconnectIsFinalUnlessRetrying`, `LifecycleHolds`, `LossStartsReconnect`.
`Calm` is what such a client adds to `Good`: a `connect()` of the owner is alone
(`FreshConnect`), a connected client is whole and no loop runs (`UpWhole`), an
open socket is the transport, which is forgotten before it is closed
(`OneTransport`), and a `disconnect()` that closes has the client for itself
(`CloseAlone`). `ChannelHeld` stands apart because `_onTunnelLost()` clears the
channel before the state. What happens after `disconnect()` needs `HeadsDown`: a
client its owner wants down is down, or some `disconnect()` is on its way and
has told the loop to stop; and what happens at a loss needs `AbortOwned`: the
abort flag belongs to a `disconnect()` that is closing. `Keeps` and
`KeepsCourse` are what one step preserves and where it may lead; the action
properties follow from them. The premises on the habit are in the properties and
those parts of `OrderlyInv` that need them. `SocketsOwned` and `ConnectedIsWhole` have
none, and `ClientOrderly` checks them with an owner that also disconnects during the
first bind; they are proved for an `Orderly` one, because `Calm` does not hold of the
others.

**Config node** (`TunnelClient_proofs`). `NodeIsAnOwner`: whatever its children
do, a node is one of the owners the client is specified for (`NodeSpec =>
Spec`), so every theorem about the client holds of the client of a node.
`NodeInv` relates the two: without children the node wants no tunnel, with
children no `disconnect()` is running. From it and the client's invariants follows
`DetachedNodeIsDown`, under `Restrained` and `LeavesInTime`, that no habit has the last child leave during the first bind or
between two attempts: the two places where `disconnect()` fails (see
Restrictions).

**Send** (`TunnelSend_proofs`). Both transmission paths assume
`LifetimeAssumption`: a datagram does not outlive the time in which the counter
comes round (`Lifetime + 1 < SeqMod`). This is what a wrapping counter needs of
any network; with 256 values and one telegram at a time, each taking up to
seconds when frames are lost, it is a mild one. The results are `TypeCorrect`,
`InOrder`, `Resolved`, `Reliable`, `Implements`. `BusInOrder` is not inductive:
a delayed request could be taken for a newer one. The inductive invariant `IInv`
adds that each datagram carries the residue of its position (`RequestInv`), that
positions of a channel grow no faster than telegrams (`Spread`), so that a
datagram still alive is less than one turn behind the gateway (`GatewayNear`)
and the client (`ClientNear`), and that what is on the bus was sent (`BusInv`)
and acknowledged only when there (`AckInv`). `ModInjective` then turns equal
residues into equal positions. The third attempt of a send may give a telegram
up and leave its number to the next (`tunnel.ts:433`); a second invariant on top
of the first, `Unique`, says that a number nobody was given up with belongs to
one telegram, so that an ACK which matches speaks of the telegram being sent.
`Resolved` and `Implements` follow, with and without reconnection. Without it no
send has a third attempt (`NoThirdAttempt`), nothing is doubtful, and `Reliable`
says that every resolved telegram is on the bus: `AckMeansOnBus`, which
`SendViolation` refutes otherwise.

**Receive** (`TunnelReceive_proofs`): `TypeCorrect`, `ExactlyOnce`,
`NothingLost`. The inductive invariant says that the client's count equals the
number emitted on the channel, that the gateway is at that count or one behind,
and that live requests are near it, so that a residue decides between new,
duplicate and out of order. They assume `~EarlyRequests`: a request that
overtakes the CONNECT_RESPONSE may be emitted twice.

**Secure session** (`SecureSession_proofs`): `TypeCorrect`, `NoIdTwice`,
`NoStrayKeepalive`, `Onward`, for every size of the counter. `Good` says of a
session that its ids grow and lie below the next one, that an armed keepalive
belongs to an authenticated session on a live socket (`Armed`), and that before
the socket is connected nothing has begun (`Begun`); with `Released`, that an
owner who removed its listeners has called `close()`, it is inductive. One lemma
per method (`WrapGood`, `CloseGood`, `FailHandshakeGood`, ...) says that the
method preserves `Good` and where it moves the state, one lemma per group of
actions composes them. `Released` is what keeps the keepalive of a session from
outliving an exception thrown by an unheard `error`. For the lifecycle,
`Accepted` adds that a SESSION_STATUS of success is on the way only after the
gateway's decision.

**Serial queue** (`Io_proofs`): `Serial`, that tasks run one at a time
and in the order of their submission, for any number of tasks. The inductive
invariant says that the started tasks are the first that were submitted and all
but the last of them have let the next one go (`InOrder`), and that the queue of
microtasks holds at most one job that starts a task and one that lets a task go,
each of them for the right task (`JobsRight`). Without the second part two tasks
could start at once.

**Transports** (`Io_proofs`): `FramesAreWhole`, that every frame which has arrived
is emitted once, whole and in its order, and nothing else is, for every stream,
every set of chunk sizes and any loss of datagrams, and however and whenever the
socket ends. `FramesArriveWhole` is not inductive over TCP, because it does not say
what is in the buffer. `LinkInv` does: of the n bytes that have come, the first p
are read, the buffer holds the others, the first p bytes are whole units and
perhaps the beginning of stray bytes (`ReadTo`), and what was emitted agrees with
the units that end there (`ReadAs`). One round of the loop keeps this for some
larger p or is its end (`RoundCases`: stray bytes go one by one, a frame goes as it
was sent, a part of a frame stays). After as many rounds as the buffer had bytes no
complete unit is left in it (`AllIsRead`), so the units that have arrived are those
that were read. That `Drain`'s function exists and follows its rounds is
`RecursionExists` in `CounterArithmetic`, an induction over the number of rounds.

**Discovery** (`Io_proofs`): `AnswersAreFirst`, that a search reports the first
answer of each endpoint in the order of their arrival, and `SettlesForGood`, that
its promise keeps the result it settled with and that its socket is then closed.
They are the safety in `DiscoverySettles`, which the run checks.

**From bytes to messages** (`Wire_proofs`), for every value of every field:

* `FramesRoundTrip`: a message of any of the sixteen services is read back as
  itself, and is a unit as `StreamsAssumption` wants it. `Messages` has those whose
  fields are in their ranges and whose frame's length is a word (`Fits`). It leaves
  out a CONNECT_RESPONSE with an error: its length is counted as if its endpoint
  were there, while `toKnx()` writes two bytes, and only a gateway sends one. Each
  structure has two lemmas, how many bytes it has and that it is read back wherever
  it stands in others (`StandsAt`); a body is read part by part.
* `TelegramsRoundTrip`: a cEMI frame is, for all flags, addresses and kinds of TPCI
  that go together, with any APDU. TPCI and APDU share a byte, and a value below 64
  shares the last one of the APDU's code (`SplitIs`).
* `AddressesRoundTrip` (`SameAddress`): an address is the same in each of its
  notations, and a pattern with a wildcard finds it and not the next one.
* `ValuesRoundTrip`: for each registered datapoint type and each value of it,
  what is encoded is decoded as a value as near as the type allows (`Faithful`), and
  that value is stable: it is encoded again and decoded as itself. `DptValues` names
  the values: integers of all widths byte by byte, every single-precision number
  but NaN and the infinities, dates and times with all fields in their ranges, the
  whole range of the two-byte float in 400ths, percent and degrees in 255ths,
  strings that do not end in zeros (ASCII where the type is), UTF-8 of up to 253
  bytes without zeros. For the two-byte float (`FloatReads`) the exponent is the least one that
  holds the value, so the mantissa is large unless the exponent is 0
  (`LargeMantissa`), which bounds the error by half of its last bit; and what was
  decoded is a mantissa times a power of two, which is encoded without rounding
  (`FloatAgain`).
* `ScenesAndColorsAreSent`: for each mode of `scene.ts` and `color.ts`, what the node
  sends is one telegram whose value decodes to the scene number and learn flag, or to
  the channels, that were asked for; a number or channel out of range sends nothing.
* `ValuesAreHeard`: `ValuesArrive` for every stream whose units are messages without
  a telegram, or telegrams that carry nothing or any value of any registered type
  (`Carried`). From `LinkInv` the messages arrive, from `TelegramsRoundTrip` they
  become the telegrams that were sent, and `ValueIsShown` follows a value through
  `listener.ts`, `ets.ts` and `mqttPublish.ts`, with and without an entry of the
  project. Every stream of `Parts` is one of these.

They assume `AbsentAssumption` and `NothingAssumption`, nothing else.

**Flow nodes** (`FlowNodes_proofs`), each from the specification of one node
(`DedupeSpec`, `LimiterSpec`, ...), whose actions are those that `Parts` runs.

* dedupe, `ChangesPass`: no change is dropped. A slot that is used holds the
  payload that passed last under its key. Assumes `NoDates`: `canon()`
  (`dedupe.ts:53`) writes every Date as `{}`, so two different Dates are equal
  for the node, and the theorem fails with them. Windows and payloads may be
  anything else.
* watchdog, `AlarmsAreRight`, for every timeout, interval and lateness. A check
  is due at most an interval ahead and late by at most `MaxLate` (`TimerRuns`),
  an address not in alarm had not been silent too long at the last check
  (`Timely`), and an address is in alarm when the number of its messages is odd
  (`InTurn`).
* rate-limit, `RateIsKept`. The node counts what is in its bucket, the property
  what has passed. The bucket is the end of what passed, and everything before
  it is older than the window; and two messages that passed `MaxPerWindow` apart
  in the order are further apart in time than the window (`Spread`), which
  bounds every window at once, not only the last.
* state store, `LatestIsHeld`. The entries are a map: no key twice (`Distinct`),
  each with the latest value of its address (`Latest`), within the cap. Setting,
  deleting and evicting are lemmas on sequences (`PutSetsOne`,
  `WithoutTakesOne`, `RoomTakesTheOldest`); that there are as many keys as
  entries is a bijection.
* writer, `WritesArrive`. The state remembers a write before it is made. So
  among the calls in flight to an address the last carries what was asked last,
  and with none in flight the bus has it, or the call failed; a repeat is
  dropped only if it equals what was asked last, in whatever form it was given.
  Assumes `ApdusAreGiven`: a payload that arrives as an APDU value is one.
* schedule, `MinutesFire`. A timer that is due at the start of minute n, plus
  the delays so far, fires in minute n as long as the delays are below a minute
  in sum, so that all minutes before it were decided and none after it. Assumes
  `MinutesAreNamed`: `named`, with which the property compares, is the set of
  minutes of the calendar that match the expression; and `CalendarIsLong`: the
  calendar has every minute that is reached. (That `CronMatches` itself reads an
  expression rightly is checked by `Parts`, where `named` is written out by
  hand.)
* bus monitor, `StreamsFollow`. The records of a screen are numbered without a
  gap up to the last telegram, and the buffer is the end of every open screen
  (`Follows`). Appending to both and then cutting the buffer to its capacity
  keeps this, because the end of an end is an end. The second half of
  `StreamExact`, that a value shown stands for its raw bytes, assumes
  `TrafficReencodes`, that the codecs encode what they decoded as it was: the
  theorem says that records and streams do not mix up values, and the codecs
  have theorems of their own (`ValuesRoundTrip`).

The values of `Parts` satisfy each of these hypotheses.

**Left to TLC.**

* All liveness: `DisconnectSettles`, `ConnectSettles`, `SendSettles`,
  `Recovers`, `ServedOrReported`, `BindSettles`, `TeardownEndsConnection`,
  `EveryTaskSettles`, `DiscoverySettles`. It rests on fairness, which TLAPS does
  not reason about.
* `ProjectMapMatches`: that the parser finds the rows which were written is an
  induction over a text and its cells, cut by quotes and delimiters that are
  themselves counted in the text. TLC evaluates it on sample exports that vary
  layout, quoting and delimiter.

## Not modelled

* `secure/crypto.ts`: AES-CCM, X25519 and PBKDF2; a session's keys either agree or not.
* `ets/knxproj.ts`, `ets/winzipAes.ts`: reading a `.knxproj` archive (zip, AES, XML), one
  sequential pass over bytes that keeps no state. What it yields, the list of
  entries, is the input of `LoadParsed`.
* The endpoints of `etsConfig.ts` (upload, secure interfaces) and the diagnostics
  endpoint of `config.ts`: they answer from what they are given and change nothing.
* The nodes status (repeats the client's events) and ets-inject (sends what a
  button holds), and the text of mqtt topics and templates (`util/template.ts`).
* A tunnel with a fixed `localPort` (`config.ts:244-246`): its connections share a
  port, and `_handleAck()` checks no channel id (`tunnel.ts:667-690`), so that a late ACK
  of the old channel would be matched by its number alone.
* Logging, node status texts, diagnostics counters and the editor's pages.
* In the codecs, the conversion between a JavaScript number and the bytes of an
  integer or a single: integers are given byte by byte with the sign in the first,
  singles by their sign, exponent and fraction, and numbers between two singles are
  left out.

## Limits of the code met on the way

Behaviour that no document excludes, or that an input outside the runs has. Each
was left out of a run, or is part of it, as said.

* `csvParser.ts:131` takes a first row for a header when a cell contains `ga`, in
  `Garage` too; an export without a header is then read from the wrong column. No
  sample of `MCParts` has such a word.
* `tcpTransport.ts:119`: stray bytes that look like the beginning of a header with
  a large length make the parser wait for that length. The stray bytes of the
  streams do not.
* `tunnel.ts:541`: when the send of a request rejects, nobody awaits the promise of
  its slot any more, which the slot's timer rejects later: an unhandled rejection.
* `udpTransport.ts`: `close()` while the socket is binding leaves `bind()` pending.
* `etsConfig.ts:178`: the upload endpoint does not answer a request whose body was
  consumed and has no `fileBase64`.
* `writer.ts:145` remembers a write before it is made: a repetition after a failure is dropped
  inside the window. `LastWriteWins` leaves out addresses whose last write failed.
* `schedule.ts:137`: delays of `setInterval` add up, so the comment at 126-128 (fires in
  the first second of its minute) holds for the first tick only.
* `stateStore.ts:130` evicts the key that was inserted first, also when it was
  written last.
* `dedupe.ts:53`: all Dates are equal. `dedupe.ts:99` and `stateStore.ts:133` keep references
  to payloads, which a flow may change afterwards; payloads are values in the models.
* `Date.now()` may go back when the clock is set; `Clock` only advances.
* `dpt10.ts`, `dpt11.ts`, `dpt19.ts`: a field that is missing passes the range checks
  and is sent as 0.
* `projectMap.ts:73` counts an address that is repeated twice in `withDpt`.
