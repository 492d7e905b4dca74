# A TLA+ model of sio

sio is a Go library for event-driven WebSocket servers, in three layers:

* package `sio` (`server.go`, `socket.go`, `hub.go`): a socket.io-like server
  with rooms, broadcasts and an optional backend that joins several servers;
* package `websocket` (`websocket/websocket.go`): an implementation of the
  WebSocket protocol with keep-alive, rooms and custom events;
* package `chat` (`chat/*.go`): a chat server with rooms, sessions, a database
  and an HTTP API, built on package `websocket`.

The model is about what tests of such a program hardly reach: the order in
which goroutines take their steps. Messages are reduced to what distinguishes
them for a property, control flow is kept step by step.

## Inventory

| Component | State | Operations | Interacts with |
|---|---|---|---|
| hub (`hub.go`) | sockets, rooms and their members, the backend | one goroutine, `listen`, serves ten channels | sockets and server send to it over unbuffered channels; it writes to the sockets itself; one goroutine per message for the backend |
| Socket (`socket.go`) | closed flag under `l`, its rooms under `roomsl`, ticker | Join, Leave, LeaveAll, Close, Emit, To..., Broadcast..., Ping goroutine | hub; called by its loop, by event handlers, by Shutdown |
| Server (`server.go`) | events and callbacks under `l` | `loop` per connection, To..., Broadcast..., SocketList, RoomSocketList, Shutdown | reads the hub's maps directly; asks it for the list of sockets |
| buffer pool (`internal/bpool`) | a `sync.Pool` and size statistics | Get, Put, calibrate | Emit and Ping |
| Adapter (`adapter.go`; `adapters/redis.go` is commented out) | that of the application | ...ToBackend, ...FromBackend, Shutdown | hub |
| websocket.Conn | closed flag under `mu`, timers, pong channel, stop channel | reader, keep-alive, WriteMessage, Close | net.Conn, the handlers of its user |
| websocket framing | a `bufio.Writer` without a lock, the message read so far | WriteMessage, WriteFragmented, pings, writeFrame; readFrame, ReadMessage | net.Conn |
| websocket.Server, websocket.Client | listener and running flag under `mu`, stop channel, rooms under `roomsMu` | Listen, Stop, upgrade, JoinRoom, LeaveRoom, BroadcastToRoom; Connect | Conn |
| chat.Server | clients, rooms, typing clients, rate limiters, pending uploads, each under its own mutex | a handler per message type, disconnect, typing sweep | Conn, database, Redis, HTTP API |
| chat database | rooms, members, messages, ... | InMemoryDB without locks, or PostgreSQL | chat.Server, HTTP API |

What is hard, and what makes each part correct:

* **hub and sockets.** The membership is kept twice, by the hub and by each
  socket, by different goroutines without a common lock; a channel send returns
  before the hub has acted. The copies must agree, rooms must disappear with
  their last member, a message must reach the members of one instant, Close must
  do its work once whoever calls it, and nobody may wait for ever for the hub,
  which itself waits for the peers.
* **buffers.** A slice must not be read after its buffer went back to the pool.
* **websocket.Conn.** Application, keep-alive and reader may all close it: it
  must be closed once, its goroutines must end, a silent peer must be found out,
  and the user must be told.
* **websocket framing.** Several goroutines write frames through one buffer; a
  message may come in fragments, with control frames between them; a length
  field is as wide as a machine word. Messages must arrive whole, with their
  type and in order, and no frame may make the reader exceed its limits.
* **websocket.Server.** The server is stopped, and started again, while it
  accepts, shakes hands and broadcasts. Everybody who waits must be let go; a
  broadcast must reach who stays in the room, although it ranges over a map
  that others write.
* **chat messages.** A message is saved and then broadcast, a join enters and
  then reads the history, an upload is metadata and then bytes: nothing may fall
  between the two halves, whichever of the steps fails. The rate limiter must
  bound what is handled and refuse nobody else.
* **chat rooms.** A room may be created, emptied and dropped while others hold a
  pointer to it; a disconnect may run beside the reader it disconnects, and
  twice. Members must be reachable and findable, a client that was disconnected
  must leave nothing behind, private rooms must stay private, handlers must end.

`PROJECT.json` lists the hazards line by line, with the properties that cover
them, and the source lines behind every definition.

## Modules

| Module | What it is |
|---|---|
| `RoomService` | abstract: what the hub promises its callers |
| `SioHub` | hub, sockets, loops, Ping, handlers, Shutdown, backend |
| `SioHubProofs`, `SioCloseProofs` | theorems about `SioHub`; `SioCloseProofs` holds the refinement too |
| `EmitBuffer`, `EmitBufferProofs` | buffers of Emit and Ping, and theorems |
| `ChatRooms`, `ChatRoomsProofs` | rooms, handlers, disconnects and typing sweep of the chat server, and theorems |
| `ChatMessages`, `ChatMessagesProofs` | messages, history, uploads and rate limiter of the chat server, and theorems |
| `WsConn`, `WsConnProofs` | one websocket connection, and theorems |
| `WsFrames`, `WsFramesProofs` | frames and messages in one direction of a connection, and theorems |
| `WsServer`, `WsServerProofs` | listener, handshake, client and rooms of package `websocket`, and theorems |
| `MCSioHub`, `MCEmitBuffer`, `MCChatRooms`, `MCChatMessages` | symmetry sets, constants and workloads for TLC (the others need none) |

**SioHub.** A goroutine is a program counter `pc[t]`: the loop of a connection
is named by its socket, `Handlers` run application code (event handlers and
callbacks run by `loop`, and goroutines of the application), `Stoppers` call
Shutdown. A rendezvous with the hub is a joint step (`HubRecv...`) that puts the
request in the hub's hand (`hpc`, `hs`, `hr`) and lets the sender go on; what
`listen` does with it is the next step of the hub (`HubJoin`, `HubLeave`, ...).
Who holds `roomsl` or `l` follows from the program counters. Event dispatch in
`loop` is the choice of a call by a handler: a handler is a goroutine of its own
here, which includes the orders of a handler run by the loop. Errors of
`ws.Close` and of `onDisconnectFunc`, after which Close gives up, are steps.
Reads of the hub's maps by SocketList and RoomSocketList, and the range of
LeaveAll, are unsynchronised in the code: while one overlaps with a write the
Go runtime may abort (`RaceAbort`, after which nothing happens), or the access
goes through.

**EmitBuffer.** A message has two halves, each filled and written in a step of
its own, so that a write can see a buffer half overwritten. `FillData` of an
emitter includes the deferred `Put` of `emitData`; Ping's deferred `Put`s run
when it returns.

**ChatRooms.** A `*Room` has an identity (`Objects`), because goroutines hold
pointers to rooms that are no longer in `s.rooms`. The steps of a join are those
of the code: lookup, database, create, permission, enter, own, database,
history, broadcast, answer. The other text messages come in two shapes: posts
(chat messages, thread replies, files, media: whole room, then an
acknowledgment) and relays (receipts, calls, signals, recordings: the others in
the room). A range over a Go map that is changed meanwhile may
yield or skip what is added: the ranges of `broadcastToRoom` and
`handleClientDisconnect` choose. A disconnect is run by the reader at its end,
and by a goroutine (`Droppers`) after any failed write or failed ping. A reader
whose connection this end has closed, as the keep-alive does after a pong
timeout, ends without one (`ReaderLost`): such a client is "lost", not "gone",
and stays in `s.clients`, its rooms and the limiters. User IDs and the IDs of DM
rooms are sequences of the parts between underscores: `"user_1"` is
`<<"user", "1">>`. The server only gives out IDs of two parts (`ServerMade`), a
DM room's ID is the concatenation of two of them, and `checkRoomPermission`
compares its parts one by one (`Split`) with the client's whole ID, while
`CreateDMRoom` makes the two whole IDs members. `invited` records whom the API
ever made a member. The
sweep holds `typingMu` throughout and `clientsMu` while it broadcasts; the
model has the three mutexes only as guards, since no other handler keeps one
over a step. The database is InMemoryDB.

**WsConn.** Reader, keep-alive and application goroutines; a frame is its kind.
`HandlerCloses` says whether `onClose` closes the connection (the default
handler) or not (the one of package `chat`); `Deadlines` whether
`HandshakeTimeout` is set, which the code also uses for reads and writes. The
timers behave as of Go 1.24 (`go.mod`): nothing stale is received after Stop.

**WsFrames.** A message is a sequence of units that say whose they are; `WriteFragmented`
cuts it up, `writeFrame` puts a frame into the buffer (`Fill`) and flushes it
(`Flush`). When two goroutines are between the two at once the buffer is the
object of a data race (`Race`): from then on the reader may find any frame
(`wild`), as it may from a peer that is not this library (`ForeignPeer`). The
widths of the length fields are constants, small in the run: the conversion to a
signed integer still wraps at the width. `ReadMessage` appends a payload to what
it has before it looks at the size: a message that is too large is in the buffer
when the connection ends. `mixed` remembers that a whole message
or a ping came between the fragments of another, which nothing in the code
prevents. Masking, which the reader undoes, and compression are left out.

**WsServer.** A listener is the number of the Listen that made it;
`acceptConnections` looks at `stopCh`, loads `s.listener` and accepts, in three
steps. A Listen that fails leaves `s.listener` nil (`ListenFails`); an acceptor
of an earlier Listen that loads it then panics (`AccLoadNil`). Stop panics when
it closes `stopCh` again (`StopPanics`). The maps of the rooms have identities, as a broadcast may range over one
that has left `s.rooms`. `must` and `seen` say what the range has to yield and
has yielded; a map that is written while it is ranged over may end the process
(`RaceAbort`). `member`, `stay`, `ever` and `sent` are there for the properties.

**ChatMessages.** A handler gives up the floor between writing a file, saving,
looking the room up and each write of its broadcast; a join between entering,
`client.Rooms` and reading the history. Every write may fail, which starts a
disconnect, and every save may. A message has an ID: the server's (`Generated`)
or, in a text message, any that its client supplies (`Supplied`: one of its own
making, or that of a message that is there), and `SaveMessage` replaces what the
ID stood for. `saved` has every message that was ever saved, for the properties.
The rooms are public ones that always exist:
their creation and removal is the subject of `ChatRooms`. A `Workload` bounds a
behaviour (kinds and numbers of messages, failing writes, clock); each behaviour
has one of the set.

## Runs

Passing runs (TLC, all interleavings of the instance):

| Run | Instance | Shows |
|---|---|---|
| `rooms` | 2 sockets, 1 application room, 1 handler that joins, leaves, sends | `RoomsAgree`, `NoEmptyRoom`, `RegistryAgrees`; `ImplementsRoomService`: a refinement of `RoomService` where membership is what the *sockets* hold and receivers what the *hub* computes |
| `calls` | 1 socket, 2 handlers, all socket calls, ticks, lists | the same agreement, and `CloseOnce`, with every call beside every other and Close failing anywhere |
| `progress` | 1 socket, 1 sender, 1 Shutdown, a backend; fair | `CallsReturn`, `HubResponsive`, `LoopExits`, `ShutdownCloses`, and `CallTyped`: a request names its socket and its room at every step, and the hub has served every receiver when it takes the next |
| `emit_buffer` | 2 emitters, 1 Ping with 2 ticks, 3 buffers | `OwnedByOne`, `PingIntact` |
| `chat_join` | 2 clients of 1 user, a group, a DM room, relayed messages, API, failing Redis | `MembersHaveRoom`, `PrivateRooms`, types and no nil `*Room` |
| `chat_end` | 1 client, 1 disconnect, pong timeouts, the sweep, a group room; fair | `HandlersEnd`, `GoneLeavesNoTrace` |
| `ws_conn` | reader, keep-alive, 1 application goroutine; fair, no deadlines | `ClosedOnce`, `EndIsReported`, `ReaderEnds`, `DeadDetected`, `KeepAliveEnds` |
| `ws_server` | 2 Listens that may fail, 2 connections, 1 room with 2 maps, 1 broadcaster; fair | `BroadcastReaches`, `AcceptorEnds`, `HandshakeEnds`, `ConnectReturns` |
| `ws_frames` | 2 writers, the keep-alive, messages of 0, 3 and 4 units, fragments of 1 and 2; fair | `MessagesIntact`, `OnlyLimitsBreak`, `LimitsHold`, `SentArrives` |
| `chat_messages` | 2 clients, an HTTP upload, 1 room, 1 message ID of the clients' making, 8 workloads of 3 to 5 messages | `JoinedMissNothing`, `PairedFresh`, `SharedIsKept`, `RateBound`, `RefusedWithCause` |

The bounds are the smallest at which the interesting cases occur. Two sockets
are needed for an Except list and for a room that outlives a member; two
handlers for a call that overtakes another on the same socket (the loop and a
Shutdown are further callers); two clients for the double creation of a room,
and two `*Room`s for the two that they then hold; one dropper for a disconnect
beside the reader's own. One user suffices in `chat_join`: all that a room asks
of a user is whether it is a member, and the one user comes to be one, ceases to
be and is refused; its DM room is the one with itself, which `CreateDMRoom`
allows, and whose ID has four parts like any other. `MaxPublish` and `MaxTicks` bound the
publishing goroutines and the ticks. With `MaxPublish` reached the hub waits for
a publisher to finish, which the code does not; the publishers' fairness makes
that harmless to the liveness properties, and no safety property depends on the
number. Permutations of sockets, handlers, clients and rooms are sound
symmetries: no definition tells them apart (the fair runs use none).

In `ws_frames` the limits of the three length fields are 1, 2 and a word of 4
bits, and the reader's limits 3: messages of 0, 3 and 4 units then use every
form, fill the limits exactly and exceed them, in fragments that divide them and
that do not. In `ws_server` two maps suffice for a room that is emptied and made
again under a broadcast. In `chat_messages` the limiter has 2 requests in 2
ticks, so that 5 messages in 4 ticks see two windows and the boundary between
them; 5 messages are the shortest sequence with metadata of both kinds, two
binary messages and one more; histories are cut at 2 messages. An ID that both
clients may make up, or repeat from the database, is enough for a message to
replace another before, during and after its broadcast. Connections may
all have ended there, and then nothing happens any more: that run does not look
for deadlocks.

Runs in which the code departs from its own documentation (each one a property
that states the text, and a counterexample):

| Run | Text | What happens |
|---|---|---|
| `emit_reuse` | `bpool/pool.go:106`: "ByteBuffer.B mustn't be touched after returning it to the pool" | `emitData` defers `Put` and returns the slice, which Emit then writes: another goroutine has filled the buffer |
| `chat_lost_join` | `chat/server.go:1262`: "sends a message to all clients in a room" | two joins create the room twice; the first client is in a `*Room` nobody broadcasts to |

Seen while modelling, and not stated as runs:

* a Join after `Socket.Close` copied the rooms (`socket.go:236`), or after it
  ended, is never undone: the room and the closed socket stay in the hub, which
  the comment at `socket.go:217` does not expect;
* a Shutdown that finds a socket's Close under way elsewhere does not wait for
  it, so that the backend may be shut down before that socket has left its
  rooms; LeaveAll leaves the room behind `Server.ToSocket` too;
* `handleConnection` tells nobody when this end closed the connection, so that
  after a pong timeout the chat server keeps the client in `s.clients`, in its
  rooms and in the limiters until a broadcast fails to write to it
  (`EndIsReported` has this exception, and `GoneLeavesNoTrace` speaks of clients
  whose disconnect has run); a keep-alive that waits for a pong when `cleanup` stops its
  timer waits for ever (the exception in `KeepAliveEnds`);
* a ping, or another message, between the fragments of a message makes the
  reader drop what it has of it, and the next fragment ends the connection with
  `ErrInvalidFrame`; two goroutines that write at once corrupt the stream
  (`mixed` and `wild` in the properties of `WsFrames`); a message over the
  reader's limits ends the connection, and its writer is told of success;
  `messageBuffer` holds up to `MaxMessageSize` + `MaxFrameSize` for a moment, as
  the size is looked at after the payload is appended;
  `WriteFragmented` with a fragment size of 0 does not end, and an empty message
  is not sent by it at all;
* after Stop and Listen the websocket server accepts nothing (`stopCh` stays
  closed), peers that connect wait until it is stopped (`ConnectReturns` has
  this exception), and the second Stop panics; a Listen that fails after a Stop
  leaves a nil listener, which the acceptor of the first, if it is on its way to
  `Accept`, panics on; `s.tlsConfig`,
  which Listen asks for, is assigned nowhere;
* `Client.Connect` starts the reader before its caller can set `OnMessage`:
  messages that come at once are dropped; with compression negotiated, frames
  are deflated and never inflated;
* nobody can join a DM room: `checkRoomPermission` splits "dm:user_1_user_2" at
  every "_" and compares "user", "1", "user" and "2" with IDs such as "user_1",
  although the comment at `chat/server.go:1246` says "check if user is part of
  the conversation"; a user ID without "_", which the server does not give out,
  would match a part of an ID that names others. `PrivateRooms` is therefore
  about groups in the first place. It is about membership at some time: a user
  who is removed stays in the room, and a join under way makes it a member
  again;
* a message with the ID of an earlier one replaces it in the database, in
  whichever room that was, by whomever and broadcast or not: clients choose the
  IDs (`chat/server.go:638`, `705`, `850`, `919`), and `SaveMessage`
  (`chat/database.go:436`) does not look. `SharedIsKept` promises no more than
  that something is kept under the ID;
* `handleClientDisconnect` saves the session under the empty ID and leaves
  pending metadata where it is; a connection that is still read afterwards has a
  new rate limiter, and binary messages have none; metadata of media is dropped
  when a file's is there too; a file over HTTP goes to the room in the name of
  any connection of the user, and is dropped, though counted in the response, if
  that one is not in the room; a file that is too large ends the request after
  the files before it were shared.

### Fairness

Goroutines that can run do run. Strong fairness is assumed where a goroutine
waits for a mutex or for the hub: Go's mutexes hand over to a waiter that has
starved, and `select` picks among the ready channels at random, so that a
waiter that is offered its turn again and again has it in the end. That a write
ends is assumed of the network (in package `sio` no deadline is set): without
it the hub would block for ever, by design of the code. A reader is owed an
error only when its connection was closed at one of its ends (or a deadline
passes); nothing is assumed of what peers, the application or the API decide to
do, nor of the time at which they do it. An `Accept` that can return a
connection again and again does so in the end, and the handshake's deadline
passes. Liveness in `SioHub`, `ChatRooms` and `WsServer` excepts the end of the
process.

## Proofs

Every invariant that a run checks, and the refinement of `RoomService`, is proved
for any sets of sockets, rooms, clients, connections, goroutines, buffers and
messages, under the modules' named assumptions: sets that the model tells apart
are disjoint, `None` and the like are none of their members, bounds are naturals.
Two are worth naming. `MessagesAssumption` says that `None` is not the record of
a rate limiter, `FramesAssumption` that a message's length is below
2^(`WordBits` - 1), as every Go slice's is, and, since the provers know nothing
of powers, that it is then below 2^`WordBits`; it also says that messages are
text or binary, the two types `WriteMessage` is given.

* `SioHubProofs`: `TypeCorrect` (`CallTyped`), `MembershipAgrees` (`RoomsAgree`) and
  `RoomsHaveMembers` (`NoEmptyRoom`). `RoomsAgree` is not inductive: that
  a goroutine that writes `s.rooms` after the hub took its request is the only
  one to do so needs `RoomsLockHeldOnce` (at most one holder of `roomsl`), and
  that requests name a socket and a room needs `CallTyped`.
* `SioCloseProofs`: `ClosedByOne` (`CloseOnce`), `RegistryExact`
  (`RegistryAgrees`) and `ShutdownClosesAll` (`ShutdownCloses`). `CloseOnce` is
  strengthened by `PingEndsClosed` (Ping ends only for closed sockets),
  the registry by `UnknownBeforeAdd` (before the hub has taken a new socket
  nobody else has a reference to it), and Shutdown by `ListCovered` (what of its
  list is not closed is still to be visited or in its hand).
* `ServiceImplemented`, in the same module: `SioHub` implements `RoomService`.
  The abstract membership is what the *sockets* hold, the abstract receivers are
  what the *hub* computes from its own maps; the two meet through `RoomsAgree`
  and `RegistryAgrees`, and `Serving` says that the hub has no socket in hand
  between two requests and writes to none twice. Each action is then a step of the service or leaves its variables
  alone.
* `EmitBufferProofs`: `BufferOwnedByOne` and `TicksIntact`, with
  `OwnerProgress`: what a goroutine has filled so far of the buffer it owns.
* `ChatRoomsProofs`: `TypesKept` (`TypeOK`), `MembersFindRoom`
  (`MembersHaveRoom`), `GoneWithoutTrace` (`GoneLeavesNoTrace`) and
  `PrivateByInvitation` (`PrivateRooms`). None is inductive: a handler acts on a `*Room`
  it looked up many steps ago. The invariant is local to a goroutine: `Settled`
  says what it has in hand at each label, where its client is in the server's
  maps, and, in a disconnect, what is already taken down. Two facts are global:
  `Distinct` (no `*Room` is in `s.rooms` under two IDs) and `StorePrivate` (the
  database's members of a room, and those whose sessions in Redis name it, were
  invited, so that neither a query nor a restored session gives others access).
* `WsConnProofs`: `BodyRunsOnce` (`ClosedOnce`): the counter of bodies is one
  only when `closed` is set, and `c.mu` has at most one holder. `EndReported`
  (`EndIsReported`): `EndInv` says where a reader goes on from a write or
  a close of its handler: to its cleanup only if the application was told.
* `WsServerProofs`: `BroadcastDelivers` (`BroadcastReaches`). A broadcast ranges over the map its room had
  when it began, which may have left the room since: `RoomsInv` speaks of that
  map, which is no other room's and holds all who stayed.
* `WsFramesProofs`: `LimitsAreKept` (`LimitsHold`), `MessagesStayIntact`
  (`MessagesIntact`) and `BreaksForLimits` (`OnlyLimitsBreak`). The limits follow
  from the types: what is collected exceeds `MaxMessageSize` by one payload at
  most, and then the connection has ended. `BreaksForLimits` says nothing once a
  frame of another call, such as a ping of this library's own keep-alive, came
  between fragments, two goroutines wrote at once, a foreign peer sent frames or
  a write failed. The other two are about frames still on their way: `StreamInv`
  says that buffer and wire *parse* (`Parse`), that is, between any two frames
  there is a position, the number of complete messages and the offset in the
  next, such that each frame carries its part of its message; the reader is at
  the first position with what it has collected (`ReaderAt`), the writer of an
  unfinished message at the last (`WriterAt`). A frame that is written extends
  the positions (`ParseExtends`), one that is read takes the first
  (`ParseTakes`), a failed write cuts the tail (`ParseLoses`). `Excused` keeps
  the message that broke a limit in sight after the reader has ended.
* `ChatMessagesProofs`: `UploadsPairedFresh` (`PairedFresh`) and
  `SharedStaysKept` (`SharedIsKept`). Neither is inductive, since a message is in
  nobody's inbox while its handler is between two steps: `Carried` says what a
  handler at each label has stored already, `MetaFresh` that metadata which waits
  is younger than the client's last binary message, `Stored` that what was saved
  refers to no missing file, and `Held` that the database, from which histories
  are taken, has only what was saved, and something under every ID that was.
* `JoinersMissNothing` (`JoinedMissNothing`), in the same module: `Promised` says
  of every message in the database and every client in its room that the client has it,
  or is to be dropped, or will read it in its history, or that a handler has it
  on its way to the client. It needs `Enrolled`: a member of a room has it in
  `client.Rooms`, where a disconnect finds it, but for two steps of a join.
* `RateIsBounded` (`RateBound`) and `RefusalsHaveCause` (`RefusedWithCause`),
  there too, count. `RateInv` says for each client that the limiter counts
  only messages that were handled (`Used`) and, for each span of a window's
  length, how many it can have seen given where in it the window under way began
  and how many disconnects made the limiter anew (`Spent`).

Each proof has the usual shape: `Init` implies the invariant; lemmas, one
per conjunct or per group of actions and with a step per action, show that
`[Next]_vars` preserves it; the theorem follows by temporal reasoning. The
strengthenings are invariants TLC can check on the instances of the runs, but for
`StreamInv`, whose positions it would have to guess, and `RateInv`, whose spans
begin at any natural number.

Only model-checked: liveness (`CallsReturn`, `HubResponsive`, `LoopExits`,
`HandlersEnd`, `ReaderEnds`, `DeadDetected`, `KeepAliveEnds`, `AcceptorEnds`,
`HandshakeEnds`, `ConnectReturns`, `SentArrives`), which the prover cannot treat
under fairness. The two runs with a counterexample have nothing to prove.

## Not modelled

Event registration, configuration, the HTTP upgrade of package `sio` and TLS have
no state that changes while the server runs, or are I/O. PostgreSQL and Redis are
external: Redis appears as a map whose operations may fail, the database of
`ChatMessages` may fail to save. `adapters/redis.go` is commented out from its
first line to its last, and nothing uses `adapters/transmission.go`: there is no
code to model for servers joined by a backend. The contents of messages and
files, masking, compression, and the HTTP requests that only read are data
without control. The calibration of the buffer pool decides how much memory is
allocated, never what a buffer holds. Read receipts are stored and read by
nobody.

## Plan

Done: `SioHub` with `RoomService`, `EmitBuffer`, `ChatRooms`, `ChatMessages`,
`WsConn`, `WsFrames`, `WsServer`, and the theorems above, which cover the safety
properties of every passing run. What is left:

1. safety facts behind the liveness properties, which can be proved although the
   properties themselves cannot: that the hub is always at a label from which it
   goes on, and who a goroutine that waits is waiting for;
2. shorter proofs where two modules prove similar facts about a program counter
   that moves and the goroutines that do not.
