# gosocket in TLA+

TLA+ specifications of gosocket, a Go library for WebSocket servers: what its goroutines
do to each other through the hub, the rooms, the connection pool, the rate limiter, the
channels of each connection and the life cycle of the server, and how options and
serializers set a server up. The models are checked with TLC on small instances and, for
safety, proved with TLAPS for every value of the constants. Source lines below are those
of the repository.

## The system

| component | state | operations | talks to |
|---|---|---|---|
| Hub event loop (`hub.go`) | `Clients`, `Register`, `Unregister`, `Broadcast`, `mu`, `running` | `Run`, `Stop`, `AddClient`, `RemoveClient`, `BroadcastMessage` | every other goroutine, by unbuffered channels |
| Direct messages, Disconnect (`hub.go`, `client.go`) | `Client.mu`, `Client.Conn`, `MessageChan` | `SendToClient`, `Disconnect` | the hub's collection and its `Unregister` channel |
| Rooms (`hub.go`, `room.go`) | `Rooms`, the members of each room | `CreateRoom`, `JoinRoom`, `LeaveRoom`, `DeleteRoom`, `LeaveAllFromRoom`, `DeleteEmptyRooms`, `DeleteEmptyRoomsExcluding` | the hub takes unregistered clients out |
| Room broadcast (`hub.go`) | a copy of the members, the clients that failed | `BroadcastToRoom`, `broadcastToClients` | rooms, every `MessageChan`, `Unregister` |
| SharedCollection | a map under a mutex | `Add`, `Remove`, `Get`, `GetAll`, `ForEach` | hub and rooms |
| Connection pool (`connection_pool.go`) | `semaphore`, `activeConns`, `totalActive`, `mu` | `AcquireConnection`, `ReleaseConnection`, `GetStats` | called by the handshake |
| Handshake (`handler.go`) | locals of `HandleWebSocket` | authentication, rate limit, upgrade, registration, `OnConnect` | pool, limiter, hub |
| Connection (`handler.go`) | the socket, `messageChan`, `MessageChan`, the handler's context | the goroutine that reads, `handleClientRead`, `handleClientWrite`, `cleanupClient` | hub, limiter, callbacks, counters |
| Rate limiter (`rate_limit.go`) | a token bucket per client and per address, violations, `quit` | `AllowClient`, `AllowIP`, `cleanup`, `cleanupLoop`, `Stop` | handshake and read loop |
| Server (`server.go`) | `isRunning`, `server`, the hub shared by all its runs | `Start`, `StartWithContext`, `Stop`, `StopGracefully` | hub, net/http |
| Options (`gosocket.go`, `config.go`) | a configuration, the serializers, the size of the pool | `NewHandler`, `NewServer`, `With`, the `With...` options | server and handler, serializers shared by pointer |
| Serializers, broadcasts of data (`serializers.go`, `server.go`) | the limits of each serializer | `Marshal`, `Unmarshal`, `ValidateValue`, `ValidateType`, `BroadcastData`... | options, hub |

### What is hard about it

* Requests to the hub are sends on unbuffered channels, and `Stop` closes these
  channels: a caller is served, blocks for ever, or panics, according to the moment.
* A `MessageChan` has many senders and one closer; whoever closes it must first have
  made sure that nobody finds it any more.
* The methods of rooms, pool and limiter are sequences of atomic operations with no lock
  around them: every check may be stale when it is used.
* Clean-up runs in goroutines of its own (evictions, disconnections of full clients, the
  `defer` of a `Start`) that compete with what they clean up after.
* A connection is three goroutines that end for reasons of their own: the peer, the
  context, the limiter, a panic, the hub.
* A server can be started and stopped any number of times, at the same time too, and
  keeps one hub.
* Options are applied in any order, some fail half way, and a serializer may be shared.

### What makes each part correct

* Hub: listed clients can be sent to; broadcasts have one order everywhere; a client
  that missed one leaves; nobody stays blocked.
* Rooms: what a completed call promises stays true but for later or concurrent joins.
* Room broadcast: only to members during the call, at most once, never after a later
  call; who missed it is evicted.
* Pool: three counters kept in separate steps agree, and both limits hold.
* Rate limiter: deleting the entries of idle keys gives nothing away, and nobody is
  refused early.
* Connection: messages are handled once, in order and before `OnDisconnect`; clean-up is
  complete; the goroutines end.
* Server: the running flag belongs to a `Start` that is there; every `Run` and every
  call ends.
* Set-up: after any sequence of options every serializer enforces limits that are known,
  the checks of values and types mean what they say, and no broadcast of data escapes them.

The hazards, each at its line with the properties that cover it, are listed in
`PROJECT.json`.

## Modules

| module | models | proofs | instance |
|---|---|---|---|
| `Hub` | event loop, registration, writers and readers of clients, `BroadcastMessage`, `SendToClient`, `Disconnect`, `Stop` | `Hub_proofs` | `MCHub` |
| `OrderedDelivery` | abstract: what the hub promises about broadcasts | | |
| `Rooms` | the rooms of a hub and every call that changes them | `Rooms_proofs` | `MCRooms` |
| `RoomBroadcast` | `BroadcastToRoom` composed with one room, `Run`, `Stop` and the channels | `RoomBroadcast_proofs` | `MCRoomBroadcast` |
| `RoomDelivery` | abstract: what a room broadcast promises | | |
| `ConnectionPool` | `AcquireConnection`, `ReleaseConnection` and the handshake around them | `ConnectionPool_proofs` | `MCConnectionPool` |
| `Admission` | abstract: what a pool promises | | |
| `RateLimiter` | `AllowClient`, `AllowIP`, `cleanup`, `cleanupLoop`, `Stop` | `RateLimiter_proofs` | `MCRateLimiter` |
| `Session` | one connection after its handshake | `Session_proofs` | `MCSession` |
| `SessionEvents` | abstract: what an application sees of a connection | | |
| `Server` | `Start`, `StartWithContext`, `Stop`, `StopGracefully` | `Server_proofs` | itself |
| `Options` | how handlers and servers are set up | `Setup_proofs` | |
| `Serializers` | what serializers accept, and a reference for it | `Setup_proofs` | |
| `Setup` | `Options` with `Serializers`: the broadcasts of data | `Setup_proofs` | `MCSetup` |

Operators commented "mutant" are deliberate mistakes, each a variant of the definition
under it that some property must notice; no specification uses them.

### Hub

Every goroutine has a program counter: `hubPc` for `Run`, `life` for the handshake and
then the reader of each client, `pump` for its writer, `call`, `evict`, `disc` and `spc`
for calls of `BroadcastMessage`/`SendToClient`, for the eviction goroutine of each
broadcast, for `Disconnect` and for `Stop`. A blocked send is a program counter with
nothing done yet (`"adding"`, `"removing"`, `"sending"`); the receive of the hub is one
step of both (`RunRegister`, `RunUnregister...`, `RunBroadcast`). `closed` holds the
channels of the hub that `Stop` has closed, and sends on them panic; where the panic is
recovered, and what it skips, is in the `...Panics` actions. `mu` and `cmu` are `h.mu`
and the mutex of each client.

`safeCloseClientChannel` is two steps: a probe that receives (`RunProbe`, `StopProbe`) and,
when the channel was found open and empty, the close (`RunClose`, `StopCloseClient`). With a
message pending the probe takes it, the channel is taken for closed and stays open. Senders
do not hold `h.mu` and may send between the two. `SendToClient` finds each of its clients
(`SendFrom`, `SendTo`) and then waits for that client's mutex (`SendFromConn`, `SendToConn`).

Values of `Client` are `*Client` pointers; `IdOf` gives their identifiers, by which the hub
looks them up. A message is the name of the call that sends it, and `Raw` are the broadcasts
with `RawData` (the others are dropped by `broadcastToClients`). After `AddClient` the
handshake is in `OnConnect`, which returns (reader and writer start), fails (the client is
removed) or panics: the client is then `"stranded"`, listed without reader or writer.

`DisconnectEffective` relates `Disconnect` to everything that removes the same client: when
the call returns, the connection is closed and the client out of `h.Clients`, or taken out
by the next step of the hub. A context cancelled meanwhile is the exception the code has.

`count`, `pos` and `last` are history: broadcasts accepted, their order, and the last
one written to each socket. They are the state of `OrderedDelivery`.

### Rooms and RoomBroadcast

In `Rooms` each call is split at its operations on a SharedCollection, with its locals in
`client`, `roomId`, `room`, `victims`, `unvisited`. A room is named by the `CreateRoom`
call that made it, so that a room and the one that replaced it under the same id are
told apart. `DeleteEmptyRooms` and its excluding form share `Sweep`. `hub`,
`unvisitedByHub`, `toLeave` and `hubRoom` are the locals of
`removeClientFromAllRoomsUnsafe` in the goroutine of `Run`, which collects rooms by name and
looks them up by id (`HubVisit`, `HubLookup`). An empty name is refused
before anything changes and is left out. `joined` is history.

`RoomBroadcast` keeps of `Hub` and `Rooms` what meets in a room broadcast: `registered`
is `h.Clients`, and one room has `members`. A call looks the room up (`Lookup`), copies
its members (`Snapshot`), visits them in any order (`Send`; a full channel and the
recovered panic of a closed one both put the client into `failed`) and starts the
goroutine of its evictions (`Return`, `RunUnregisterEvict`; `EvictPanics` when
`Unregister` is closed under it). `Run` removes, closes under `h.mu` and takes the client
out of the room, or not, since rooms are collected by name and looked up by id. A writer
takes a message and writes it (`PumpWrite`) or ends with it in its hand (`PumpDrop`); one
that has ended just takes no more. Two broadcasts at the same time may reach two members
in different orders, which `RoomDelivery` allows: no order is promised for them.
`eligible`, `before` and `got` are history.

### ConnectionPool

A request is `"new"`, takes a slot (`AcquireSlot`), then `cp.mu` and its counts
(`AcquireCount`, `AcquireRefuse`), sets up (`SetupFails`, `Upgrade`), registers its client
(`AddClient`), removes it again when `OnConnect` fails (`RemoveClient`) and releases
(`ReleaseCount`, `ReleaseSlot`; the mutex is held from one to the other). A map entry that is
deleted at zero is a count of zero. `live` are the connections still open; they outlive their
slot. `hub` is what the two sends to the hub meet: a `Run` that receives, none with the
channels open (before a `Run` and after its context was cancelled), or closed channels. With
no `Run` the request waits with its slot held, for ever if no other `Run` comes; that is the
one exception of `RequestsEnd` (`StuckInHub`).

### RateLimiter

A call finds or makes the limiter of its key with the mutex held (`LookupKnown`,
`LookupNew`), and takes a token when it no longer holds it (`Allow`); `since` is when it
looked. `CleanupBegin` reads the time once for both maps. Tokens are counted in the time
it takes to earn one, which makes every bucket gain one unit per unit of time and saves
fractions: `Cost` is 1/rate and `Capacity` the time to earn a burst; a rate of zero or
infinity is not represented. The token bucket (`golang.org/x/time/rate`) is external:
`Allow` takes a token if there is one.

Nothing relates `EntryTTL` to burst and rate, nor bounds how long a call is suspended
between the unlock and `lim.Allow()`: `WithRateLimit` (`gosocket.go:317-322`) checks nothing.
An entry may expire before its bucket is full again, and under a call. What then remains
true depends on how a call came to its token, which the history variable `taken` records:
`"prompt"`, from the limiter its entry has, while that limiter has time to fill up before the
entry can expire; `"late"`, from the limiter its entry has, too late for that; `"stale"`, from
a limiter whose entry has been deleted. `RateBounded` is about prompt calls: one burst and
the time that has passed pay for all of them, whatever is deleted. `BurstPerDeletion` adds
the late ones, and with them every call of a manager whose `EntryTTL` is short: a deletion
gives away one burst at most (`forgotten` counts deletions). Stale calls have no bound, since
each of them may empty a bucket of its own. `RefusalsEarned` is the other side, for all calls.
With the defaults (a bucket fills in 2 s and entries live 5 minutes) a call would have to be
suspended for minutes not to be prompt.

### Session

`pc` is the goroutine that reads the socket, `slot` what is in `messageChan` (capacity
one), `main` the loop of `handleClientRead` and then the steps of `cleanupClient`,
`writer` is `handleClientWrite`. Peer, hub and application are the environment: the peer
sends or goes away, the hub delivers to `MessageChan`, removes the client, closes the
channel (or abandons it, when a message is pending) and stops, the application cancels
the context and disconnects, handlers panic. `hub` is `"runs"`, `"gone"` while no `Run`
receives (its context was cancelled, which leaves `Unregister` open), or `"stopped"`; a `Run`
that receives a removal carries it out (`client` `"leaving"`, then `"out"`) or finds its
context cancelled and leaves with the client listed (`"dropped"`). `RemoveClient` in
`cleanupClient` blocks while the hub is gone (`CleanupRemove`); `ConnectionEnds` allows for
that (`StuckInHub`) and for a stopped hub. The limiter answers as it likes. Message `n`
of the peer is the number `n`; `Error` and `Limited` are the errors that travel through
the same channel. A message to be written has a type, an encoding and data; `Serialized`
says whether it becomes bytes, nothing, or an error. `received`, `counted`, `written` and
`disconnected` are the counters of the handler; `written` counts frames.

### Server

Each `Start` is named by itself and so is the `http.Server` it makes: `server` is
`s.server`, `pc` its own goroutine down to the deferred clean-up (`Clear`, `StopHub`,
`CloseHub`, `Return`), `listener` its `ListenAndServe`, `run` its goroutine in `Hub.Run`.
Of the hub only `running` and the closing of its channels are kept. `cancelled` are the
contexts of `hubCancel`, `parentDone` the cancelled parents. `Stop` reads `s.server` when
it closes it, `StopGracefully` when it clears the flag.
`RunsOwned` is about the flag of the hub, which all Runs share: the Run of one Start clears
it under that of another, whose context has to end it then.

### Options, Serializers, Setup

An option is an action on a configuration; its guard is the validation and an option that
refuses still ends the constructor (`phase`), which for `With` leaves the earlier options
of the call in force. `Prepared` are option values the application keeps: their
serializer is a pointer, so an owner that applies one shares it, and each was made with
limits of its own (`MadeWith`), which are those of no owner. Each of the options for limits
assigns its field and runs its loop over the serializers (`Configure`). `limits` are the
limits of each serializer, `uses` is history. A server owns a handler, so one owner
stands for both. A serializer that is nil is left out: the loop of a later limit would call a
method of nil, and the constructor panics. The size of the pool is not kept, nor are application values.

`Serializers` transcribes the recursive checks as functions of the levels that are left
(`ValidAtDepth`, `AllowedAtDepth`) and states a reference that goes level by level instead.
Values and types are nodes of graphs (`Value` with `ValueKind`, `Size` and `Parts`, `Type`
with `TypeKind` and `Elems`), so a type may refer to itself. `Unmarshal` is left out: what it
reads back is decided by `encoding/json`. `Setup` puts both together: the configurations are
those the options lead to. `BroadcastsLimited` leaves out servers with a Raw serializer,
which checks a length only, and those that share a serializer with another owner.

## Runs

One run of each module also checks its `TypeOK`, which the table leaves out.

| run | instance | shows |
|---|---|---|
| `hub_order` | 2 clients, 2 broadcasts, 1 direct message, cancellation, buffers of 2 | refinement of `OrderedDelivery` |
| `hub_live` | 1 client, 1 broadcast, 1 direct message, 1 `Disconnect`, `Stop`, buffer of 1 | `RegisteredOpen`, `DisconnectEffective`, `SlowClientEvicted`, `EveryCallReturns` |
| `room_broadcast` | 2 clients, 2 broadcasts, joins, leaves, deletion, removals, `Stop`, buffers of 1 | `MissedEvicted`, refinement of `RoomDelivery` |
| `pool` | 4 requests, 2 addresses, 3 slots, 2 per address, a hub whose `Run`s come and go | `CountsAgree`, refinement of `Admission`, `RequestsEnd` |
| `rooms` | 2 creators of one id, one each of join, leave, delete, sweep, and 1 client | `LeaveEffective`, `DeleteEffective` |
| `limiter` | 3 calls on a client whose entry outlives its refill and on an address whose entry does not, clean-up, `Stop`s, 3 units of time | `RateBounded`, `BurstPerDeletion`, `RefusalsEarned`, `LoopEnds` |
| `session` | 2 messages in, 1 of 4 kinds out, 1 violation allowed | `CleanupComplete`, `SentAgree`, refinement of `SessionEvents`, `ConnectionEnds`, `ReaderEnds` |
| `server` | a `Start`, a `StartWithContext`, a `Stop`, a `StopGracefully` | `RunningOwned`, `RunsOwned`, `RunsEnd`, `CallsReturn` |
| `setup` | 1 handler, 1 server, 2 shared serializers, 3 options, 16 data at the limits | `LimitsKnown`, `ValidationExact`, `BroadcastsLimited` |

Three runs check what a comment says and the code does not do; each ends in a
counterexample:

| run | comment | what happens |
|---|---|---|
| `hub_cancel` | `client.go:185-189` | after a cancelled context `Disconnect` never returns |
| `pool_open` | `gosocket.go:12-13` | the limit bounds handshakes, not connections |
| `session_text` | `server.go:344-345` | a text message has no frame type and ends the writer of its client |

### Bounds

Buffers hold one or two messages: enough to be empty, partly filled and full. Two
clients are needed for two orders of delivery and for an eviction of one beside the
service of the other; two broadcasts are needed for an order, two requests for a limit
to be passed, two Starts and two Stops for one to meet the remains of the other. Each
caller makes one call, so most state spaces are finite without further bounds; a caller
that makes several is several callers. All broadcasts of the passing runs of `Hub` carry
`RawData`: one without it is only dropped, costs a factor of ten in states, and is
covered by the theorems, which hold for every `Raw`. In `rooms` one call of each kind
meets every other in all orders; the theorems cover any number.

Bounds in guards: `MaxTime` of the limiter (3 units with an `EntryTTL` of 2: an entry made at
the start expires at the last unit, with time to be made anew; the client has a burst of one
that fills in 2 units, the address one that fills in 4 and so is given away early; the
proofs are for all limits), `MaxSent` and `MaxOutgoing` of a session (two messages in, to have
an order and one in each place of the pipeline; one out, since the writer forgets a message
before it takes the next), `MaxViolations` (1: the first refusal is the last; more only make
the reader go round its loop), `MaxOptions` (3 options after the constructors: apply, share,
change), and the numbers options are tried with (-1, 0 and 1, below and at every check, beside
the defaults). `MCDatum` of the set-up has values at, one above and below the default limits
for depth, keys, elements and string length, nil, types that refer to themselves and types
that are refused.

Clients of `Hub` and `RoomBroadcast`, broadcasts of the latter and creators of `Rooms` are
symmetric; runs with a liveness property use no symmetry. Deadlock is not checked: when
every call has been made the system rests, and what must not block is stated as liveness.

### Fairness

Every `FairSpec` assumes that a goroutine that can run does. In particular:

* `Hub`: weak fairness of `Run` as a whole, of each caller past its call, and of the
  writers; strong for taking a mutex, because Go's mutexes serve their waiters in the end.
  Nobody has to connect, to call, to stop or to cancel; peers need not leave.
* `ConnectionPool`: callbacks return, a `Run` that is there receives; strong fairness of the
  mutex. Nothing makes a `Run` come.
* `RateLimiter`: the steps of a clean-up; strong fairness of taking `quit`, since a
  `select` with both channels ready again and again chooses among them at random.
  Calls and `Stop` are the application's choice.
* `Session`: the three goroutines; reads and pings fail in the end once the connection is
  closed or the peer gone (deadlines see to it), and a `Run` finishes the removal it has
  begun. Nothing is assumed of the limiter, of a peer that is there, of the application, or
  of a hub whose `Run` is gone.
* `Server`: the goroutines of each `Start` and `Stop`. Calls and cancellations are the
  application's choice.

## Proofs

All theorems are for any finite or infinite set of clients, rooms, callers, keys, Starts,
options, values or types (`Request` is finite, since its members are counted), under the
named assumptions of each module: that names of different kinds differ, that capacities
and limits are numbers (nothing relates the limits of the limiter to each other), and of
the data that scalars have no parts (`ValuesAssumption`), that types refer to types
(`TypesAssumption`) and that a datum is made of both (`DatumAssumption`).

* `Hub_proofs`. `TypeCorrect` is by induction with the types of locals at each
  program counter added. `RegisteredClientsOpen` needs `References` (only a client whose
  `AddClient` returned is referred to by a removal), `Locking` (who holds `h.mu`) and
  `OpenInv` (a client in the hands of the hub to be registered is still open, and one
  about to be closed is no longer listed). `BroadcastsOrdered` rests on `OrderInv`: every
  buffer is sorted by position and above what was written, and the broadcast in progress
  is above all of a buffer it has yet to reach. Each step then maps to `Accept`, to
  `Deliver` or to a stutter of `OrderedDelivery`. `DisconnectsEffective` rests on `DiscInv`,
  which starts when the hub has received the request: from then on the client is not in
  the hands of the hub to be registered, so nothing lists it again. It needs `References`,
  and no assumption on `IdOf`: it holds when clients share an identifier too.
* `RoomBroadcast_proofs`. `MissedEvicted` is inductive with the types. The refinement
  rests on `CallInv` (whom a call may still send to was eligible, calls that came before
  have returned), `GotInv` (nothing was written that is still to be sent) and `QueueInv`
  (what waits in a buffer was sent once, to an eligible client, and in an order that
  agrees with the order of calls); lemmas carry `QueueInv` over `Tail` and over steps that
  leave a buffer alone. Each step is a `Join`, `Leave`, `Call`, `Return` or `Deliver` of
  `RoomDelivery` or a stutter.
* `ConnectionPool_proofs`. `CountsCorrect` is an equation between counters and
  cardinalities of sets of requests, inductive with the mutex invariant; from it follow
  `GivingBackNeverBlocks` and `PoolLimitsSetups`.
* `Rooms_proofs`. `LocalsSet` and `KnownCreated` say that locals are set when they are
  used and that nobody refers to a room before it is listed. `LeaveInv` and `DeleteInv`
  extend the two properties to calls in progress: a member not joined since is one the
  call has still to remove.
* `RateLimiter_proofs`. `TypeCorrect` is inductive with the clock. `RateNeverExceeded`
  rests on `Reserved`: for each key there is an amount that a bucket never deleted could
  hold, no less than what its limiter holds, full unless the key was looked up too recently
  for its entry to expire, and that comes with what was taken promptly out of one burst
  and the time passed. A clean-up keeps it because what it deletes is full there.
  `DeletionsCostOneBurst` rests on `PaidFor`, the same account with the real limiter and a
  burst added for each deletion; it needs no relation between `EntryTTL` and the refill.
  `RefusalsAreEarned` rests on `Spent`: whatever a limiter lacks was taken by granted
  calls of its own key.
* `Session_proofs`. `Pipeline` says where the messages read and not yet handled are (one
  in the channel, the next; one in the hand of the reading goroutine, the last), `Stages`
  what each step of `cleanupClient` has done, `Counts` how far the counter is ahead.
* `Server_proofs`. `RunningOwned` is inductive with the fact that whoever closes an
  `http.Server` finds one, `RunsOwned` with the types. `RunsOwned` is the part of `RunsEnd`
  that needs no fairness.
* `Setup_proofs`. For the options, the inductive invariant is types (a serializer's limits
  are those a configuration can have, so that `MaxDepth` is a number), `Uses` (a serializer
  applied once is registered with one owner at most), `LimitsKnown` and `Served` (a started
  server has a serializer). `ValidationIsExact` and `BroadcastsWithinLimits` are about
  every value and type, and by induction over the levels that are left: `ValueValidated` and
  `TypeValidated` show that a check with so many levels left accepts what is fine on each
  of them, where `InsideStep` moves the reference down by one level. The induction theorems
  of the library take an operator as parameter, which the provers cannot instantiate;
  `LeastElement` and `SetInduction` state induction with a set instead, and `Iteration`
  derives from them that a function defined by recursion over the numbers exists.

Every safety property the passing runs check is the conclusion of a theorem. Only
model-checked are liveness (`SlowClientEvicted`, `EveryCallReturns`, `RequestsEnd`,
`LoopEnds`, `RunsEnd`, `CallsReturn`, `ConnectionEnds`, `ReaderEnds`), which is out of the
prover's reach, and the violations.

## Known behaviours

What the code does, and no property forbids. Where a comment or a test says otherwise it
is quoted: of those, `hub_cancel`, `pool_open` and `session_text` are shown by runs, the
others are stated here and among the hazards.

Hub and rooms:

* A client removed with messages pending keeps an open channel, from which one message is
  lost (`hub.go:117` and `230` say it is closed; `hub.go:644`); `Stop` leaves such channels
  open too (`hub.go:196`, `209`).
* `SendToClient` can panic on a channel closed since the lookup (`hub.go:285`).
* A panic of `OnConnect` leaves the client listed with neither reader nor writer
  (`handler.go:333`): the state `"stranded"`. A broadcast it has no room for removes it.
* A removed client stays in rooms. `hub.go:573-574` says it is made sure that a removed
  client "is removed from all rooms it is currently in"; the code leaves the rooms `GetRooms` lists by id (`hub.go:580`) through a lookup
  by name, and a generated id is a hash that no name equals, so a client is only removed
  from rooms created with their name as id. A broadcast to another finds its channel closed
  and hands it to the hub again.
* Creating a room under an id in use replaces the room with its members (`hub.go:349`); a
  join that looked its room up before a deletion joins a room no longer listed
  (`hub.go:411`); the sweep of empty rooms may delete one a client has joined since
  (`hub.go:370`).
* After the context of `StartWithContext` is cancelled `Run` has left with the hub's
  channels open: `AddClient` blocks for ever and keeps its slot of the pool (`"stuck"` in
  `ConnectionPool`), and so does `RemoveClient` in `cleanupClient`, before the connection
  is closed (`Session`, a hub that is `"gone"`). `Hub.Stop` finds the hub not running and
  closes nothing.

Server and set-up:

* `Start` after `Stop` uses a hub whose channels are closed: `Run` returns at once, and
  `AddClient` panics. `Stop` may close the `http.Server` of a later `Start`. `Start` returns
  nil when it was stopped.
* `With` is not atomic: options before the one that fails stay. `WithRateLimit` leaves
  the goroutine of the first manager behind.
* `gosocket.go:59-60` says "the pong wait must be greater than the ping period"; the check
  (`gosocket.go:67`) accepts the two equal.
* `WithMessageBufferSize` checks nothing (`gosocket.go:309-315`), and a negative size
  panics in `NewClient` (`client.go:86`).
* The pool of a server made by `NewServer` has the default size whatever
  `WithMaxConnections` says, since it is made before the options are applied
  (`server.go:110`); `gosocket.go:12-14` says the option sets the limit.
* `ValidateType` refuses every type that refers to itself, and types with "chan" in their
  name. `BroadcastToRoomJSON` applies no limit.

Limiter:

* Nothing checks the limits of `WithRateLimit` (`gosocket.go:317-322`). With an `EntryTTL`
  shorter than the time of a refill every deletion hands out a fresh burst, which
  `BurstPerDeletion` bounds; a `CleanupInterval` that is not positive panics in `NewTicker`,
  in a goroutine that does not recover.
* A call suspended between the unlock and `lim.Allow()` may take its token from a limiter
  that is no longer that of its entry.
* A second `Stop` panics; nothing in the repository calls the first.
* `AllowIP` is called with `r.RemoteAddr`, port included (`handler.go:258`), although
  `rate_limit.go:90` asks for a canonical address: each connection is a key of its own.

Connection:

* The goroutine that reads a socket stays behind when the loop has ended with something
  left to put into a full `messageChan` (`ReaderEnds` says exactly when).

## Not modelled

* The half second of `notifyClientsShutdown`: whether its messages are sent before the
  channels close is a matter of real time.
* The rates of `GetStats`: floating-point quotients of wall-clock time. Only the counters
  they are computed from are modelled. (`calculateConnectionsPerSec` restarts the interval
  first, so the rate of messages is always that of less than a second.)
* The steps of the handshake between acquiring and releasing the pool (origin,
  authentication, upgrade) as single steps: they share no state; what they do to the pool
  and the hub when they fail is in `ConnectionPool` and `Hub`. An error of the id
  generator is answered but not returned from (`handler.go:285`).
* `Unmarshal` of the JSON serializer: the look-ahead at the tokens of the input, the final
  `Decode` and the strict mode are those of `encoding/json`, and what they make of a text
  is that package's.
* The pool size of a server, which no option changes, and a nil given to `WithSerializer`.
* Options whose value is the application's alone (callbacks, TLS files' contents, CORS),
  `generateId` of SharedCollection (nobody adds without an id), messages' accessors,
  errors, logging, contexts' values and client addresses, and the examples.
