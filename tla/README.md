# A TLA+ verification of esc-platform

esc-platform connects a game that runs on a large shared screen with the
phones and tablets of its players and with the host ("docent") who starts and
ends the games. This directory models its own program logic, the C++ and
Objective-C++ code under `src/product/source` and the scripts that deploy the
games, checks the models with TLC and proves the theorems listed below with
TLAPS.

Contents: [inventory](#inventory), [modules](#the-modules),
[runs](#the-runs), [fairness](#fairness), [theorems](#theorems),
[findings](#findings), [limits](#what-is-not-modelled).

## Inventory

All line numbers are those of `src/product/source` unless a path is given.

| Component | State | Operations | Talks to |
|---|---|---|---|
| Plugin interface, `PluginInterface.mm` | the global `clientPtr` | `startInterface` and its variants, `stopInterface`, `isConnected`, polls of three queues, `dispatchEvent`, broadcasts (`startGame` ... `pauseGame`, `broadcastEvent`) | calls `xmpp::Client`; called by Unity or Objective-C on one thread |
| `xmpp::Client`, `XmppClient.cpp` | `mInitialConnection`, thread handle, credentials, queues of events, status changes and presences, the roster | `connect`, `disconnect`, callbacks of the listener, `sendMessage` | owns the `Listener` and an `AccountRegistration`; spawns one thread per `connect` |
| `xmpp::Listener`, `XmppListener.cpp` | `mIsConnected`, `mClient`, the message session | `setup`, `openConnection` (the thread's loop), `closeConnection`, gloox callbacks | gloox below, `xmpp::Client` above |
| `AccountRegistration`, `AccountEraser` | a gloox client, `mStatus` | `init` (a blocking loop), gloox callbacks | gloox |
| `osc::OutboundPacketStream` | one buffer, cursors, the open elements | begin and end of bundles and messages, arguments, `Clear` | written by `OscSender` |
| `osc::ReceivedPacket`, `-Bundle`, `-Message` | none (views of a buffer) | parsing, iteration | read by `OscPacketListener` |
| `osc::OscListener`, `OscListener.cpp` | socket, thread, message queue, callback | `setup`, `shutdown`, `getNextMessage`, `hasWaitingMessages`, `setMessageReceived` | runs a `SocketReceiveMultiplexer` on its thread |
| `SocketReceiveMultiplexer`, `ip/posix/UdpSocket.cpp` | `break_`, the break pipe, attached sockets and timers | `Run`, `AsynchronousBreak`, attach and detach | `select`, `recvfrom` |
| `osc::OscSender`, `osc::Message`, `osc::Bundle` | a socket; trees of values | `setup`, `send...`, `shutdown`; add, copy, clear | the packet stream, `sendto` |
| Docent, `GameModel.mm` | connected, loaded, started, game list | a one-second timer (`checkConnection`), `appWillResignActive` | the plugin interface |
| Scripts, `setup/esc_scripts` | the installed games, their plists, the launcher's list | `esc-update-games.py` (every minute), `gamebucket_sync.sh` (every night) | the file system, launch services |

Vendored or generated, and left aside: gloox, OpenSSL and gtest
(`product/extern`), the exported Unity projects, Reachability, PdKeychain.

What is hard here:

* **Threads.** Neither XMPP class has a lock. The application thread and the
  listener thread share `mIsConnected`, `mClient`, `mInitialConnection`, the
  thread handle, the roster and three queues. A failed login makes the listener
  thread call `connect()` itself, so that a `Client` can have several threads.
  `OscListener` has a lock for its queue, and an unlocked flag, socket pointer
  and callback.
* **Order.** `connect()` starts the thread before it has finished. `Run()`
  clears a flag that another thread may already have set.
* **Ends.** A connection can be refused, end in an error element, in a broken
  socket or by request; each takes another way through gloox, and the thread,
  the flag and the status queue must agree afterwards.
* **Restarts.** A `Client` is started again on the same object after a lost
  connection, an account object while its last request is still with the
  server, the machine in the middle of an update. What the earlier life left
  behind must not be taken for the present.
* **Time.** The multiplexer sleeps until its first timer is due, calls listeners
  that take time themselves, and is interrupted by threads and signals.
* **Limits.** The packet stream checks its buffer when something is added and
  not when it is closed; sizes are padded; the stack of open elements lies
  inside the packet.

What makes each component correct: the connected flag speaks of a connection
that exists; the end of a connection is reported; stopping terminates and
leaves no thread on a deleted object; a packet in the buffer is the tree the
caller wrote; nothing is written beyond the buffer; every message that arrives
is handed over once and in order; a listener can always be shut down; the roster
map and the queues say what the server said; a status is true of the request it
is read for; the loop over sockets and timers serves all of them at their time;
an installation recovers from a crash anywhere.
`PROJECT.json` lists the hazards one by one, with the line where each bites and
the properties that cover it.

## The modules

| Module | Models | Extends, instantiates |
|---|---|---|
| `XmppClient` | plugin life cycle, `xmpp::Client`, `xmpp::Listener`, their threads, gloox as seen by them | |
| `XmppClientProofs` | theorems for every application | `XmppClient` |
| `XmppSessionProofs` | theorems for an application that starts each `Client` once | `XmppClientProofs` |
| `XmppRoster` | the roster map, the three queues, polls and broadcasts, the server's side of rosters and presences | |
| `XmppRosterProofs` | theorems | `XmppRoster` |
| `AccountPromise` | what a status says (abstract) | |
| `AccountOperation` | `AccountRegistration`, `AccountEraser` | `AccountPromise` |
| `AccountOperationProofs` | theorems, the refinement among them | `AccountOperation` |
| `OscPacket` | what the packet stream promises: a tree of elements (abstract) | |
| `OscOutboundPacketStream` | the packet stream: cursors, memory, space checks | |
| `OscStreamPacket` | a reader of the memory, as a refinement mapping | `OscOutboundPacketStream`, `OscPacket` |
| `MCOscStream` | small instances of it | `OscStreamPacket` |
| `OscOutboundPacketStreamProofs` | theorems, the refinement among them | `OscStreamPacket` |
| `SocketReceiveMultiplexer` | the multiplexer with all its operations | |
| `SocketReceiveMultiplexerProofs` | theorems | `SocketReceiveMultiplexer` |
| `OscListener` | `OscListener` on its thread, with `Run` and `AsynchronousBreak` as it uses them | |
| `OscListenerProofs` | theorems | `OscListener` |
| `GameDeployment` | the update script and the nightly replacement of the games | |
| `GameDeploymentProofs` | theorems | `GameDeployment` |

Definitions whose comment begins with "Faulty variant" belong to no
specification. Each is the definition below it with a plausible error, and
`PROJECT.json` ("mutants") says which property TLC finds violated when it takes
the definition's place.

### XmppClient

Every call of `connect()` creates one gloox client and one thread; both carry
the number of that call. `conn[c]` is the state of gloox client `c`, `pc[a]` is
where thread `a` is, and `sid[a]` the gloox client it uses (`recv()` keeps its
own, while the loop of `openConnection` reads `mClient` anew each time round).
The remaining variables are members of the two classes under their own names,
and four history variables that no action reads: the last status queued,
the number of registrations, whether `startInterface` was ever called on a
`Client` in use, and the result of the last `connect()`.

| Action | Code |
|---|---|
| `StartInterface`, `StartRejected` | `startInterface`, `createXmppClient` (PluginInterface.mm:312-373), the early return of `connect` |
| `ConnectSetup`, `ConnectSpawn`, `ConnectSpawnFails`, `ConnectFinish` | `Client::connect` (XmppClient.cpp:65-88) in the steps between which the new thread can run |
| `OpenSkipped`, `OpenConnect`, `RecvEnter` | `Listener::openConnection` (XmppListener.cpp:57-67) |
| `ConnectAccepted`, `ConnectRefused`, `Recv...` | what gloox does inside `connect()` and `recv()`, with the callbacks it makes; external |
| `OnDisconnect`, `OnStatus` | the callbacks of `Listener` and `Client` (XmppClient.cpp:112-201) |
| `RegisterReturns`, `RegisterCheck` | the registration inside `onDisconnect` (XmppClient.cpp:170-176) |
| `StopCheck`, `StopBegin`, `StopClose`, `JoinBegin`, `StopJoin`, `StopRefused` | `stopInterface`, `Client::disconnect`, `closeConnection`, destructors |
| `GetNextStatusChange` | the poll |

A gloox event and the callbacks it makes are one step, up to the start of a
registration, which blocks and is left as a place of its own. Once a listener
thread runs on a deleted `Client` the behaviour is undefined; the run
`xmpp_join` shows that this happens, and the application is not followed
further there. Passwords are not empty (an empty one makes
`AccountRegistration::init` return at once and keep its status).

### XmppRoster

The same `Client` at another grain: a login is one step, and what follows it is
looked at closely. The environment is the server, which delivers the stanzas of
one connection in order (`wire`): the roster after the login, the presences of
contacts (`due` holds those it has still to send after the initial presence or
a new subscription), subscription requests, pushes of new contacts, messages.
`glooxRoster` is gloox's own copy of the roster, which decides whether a
presence reaches the callback at all; `mRoster` is the map of the `Client`.

| Action | Code |
|---|---|
| `HandleRoster`, `InsertPeer`, `RosterLoaded` | `Client::handleRoster` (XmppClient.cpp:238-283), one peer at a time, since broadcasts read the map meanwhile |
| `HandlePush` | the empty callbacks of `Listener` (XmppListener.h:132-137) |
| `HandleSubscriptionRequest` | XmppListener.cpp:161-168 |
| `HandleRosterPresence`, `HandleMessage` | XmppClient.cpp:215-236, 285-306 |
| `StartInterface`, `StopInterface` | `connect` on a `Client` whose connection is gone, which clears the queues and not the map; `stopInterface` on a connected one, which deletes it |
| `GetNext...` | the three polls (PluginInterface.mm:495-546) |
| `BroadcastBegins`, `BroadcastNext` | the loops of `startGame` ... `broadcastEvent` (PluginInterface.mm:394-491, 564-578), one entry of the map at a time |

The application broadcasts once it has polled `ROSTER_LOADED` since its last
start; without this the iterator is indeed invalidated. `view`, `received` and
`polled` record what it has learnt since then.

### AccountPromise, AccountOperation

Any number of registrations and erasers work on one account, each on a thread of
its own. Every call of `init()` creates a gloox client, numbered as it comes;
`transit[c]` is the request or reply under way on client `c`, `place[o]` where
object `o` is inside `init()`. A request whose connection broke may still be
served; a second `init()` on an object leaks the first client with its
connection (AccountRegistration.cpp:32), whose requests live on.

A registration can be left waiting on a connection that is up, in two ways.
The server answers the request for the fields with a data form or out-of-band
data, whose handlers are empty (AccountRegistration.h:85-86): the reply "form"
stays. Or `createAccount()` sends nothing, which happens when XMPP does not
allow the name, and its result is not looked at (AccountRegistration.cpp:81):
the request is "unsent". `Stalled` names both.

`AccountPromise` says what someone who waits for `init()` and reads `status()`
may rely on. The mapping takes the number of gloox clients for the number of
requests begun, an object's latest client for its current request, and hides the
status while `init()` runs.

### OscPacket, OscOutboundPacketStream, OscStreamPacket

Pointers are offsets into the buffer. The memory maps offsets to what a reader
would find there: an element-size slot, a header ("#bundle" or an address
pattern), a type tag string, the arguments that follow one another. An address
pattern is its length, an argument its type tag and, for text and blobs, its
length: the values themselves never influence the layout. `Clear` leaves the
bytes where they are; the model does not tell stale bytes from memory never
written, since nothing reads either before writing it.

`BeginElement` and `EndElement` are the stack of open elements, threaded through
the size slots of the elements themselves; `SpaceFor...` are the three checks,
and an operation whose check fails throws and changes nothing, so it is no
step. `OnePacket` says whether the caller is `OscSender`, which writes one
outermost bundle, and arguments only between `BeginMessage` and `EndMessage`,
or any caller.

A size slot takes four bytes of the buffer, but lines 169 and 191 of
osc/OscOutboundPacketStream.cpp write and read it as a `uint32`, which is an
`unsigned long` unless the macro `x86_64` is defined (osc/OscTypes.h:52-60). No
configuration of `EscPlatform.xcodeproj` defines it, and the targets that compile
the stream leave the architectures at their 64-bit default. `WordSize` is the
size of a `uint32`: 8 is the build that the project file describes, 4 a 32-bit
build or one with the macro defined. With 8 the header written behind the slot
replaces the upper half of the offset stored in it (`Overwritten`; machines are
little-endian), what `EndElement` reads back points out of the buffer
(`astray`), and the next `EndElement` dereferences it: undefined behaviour, where
the model ends. What depends on the open elements therefore holds with words
of 4 bytes only, and says so; the arithmetic of the cursors and the space checks
holds with both (see the findings).

`OscPacket` states what a caller may rely on: the packet is the tree it built.
`OscStreamPacket` maps the memory to that tree with a reader that goes through
it as `ReceivedBundle::Init` and `ReceivedMessage::Init` do, rejecting what
they reject, and `ImplementsPacket` is the specification of `OscPacket` under
this mapping. The reader is a recursive function on pairs of offsets
(`Elements`: the elements between two offsets), and the open elements are found
by following the slots from `elementSizePtr` (`Path`); a slot that does not lead
outwards ends the path, so both are defined whatever the memory holds. The tags
without data (true, false, nil, infinitum) have no length (`ConstantsAssumption`).

### SocketReceiveMultiplexer

`place` is where `Run` is; `break_`, `breakPipe`, `timerQueue_`, `tempfds`,
`resort`, `currentTimeMs` and the iterator `i` are its own. The clock counts
milliseconds and moves while `Run` waits in `select` and while a listener works;
`Select` is enabled when a descriptor is ready or the first entry of the queue
is due. `Sorted` allows every outcome of `std::sort`, which is not stable.

| Action | Code (ip/posix/UdpSocket.cpp) |
|---|---|
| `Attach...`, `Detach...` | 333-371, between two runs |
| `RunCalled`, `RunBegins`, `Loop`, `Select`, `Drain`, `TestBreak` | 373-440, 527-540 |
| `SelectInterrupted` | EINTR at 429, for signals other than SIGINT |
| `SkipSocket`, `ReceiveFrom`, `PacketProcessed` | the loop over the sockets, 442-454 |
| `ExpireTimers`, `TimerExpired`, `TimerReturns`, `TimersDone` | the loop over the timers, 457-470 |
| `Break`, `BreakFlag`, `BreakSignal`, `InterruptSignalHandler` | 297-301, 476-487; `AsynchronousBreak` in two steps |

Variables that are dead outside their loop are reset when it ends, which merges
states and changes nothing else. `OscListener` has the loop once more, as the
product runs it: one socket, no timer, one `Run`, together with the creation and
the deletion of the socket around it.

### OscListener

The application thread walks through `setup`, `shutdown` and the polls (`app`),
the listener thread through `threadSocket`, `Run` and `ProcessMessage`
(`thread`). `break_`, the pipe, and the descriptor set that `select` leaves are
separate variables because their order is what matters. Messages are numbered
as they are taken out of the socket, and `polled` and `called` record what the
application received on either way.

`SelectInterrupted` is `select` failing with EINTR: the code goes on with the
descriptor set as it was before the call, and reads from an empty pipe. A
datagram longer than the 4098 bytes of the buffer makes the parser throw in the
listener thread, which ends the process, as replacing the callback while it runs
may; `dead` is the place after that. `MessageUnreadable` is the same end for a
good packet: where an `int32` has 8 bytes, `ToInt32` and `ToUInt32` set the lower
half of a union and return all of it (osc/OscReceivedElements.cpp:90-127), so that
a size may be anything.

Left out: an argument whose type has no case (an `assert(false)`), timers
(nothing attaches one), and an application that calls the listener from its own
callback.

### GameDeployment

Games stand for their names; of each the model has the directory, the state of
its `Info.plist` and the game named in it, and the names in `Contents/MacOS`. A
file is written in two steps, since Python truncates it on opening; `rm -rf`
removes the plist and the executables in any order and the directory last,
`unzip` begins and ends a bundle in two steps, `mv` is one step. `Crash` may come
between any two steps; whatever is on disk stays, and launchd starts the jobs
anew. `partial` holds the bundles that a crash has left unzipped in part: the
next night unzips them again, or moves them as they are if their archive is gone
from the bucket.

| Action | Code |
|---|---|
| `UpdateStarts` ... `WritePlist` | the loop of esc-update-games.py:42-94; `ReadPlist` keeps the dictionary of the game before when a plist is missing, and ends the script when one does not parse |
| `TruncateList` ... `StripList` | the launcher's list, esc-update-games.py:97-116, written with its DOCTYPE line and then without |
| `SyncStarts` ... `SyncEnds` | gamebucket_sync.sh:11-62: new archives, unzip all (`UnzipBegins`, `UnzipEnds`, `SyncMoves`), replace, delete |
| `LaunchUpdate`, `LaunchSync` | launchd's schedules, with the assumption that neither job starts while the other runs |

That the two jobs do not run at the same time is an assumption, made in
`LaunchUpdate` and `LaunchSync` and nowhere else: `UpdateStarts` and `SyncStarts` are the
scripts, whose guards do not mention the other job. Nothing in launchd's
schedules ensures it, since the update starts every minute and the replacement at
four in the morning. All properties and theorems of this module hold under it
only. Where the jobs do overlap, an `Info.plist` that the update writes behind `rm -rf`
keeps the directory alive, `mv` then moves the new bundle into the old one, and
no run of the update repairs that.

## The runs

All runs end within two minutes on two workers.

| Run | Question | Bounds |
|---|---|---|
| `xmpp_sequential` | `ConnectedMeansCurrent`, `EndIsReported`, `CleanStop`, `StopReturns` for an application that starts each `Client` once | 4 connects: a first login, two registrations, and a new `Client` after a stop |
| `xmpp_overlap` | `ConnectedMeansLive` when `startInterface` is repeated at any time | 2 connects, so two gloox clients and two threads at once |
| `xmpp_join` | violation of `DestructorJoinsThread` | the 2 connects of the scenario |
| `xmpp_roster` | `RosterIsCurrent`, `PresencesMatchRoster`, `IteratorStaysValid`, `EventsAreOfThisConnection` | 2 users, the game engine one of them; 2 logins, 4 changes of presence or contacts, 1 message |
| `xmpp_roster_broadcast` | violation of `BroadcastReachesConnected` | 2 devices per user, 3 changes |
| `account` | `ImplementsPromise`, `InitReturns`, the latter but for the two cases of `Stalled` | 2 registrations and an eraser, 3 requests: three objects at once, or one used three times |
| `osc_stream_packet` | `ImplementsPacket`, with words of 4 bytes | 84 bytes: three nested bundles, or a bundle with several messages; up to 3 arguments, with and without data; one address |
| `osc_stream_space` | `FinishedMessageFits`, `SizeIsValid` for any caller, with words of 8 bytes | 38 bytes, not a multiple of four, so that the last word is not usable; arguments of 0, 4 and 8 bytes; addresses of one and two words; up to 5 tags, so that the tag string takes one and two words |
| `multiplexer` | `SelectWakesForTheFirstTimer`, `TimersKeepTheirTimes`, `BreakIsPrompt`, `RunServesAll` | 2 sockets, 2 timers with a period of 0 or 2 ms, 2 ms, 2 datagrams, one `AsynchronousBreak`, one SIGINT, one interrupt; one run |
| `osc_listener_delivery` | `HandedOverOnce`, `SocketOutlivesRun`, `LateShutdownReturns` | 2 set-ups, 3 datagrams of up to 2 messages or too long |
| `osc_listener_break` | violation of `ShutdownReturns` | 1 set-up, 1 datagram |
| `game_deployment` | `FinishedRunIsComplete`, `WholeBundlesKeepTheirNames`, `EveryCrashIsRepaired` | 2 games, 2 crashes |

Each module's `TypeOK` is checked in one run. It also shows that no thread enters a place that is not
its own, that cursors and iterators stay inside what they walk through, and that
the pipe never holds more bytes than there were breaks.

The bounds suffice because the code distinguishes no more cases: two threads on
one `Client` are the most that can disagree about `mClient`, a third connect
repeats the second; the space checks depend on the remaining words, which the
small capacity drives through every value from plenty to none; a second set-up
shows the reuse of the object. A second login meets all that the first left in
the map and on the server, and two users suffice for one to be in the map and
one not. Two games suffice for one to be whole and the other broken, before or
after it in the loop; a second crash can hit the repair of the first. Two timers
can be in or out of order, and a time of 2 ms lets a timer be late by a whole
period. The theorems hold without any of these bounds, the ones on liveness
excepted.

`MaxConnects` is applied with `Room`, which reserves a number for every
`connect()` that has been decided on, so that no behaviour stops in the middle
of a call. `MaxArguments` bounds the type tags that a caller may collect outside
a message. `MaxLogins`, `MaxChanges`, `MaxMessages`, `MaxClients`, `MaxSetups`,
`MaxDatagrams`, `MaxRuns`, `MaxTime`, `MaxBreaks`, `MaxInterrupts` and
`MaxCrashes` bound what the environment does, and `MaxTimers` how many timers
are attached.

`RosterIsCurrent` is checked with one device per user because it is false with
two (see the findings). `RunServesAll` excludes runs in which a signal
interrupted `select()`, for the same reason.

`CHECK_DEADLOCK FALSE` is set where the system may really stop: for
`OscListener` (the process may be terminated, and a shutdown may hang), for
`SocketReceiveMultiplexer` (`Run` may wait for ever), and for `XmppRoster` and
`AccountOperation`, whose applications need not call again.

Five more configurations are kept for findings below: `XmppClient_register.cfg`,
`XmppClient_stop.cfg`, `OscListener_waiting.cfg`, `MCOscStream_words.cfg` and
`AccountOperation_hang.cfg` let TLC find the violations of `OneTimeRegistration`,
`StopDisconnects`, `NoWaitingMessagesWithCallback`, `PointerStaysInBuffer` and
`InitAlwaysReturns`.

## Fairness

* `XmppClient`: each thread takes its next step if it needs no answer from the
  network, and a `connect()` of gloox that has begun returns one way or the
  other (it is subject to the system's time-out). No answer of the server is
  assumed, in particular none to a registration. `recv()` on a client that has
  been disconnected returns `ConnNotConnected`, as gloox specifies.
* `OscListener`: the two threads are scheduled, and a callback returns. Nothing
  obliges the application to call, a datagram to arrive or a signal to come.
* `SocketReceiveMultiplexer`: `Run` goes on and its listeners return, a thread in
  the middle of `AsynchronousBreak` finishes it, and time passes.
* `AccountOperation`: an object inside `init()` goes on, and the server answers
  every request that reaches it, because `recv()` is called without a timeout. A
  request that gloox did not send is not answered, and an answer need not be one
  that the client understands.
  Connections need not break, and nobody has to call `init()`.
* `GameDeployment`: a job that has started goes on unless the machine crashes, and
  each job is started again and again, which is strong fairness because the
  other job may be running at the moment (`LaunchUpdate` and `LaunchSync` assume
  that it is not): launchd's `StartInterval` of 60
  seconds and its daily start (setup/launch_services).

The safety properties, the refinements and the theorems use no fairness.

## Theorems

TLAPS proves them for every value of the constants that satisfies the module's
`ConstantsAssumption`.

| Theorem | States | Argument |
|---|---|---|
| `XmppClientProofs!TypeCorrect` | `[]TypeOK` | Not inductive alone. `SessionOK` says that a thread that is about to spawn, to finish `connect()` or to receive holds the number of an existing gloox client, and that `mClient` is set while a listener runs; without it `pc[sid[a]]` or `conn[sid[t]]` would be out of range. |
| `XmppClientProofs!ConnectedIsLive` | `[]ConnectedMeansLive` | Inductive with the two above: every step that takes a connection away from TLS also clears the flag, because `Listener::onDisconnect` does, on whichever thread. |
| `XmppSessionProofs!ConnectedIsCurrent` | `[]ConnectedMeansCurrent` | For a `Client` started once. `Session` says that one thread at a time is on its way to a new connection (`OneRegistering`) and that the current gloox client is down meanwhile, that the thread spawned for a gloox client is the one that opens it (`Openers`), and that those before it are down (`OldClientsDown`): so a callback always speaks of the current one (`UpIsCurrent`). |
| `XmppSessionProofs!EndReported` | `[]EndIsReported` | `EndSeen`: either the end is known, or there is a thread that will report it: one that connects, one that was spawned and has not begun, or one that receives on a connection that is up. |
| `XmppSessionProofs!StopIsClean` | `CleanStop` | `FirstConnect`: without a registration there is one gloox client and one thread, the one that is joined. |
| `XmppRosterProofs!TypeCorrect` | `[]TypeOK` | Types of stanzas, with two lemmas on sequences. |
| `XmppRosterProofs!IteratorValid` | `[]IteratorStaysValid` | `WireOK`: the roster is the first stanza of a connection. `QuietOK`: until it has been handled, `ROSTER_LOADED` is not in the queue and the application has not polled it, because `connect()` cleared the queue. |
| `XmppRosterProofs!PresencesFollowed` | `[]PresencesMatchRoster` | `Follows`: for every peer the last presence in the queue, or what was polled if there is none, is the status in the map; `QuietOK` establishes it when the map has been rebuilt. |
| `XmppRosterProofs!EventsInOrder` | `[]EventsAreOfThisConnection` | `PollKeepsOrder` and `ArrivalKeepsOrder`, on concatenation. |
| `XmppRosterProofs!RosterCurrent` | `[]RosterIsCurrent`, if a user has one device (`OneDevice`) | `CurrentInv` says, for every user, that handling what is under way leads to a status that is `Right`: connected exactly if a device of which the `Client` has been told is online. |
| `XmppRosterProofs!DepartedDisconnected` | `[]DepartedAreDisconnected`: the half of it that holds for any number of devices | The same invariant: `Right` asks only of users with one device that an online peer be connected. |
| `AccountOperationProofs!TypeCorrect` | `[]TypeOK` | `FreshOK`: clients are numbered as they come, so no two objects share one. |
| `AccountOperationProofs!PromiseKept` | `ImplementsPromise` | A refinement: `Init` maps to `Init`, `InitBegins`, `Serve` and the three ways out of `init()` to the steps of `AccountPromise`, all others to stutters. `ReplyOK` ties every reply under way to what the server did, `VerdictOK` every status. |
| `OscOutboundPacketStreamProofs!TypeCorrect` | `[]TypeOK`, with words of 4 and of 8 bytes | `EndElement` takes an offset out of memory; of one beyond the buffer `TypeOK` and this argument speak of the lower word. `LinkedStack` says that there is a sequence of slots, outermost first, strictly rising and a word below the cursor, each holding the one before it. `BeginElement` appends to the sequence, `EndElement` removes its last, and nothing else writes below the cursor. |
| `OscOutboundPacketStreamProofs!MessagesFit` | `[]FinishedMessageFits` | Rounding: the three bytes an argument's check adds are its tag, the comma and the terminator; the four a message's check adds are the shortest tag string. |
| `OscOutboundPacketStreamProofs!SizeValid` | `SizeIsValid` | `SizeFits`, and the equalities of the two closing steps. |
| `OscOutboundPacketStreamProofs!AlwaysReadable` | `[]RInv`, if the caller writes one outermost element (`OnePacket`) and words have 4 bytes (`WordSize = 4`) | `PInv` adds `PointerStaysInBuffer` to `IInv`; it is kept because `EndElement` reads what `BeginElement` stored (`NeverAstray`). For the rest see below. |
| `OscOutboundPacketStreamProofs!PacketImplemented` | `ImplementsPacket`, if `OnePacket` and `WordSize = 4` | See below. |
| `SocketReceiveMultiplexerProofs!TypeCorrect` | `[]TypeOK` | The pipe holds no more bytes than breaks and runs, counting the thread and the handler that have still to write theirs; the iterators stay in vectors that only `idle` changes. |
| `SocketReceiveMultiplexerProofs!FirstTimerFirst` | `[]SelectWakesForTheFirstTimer` | `QueueOK`: the queue is in order, or will be sorted, or the loop is about to end. |
| `SocketReceiveMultiplexerProofs!TimesKept` | `[]TimersKeepTheirTimes` | Entries grow by whole periods and only while they are not later than the clock (`OneMorePeriod`); sorting permutes them (`SortedProperties`). |
| `SocketReceiveMultiplexerProofs!BreaksArePrompt` | `[]BreakIsPrompt` | `BreakOK` says, for every place and every origin of the break, how many listeners may have been called since. |
| `OscListenerProofs!TypeCorrect` | `[]TypeOK` | The pipe holds at most one byte since `shutdown()` returns only when the socket is deleted (`BreakOnce`). |
| `OscListenerProofs!SocketIsSafe` | `[]SocketOutlivesRun` | Only `JoinAndDelete` deletes the socket, and only behind an ended thread; only `Bind` starts a thread, behind a new socket. |
| `OscListenerProofs!DeliveryIsExact` | `[]HandedOverOnce` | The message in hand is numbered higher than every message handed over before; a lemma on appending covers the queue and the callback alike. |
| `GameDeploymentProofs!TypeCorrect` | `[]TypeOK` | `RunOK`: the jobs exclude each other, by the assumption in `LaunchUpdate` and `LaunchSync`, and a game is renamed with a plist in hand. |
| `GameDeploymentProofs!NamesKept` | `WholeBundlesKeepTheirNames` | `GamesOK`: a game that was whole when the script started stays whole until its turn, so that its plist is read; one in whose bundle another's plist is written is truncated at that moment, hence not whole. |
| `GameDeploymentProofs!RunComplete` | `FinishedRunIsComplete` | `GamesOK` for the games already done, `RenameOK` for what the loop over the files leaves. |

In each module the inductive invariant is called `IInv` (on top of it,
`SessionInv` in `XmppSessionProofs`, `CurrentInv` in `XmppRosterProofs` and `RInv` in
`OscOutboundPacketStreamProofs`), with one step or one lemma per action
under it. TLC checked its conjuncts before they were proved.

That the packet stream implements `OscPacket` takes four groups of lemmas:

1. The recursive functions of the reader satisfy their equations for every
   memory (`PathEquation`, `ArgumentEndsEquation`, `ElementsEquation`): a solution
   is built up by induction on the distance between the offsets, which
   `NaturalInduction` gives for sets of numbers.
2. What is read between two offsets depends only on the memory between them
   (`ElementsFrame`, `PathFrame`), and if the sizes lead from p exactly to q
   (`Walk`), what is read up to any later offset is what is read up to q followed
   by what is read from there (`ElementsSplit`).
3. The stack threaded through the slots is `Chain`, outermost first, and
   `BeginElement` and `EndElement` push and pop it (`ChainIsStack`, `ChainPushed`,
   `ChainPopped`).
4. `RInv`, on top of `PInv`: in every open bundle the finished elements lead from
   behind its header exactly to where the next open element begins, or to the
   cursor (`BundlesReadable`); the block of the message in progress is what its
   tags announce (`MessageReadable`); nothing else is pending. The mapping alone
   is not enough: `Malformed` elements would map to themselves, but the next
   element would not be read behind them.

Each operation then has one lemma (`BeginBundleReads` to `ClearReads`), which
says that it keeps `RInv` and is the operation of the same name on the packet.
`Opening` and `Closing` hold what the two kinds of element have in common.

`OnePacket`, `WordSize = 4` and `OneDevice` are not technical. A stream into which
a second outermost element is written has no slot between the two; with words of
8 bytes the stack of open elements is lost when the first nested element ends, which
`MCOscStream_words.cfg` shows; and a peer with two devices is the case of the run
`xmpp_roster_broadcast`.

Only model-checked: the liveness properties `StopReturns`, `InitReturns`,
`LateShutdownReturns`, `RunServesAll` and `EveryCrashIsRepaired`, since the prover
does not do liveness under fairness. Every other property of a passing run is a
theorem.

A remark on the prover: version 1.4.5 hands its SMT solver an axiom on
sequences (`Len(s) = n` if and only if `DOMAIN s = 1..n`) that is stated for
every value and holds for sequences only. The proofs do not rest on it: all
modules were also proved with the axiom restricted to sequences.

## Findings

Where the code does not do what a line of the repository says. The first three
have a run, the next five a configuration, and the last three follow from a
model as told.

* `xmpp_join`: "Destructor joins thread if necessary" (XmppClient.h:153). The
  destructor joins nothing, and `disconnect()` joins only the thread spawned
  last. After a registration the listener thread itself has called `connect()`:
  it keeps looping on `mClient` when the `Client` has been deleted.
* `xmpp_roster_broadcast`: "Sends the input message event to all clients
  currently connected" (PluginInterface.h:157). Only `handleRoster` puts peers
  into the map. A contact that is added after the login, the game engine itself
  for instance, is reported as available by `getNextPresenceEvent`, and no
  broadcast addresses it before the next login. Likewise a peer with two devices
  of which one logs out: the last presence of any device decides.
* `osc_listener_break`: "call this from another thread or signal handler to exit
  the Run() state" (ip/UdpSocket.h:71). A break requested before the thread has
  entered `Run()` is cleared by `Run()`, and `shutdown()` waits for ever. The
  property that does hold, `LateShutdownReturns`, speaks of a thread already in
  its loop.
* `OneTimeRegistration`: "a one-time account registration after the first failure
  to authenticate" (XmppClient.h:159-161). The `connect()` that follows a
  registration arms the next one.
* `StopDisconnects`: "Disconnects the client (if already connected)"
  (PluginInterface.h:120). A login that fails just after `disconnect()` has
  tested the flag registers and reconnects, and `stopInterface` waits for the
  thread that receives on the new connection.
* `NoWaitingMessagesWithCallback`: `hasWaitingMessages` is "Always false if
  callbacks have been registered" (OscListener.h:56). Messages that arrived
  before the registration stay in the queue.
* `PointerStaysInBuffer`: "we store an offset rather than the actual pointer to be
  64 bit clean" (osc/OscOutboundPacketStream.cpp:168). The offset is stored as a
  `uint32` of 8 bytes in a slot of 4 bytes wherever the macro `x86_64` is not
  defined, which is every configuration of the project. In every bundle that
  `OscSender` sends with something in it, the end of the first nested element leaves a pointer out of
  the buffer, which the next end of an element dereferences.
* `InitAlwaysReturns`: "If the server requires more than a username and password,
  then the process will always fail" (AccountRegistration.h:48). If the server asks
  with a data form, or the name is one that XMPP does not allow, it neither fails nor
  ends. `InitReturns` is what holds instead: there is no third way to wait for ever.
* "call this from a listener to exit once the listener returns"
  (ip/UdpSocket.h:70). After a packet listener has called `Break`, one timer that
  is due is still called (ip/posix/UdpSocket.cpp:450-464); `BreakIsPrompt` has
  this call as its bound, and is violated with 0 in its place.
* "loop and block processing messages indefinitely" (ip/UdpSocket.h:68). After a
  signal `Run` blocks in a read of the empty pipe (ip/posix/UdpSocket.cpp:429-436)
  and serves nothing; `RunServesAll` is violated without `Undisturbed`.
* "unzip games downloaded in the last hour" (setup/esc_scripts/gamebucket_sync.sh:25).
  All archives are unzipped and all games replaced. `EveryCrashIsRepaired` depends
  on it: it is violated if only some of the archives are.

## What is not modelled

`PROJECT.json` lists each component with its status.

* Most of the repository's source lines are not its own program: four generated
  `RegisterMonoModules.cpp` and the other files of the exported Unity projects
  are more than half of them, and contain registrations of functions, no
  behaviour. The models cover the parts with state and concurrency; what is left
  of the product's own code is listed here.
* The docent application (`product/xcode/EscDocent`). Its state is a set of flags
  of its screens, which follow messages from the launcher and the games; neither
  is in the repository, and a model would have to invent their answers. Its retry
  timer is an application of `xmpp_overlap`. Read along the way, without a line
  that says what is meant: the flag for the init message is not reset by the
  re-connect button, `checkIfLoaded` may be sent before the login is finished, and
  `isGameLoaded` stays set when another game is loaded.
* Data races inside the containers of `xmpp::Client`: queue operations are atomic
  in the models, which look at their order. The roster map is modelled entry by
  entry.
* Packets that the stream did not write, and the argument iterator of
  `ReceivedMessage`: what they do is decided byte by byte.
* The one message session that `Listener` keeps, and the signal callbacks of
  `Client`, which nothing in the repository sets.
* Overlapping runs of the two deployment jobs (see the module), and the other
  scripts.
* Which values the receiving side reads where an `int32` has 8 bytes and its upper
  half is whatever memory held: `OscListener` lets a message be unreadable, and
  otherwise messages are what was sent. Big-endian machines.
* Pure input and output, formatting, logging, device identifiers, name resolution,
  test programs, server configuration and everything vendored.
