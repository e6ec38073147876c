# MeleePad: TLA+ models, checks and proofs

MeleePad runs a recompiled game on iOS and lets people find each other through a small
public lobby service. This directory models the five parts of it where ordering, time and
failure matter most:

* the lobby service with its HTTP layer (`services/lobby/server.py`);
* the app's client of it, with the Online Play screen
  (`apple/ios/MeleePadPublicLobbyClient.m`, `MeleePadOnlinePlayViewController.mm`);
* the object that owns the game thread and the netplay session in the app
  (`apple/ios/MeleePadCoreHost.mm`, with the view controller that drives both);
* the player of controller scripts that the tests of a running game use
  (`scripts/gcpipe.py`);
* the Slippi laboratory: twelve scripts (`scripts/*slippi*.py`) that build, run and
  package, each resting on the results the others recorded.

Every definition is translated from the code. `PROJECT.json` maps each one to its lines
(`map`), lists the runs, the theorems, the hazards and the disagreements found.

    tlc -workers 2 -config LobbyStore_seats.cfg MCLobbyStore     # one run
    tlapm LobbyStoreProofs.tla                                   # one module's proofs

## 1. Inventory

### Lobby service (`services/lobby/server.py`)

One process. `LobbyHTTPServer` takes a worker slot of a bounded semaphore for each
connection and starts a thread; the thread's `LobbyHandler` reads the request, limits the
client's address, authenticates, reads the body, and calls one operation of `LobbyStore`.
The socket has a timeout, so no wait for a client is unbounded. Everything is in memory; a
restart forgets it.

| State | Where | Changed by |
|---|---|---|
| sessions: id, token, compatibility profile, hidden sessions, `expires_at` | `_sessions`, `_token_to_session` | `create_session`, `block`, `report`, every purge |
| rooms: owner, capacity, state, `last_heartbeat`, reservations | `_rooms` | `create_room`, `heartbeat`, `join_room`, `heartbeat_member`, `leave_room`, `delete_room`, every purge |
| chat of a room: `messages` (bounded deque), `next_message_id` | `Room` | `send_message`; goes with the room |
| reports (bounded deque) | `_reports` | `report` |
| three sliding windows: requests per address, chat and reports per session | `SlidingWindowLimiter` | `allow_request`, `send_message`, `report` |
| worker slots | `_worker_slots` of `LobbyHTTPServer` | `process_request`, `process_request_thread` |

Threads share the store under one re-entrant lock, but a request takes it several times:
`authenticate` returns a `Session` object and gives the lock up; the operation takes it
again and acts on that object, which may have been purged meanwhile. `create_session`,
`create_room` and `send_message` read the clock *before* they wait for the lock. Nothing
but requests purges.

*What makes it correct*: a room is never overfull; a session hosts one room; nobody loses
a room or a seat to someone else; what has lapsed is not revived and is not shown; the
listing and the join decide alike; limits hold however stale the clocks are; chat ids are
unbroken for a polling reader; a report takes effect once, and a refused one not at all; a
refused publish costs its owner no room; a worker slot always comes back; each client is
counted under one key, its own, and refused only for its own requests or when the limiter's
table is full of others.

### Core host (`apple/ios/MeleePadCoreHost.mm`) and view controller (`MeleePadGameViewController.mm`)

| Actor | Runs | Blocks on |
|---|---|---|
| main thread | the user's commands, the poll timer, main-queue blocks | `join` of the game thread, in `stop` |
| game thread | `runGameWithGameRoot:` - create the runtime, `Run`, tear down | `dispatch_sync` to the netplay queue, `Run` |
| netplay queue (serial) | `beginNetplay`, `pollNetplay`, attach and finish blocks, `endNetplay` | nothing of the others |
| the session's own threads (external) | boot data arrives; peers stop the match | - |

Shared state: atomics `_stopRequested`, `_starting`, `_running`, `_allowOfflineCheats`;
`_runtime` under `_runtimeMutex`; `_netplaySession`, `_netplayBootInstalled` and
`_netplayServicesActive`, used on the netplay queue (and read elsewhere); two callbacks set
by the view controller.

*What makes it correct*: `stop` always returns, at whatever point of its start the game
thread is; no pointer to the runtime outlives it; netplay never runs with local cheat
codes; the end of a match brings the user back to the room; a match that is announced has
a runtime; leaving leaves nothing running.

The MeleePad rooms of this host are compiled for the simulator build
(`TARGET_OS_SIMULATOR`); the device build sends the same menu entry to the Slippi host.

### Public lobby client and Online Play screen

| State | Where | Changed by |
|---|---|---|
| `_token`, `_activeRoomID`, `_hosting` | `MeleePadPublicLobbyClient` | the handlers of replies; a host's Cancel; every 401 |
| `_publicHostPending`, Host button, setup or lobby shown | `MeleePadOnlinePlayViewController`, one per presentation | the user, completions on the main queue, snapshots of the netplay session |
| `_onlinePlayController`, `_onlinePlaySessionRequested`, `_publicGameplayHeartbeatTimer` | `MeleePadGameViewController` | delegate calls, match callbacks, the timer |

The client sends each request on its own, waits for none, and cancels none. A handler runs
on URLSession's queue when the reply comes and then queues the completion on the main
queue, where some completions hold their controller and others find it gone.

*What makes it correct*: a reply that is late never gives the app a role in a room it does
not have; a host's match is listed as `in_game`, and its lobby as `waiting`, however
heartbeats cross; no failed request leaves a control disabled; leaving ends presence.

### Controller script player (`scripts/gcpipe.py`)

| State | Where | Changed by |
|---|---|---|
| last value of each watched location, the datagram socket | `MemoryWatcherClient` | `_receive`, `_drain`, the emulator |
| sticks and buttons of the game's controller | the pipe that `PadWriter` writes | the steps |
| deadlines; what a loop has counted | local variables of the steps | each step |

One thread, against a game that publishes what it likes: datagrams get lost, the counters
wrap at 2^32, a scene resets them, or nothing comes at all. The clock is read by each loop
test and again by `_receive`.

*What makes it correct*: whichever way a step ends, no stick stays steered; a script that
passes has let go of what it tapped; waiting for n frames never returns early; every
script ends.

### Slippi laboratory (`scripts/*slippi*.py`)

| State | Where | Changed by |
|---|---|---|
| sources, libraries, the game's files, packaged bundles | the file system | anybody, at any time; the scripts' products by the scripts |
| `results.json` of each run: verdict, hashes, earlier results it rests on, whether inputs were unchanged | one output directory per run | the end of a run |
| children (peers, emulators, fixtures, controllers) | the script | `Popen`, their exits, time limits, the clean-up |

The operator runs one script after another by hand. `probe-slippi-exi` is followed by
`-boot`, that by `-local-game` and `-ios-link`, those by `build-slippi-ios-probe`, and all
by `build-slippi-direct-probe`; the others stand alone. Minutes pass between the hashing of
a file and its use.

*What makes it correct*: a result that says its inputs were unchanged names the hashes of
what was really read and run; a candidate rests on one chain of results; no script leaves
a child behind by itself; every script ends although a child hangs.

### Everything else

None of these is modelled; the reasons are in `PROJECT.json` with each component.

| Component | State and operations | Why not |
|---|---|---|
| Chat of the client, rejoining, name confirmation, automated joining | `_lastMessageID`, rows shown | the rest of a screen whose rooms and session are modelled; the poll has one cursor and runs on one queue |
| System pause and audio interruption (`applySystemPauseState`) | active, interrupted, paused, bounded retries | waits for states of the emulator core, which is not in the repository |
| NSO GameCube controllers (`apple/ios/NSOGC/`) | scan, connect, setup steps, timers | callbacks of CoreBluetooth on one queue; a module of its own, not written |
| Controller slots, connection quality, input mixing | one pure step function each | called from one thread and unit-tested |
| Slippi host (`MeleePadSlippiHost.mm`) | start and stop of the Slippi client | the client is third-party and not in the repository |
| Game overlay, settings, mapping, diagnostics, disc extraction, app delegate | UIKit layout, stored preferences, files | no interleaving of their own |
| Benchmark route, measurement, analysis, build and staging scripts, `demo_host.py` | developer tools that run once, straight through | nothing kept between runs |
| Archived patches | diffs of code that is not in the repository | - |

## 2. Modules

| Module | Models | Builds on |
|---|---|---|
| `LobbyStore` | sessions, rooms, seats, request threads, clock | - |
| `LobbyPresence` | the same service under the scheduling that liveness needs; how long clients have been silent | `LobbyStore` |
| `SeatDirectory` | **abstract**: hosts, tables, seats; no clocks, threads or leases | - |
| `LobbyDirectory` | the refinement mapping from `LobbyStore` to `SeatDirectory` | `LobbyStore`, instance of `SeatDirectory` |
| `SlidingWindow` | `SlidingWindowLimiter` as operators on its table | - |
| `RequestLimiter` | one limiter with callers whose clocks are stale | `SlidingWindow` |
| `LobbyChat` | chat, reports and hiding | `LobbyStore`, two instances of `SlidingWindow` |
| `LobbyHTTP` | connections, worker slots, the order of the checks of a request, answers and what interrupts them | - |
| `CoreHost` | game thread, runtime pointers, netplay queue, main queue, view controller commands | - |
| `LobbyClient` | one app: client, Online Play screen, gameplay heartbeat, requests in flight, and the service as they see it | - |
| `PadScript` | a script of controller steps, its watcher, its deadlines, and the game's memory | - |
| `SlippiLab` | the laboratory's scripts as rows of one table, the steps they share, files, children and results | - |
| `LobbyStoreProofs`, `LobbyHTTPProofs`, `RequestLimiterProofs`, `CoreHostProofs`, `LobbyClientProofs`, `PadScriptProofs`, `SlippiLabProofs` | theorems about the module they name | that module, TLAPS |
| `LobbyServiceProofs` | the refinement, presence, chat and reports, and the refinement again with chat beside it | `LobbyDirectory`, `LobbyPresence`, `LobbyChat`, `LobbyStoreProofs` |
| `MC...` | symmetry and bounds for TLC | the module they name |

A definition commented `mutant:` is a plausible slip in the definition that follows it; no
specification uses it. Each shows, for one property, that the property would notice.

### LobbyStore

* An action is one stretch of code under one acquisition of the lock. A request is at
  least two of them: `Authenticate(w, s)`, then the operation; between them `worker[w]`
  holds the session and anything may happen, purges included.
* `ReadClockForSession` and `ReadClockForRoom` are the stretch *before* the lock in which
  the id is drawn and the clock is read; `age` is how old that reading is when the lock is
  taken, at most `MaxDelay`.
* A deadline is kept as the time left until it, and 0 once reached. The code only compares
  deadlines with the clock, so nothing is lost, and no clock needs a bound.
* Every operation that starts with `_purge` purges in its own action (`PurgedSessions`,
  `PurgedRooms`); `leave_room`, `delete_room` and `block` do not purge, and neither do
  theirs here.
* Ids are `uuid4` in the code. Here an id is drawn again once nothing refers to it.
* Requests that validation refuses never reach the store and are left out; so is the text
  of names, regions and messages. The profile keeps what is compared: the product, and the
  other five fields as one.

### LobbyChat

`SendMessage` carries the clock reading of `ReadClockForMessage`; membership is tested
under the lock, then the sender's limit. `Report` looks for an identical report first,
and only a new one is limited; `HidesTarget` says which reports take effect. Chat goes with
its room.

### SlidingWindow, RequestLimiter

Entries are ages; a caller's reading may be `delay` old, so `Expired(age, delay)` is the
code's `event <= now - window`. The history variable `admitted` is a full record the code
does not keep; the properties compare the bounded table's decisions with it.

### CoreHost

* `game.pc` is where the game thread is in `runGameWithGameRoot:`. A thread that has
  returned is `done` and still `Joinable`, as `std::thread` has it.
* `netplay` and `mainq` are the queues of blocks, oldest first; a `dispatch_sync` of the
  game thread is a block in `netplay` and a `wait...` step.
* `stop` is `Stop` (flag, then `RequestStop` under the mutex) followed by `Join`; while
  `main` is not `free` the main thread does nothing else.
* `ui` is what the view controller keeps: the screen shown, whether its timer polls,
  whether a session was asked for, and what becomes of the host.
* External: `Runtime::Create` may fail, `Run` may return by itself, `BootArrives` and
  `PeerStops` are the peers. A `RequestStop` makes `Run` return even when it comes before
  `Run`, which `stop` relies on when it joins.
* The error completions of `beginNetplay` only put a message on the connecting screen, which
  the user can then only leave; they change nothing that is kept here.
* One host is followed to its end; the new host that the app then creates is the initial
  state again. After Cancel the controller gives no further command to this host: its
  screen is being dismissed.

### LobbyClient

* `net` holds the requests in flight. `Serve(n)` is the service acting on one; `Handle(n)` is
  the handler of a reply it can use or of a 401, `Fail(n)` of anything else - a refusal, a
  network error or a timeout, before or after the service acted. They happen in any order.
* `mainq` holds the completions that do something; heartbeats, leaving and closing have
  none.
* `service` is `LobbyStore` at the grain one app can see: its tokens, which expire, and
  rooms, which lapse at any time. A lapse is not tied to a clock: the client cannot know
  the deadline, so every moment is possible.
* `ui.vc` names the controller on screen. A name is used again once no request and no
  completion carries it. `HostReadyCrashes` is the completion of `hostPublicGame` on a
  controller that is gone, and the relaunch that follows.
* `session` is what the core host runs: `host` and `guest` through the public list,
  `private` for Private Room and Direct IP. `Began` leaves a running session alone, as
  `beginNetplay` does.
* The nickname stays the same, so a token never has to be replaced by another.

### LobbyHTTP

* `phase` is where a connection stands: `away` and `queued` before it is accepted, then one
  name for each point at which its thread may wait for the client or raise. `Held` are the
  connections that have a worker slot; `slots` is the semaphore.
* `Accept` and `StartThread` are the two halves of `process_request`, on the serving thread:
  no slot shuts the connection down; a thread that cannot be started gives its slot back.
* `ReadHead`, `Dispatch`, `Authenticate`, `ReadBody`, `Run`, `Reply` follow `_handle` and
  `_dispatch` in the order of their checks. The refusals of each endpoint are tables of
  statuses (`BodyRefusals`, `StoreRefusals`), named after the code's validators.
* A client may stall or go away at every read and write. `TimeoutError` is taken for an
  internal error, so that a second answer may be begun behind the first (`Fault`);
  `BrokenPipeError` ends the request.
* `Run` does the store's operation or refuses; what either changes is in `LobbyStore` and
  `LobbyChat`, where a refusal too purges first.
* `allow_request` is the limiter reduced to what this layer can see: `admitted` are the
  requests inside the window, `Lapse` takes one out, and `Keys` are the clients that the
  table cannot forget. A client without a request in the window is refused when `MaxKeys`
  others have one (`server.py:141`). The ages and the deques are in `SlidingWindow`.
* A connection that is closed keeps only whose request it was, for the limiter.
* A client comes directly or through the proxy (`Direct`, `Proxied`); a service that trusts
  the header is only reached through the proxy, as the deployment notes have it.

### PadScript

* `at` is the point of the program, `wait` what the loop under way waits for, `then` where
  it goes on. `left` and `outer` are the ticks to the inner and the outer deadline. A tick is
  the half second after which a receive gives up.
* `Test` is the loop's own test and `_receive` the second reading of the clock, with time
  free to pass between: the loop may find time left and `_receive` raise.
* `GameStep` changes memory and publishes it or loses the datagram. Three locations stand
  for all: a wrapping counter, a flag, and whether the cursor is on its target.
* `Raise` is an exception leaving a step; only `steer_memory_f32` has a `finally`. The pipe
  takes every command: a write that fails (`gcpipe.py:201`), with the game gone, is not modelled.

### SlippiLab

* A script is a row: what it admits (`...Admits`), prepares and compiles (`...Builds`), runs
  (`...Runs`) and hashes again at its end (`...Concludes`). The rows are translated script by
  script; the actions `Admit`, `Prepare`, `Compile`, `BeginStep`, `Launch`, `Await`,
  `Proceed`, `Conclude`, `Abort`, `Reap` are what all of them do with a row.
* A file is a group of files that every script treats alike; its version stands for their
  hashes, and 0 for the hash the repository's locks pin. `Edit` may come between any two
  steps. A file is put back to the pinned version (`Restore`) only while no script runs.
* `used` is the history of versions read by tools and children: a child is taken to read its
  inputs throughout its step. `kept` is what the script knows.
* The children of a step are started one by one (`Launch`), and any start may fail
  (`Break`) or be interrupted. `holds` of a row says from when on the cleanup knows a child:
  `subprocess.run` at once, the local game and the reference laboratory when it is appended
  to their lists, the peer probe only when its comprehension is complete. `Unheld` are the
  children that a failure or an interrupt at that moment would miss; `orphans` records the
  scripts that left one, and whether the operator's interrupt did it.
* A result that gives a verdict of several runs keeps that of the first run apart (`first`):
  the local game and the snapshot module ask for no more of the boot probe.
* `results` are all `results.json` in order. The newest of each script is what the operator
  passes on. `online` is `build-slippi-ios-probe` with `--local-online`, given a result of
  `-local-game`.
* One script runs at a time; admission is one step; compilers end.

## 3. Runs

| Run | Question | Bounds and why they are enough |
|---|---|---|
| `lobby_seats` | Can any interleaving overfill a room, give an owner two rooms, or take a room or seat from someone whose lease runs? Does the listing agree with the join, and does the service implement `SeatDirectory`? | 3 sessions (an owner and two guests for the one seat left), 2 room ids (one being replaced while another exists), 2 products, one hidden host, 2 threads with clocks up to 1 old, leases of 1 and 2 ticks, so that every pair of a stale clock and an expiry occurs |
| `lobby_presence` | Do silent clients disappear, is what lapsed reclaimed, and does it stay lapsed? Does a refused publish cost a room? | 2 sessions, 1 room at a time, so that every publish over a live room is refused as `LOBBY_FULL`, 2 ids to publish with; leases of 1, 2 and 4 so that seat, room and session lapse apart |
| `request_limiter` | Does the bounded table limit rightly with stale clocks? | 4 keys for 3 places, limit 2, window 4, delay 1: the table overflows, purges and forgets |
| `lobby_chat` | Are ids unbroken, posts by members only, reports effective, and refused reports without effect? | 2 sessions and 2 threads, so that two posts or two identical reports of one session cross; clock readings up to 1 old; 2 messages kept of 3, 1 report kept, report limit 1 |
| `lobby_http` | Does every slot come back, is a client counted under one key and refused for its own requests or a full table only, does every connection end? | 3 connections for 1 slot; 2 clients and the proxy, a budget of 2 and a table of 1: three requests of one client overrun its budget, and one of a second client finds the table full; an endpoint of each kind: open, with a session, with a body, with a cursor, unknown |
| `client_rooms` | Can replies leave the app acting as host of a room it joined? | 2 requests in flight (two replies cross), 2 sessions (a 401 of the first reaches the second), one own room and one other |
| `client_listing` | Is a match listed as `in_game` and a lobby as `waiting` in the end, and does the Host button come back? | 2 requests in flight (a stale heartbeat and the one that puts it right), 1 session, no joining |
| `client_leave` | *violated*: does leaving end presence? | as `client_rooms`, 1 session |
| `core_host` | Are runtime handles live, codes off in netplay, does `stop` return, does a match's end reopen the room? | solo game and up to 3 matches, 2 polls under way: a poll may take boot data while another is queued |
| `core_host_rematch` | *violated*: does the match callback mean a runtime has started? | 2 matches |
| `pad_script` | Does steering let the stick go, does a passing script let its buttons go, does `wait_counter` wait long enough, does every script end? | counters wrap at 8, 2 increments, time for 3 receives, 6 changes of memory (enough for a wrap, a reset and a lost datagram), scripts of two or three steps of all ten kinds, each played twice |
| `slippi_lab` | Is what a result says true of what ran, is the chain one chain, do the scripts clean up after themselves and end? | the chain of six scripts with one change of any file at any moment, with three of the disc image and its copy, or with one script run again; two shorter chains and the reference laboratory with one change; the other lone scripts with two; starts, commands and children that fail, and interrupts, anywhere |

`MaxKeys`, `MaxMessages` and the like are constants of the code (`MAX_RATE_LIMIT_KEYS`, ...).
Named bounds: `MaxDelay` (staleness of a clock reading), `Blockable` (who is hidden),
`LastMessageId`, `MaxMatches`, `MaxPolls`; in `LobbyClient` `Slot`, `Kinds` (the requests the
app makes in a run), `MaxTokens`, `Screen`, `MaxQueue` (the user acts only while fewer
completions wait); in `LobbyHTTP` `Conn` (each is one request) and `Endpoint`; in `PadScript`
`Scripts` and `MaxEvents`; in `SlippiLab` `Plans`, which say what the operator runs, how often
files change, and how many ticks a limit has. The time limits of the code (0.5 s, 20 s,
45 s, 1 h) are scaled to a few ticks that keep their order. Symmetry is used in the runs
without liveness, for ids that no property names.

**Fairness.** `LobbyPresence`: time passes; a request that has its thread is carried out;
requests keep arriving from *someone* - the clients poll, and nothing else purges, so
without it nothing is ever reclaimed. `CoreHost`: threads and queues run; `Run` returns
once asked. The user, the timer and the peers owe nothing. `LobbyClient`: a request ends
(URLSession's timeouts of 8 and 12 s), the main queue is drained, the two heartbeats are
repeated, and of repeated heartbeats not all are lost; the fairness is strong where a bound
(a free slot) may hold the step back now and then. The user and the match owe nothing.
`LobbyHTTP`: the serving thread serves, and a worker's wait for its client ends, by the
socket's timeout at the latest; clients owe nothing. `PadScript`: the program runs and time
passes; the game owes nothing. `SlippiLab`: the script runs and time passes; children need
not exit, and nobody need interrupt.

**Deadlock** is checked in every run but those of `CoreHost`, `LobbyHTTP`, `PadScript` and
`SlippiLab`, where a freed host, closed connections, an ended program and a finished plan
have no further step.

## 4. What disagrees with a document, and what was seen on the way

Shown by a run:

* `core_host_rematch`: the second match of a session. The first match's thread ended by
  itself and was never joined, so `startWithGameRoot` returns at its first test
  (`MeleePadCoreHost.mm:348`), while the boot data is consumed and `onNetplayMatchStarted`
  fires. The header says that it fires only after the runtime has started.
* `client_leave`: Cancel while the room is being published. `closePublicPresence` finds no
  active room and returns (`MeleePadOnlinePlayViewController.mm:1786`); the reply then makes
  the new room the active one, with nobody left to close it. Exit to home, which never
  calls it, violates the same property.

Reached by a model, and not made a run of its own:

* `block` takes any session id (`server.py:603`), while `docs/PUBLIC-LOBBY-DEPLOYMENT.md:133`
  says that blocks require room context. The properties of `LobbyStore` hold with that.
* A poll takes boot data and queues the block that boots the match; the user cancels;
  `endNetplay`'s `stop` finds no thread to join; then the block runs and starts one
  (`MeleePadCoreHost.mm:1190`), and the host is dropped with it running.
* A client that stops reading gets, or rather does not get, a second answer of status 500
  behind the first (`server.py:886`), after an operation that was done: a 500 does not say
  that nothing was changed.
* A client that has asked nothing is refused when `MAX_RATE_LIMIT_KEYS` others are active
  (`server.py:141`); `BudgetPerClient` and `RefusalsJustified` both name that reason.
* `probe-slippi-peer.py:100` starts both peers in a comprehension before its `try`: when the
  second cannot be started, or an interrupt comes between, nothing kills the first.
  `NoOrphans` therefore excepts this script. It excepts interrupts too: one may come after a
  child is started and before it is appended to the list that the cleanup goes through
  (`probe-slippi-local-game.py:314`, `run-slippi-reference-lab.py:171`), or while the
  reference laboratory waits for its children after SIGTERM.

Noted in the scripts while translating them; the properties of `SlippiLab` are worded so as
not to claim the contrary:

* `probe-slippi-ios-link.py:30` and the local game accept a boot result whose
  `inputs_unchanged` is false; with `--local-online`, the local game's boot result need not
  be the link's (`build-slippi-ios-probe.py:77`).
* `build-slippi-direct-probe.py` checks the base bundle at line 168 and copies it at 249,
  after minutes of compiling.
* The boot harness (`probe-slippi-boot.py:274`) and the captured memory of the snapshot
  module are hashed only at the end, after their use.
* A `pause` of `gcpipe.py` may raise `TimeoutError` with a button tapped; the script then
  fails with the button down. Scripts that pass do not (`PassedReleasesTaps`).

## 5. Proofs

`LobbyStoreProofs` proves of `LobbyStore`, for every value of the constants that satisfies
`StoreAssumption` (finitely many sessions, time limits in `Nat`, capacities of at least 2,
`MaxDelay` within the leases it is subtracted from):

* `TypeCorrect`: `Spec => []TypeOK`;
* `CapacityKept`: `Spec => []SeatsWithinCapacity`;
* `OneRoomKept`: `Spec => []OneRoomPerOwner`;
* `OwnerNeverSeated`: `Spec => []OwnerHoldsNoSeat`;
* `ListingTellsTheJoin`: `Spec => []ListingAgreesWithJoin`.

The argument: every step leaves each room of the next state either as a part of a former
room (same owner and capacity, a subset of its reservations), or new and empty, or with
one more guest admitted under `JoinGranted`. The lemmas show this once for a purge, the
clock and each operation; the capacity follows because `JoinGranted` counts exactly the
reservations that the purge keeps, and a reservation renewed adds none. `TypeOK` is what
makes the invariants inductive: ages stay within `MaxDelay`, so `SessionTTL - age` and
`RoomTTL - age` are natural numbers, and a thread that publishes holds a session.

The same module proves, under the same assumption, what single steps may do:

* `RoomsLeaveWithCause`: `Spec => RoomLossJustified`;
* `SeatsLeaveWithCause`: `Spec => SeatLossJustified`;
* `RefusedOwnersKeepRoom`: `Spec => RefusalKeepsRoom`;
* `RoomsObeyOwner`: `Spec => OwnerControlsRoom`;
* `LapsedLeasesStay`: `Spec => LapsedStaysLapsed`.

They come from one lemma, `NextFates`: a step does one of seven things to a room (it
stays, is trimmed to its live seats, is prolonged by its owner, gives one lease, loses a
seat at the holder's request, ages, or is new), and a room that is gone had lapsed or was
taken by its owner. It needs an invariant besides `TypeOK`: the id that a thread has drawn
for its room is nobody else's (`DrawnFresh`); without it `create_room` could overwrite a
room.

`LobbyServiceProofs` proves of the modules built on `LobbyStore`:

**The directory.** `StoreImplementsDirectory`: `Spec => ImplementsDirectory`, that
is, `LobbyStore` refines `SeatDirectory` under the mapping `Tables`. A step either only
shrinks the view - every open room was open before, with the same host, capacity and state
and at least the guests it has now - and is then the directory's `Expire`; or it is
`create_room` by a live host (`Open`), `heartbeat` (`Declare`) or the join of a live guest
(`Enter`). Each of the three shrinks the view instead when its own lease is empty or its
session gone, which is where the stale clocks come in. `OneRoomPerOwner` makes the mapping a
function of the host, before and after the step.

**Presence.** `SilenceEndsPresence`: `PresenceSpec => []SilentAreGone`, from
`StoreAssumption` and `PresenceAssumption`: a reservation (20 s) lasts no longer than a room's
lease (45 s). The invariant is a sum: what is left of a lease and how long its holder has
been silent come to at most `RoomTTL` (`LeasesMatchSilence`). Time takes from the one what it
adds to the other; a request of the holder sets the silence to zero and a lease to at most
`RoomTTL`; a request of anyone else leaves both alone or shortens the lease. That last part
is why the fates of a room above say by whose request each lease is prolonged. At a silence
of `RoomTTL` nothing is left of any lease.

**Chat and reports.** Of `LobbyChat`, from `StoreAssumption` and `ChatAssumption` (among
others, a room keeps at least one message and the service at least one report):

* `IdsUnbroken`: `ChatSpec => []MessageIdsUnbroken`. A step empties a room's chat, leaves it
  alone or adds one message of a member (`ChatMoves`); what a full deque drops is its first;
* `MembersPost`: `ChatSpec => OnlyMembersPost`, from the same account of a step;
* `ReportsHide`: `ChatSpec => []ReportHides`. A request makes rooms, sessions and reports
  mention no session but its own or one known before, so the session that a thread is about to
  register is mentioned nowhere (`RegisteringIsNew`); registering it, the only step that takes
  anything from `blocked_sessions`, therefore touches no report (`ReportedStayHidden`);
* `HidingIsOnRecord`: `ChatSpec => HiddenOnlyOnRecord`. Only `Report` and `Block` add to what a
  session hides, and `Report` only what it finds on record or records. That a report over the
  limit hides nobody is shown here only: in the run, with two sessions, a session over its
  limit already hides the one it could report;
* `ChatTypeCorrect`: `ChatSpec => []ChatTypeOK`, the types of messages, reports and both
  limiter tables. What `_live_events` keeps of a deque is a suffix of it, which takes the
  existence of a first entry that is not expired: the prover gets it from the well-foundedness
  of `<` on `Nat`, the one induction principle it can instantiate.

**The directory beside the chat.** A request of the chat does to sessions and rooms nothing
or a purge and publishes no room (`ChatSteps`), so what `LobbyStore` keeps is kept:

* `ChatKeepsSeats`: `ChatSpec => [](SeatsWithinCapacity /\ OneRoomPerOwner /\
  OwnerHoldsNoSeat)`;
* `ServiceImplementsDirectory`: `ChatSpec => ImplementsDirectory`. A purge only removes what
  has lapsed, and is a step of the directory or none.

`LobbyHTTPProofs` proves of `LobbyHTTP`, from `HTTPAssumption` (finitely many connections;
neither the proxy nor "no address" is a client):

* `HTTPTypeCorrect`: `Spec => []TypeOK`;
* `SlotsKept`: `Spec => []SlotsConserved`. A step moves one connection into or out of the
  phases that hold a slot and changes `slots` by one, or neither;
* `BudgetsAreSeparate`: `Spec => []BudgetPerClient`, with `KeyInv`: the limiter's key of a
  request that was read is the address of its own client. So what is counted under a key is
  what its client asked, and the table holds one key for each active client
  (`CountedIsAdmitted`), which is what a refusal has to be justified by.

`RequestLimiterProofs` proves of `RequestLimiter`, from its assumptions on window, delay and
keys: `TableStaysBounded`, `LimitsHold` and `RefusalsAreJustified`. Histories are oldest
first, and a client's deque corresponds to the recent part of its history counted from the
latest end (`Matches`); what the deque has dropped is too old to matter to any later clock.

`CoreHostProofs` proves of `CoreHost`, for any number of matches and polls:

* `HandlesNeverOutliveRuntime`: `Spec => []RuntimeHandlesLive`;
* `NetplayNeverRunsCodes`: `Spec => []NetplayWithoutCodes`.

The first needs to know where the game thread is while each pointer is set
(`PointerFollowsThread`, `AttachedFollowsThread`). What makes that inductive is about the
serial queue: it holds at most one block of the game thread, which waits for it
(`OneBlockHanded`), so no attach can run after the finish of the same match. The second needs
three facts more. A host that is asked to leave begins nothing any more, and no begin is
queued behind an end (`EndIsLast`), so a session cannot be begun by a block that is left
over; `beginNetplay` joins the thread and clears the flag before its block is queued
(`CodesForbidden`), so no thread that read the flag as true is there when the session
comes; and while there is a session nothing allows codes again.

`PadScriptProofs` proves of `PadScript`, for any scripts, deadlines and lengths of pause,
any number of increments and every even width of the counter:

* `SteeringNeverDeflects`: `Spec => []SteeringReleasesStick`, and `PassedScriptsReleaseTaps`:
  `Spec => []PassedReleasesTaps`. A stick is steered, or a button tapped, only at the places
  between the deflection and its `finally`, the tap and its release;
* `CounterNeverReturnsEarly`: `Spec => []CounterWaitsLongEnough`. The invariant
  (`CountIsSound`) says that there is a time stamp for each queued datagram of the counter,
  and for the last one received: how many frames the game had counted when it was published.
  Stamps grow along the queue, and between two datagrams, or a datagram and the present, the
  difference of the values modulo `Width` is at most the difference of the stamps, or the
  counter was reset in its lower half (`Counted`). What the loop takes off is such a
  difference, and after a drop from the lower half it takes off nothing, so the sum of what it
  took off is at most the stamp of the last frame received, whatever was lost in between.
  No bound on the queue or on the number of resets is used.

`SlippiLabProofs` proves of `SlippiLab`, for every plan that `LabAssumption` allows:
`NoChildLeft`, `EvidenceHolds`, `ChainHolds` and `GameHolds`. An orphan comes from a child that
the cleanup does not know, and without an interrupt only the row of the peer probe has such
(`OnlyPeersAreUnheld`). While a script runs versions
only grow, so what was read since a file was hashed lies between the hash and the present
version, and an equal hash at the end leaves one value for it. Results are only appended,
and not while the script that admitted them has still to end, so what admission established
holds when its own result is written.

`LobbyClientProofs` proves of `LobbyClient`, from `ClientAssumption` (own and other rooms are
different), `RoleKept`: `Spec => []HostsOnlyOwnRooms`, for any number of requests in flight.
The handler of a publication sets room and role together, so the invariant needs to know
that the room in the answer is the app's own (`PublishesOwn`): nothing but the service, which
has just drawn it, writes it there.

Every invariant and every action property of a run is thereby stated by a theorem
(`OwnerHoldsNoSeat` has no run of its own: TLC checks it within `ImplementsDirectory`, where
nobody enters their own table). Only model-checked are the liveness properties, since fairness and `ENABLED` are beyond the
prover: `LapsedAreReclaimed`, `StopReturns`, `EndReopensRoom`, `HostButtonReturns`,
`InGameShown`, `WaitingShown`, `ConnectionsClose`, `ScriptEnds` and `ScriptsEnd`. The two
runs that find a property violated need no proof: TLC's counterexample is one. Induction
over data is beyond the prover too, so facts about all sequences are proved only as far as
indices carry them; no module with theorems uses a recursive operator.

## 6. What is left

* The client's chat (message poll with its cursor) and nickname changes, as further kinds of
  request in `LobbyClient`.
* The NSO controller's scan, setup timer and retries (`NSOGCController.m:339`).
* A Slippi host with its child client, and system pauses, need a description of the
  third-party client and of the core's states, which the repository does not have.
* Hazards seen and not modelled: boot data installed when `Runtime::Create` fails
  (`MeleePadCoreHost.mm:519`), a `dealloc` that waits for a queue which holds its last
  reference (`:1636`), counters that go back in `MeleePadSlippiConnectionQuality.hpp:37`.
