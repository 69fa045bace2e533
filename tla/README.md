# ZLMeetkit in TLA+

ZLMeetkit is a small conferencing service: a Go backend that keeps rooms and relays signaling over WebSockets,
browser pages that publish and pull media, and an external ZLMediaKit (ZLM) server that carries the media.
This directory models the parts of it in which several goroutines, browsers and ZLM act on the same state, or in which
a page waits for answers while its user goes on. TLC checks the models on small instances, and TLAPS proves what
matters most of them for every number of users, rooms, streams, pulls, logins and dashboards.

Paths below are relative to `src/backend/src/pkg/` unless they start with `src/`.

## 1. The system

| Part | State | Operations | Talks to |
| --- | --- | --- | --- |
| Hub (`signaling/hub.go`, `hub_admin.go`) | `rooms: id -> *Room` under `h.mu` | GetOrCreateRoom, removeRoomIfEmpty, GetRoom, AddObserverClient, KickMember, DissolveRoom | rooms, clients |
| Room (`signaling/room.go`) | `clients: userId -> *Client` under `r.mu`; `ID`, `Mode` never change | addClient, addObserverClient, removeClient, isBusinessActive, dismissObservers, snapshotPeers, broadcasts | hub, clients, ZLM |
| Client (`signaling/client.go`) | `room` (no lock), `streams`, `recordings`, `pulling`, `closed` under `c.mu`, the channel `sendCh` (32 messages) | join, leave, webrtc-offer, stream-started/stopped, record-start/stop, chat, media-state; read loop, write loop, cleanup, LeaveRoom, ForceKick | its room, ZLM |
| ZLM client (`zlm/client.go`) | hook cache (record URLs) | ExchangeSDP, StartRecord, StopRecord, CloseStream, ResolveLatestRecordURL, monitoring | ZLM over HTTP, 10 s timeout |
| Observe sessions (`server/admin_observe.go`) | set of connections, per connection its observer client | validate and register, observe-join, observe-leave, closeConn, leaveAllByToken | hub, admin auth |
| Dashboard (`server/admin_dashboard.go`) | set of connections with a bounded channel each, debounce timer | hook, timer, snapshot, broadcast; register, greet, refresh, close, kickByToken | hub, admin auth |
| Admin auth (`adminauth/auth.go`) | token -> user, user -> token | Login, ValidateToken, Logout | dashboard, observe sessions |
| Audit log (`server/admin_audit.go`) | bounded list | Record, Recent, Clear | dashboard |
| Entry check, member lists, statistics (`signaling/entry_check.go`, `members.go`, `stats.go`) | none | read-only answers about the hub | hub |
| Business and admin HTTP API (`server/business.go`, `admin.go`, `admin_members.go`) | none | forwarding | hub, ZLM |
| Room pages (`src/frontend/js/app.js`, `signaling.js`, `webrtc.js`) | `state.peers`, pending requests, pull generations; local stream, switches, publication | message handlers, pulls with retries; first capture, switches, quality, publish | signaling, ZLM |
| Solo pages (`push.js`, `play.js`, `solo-chat.js`) | publication, or pull and its generation | start, stop, publisher gone and back | signaling, ZLM |
| Admin live page (`src/frontend/admin/js/admin-monitor.js`) | tiles in order, slots, pins, carousel; observe connections and their use counts; member rows | start, stop, pin, drag, layouts, carousel; join, play, end of a room | observe sessions, dashboard |
| Admin page (`src/frontend/admin/js/admin.js`) | token, views, dashboard connection; rows, page, filter of each table | log in and out, restore, kick notice, poll; filter, page, clear | dashboard, admin HTTP API |
| Presentation, configuration, logger, static files, host statistics, `cmd/main.go` | none that the protocol depends on | | |

Every business connection has one goroutine that reads messages and runs one handler at a time, with `cleanup`
deferred, and one that writes. An observe connection is the same. Departures close streams in further goroutines.
There is no lock across two rooms or across the hub and a room except in `removeRoomIfEmpty` (`h.mu`, then `r.mu`).

### What is hard, and what makes each part correct

- **Rooms.** A join is two critical sections (find or create under `h.mu`, insert under `r.mu`) and a departure is
  four (remove, test for business, dismiss observers one by one, drop if empty). Correct means: no Room object
  ever admits what `addClient` refuses; a member is where its goroutine left it, and goes when its connection ends; a
  listed empty room is always about to be filled or dropped; kicked clients leave; observers do not outlive the
  business they watch.
- **Messages.** The joiner's snapshot, its answer and its announcement are taken under different locks from the
  broadcasts of the others; the channel is bounded and closed by a third goroutine, so that a send may panic and end
  what it was part of. Correct means: whoever has read all its messages sees everybody who is there, and nobody who
  is not, and what was begun is finished for the others.
- **Streams.** The server's registration and ZLM's state meet only through calls that may fail, be late and
  overtake each other. Correct means: nothing stays live or recorded that nobody publishes, and what is
  registered is really there.
- **Administration.** Tokens are validated first and the connection registered later; logins kick older ones.
  Correct means: the page shows the application only with a token, holds one connection, and leaves when replaced.
- **Dashboard.** The timer, several pushes, registrations and refreshes overlap, and channels are bounded. Correct
  means: a change that calls the hook is never forgotten, so who is connected and lost no message ends up with it.
- **Pages.** Answers arrive after timeouts, pulls of an older generation finish after newer ones, devices open while
  switches are touched, and the end of one thing may throw in the middle of another. Correct means: one player per
  stream and it is the latest, tracks obey their switches, the page's publication sends what the page has, buttons
  come back, tiles connect or go, and no connection is held for nobody.
- **Live wall.** What a slot shows and where a tile believes it is shown are kept twice, as are the pins. Correct
  means: the copies agree, no stream is shown twice, slots are used, and every tile has its turn.

`PROJECT.json` lists each hazard at its line with the properties that look for it.

## 2. The modules

### RoomLifecycle (core)

One step is one critical section of `h.mu` or of `r.mu`, or one write of the unsynchronised `Client.room`.

| Code | Model |
| --- | --- |
| `Hub.rooms`, `Room.clients`, `Client.room` | `table`, `members`, `room` |
| a goroutine's place and the `*Room` in its hands | `pc`, `target` |
| `Nickname`, `soloRole` and the mode asked for | `profile` |
| the WebSocket of a business client | `conn` |
| locals of `dismissObservers` and of the `LeaveRoom` it calls | `observers`, `evictee`, `evictRoom` |
| per kick request: the slice of `DissolveRoom` (or the one client of `KickMember`), and the client `ForceKick` is telling | `victims`, `notice` |
| `handleJoin`, `addClient`, the announcement and `c.room = room`, the refused join | `JoinGetRoom`, `JoinAdd`, `JoinBind`, `JoinDrop` |
| read loop ends; `leave`; network loss; the close of `sendCh` and whom it catches sending | `Disconnect`, `Cleanup`, `CleanupFailed` |
| `removeClient` of a business client | `RemoveClient`, `Farewell`, `CheckActive`, `CollectObservers`, `DismissOne`, `Evict`, `EvictSweep`, `DismissDone`, `Sweep` |
| `KickMember`, `DissolveRoom`, `ForceKick` | `AdminPick`, `KickNotice`, `KickClose` |
| `handleObserveJoin`, `AddObserverClient`, `addObserverClient` | `ObserveCheck`, `ObserveGetRoom`, `ObserveInsert`, `ObserveBind` |
| `observe-leave`, end of the observe read loop | `ObserveLeave`, `RemoveObserver`, `Sweep` |

`Rooms` are Room *objects*: several may have the same id at one time, because a goroutine may hold one the table no
longer lists. An object is reused once nothing refers to it (`Unreferenced`), which is what garbage collection does.
`removeRoomIfEmpty` is one step: an insertion that falls between its read of the size and its deletion commutes with
the deletion. An empty mode stands for `meeting` and an absent `soloRole` for `push`, as in the code; `meeting` has no
admission rule besides nickname and mode, which calls and solo rooms have too.

What a panic does is part of the model. `send` tests `c.closed`, unlocks and sends; when c's cleanup closes the channel
in between, the send panics and ends what it was part of. `Cleanup` therefore chooses any of those who may be sending
to c at that moment: a joiner announcing itself (`pc` = "announce", it goes to "failed", its own cleanup finds
`c.room` nil, and "stuck" it stays a member), a leaver in its broadcasts ("farewell", it ends there), and a kick
request that is sending its notice (its remaining victims are dropped, and `cut` remembers the request). A broadcast
holds `r.mu` for reading from test to send, so choosing at the moment of the close loses no outcome: nothing else
the sender does can come between. A panic in any other handler of a joined client leads to the cleanup that
a lost connection leads to, and is `Disconnect`. `Kicks` requests may be under way at once.

Modelling showed two things worth knowing. `JoinDrop`'s `removeRoomIfEmpty` is never needed for a room the joiner
created itself, since an empty room of the joiner's own mode refuses nobody; it only ever drops rooms others emptied.
And the drop inside the dismissal of an observer (`EvictSweep`) is redundant, as the same goroutine's own `Sweep`
follows.

### RoomMembership (abstract)

Users take and leave seats one at a time in rooms that stay well formed: no tables, no locks. The rules are put as
facts about the seated (no three parties to a call, no two publishers, no two equal nicknames), not as refusals.
RoomLifecycle implements it under `seats <- Business`, `who <- profile of the seated`.

### PeerView

One meeting or call, its clients, their channels and their browsers. `present`, `cam`, `queue` and `closed` are
`Room.clients`, the registered stream, `sendCh` and `Client.closed`; `todo` and `armed` are a running broadcast (the
recipients left, and the one whose `closed` flag was read as false); `view` is `state.peers` of each page. A broadcast
holds `r.mu` for reading, so insertion and removal wait for it; the broadcasts of two clients interleave freely.
`after` and `lossy` only record history: who was inserted after a member was told it had joined, and who lost a
message. A full channel drops the message; sending on a closed one panics, which ends that goroutine after its
deferred `cleanup`. A panic during the announcement of a joiner leaves `c.room` nil, so that cleanup removes nobody:
that member stays in the room for good.

### StreamLifecycle

What the server has registered (`streams`, `recordings`), what ZLM has (`live`, `recorded`), the `CloseStream`
goroutines of `stream-stopped` (`closing`) and the clean-up goroutine of a departure (`leaving`). A handler waits
for ZLM's answer; the other calls do not. ZLM is external: a stream is live once its exchange is served, `CloseStream`
ends it with its recording, recording what is not live and stopping what is not recorded are refused. Every call may
fail; an answer may be lost after the call took effect. `failed` remembers the streams for which that happened.

Both `stream-stopped` and a departure unregister first, then tell the other members, and only then start the goroutine
that closes. These are separate steps: `StreamStopped` then `StartClose` or `StopPanics`; `RemoveClient` then
`StartLeaving` or `FarewellPanics`. The other members are not in this module; that their closing can make a
broadcast panic is what PeerView and RoomLifecycle show. `lost` remembers the streams whose closing a panic prevented.

### DashboardPush

A step is one section of `d.mu`, of the hub's locks, or one use of a channel. A snapshot is the version of the
statistics it shows.

| Code | Model |
| --- | --- |
| a change of the hub, the hook not yet called, the latest change that calls it | `stats`, `owed`, `due` |
| `media-state`, `stream-started`, and handlers that panic before their call of the hook | `SilentChange` |
| `d.debounce` | `debounce` |
| goroutines of `broadcastHub`: their payload, their copy of the clients | `snap`, `recipients`, `copied` |
| `d.clients`, a connection's life, its channel, what the page shows | `clients`, `wire`, `channel`, `screen` |
| the snapshot the read loop is about to queue (greeting, refresh) | `reply` |

`told`, `missed` and `late` are history: the latest version queued for a client, who lost a message to a full channel,
and who was sent a version after a later one. A push that reaches a channel closed since the clients were copied
panics (`up` becomes FALSE): it runs in a goroutine of its own, so the process ends.

### The pages

Seven modules, each one part of the browser's code with as much of the server as it sees.

| Module | Code | What it is about |
| --- | --- | --- |
| `WatchWall` | tiles, slots, pins, drags, layouts and carousel of `admin-monitor.js` | `order`, `shown`/`at`, `pinned`/`pinnedAt`, `audio`/`loud` are watchOrder and the pairs of fields that must agree |
| `WatchSession` | `startTile`, `ensureRoomSession`, `stopTile`, `scheduleRoomEnd` of `admin-monitor.js` | starts that wait three times; the connection the tiles of a room share, and the count of its uses |
| `AdminTables` | the three paged tables, the messages and requests that fill them, clearing the log | rows as versions with a number of rows; filter, page size, clamping, stale answers |
| `AdminPage` | `admin.js` login, restore, views, dashboard connection; `adminauth`, `handleWS` | the one token of an account, the page's token, connections named by token, late answers and close events |
| `PeerPull` | pulls of another member's stream in `app.js`, `signaling.js`, `webrtc.js` | pulls that retry, are overtaken, and go on with a member object that may have left |
| `SoloPlay` | `play.js` | one pull at a time, restarted when the publisher comes back |
| `Publisher` | `app.js`, `push.js`, `quality.js`, publishing | first capture, two switches, quality and start or stop, all waiting for devices and answers |

`Pictures` of WatchWall is a closed form of the loops that share the slots out: slot number n of the free ones gets
the tile n places after the turn's beginning. The carousel's counter only matters modulo the number of tiles that take
turns, so it is kept modulo `Cycle`, a multiple of each. `AdminTables` follows one table per behaviour: they share code,
not rows.

One hazard runs through the administrator's pages: `stopTile` reports to the room's observe connection, and throws when
that is lost (`admin-monitor.js:1690`). In WatchSession such a tile cannot be stopped (`CanReport`). In WatchWall
`stopAllWatching` has turned the carousel off before it fails at its first tile (`WallKept`, remembered by
`abandoned`). A dashboard message compares the tiles with the rooms before the log is drawn and the members are
requested: in AdminTables (`caught`) and AdminPage (`wedged`) a tile of a lost connection whose member has gone, while
its room has not, keeps every message from getting there. `TileCaught` and `Wedge` let that condition come and go at
any time, which is more than the wall would do. A start that counts itself although its tile was stopped while it joined
leaves a use nobody gives back; `stranded` remembers the rooms where no other tile was left to end the session.

In Publisher a failed first capture has two stages on the room page: the switches go off at once ("refused"), the empty
stream replaces the local one only after the connection is set up, and a switch may have added its track in between.

`MCPages` puts these seven and DashboardPush together. They share no variable, so it is the *sum* of their
specifications: `page` says which part a behaviour follows, and the others stay where they began, at an initial state
in which none of their fair actions is enabled (which is why fairness of the parts can be conjoined). What a run says
of each part is what a run of its own would say, and the state spaces add up instead of multiplying.

### Proofs

Every module that models code has its theorems in a module of proofs, and so has the composition:

| Module | Theorems about |
| --- | --- |
| `RoomLifecycle_proofs` | `RoomLifecycle`, and its implementation of `RoomMembership` |
| `StreamLifecycle_proofs` | `StreamLifecycle` |
| `PeerView_proofs` | `PeerView` |
| `DashboardPush_proofs` | `DashboardPush` |
| `MediaPages_proofs` | `Publisher`, `SoloPlay`, `PeerPull` |
| `AdminSessions_proofs` | `AdminPage`, `WatchSession` |
| `AdminViews_proofs` | `WatchWall`, `AdminTables` |
| `Pages_proofs` | `MCPages`, the sum of the eight parts |

The other `MC*` modules only give TLC its constants.

## 3. The runs

| Run | Question | Instance | Result |
| --- | --- | --- | --- |
| `rooms` | is the bookkeeping consistent, and does it implement RoomMembership? | 2 users, 1 observer, 1 id, 2 call and 2 solo objects, 2 nicknames, 1 kick request at a time, symmetric | 824 thousand states, all hold |
| `rooms_calls` | can a third party get into a call? | 3 users, 3 call objects, 3 nicknames, symmetric | 80 thousand states, holds |
| `rooms_live` | do empty rooms go, and kicked users leave? | 2 users, 2 call objects, 2 nicknames, 2 kick requests at once, `FairSpec`, no symmetry | 179 thousand states, both hold |
| `peer_view` | does a browser that has caught up see the truth? | 2 clients with a camera each, channel of 3 | 1.35 million states, both hold |
| `streams` | does anything stay live or recorded, and does an unwanted stream end? | 3 publishers with the same name in succession, two pending closes of it, `FairSpec`, no symmetry | 74 thousand states, all hold |
| `pages` | do the pages and the dashboard keep their books and come to rest? | the eight parts, with the bounds below, fair | 229 thousand states, all hold |
| `orphan_room`, `stranded_observer`, `ghost_peer`, `closed_send`, `stale_close`, `stale_recording` | does the code do what its comments and tests say? | small instances of the same modules | violated, see below |

**Bounds.** One room id is enough for the table, because goroutines working on different ids touch different entries
and objects; two Room objects per mode allow a listed and an unlisted one at once, and three with three users one for
each goroutine. Two users and one observer give every pair of goroutines that the sections of `removeClient` can
interleave with; the third user in `rooms_calls` is the one a call refuses. PeerView's properties relate two clients,
and a third can only add broadcasts that do not concern the pair; a channel of 3 can be full as well as hold a join
answer followed by two messages. Two kick requests are the smallest number that overlap, and one client each is enough
for them to meet at the same client. The liveness of rooms is checked without observers: that an observer's leave and
its dismissal drop the room is `EmptyRoomHasSweeper` in `rooms`, and the goroutines that do so are the same. Three
publishers of one name let a third publish while the goroutines of two others are still at work on it, and two pending
closes let one be overtaken by a republication that is itself stopped. They publish one kind there: that the kinds of
one client do not disturb each other is in the theorems, which are for any set of kinds. The theorems of
section 5 do not depend on these bounds.

The bounds of the pages: three tiles on a wall with a layout of one slot and one of two,
so that tiles fit, need the carousel at once, or need it from the third on (`Cycle` 6; one start of a tile under way).
Two tile keys of one room, two starts, one timeout, which is two starts sharing or overwriting one connection. Tables
of 3, 1 and 0 rows in pages of 1 or 2, so that pages appear and vanish, and a channel of 2. Two logins: one session
replaces the other. Three pulls with two attempts each, two member objects, two messages after joining and one pass of
pulling again: a pull can be overtaken by a message, a pass, or a failed player, and the member can leave and its
object be made anew. Four pulls of the solo page. Three connections of a publisher, the one it has and two being made.
Two pushes at a time, two changes, one dashboard and a channel of 2: each dashboard's part of the state is its own, so
a second would only add pushes.

**Fairness.** `FairSpec` of RoomLifecycle is weak fairness of every goroutine that has started a handler or a
clean-up, and of each kick request: Go schedules them, its mutexes do not starve a waiter, and no section
waits for anything but a mutex. Nobody is obliged to join, leave or watch. `FairSpec` of StreamLifecycle is weak
fairness of the handlers and of the closing goroutines, because every HTTP call is answered or times out after 10 s
(`zlm/client.go:34`).

Fairness of the pages is what browsers and the server give. The carousel's interval fires while it is set
(`WallFairness`). A start of a tile ends by an answer, a refusal or its 15 s timeout, and a timeout that ends a room
fires (`SessionFairness`); nothing is said of the answer being good. Messages and request answers arrive, and a
request that was read is answered (`TablesFairness`). The dashboard's poll goes on while its tab is open, connections
are set up, and requests end (`AdminFairness`). Messages about a member are handled and pulls end (`PullFairness`,
`PlayFairness`). Only the switch that excludes the other is required to end (`PublishFairness`): a device opens or
does not, a publication is answered or times out. That a device opens or does not takes for granted that the user
answers the browser's question: `getUserMedia` may otherwise stay pending, and the switch with it. In `PushFairness`
the timer fires, goroutines with work go on and channels are written out. Nobody is obliged to click, join, leave or
change anything.

**Deadlock** is checked in the runs of StreamLifecycle. In those of RoomLifecycle every user may end up stuck in its
room after a panic, in those of PeerView every client connects once, and in those of the pages the parts rest when
nobody clicks and the numbers of logins, pulls or changes are used up: there the system may really stop.

## 4. What the violated runs show

- `orphan_room`: a joiner that has looked up a room is overtaken by the last departure, which drops the room from the
  table. The joiner then sits in an unlisted Room, the next joiner in a new one of the same id and ZLM app
  ("Same room <=> same ZLM app", `signaling/client.go:576`). `delete(h.rooms, r.ID)` deletes by id, so the end of the
  first room can also unlist the second one while it is in use.
- `stranded_observer`: an observer that is being inserted while the last user leaves is either not yet in the slice
  of observers to dismiss, or has no `c.room` yet. It stays, and keeps a room listed whose business has ended.
- `ghost_peer`: a peer leaves between the joiner's snapshot and the joiner's answer. `peer-left` arrives first, the
  answer lists the departed peer, and the tile never goes away.
- `closed_send`: `send` tests `closed`, and sends after it has released the lock. A departure in between closes the
  channel and the sending goroutine panics; `net/http` recovers it, at the price of what it was doing. The models have
  each of the consequences, and the properties except just them:
  - the announcement of a joiner (`signaling/room.go:235`): `addClient` never returns, `c.room` stays nil, the joiner's
    own cleanup removes nobody (`client.go:222`, 451-456), and its place in a call and its nickname are taken for good,
    though the developers' reference says a user may leave by closing the WebSocket ("stuck" in RoomLifecycle);
  - the notice of a kick (`client.go:104`), which comes before the socket is closed: `DissolveRoom`, which
    "force-disconnects all business clients in a room" (`hub_admin.go:26`), leaves the remaining ones connected (`cut`);
  - the broadcasts of a departure and of `stream-stopped` (`room.go:307`, `client.go:667`), which come after the stream
    is forgotten and before the goroutine that closes it is started: it stays live at ZLM, and recorded if it was, with
    nobody registered for it (`lost` in StreamLifecycle).
- `stale_close`: `app.js` sends `stream-stopped` immediately before it publishes again with other tracks, under the
  same deterministic name. The asynchronous close may be served after the new exchange.
- `stale_recording`: `stream-stopped` forgets the stream but keeps `recordings[kind]`. After a republication the
  statistics and the page show a recording that ended with the old stream; `record-stop` then fails at ZLM, the flag
  stays on, and `app.js:794` refuses to leave the room by its button.

Modelling the pages and the pushes showed further behaviours that have no run of their own. The models contain
them, and the properties say what holds in spite of them.

- *Sharing an observe connection* (`admin-monitor.js:1054-1240`, WatchSession): two starts of one room that both find
  no session open two connections, and the later one overwrites the earlier, which stays open. A refused or timed-out
  join leaves its connection open. A tile stopped while its stream is being played leaves a player nobody closes. The
  catch of a failed start gives back a use that was never counted, so the connection of other tiles may end. A tile
  stopped during the join leaves a use nobody gives back, and the connection stays open for nobody (`stranded`). Once
  a connection is lost, `reportObserveStop` throws inside `stopTile`, and tiles of that room cannot be stopped.
  `stopAllWatching` then ends with the carousel off and tiles left (`abandoned`), and each dashboard message ends
  before the log is drawn and the members are requested (`caught`, `wedged`): the tables stay behind, and a page whose
  session was replaced may stay. A timeout of `scheduleRoomEnd` set before a room's tiles were stopped and watched
  again ends the new tiles.
- *The wall* (WatchWall): with as many pins as slots while the tiles still fit, one more tile is never shown, against
  the message at `admin-monitor.js:1550`. A drag into an empty slot makes the tile forget its slot. A change of layout
  leaves tiles with the index they had in the old one.
- *The administrator's page* (AdminPage): `wsManualClose` is reset before the close event it is meant for arrives,
  so the close event of the old connection ends the session of a quick new login; a late 401 or logout answer does too.
- *Pulls* (PeerPull): the `finally` at `app.js:462` forgets a newer pull's marker. The pull of a member that has left
  goes on with its old object, shows a tile nobody removes, or makes the member anew when its player fails.
- *Solo page* (SoloPlay): an outdated answer overwrites `state.pull` and then clears it (`play.js:126`); a later
  player's connection is forgotten. `PlayerIsCurrent` is what is left to rely on.
- *Publishing* (Publisher): the first capture replaces the stream a switch has added its track to. When it fails it
  has put the switches off before that, so for a while a track is enabled whose switch is off; and a connection may go
  on sending tracks of a stream the page no longer uses. A failed republication leaves a closed connection current,
  overlapping ones lose a connection, a quality change during a republication leaves the old track published, and a
  solo page stopped meanwhile is published again. `PublicationInStep` therefore speaks of behaviours in which nothing
  fails and nothing overlaps, `SwitchesAreObeyed` of all.
- *Dashboard* (DashboardPush): a broadcast may send on a channel that was closed after the clients were copied, which
  panics in a goroutine nobody recovers; of two overlapping pushes the older snapshot may be sent last. Hence `missed`,
  `late` and `up` in the properties. `media-state` and `stream-started` change what the dashboard shows (`micOn`,
  `camOn`, the stream) and do not call the hook that is "invoked when dashboard-relevant stats change"
  (`signaling/hub.go:32`), nor does a handler whose broadcast panics first (`SilentChange`). The dashboard shows the
  former state until something else is pushed or the page asks; `due` keeps such changes out of what is promised.
- *Observing* (not in a model): a logout or new login may close an observe connection whose read loop is inside
  `handleObserveJoin`; `closeConn` then finds no client, and the join seats an observer that has no connection.

Smaller disagreements seen on the way and not turned into runs: `message.go:21` and `room.go:219` call solo rooms
private while stream broadcasts do reach all members of a solo room; `message.go:127` gives a stream id format that
`buildStreamID` (`client.go:681`) does not use.

## 5. What is proved

For every set of users, observers, ids, Room objects, modes and nicknames (assumptions `RoomAssumption`: each object
has an id and a mode; `PeopleAssumption` and `NobodyAssumption`: users, observers and the markers are distinct):

| Theorem | States | Argument |
| --- | --- | --- |
| `TypeCorrect` | types, and a working goroutine has its room | inductive by itself |
| `MembersAreJoined` | `NoGhostMember`: a member is joining, joined or leaving, or its announcement panicked in a room that is not private | `MemberHome` adds that a leaving goroutine's `target` is the room it is in: `removeClient` works on that pointer and not on `c.room` |
| `NoAbandonedRoom` | `EmptyRoomHasSweeper` | with `TableNamed` (an entry has its own id), `MemberHome` and `ObserverHome`: whoever empties a room goes on to a state that counts as sweeping it |
| `RoomsAdmitted` | `Admission` | `AllAdmitted` adds finiteness; `AcceptedMember` (what passes the four tests keeps a room sound), `FewerMembers` (losing members does), and `StepKinds` (every step seats one, unseats one or does neither) |
| `RoomsKeepMembership` | every step is a step of RoomMembership or none | the same case distinction; `AtMostOne` and `AtMostTwo` turn the cardinalities of the code into the facts of the abstract module |
| `ObserversLeave` | `NoGhostObserver` | `ObserverPointer` and `ObserverHome`: where an observer's goroutine can be while it is in a room, and who else has it in hand |

For every set of clients, kinds and streams and every naming of streams (`StreamAssumption`: ids are streams, and at
least one `CloseStream` per stream may be under way):

| Theorem | States | Argument |
| --- | --- | --- |
| `TypeCorrect` | types, recorded streams are live, a departure stops only recordings of streams it then closes | inductive by itself |
| `StreamsAreAccountedFor` | `NoLeakedStream`, with the streams whose closing failed or was prevented by a panic as the only exceptions | `LeavingOnlyOut` (a member owns no unfinished departure) is needed where `removeClient` fills in the departure's list: nothing may be on it that would be forgotten |
| `RecordingsAreAccountedFor` | `NoSecretRecording` | needs besides that `HandlerKind` (the stream a record handler waits for stays registered) and `SaveOffStopped` (a flag is cleared only once ZLM has stopped), which rests on `Apart`: no other member starts a recording under the same id in between |

Of the dashboard and the pages, for any constants the modules' assumptions allow:

| Theorem | States | Argument |
| --- | --- | --- |
| `PushTypeCorrect` | `PushTypeOK`: types, channels within their size | inductive by itself; `OfferedIsTyped` is about one send |
| `ChangesReachDashboards` | `NoChangeForgotten`, of the changes that call the hook | a client is up to date, or the version is on its way, or a snapshot is still to be taken. Needs `NothingFromTheFuture` (no version ahead of the statistics, so that a snapshot taken now is the latest) and `ClientsAreOpen` (unregistered before closed, so a send that panics was to nobody who counts); `OfferedIsTold` says a send is noted as told or missed |
| `OnlyOneDashboard` | `OneDashboard` | `RestoringAlone`: while a stored token is checked nothing else is under way, so its answer finds the token; `FailedMeansLeft`: else a close event could drop the connection of a shown application |
| `WatchedTilesPlay` | `TilesKeepTheirPlayer` | `PlayersAreOwn`: a player was made by a finished start of its own tile's key, so closing one tile's player cannot be closing another's |
| `NobodyWatchesIdly` | `IdleSessionsEnd`: outside `stranded` rooms an open session has a tile of its room, or a timeout | `SessionsHaveJoined`: a session's start has joined, rooms that are ending have their timeout. `CountedOn`: the session's uses are not zero or a timeout is set, and `UsesAreTiles`: uses that are not zero have a tile of the room behind them. `ReleaseEndsIdle` is the step all ends share, and needs that uses are natural numbers, hence finitely many tiles |
| `OnePlayerPerObject` | `PlayersAreHeld` | `PullsAreNumbered`: what has begun has a number not above `begun`, so a new pull is nobody's player; `BeginIsSafe` and `PlayerClosed` are the two steps that close players |
| `PlayTypeCorrect`, `LateAnswersLose` | `PlayTypeOK`, `PlayerIsCurrent` | `BusyWhileWaiting`: the latest pull is waited for only while the page is busy, so none is started beside it |
| `TracksObeyTheirSwitch` | `SwitchesAreObeyed` | inductive with the types and what "refused" leaves: whoever adds a track or turns a switch reads the other as it is then |

Of the wall and the tables, for any tiles, layouts, capacities, rows and page sizes (`WallAssumption`,
`TablesAssumption`):

| Theorem | States | Argument |
| --- | --- | --- |
| `WallTypeCorrect`, `WallShowsOnce`, `WallKeepsPins`, `WallIsUsed`, `WallMarksTell` | `WallTypeOK`, `ShownOnce`, `PinsAgree`, `WallUsed`, `MarksTell` | one invariant, `WallInvariant`: the four properties (`Tidy`), the types, and an order without repetitions. The properties are only inductive together: what a slot shows is safe because the pins agree, and the pins are because the slots are shown once |
| `EveryRowShown` | `TablesTypeOK`, `EveryRowIsOnOnePage` | `RowsShown`: the current page exists and is what is drawn; every drawing establishes it (`DrawnIsShown`), whatever was drawn before |

The proof about the wall has two halves. `PicturesAreFair` is about one application of `redistributeSlots` or
`applyCarouselBatch` to any order and pins that agree (`WellPinned`), without a state: no tile in two slots, pins
respected, all tiles shown or all slots used. It rests on ranks (`BeforeIsRank`, `EveryRankIsTaken`: the number of
smaller members is an injection of a finite set into as many numbers, hence onto them), on counting
(`LooseAndFree`: pins take as many tiles out of the turn as slots) and on arithmetic (`RotationKeepsApart`). The other
half shows of each action that it leaves order and pins in agreement, and of the two that do not share out anew,
drags and pins, that they keep the pictures tidy. The tables use the same ranks: rows take the places
0, 1, 2, ... (`PlacesAreTaken`), and each place is on one page (`OnePageEach`).

Of meetings, for any clients, publishers and capacity of the channels (`PeerAssumption`):

| Theorem | States | Argument |
| --- | --- | --- |
| `PeerTypeCorrect` | `TypeOK` | inductive with `Places`, which says where a client can be in its life while it is in the room, closed or publishing |
| `NobodyIsMissed` | `NobodyMissed` | `Known` and `Pulled`: a member that is there will be known, from the channel, the snapshot still to be taken or sent, or the broadcast still to be made |
| `LaterPeersAreExact` | `LaterPeersExact` | `NotPulled` and `Forgotten`, the same for what has ended; `Later` and `Unheard` say that who came later was in no snapshot |

What a browser believes lags behind the room by what is in its channel. The invariant therefore speaks of what it
*will* believe once its channel is read. That is a fold of the handlers over the channel, but for one peer and one
question only the last message that answers it counts; `Settles` says so without recursion, and
`SettlesAppend`, `SettlesTail` and `SeenIsRight` show that sending and reading treat it as the fold would.
`NobodyMissed` and `LaterPeersExact` except a member some message never reached (`lossy`), which is all the code promises.

Of a page that publishes, for any set of connections with three members or more (`ConnsAssumption`; the proof that
three are enough is `FreshIsFree`):

| Theorem | States | Argument |
| --- | --- | --- |
| `PublishTypeCorrect` | `PublishTypeOK` | `ConnectionsAreAwaited`: only an activity that waits for the server holds a connection, and at most two of a page's can |
| `OneConnectionInStep` | `PublicationInStep` | `StepByStep` describes the page between any two steps of the one activity under way: while it waits for the server its new connection is the only open one, before and after that the page's own is |

Of the pages side by side:

| Theorem | States | Argument |
| --- | --- | --- |
| `PagesImplementParts` | a behaviour of `PagesSpec` satisfies the specification of each part, fairness included | a step of the sum is a step of the part that is followed, and a stutter of the others |
| `PagesAreTyped`, `AdminPagesAreSafe`, `MediaPagesAreSafe` | `PagesTypeOK`, and all the safety properties the run `pages` checks | from the parts' theorems. The type theorems of the parts that the tables above do not name, `SessionTypeCorrect`, `AdminTypeCorrect` and `PullTypeCorrect`, bound counters by what has happened: no room is used more often than starts were made (`StartsAreCounted`), no more messages wait than were sent (`PullsAreBounded`) |

Two assumptions on constants are there for the proofs: `Keys # {}` (`SessionAssumption`: a start that has no key is
given some key, so there must be one) and the third connection of `ConnsAssumption`. Both only exclude instances in
which the model would say nothing of the code. TLC evaluates all assumptions.

So every invariant that a passing run checks is proved, and so is the refinement. Only model-checked: the liveness
properties of `rooms_live`, `streams` and `pages`, since the prover does not handle `ENABLED`.

## 6. Not modelled

- `recordPull`, chat and `record-state` broadcasts: they keep no state another part depends on. Of `media-state` and
  `stream-started` only the change of the statistics is modelled (`SilentChange`): the flags of the former are shown
  and nothing else, the latter rewrites what the exchange has registered.
- After a panic PeerView says nothing more of anybody's view: it counts every client as one a message was lost for.
- Time: ping and pong, the 10 s and 15 s limits, delays of retries and the wait for the record hook are "eventually" or
  "may fail". The hook cache (`zlm/client.go`) promises something only in seconds and entries.
- An observe connection closed by another goroutine (logout, new login); two goroutines inside `LeaveRoom` of one
  observer at the same instant, where the second read of `c.room` may find nil.
- Streams that end at ZLM on their own; names a publisher of one room chooses equal to another's in a meeting.
- Several administrator accounts: they share nothing but the hub. That the audit log keeps its last 200 entries.
- The entry check and the member lists: read-only answers about the hub, out of date when they arrive; `addClient`
  decides (`Admission`).
- The screen as a second kind of stream, recording buttons and their feedback, chat: they repeat what is modelled for
  the camera, or keep nothing. `network-error.js` shows an alert and leaves.
- Rendering of tiles and layouts in `ui.js`, devices, mirroring, configuration, logging, static files, host statistics:
  input and output only.

## 7. Plan

Done: the room table, streams and recordings, what members are told, the dashboard and the pages, with proofs of
all their invariants. What would come next:

1. An observe connection with its channel and the goroutines that may close it, composed with the observers of
   RoomLifecycle. Property: an observer does not outlive its connection, which today's code does not keep.
2. Two dashboards in `pages` with a push between them, when the run's time allows it.
3. An action property of each page, in the manner of `KeepsMembership`: what a step may never do to what a user sees.
