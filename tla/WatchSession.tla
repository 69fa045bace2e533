---------------------------- MODULE WatchSession ----------------------------
(***************************************************************************)
(* Watching streams from the administrator's page: the calls of startTile  *)
(* that wait for a connection, for the room and for the stream; the one    *)
(* observe connection a room's tiles share, counted; and its end: the last *)
(* tile stopped, the room's business over, everything stopped, the         *)
(* connection lost.                                                        *)
(*                                                                         *)
(* A start makes at most one connection and one player, so both are named  *)
(* by the start that made them.                                            *)
(***************************************************************************)
EXTENDS Naturals, FiniteSets

CONSTANTS
    Keys,       \* tile keys: a member's stream, or a published one
    Rooms,
    RoomOf,     \* the room of a key
    MaxStarts,  \* bound on the starts of a behaviour
    MaxTimers   \* bound on the timeouts set at once to end one room

ASSUME SessionAssumption ==
    Keys # {} /\ RoomOf \in [Keys -> Rooms] /\ MaxStarts \in Nat /\ MaxTimers \in Nat

Starts == 1 .. MaxStarts
NoStart == 0
NoKey == CHOOSE k \in Keys : TRUE      \* what keyOf says of a start that has no key

VARIABLES
    tiles,      \* the keys of `tiles'
    player,     \* player[k]: the start whose RTCPeerConnection is tile.pc
    stage,      \* stage[a]: what start a waits for
    keyOf,      \* keyOf[a]: the key start a is for
    via,        \* via[a]: the start whose connection start a uses
    socket,     \* socket[a]: the observe connection opened by start a
    players,    \* the starts whose RTCPeerConnection is open
    session,    \* session[r]: the start whose connection is roomSessions[r].sig
    refCount,   \* refCount[r]: how many tiles that session counts
    ending,     \* roomEndScheduled
    timers,     \* timers[r]: timeouts of scheduleRoomEnd that are set
    stranded    \* history: the rooms whose session was joined with no tile of them left

sessionVars == <<tiles, player, stage, keyOf, via, socket, players, session,
                 refCount, ending, timers, stranded>>

Stages == {"unused", "connect", "join", "play", "done"}
Unused == {a \in Starts : stage[a] = "unused"}
TilesOf(r) == {k \in tiles : RoomOf[k] = r}

\* reportObserveStop throws when the room's connection is no longer open, and
\* stopTile ends there.
CanReport(k) ==
    session[RoomOf[k]] # NoStart => socket[session[RoomOf[k]]] = "open"
-----------------------------------------------------------------------------
(* Removing tiles, and the sessions nobody counts on any more. *)

\* Mutant: more uses may be given back than were counted.
ReleasedUnclamped(r, n) == refCount[r] - n

Released(r, n) == IF refCount[r] < n THEN 0 ELSE refCount[r] - n

\* Mutant: a tile that goes does not forget its player.
ReleaseKeepsPlayer(gone, uncount, over, stillEnding) ==
    LET idle == {r \in Rooms : /\ session[r] # NoStart
                               /\ \/ r \in over
                                  \/ uncount[r] > 0 /\ Released(r, uncount[r]) = 0
                                     /\ r \notin stillEnding}
        closed == {session[r] : r \in idle}
    IN  /\ tiles' = tiles \ gone
        /\ players' = players \ {player[k] : k \in gone}
        /\ player' = player
        /\ session' = [r \in Rooms |-> IF r \in idle THEN NoStart ELSE session[r]]
        /\ refCount' = [r \in Rooms |-> IF r \in idle \/ session[r] = NoStart THEN 0
                                        ELSE Released(r, uncount[r])]
        /\ socket' = [a \in Starts |-> IF a \in closed THEN "closed" ELSE socket[a]]
        /\ stranded' = stranded \ idle

\* The tiles `gone' leave; `uncount[r]' uses of the session of r are given back,
\* and the sessions of `over' end whatever their count.
Release(gone, uncount, over, stillEnding) ==
    LET idle == {r \in Rooms : /\ session[r] # NoStart
                               /\ \/ r \in over
                                  \/ uncount[r] > 0 /\ Released(r, uncount[r]) = 0
                                     /\ r \notin stillEnding}
        closed == {session[r] : r \in idle}
    IN  /\ tiles' = tiles \ gone
        /\ players' = players \ {player[k] : k \in gone}
        /\ player' = [k \in Keys |-> IF k \in gone THEN NoStart ELSE player[k]]
        /\ session' = [r \in Rooms |-> IF r \in idle THEN NoStart ELSE session[r]]
        /\ refCount' = [r \in Rooms |-> IF r \in idle \/ session[r] = NoStart THEN 0
                                        ELSE Released(r, uncount[r])]
        /\ socket' = [a \in Starts |-> IF a \in closed THEN "closed" ELSE socket[a]]
        /\ stranded' = stranded \ idle

CountBy(ks) == [r \in Rooms |-> Cardinality({k \in ks : RoomOf[k] = r})]

Ends(a) ==
    /\ stage' = [stage EXCEPT ![a] = "done"]
    /\ via' = [via EXCEPT ![a] = NoStart]
    /\ UNCHANGED keyOf

\* Mutant: the use is given back, the session it was the last of is not ended.
StartFailsCountOnly(a) ==
    LET gone == {keyOf[a]} \cap tiles IN
    /\ Ends(a)
    /\ Release(gone, CountBy(gone), {}, Rooms)
    /\ UNCHANGED <<ending, timers>>

\* startTile's catch: the tile goes if it is still there, and gives back a use
\* of the session even if it never counted.
StartFails(a) ==
    LET gone == {keyOf[a]} \cap tiles IN
    /\ Ends(a)
    /\ Release(gone, CountBy(gone), {}, ending)
    /\ UNCHANGED <<ending, timers>>
-----------------------------------------------------------------------------
(* startTile and ensureRoomSession. *)

\* A joined session of the room is used again, else a connection is opened.
StartTile(k) ==
    LET r == RoomOf[k] IN
    /\ k \notin tiles
    /\ tiles' = tiles \cup {k}
    /\ \E a \in Unused :
          /\ \A b \in Unused : a <= b
          /\ keyOf' = [keyOf EXCEPT ![a] = k]
          /\ IF session[r] # NoStart
             THEN /\ stage' = [stage EXCEPT ![a] = "play"]
                  /\ via' = [via EXCEPT ![a] = session[r]]
                  /\ refCount' = [refCount EXCEPT ![r] = @ + 1]
                  /\ UNCHANGED socket
             ELSE /\ stage' = [stage EXCEPT ![a] = "connect"]
                  /\ via' = [via EXCEPT ![a] = a]
                  /\ socket' = [socket EXCEPT ![a] = "connecting"]
                  /\ UNCHANGED refCount
    /\ UNCHANGED <<player, players, session, ending, timers, stranded>>

Connected(a) ==
    /\ stage[a] = "connect"
    /\ socket[a] = "connecting"
    /\ socket' = [socket EXCEPT ![a] = "open"]
    /\ stage' = [stage EXCEPT ![a] = "join"]
    /\ UNCHANGED <<tiles, player, keyOf, via, players, session, refCount, ending,
                   timers, stranded>>

\* A connection that cannot be opened.
ConnectFails(a) == stage[a] = "connect" /\ StartFails(a)

\* observe-joined: this connection becomes the room's, whatever was there.  The start
\* counts itself although its tile may have been stopped while it waited; only a tile's
\* end gives a use back, so with no tile of the room left nothing does.
Joined(a) ==
    LET r == RoomOf[keyOf[a]] IN
    /\ stage[a] = "join"
    /\ socket[a] = "open"
    /\ stage' = [stage EXCEPT ![a] = "play"]
    /\ session' = [session EXCEPT ![r] = a]
    /\ refCount' = [refCount EXCEPT ![r] = 1]
    /\ stranded' = IF TilesOf(r) # {} THEN stranded \ {r} ELSE stranded \cup {r}
    /\ UNCHANGED <<tiles, player, keyOf, via, socket, players, ending, timers>>

\* observe-error, observe-ended or 15 s without an answer.
JoinFails(a) == stage[a] = "join" /\ StartFails(a)

\* playStream: the answer to the offer came; the tile may have gone meanwhile,
\* or be another one of the same key.
Playing(a) ==
    LET k == keyOf[a] IN
    /\ stage[a] = "play"
    /\ socket[via[a]] = "open"
    /\ Ends(a)
    /\ players' = players \cup {a}
    /\ player' = [player EXCEPT ![k] = IF k \in tiles THEN a ELSE @]
    /\ UNCHANGED <<tiles, socket, session, refCount, ending,
                   timers, stranded>>

\* Mutant: the tile stays although its stream could not be played.
PlayFailsStay(a) ==
    /\ stage[a] = "play"
    /\ Ends(a)
    /\ UNCHANGED <<tiles, player, socket, players, session, refCount, ending,
                   timers, stranded>>

\* An error, 15 s without an answer, or the connection is closed.
PlayFails(a) == stage[a] = "play" /\ StartFails(a)
-----------------------------------------------------------------------------
(* Tiles and rooms end. *)

\* stopTile of each of the tiles ks; the first that cannot be reported ends it.
StopEach(ks) ==
    IF \A k \in ks : CanReport(k) THEN Release(ks, CountBy(ks), {}, ending)
    ELSE \E some \in SUBSET {k \in ks : CanReport(k)} :
             Release(some, CountBy(some), {}, ending)

\* The stop button of a tile, or a kick of the member the tiles ks show.
StopTiles(ks) ==
    /\ ks # {}
    /\ StopEach(ks)
    /\ UNCHANGED <<stage, keyOf, via, ending, timers>>

\* The tiles of the rooms rs are given 1.5 s, once.
ScheduleRoomEnd(rs) ==
    /\ \A r \in rs \ ending : timers[r] < MaxTimers
    /\ ending' = ending \cup rs
    /\ timers' = [r \in Rooms |-> IF r \in rs \ ending THEN timers[r] + 1 ELSE timers[r]]

\* observe-ended, over any connection that has joined the room.
ObserveEnded(r) ==
    /\ \E a \in Starts : /\ socket[a] = "open" /\ stage[a] \in {"play", "done"}
                         /\ RoomOf[keyOf[a]] = r
    /\ r \notin ending
    /\ ScheduleRoomEnd({r})
    /\ UNCHANGED <<tiles, player, stage, keyOf, via, socket, players, session, refCount,
                   stranded>>

\* syncTilesWithHub: statistics without the members of the tiles `gone', or in
\* which the business of the rooms `over' has ended.
SyncTilesWithHub(gone, over) ==
    /\ gone # {} \/ over \ ending # {}
    /\ over \subseteq {RoomOf[k] : k \in tiles}
    /\ \A k \in gone : RoomOf[k] \notin over
    /\ StopEach(gone)
    /\ IF \A k \in gone : CanReport(k) THEN ScheduleRoomEnd(over)
       ELSE UNCHANGED <<ending, timers>>
    /\ UNCHANGED <<stage, keyOf, via>>

\* Mutant: the session ends and the tiles stay on the wall.
RoomEndsTilesStay(r) ==
    /\ timers[r] > 0
    /\ timers' = [timers EXCEPT ![r] = @ - 1]
    /\ ending' = ending \ {r}
    /\ Release({}, CountBy({}), {r}, {})
    /\ UNCHANGED <<stage, keyOf, via>>

RoomEnds(r) ==
    /\ timers[r] > 0
    /\ timers' = [timers EXCEPT ![r] = @ - 1]
    /\ ending' = ending \ {r}
    /\ IF \A k \in TilesOf(r) : CanReport(k)
       THEN Release(TilesOf(r), CountBy(TilesOf(r)), {r}, {})
       ELSE UNCHANGED <<tiles, player, socket, players, session, refCount, stranded>>
    /\ UNCHANGED <<stage, keyOf, via>>

\* Leaving the page's session: every tile and every connection, unless a tile
\* cannot be reported: then only some tiles that come before it are stopped.
StopAllWatching ==
    /\ ending' = {}
    /\ IF \A k \in tiles : CanReport(k)
       THEN Release(tiles, CountBy(tiles), Rooms, {})
       ELSE \E ks \in SUBSET {k \in tiles : CanReport(k)} :
                Release(ks, CountBy(ks), {}, {})
    /\ UNCHANGED <<stage, keyOf, via, timers>>

\* A connection breaks: no answer comes over it any more.  The page then ends its
\* session, which is StopAllWatching, here at any time.
ConnectionLost(a) ==
    /\ socket[a] = "open"
    /\ socket' = [socket EXCEPT ![a] = "lost"]
    /\ UNCHANGED <<tiles, player, stage, keyOf, via, players, session, refCount, ending,
                   timers, stranded>>

SessionInit ==
    /\ tiles = {}
    /\ player = [k \in Keys |-> NoStart]
    /\ stage = [a \in Starts |-> "unused"]
    /\ keyOf = [a \in Starts |-> NoKey]
    /\ via = [a \in Starts |-> NoStart]
    /\ socket = [a \in Starts |-> "none"]
    /\ players = {}
    /\ session = [r \in Rooms |-> NoStart]
    /\ refCount = [r \in Rooms |-> 0]
    /\ ending = {}
    /\ timers = [r \in Rooms |-> 0]
    /\ stranded = {}

SessionNext ==
    \/ \E k \in Keys : StartTile(k)
    \/ \E ks \in SUBSET tiles : \/ StopTiles(ks)
                               \/ \E rs \in SUBSET Rooms : SyncTilesWithHub(ks, rs)
    \/ \E a \in Starts : \/ Connected(a) \/ ConnectFails(a)
                         \/ Joined(a) \/ JoinFails(a)
                         \/ Playing(a) \/ PlayFails(a)
                         \/ ConnectionLost(a)
    \/ \E r \in Rooms : ObserveEnded(r) \/ RoomEnds(r)
    \/ StopAllWatching

\* The browser opens a socket or reports that it cannot; joining and playing
\* end by an answer or by their timeout; the end of a room by its timer.
SessionFairness ==
    /\ \A a \in Starts :
          WF_sessionVars(Connected(a) \/ ConnectFails(a) \/ JoinFails(a) \/ PlayFails(a))
    /\ \A r \in Rooms : WF_sessionVars(RoomEnds(r))

SessionSpec == SessionInit /\ [][SessionNext]_sessionVars /\ SessionFairness
-----------------------------------------------------------------------------
SessionTypeOK ==
    /\ tiles \subseteq Keys
    /\ player \in [Keys -> Starts \cup {NoStart}]
    /\ stage \in [Starts -> Stages]
    /\ keyOf \in [Starts -> Keys]
    /\ via \in [Starts -> Starts \cup {NoStart}]
    /\ socket \in [Starts -> {"none", "connecting", "open", "closed", "lost"}]
    /\ players \subseteq Starts
    /\ session \in [Rooms -> Starts \cup {NoStart}]
    /\ refCount \in [Rooms -> 0 .. MaxStarts]
    /\ ending \subseteq Rooms
    /\ timers \in [Rooms -> 0 .. MaxTimers]
    /\ stranded \subseteq Rooms

\* A tile that is watched has the player it was given: only its own end closes
\* it, whatever starts of the same key overtake each other.
TilesKeepTheirPlayer ==
    \A k \in Keys : player[k] # NoStart => k \in tiles /\ player[k] \in players

\* The connection the administrator holds in a room has a tile of that room on the
\* wall, or a timeout that ends it is set: it does not observe the room for nobody -
\* unless the room's last tile was stopped while it joined, a use that nothing gives
\* back (admin-monitor.js:1125-1135).
IdleSessionsEnd ==
    \A r \in Rooms \ stranded : session[r] # NoStart /\ socket[session[r]] = "open" =>
        TilesOf(r) # {} \/ timers[r] > 0

\* A tile that is connecting shows its stream or goes.
TilesConnectOrGo ==
    \A k \in Keys : []<>(k \notin tiles \/ player[k] # NoStart)

\* When the business of a room is over its tiles go, unless the connection they
\* would report to is lost.
TilesEndWithTheRoom ==
    \A r \in Rooms : r \in ending ~> (TilesOf(r) = {} \/ \E a \in Starts : socket[a] = "lost")
=============================================================================
