--------------------------- MODULE RoomLifecycle ---------------------------
(***************************************************************************)
(* The rooms of the signaling hub: the table Hub.rooms, the Room objects   *)
(* it points to, and the goroutines that join them, leave them, watch them *)
(* and close them (backend/src/pkg/signaling: hub.go, room.go, client.go,  *)
(* hub_admin.go).                                                          *)
(*                                                                         *)
(* One step is one critical section of h.mu or of r.mu, or one write of    *)
(* the unsynchronised field Client.room.  removeRoomIfEmpty reads r.size() *)
(* and deletes the entry under h.mu; an addClient that falls in between    *)
(* touches only the members of r, which the deletion does not, so it may   *)
(* as well come after, and the two sections are one step.                  *)
(*                                                                         *)
(* Of the messages only this matters here: send tests c.closed, unlocks    *)
(* and sends, and if c's cleanup closes the channel in between, the send   *)
(* panics and ends what it was part of - the announcement of a join, that  *)
(* of a departure, or the rest of an administrator's kicks; net/http       *)
(* recovers.  A broadcast holds r.mu for reading from test to send, so     *)
(* such a panic may as well follow the close at once: Cleanup chooses whom *)
(* it catches.  A panic in any other handler of a joined client leads to   *)
(* the cleanup a lost connection leads to, and is Disconnect here.         *)
(* Messages are the subject of PeerView; streams of StreamLifecycle.       *)
(***************************************************************************)
EXTENDS Naturals, FiniteSets

CONSTANTS
    Clients,      \* business connections (signaling.Client with a conn)
    Observers,    \* admin observe connections, with their observer client
    RoomIds,      \* the ids a join may name
    Rooms,        \* the Room objects; bounds how many are referenced at once
    roomID,       \* Room.ID and ...
    roomMode,     \* ... Room.Mode: written by newRoom and never again
    Nicks,        \* nicknames
    Kicks,        \* administrators' kick requests that may overlap
    NoNick,       \* the nickname of a client that has not asked to join
    NoRoom,       \* nil, as a *Room
    Nobody        \* no observer is being dismissed, no client notified

Modes == {"meeting", "call", "solo"}
Roles == {"push", "play", "none"}

ASSUME RoomAssumption ==
    /\ roomID \in [Rooms -> RoomIds]
    /\ roomMode \in [Rooms -> Modes]
    /\ NoRoom \notin Rooms
ASSUME PeopleAssumption ==
    /\ Clients \cap Observers = {}
    /\ Nobody \notin Observers
    /\ NoNick \notin Nicks
ASSUME NobodyAssumption == Nobody \notin Clients

VARIABLES
    table,        \* Hub.rooms
    members,      \* Room.clients, the user ids being the clients themselves
    pc,           \* where each connection's goroutine is
    room,         \* Client.room
    target,       \* the goroutine's own *Room: what it is joining or leaving
    profile,      \* the mode it asked for, its Nickname and its soloRole
    conn,         \* is the WebSocket of a business client open?
    observers,    \* dismissObservers' slice, for the goroutine running it
    evictee,      \* the observer it is dismissing, inside LeaveRoom ...
    evictRoom,    \* ... and LeaveRoom's local r
    victims,      \* DissolveRoom's slice of clients still to kick, and ...
    notice,       \* ... the client ForceKick is sending the notice to
    cut           \* history: the kick requests that ended in a panic

kickVars == <<victims, notice, cut>>
vars == <<table, members, pc, room, target, profile, conn, observers,
          evictee, evictRoom, kickVars>>

People == Clients \cup Observers
Requests == [mode : Modes, nick : Nicks, role : Roles]
Unset == [mode |-> "none", nick |-> NoNick, role |-> "none"]
Profiles == Requests \cup {Unset}

\* "failed": its announcement has panicked; "stuck": it was cleaned up then.
ClientPC == {"idle", "add", "drop", "announce", "failed", "stuck", "joined",
             "remove", "farewell", "check", "collect", "dismiss", "evict",
             "evictSweep", "sweep", "gone"}
ObserverPC == {"idle", "get", "insert", "bind", "rebind", "watching",
               "remove", "sweep", "gone"}

(***************************************************************************)
(* Reading a room                                                          *)
(***************************************************************************)
Business(r) == members[r] \cap Clients
Pushers(r)  == {c \in Business(r) : profile[c].role = "push"}

isBusinessActive(r) ==
    /\ Business(r) # {}
    /\ roomMode[r] = "solo" => \E c \in Business(r) : profile[c].role # "play"

\* Mutants: the capacity test is off by one; a second publisher gets in; the
\* requested mode is not compared.
RefusedCapacityOffByOne(c, r) ==
    \/ profile[c].mode # roomMode[r]
    \/ roomMode[r] = "call" /\ Cardinality(Business(r)) > 2
    \/ roomMode[r] = "solo" /\ profile[c].role = "push" /\ Pushers(r) # {}
    \/ \E d \in Business(r) : profile[d].nick = profile[c].nick
RefusedTwoPublishers(c, r) ==
    \/ profile[c].mode # roomMode[r]
    \/ roomMode[r] = "call" /\ Cardinality(Business(r)) >= 2
    \/ \E d \in Business(r) : profile[d].nick = profile[c].nick
RefusedAnyMode(c, r) ==
    \/ roomMode[r] = "call" /\ Cardinality(Business(r)) >= 2
    \/ roomMode[r] = "solo" /\ profile[c].role = "push" /\ Pushers(r) # {}
    \/ \E d \in Business(r) : profile[d].nick = profile[c].nick

\* The four refusals of addClient, in the order of the code.
Refused(c, r) ==
    \/ profile[c].mode # roomMode[r]
    \/ roomMode[r] = "call" /\ Cardinality(Business(r)) >= 2
    \/ roomMode[r] = "solo" /\ profile[c].role = "push" /\ Pushers(r) # {}
    \/ \E d \in Business(r) : profile[d].nick = profile[c].nick

\* No pointer to r is left, so newRoom may return it as a fresh object.
Unreferenced(r) ==
    /\ members[r] = {}
    /\ \A i \in RoomIds : table[i] # r
    /\ \A p \in People : pc[p] # "gone" => room[p] # r /\ target[p] # r
    /\ \A c \in Clients : evictRoom[c] # r

removeRoomIfEmpty(r) ==
    table' = IF members[r] = {} THEN [table EXCEPT ![roomID[r]] = NoRoom]
                                ELSE table

Goto(p, l) == pc' = [pc EXCEPT ![p] = l]

-----------------------------------------------------------------------------
(***************************************************************************)
(* A business client joins: handleJoin.                                    *)
(***************************************************************************)

\* The payload is accepted and GetOrCreateRoom runs under h.mu.  Only a solo
\* join has a soloRole.
JoinGetRoom(c, i, p) ==
    /\ pc[c] = "idle"
    /\ conn[c]
    /\ p.mode = "solo" <=> p.role # "none"
    /\ profile' = [profile EXCEPT ![c] = p]
    /\ \/ /\ table[i] # NoRoom
          /\ target' = [target EXCEPT ![c] = table[i]]
          /\ UNCHANGED table
       \/ /\ table[i] = NoRoom
          /\ \E r \in Rooms :
                /\ Unreferenced(r) /\ roomID[r] = i /\ roomMode[r] = p.mode
                /\ target' = [target EXCEPT ![c] = r]
                /\ table' = [table EXCEPT ![i] = r]
    /\ Goto(c, "add")
    /\ UNCHANGED <<members, room, conn, observers, evictee, evictRoom, kickVars>>

\* addClient: the four checks and the insertion are one section of r.mu.
JoinAdd(c) ==
    /\ pc[c] = "add"
    /\ IF Refused(c, target[c])
       THEN Goto(c, "drop") /\ UNCHANGED members
       ELSE /\ members' = [members EXCEPT ![target[c]] = @ \cup {c}]
            /\ Goto(c, "announce")
    /\ UNCHANGED <<table, room, target, profile, conn, observers, evictee,
                   evictRoom, kickVars>>

\* Mutant: c.room is not set after the announcement.
JoinUnbound(c) ==
    /\ pc[c] = "announce"
    /\ Goto(c, "joined")
    /\ UNCHANGED <<table, members, room, target, profile, conn, observers,
                   evictee, evictRoom, kickVars>>

\* The answer and the announcement are sent, and handleJoin sets c.room.
JoinBind(c) ==
    /\ pc[c] = "announce"
    /\ room' = [room EXCEPT ![c] = target[c]]
    /\ Goto(c, "joined")
    /\ UNCHANGED <<table, members, target, profile, conn, observers, evictee,
                   evictRoom, kickVars>>

\* The refused joiner drops the room it may have created; it may try again.
\* The profile of a client in no room is read by nobody, so it is unset here.
JoinDrop(c) ==
    /\ pc[c] = "drop"
    /\ removeRoomIfEmpty(target[c])
    /\ target' = [target EXCEPT ![c] = NoRoom]
    /\ profile' = [profile EXCEPT ![c] = Unset]
    /\ Goto(c, "idle")
    /\ UNCHANGED <<members, room, conn, observers, evictee, evictRoom, kickVars>>

(***************************************************************************)
(* A connection ends: the peer leaves or is lost, or an administrator      *)
(* closes it.                                                              *)
(***************************************************************************)
Disconnect(c) ==
    /\ pc[c] # "gone"
    /\ conn[c]
    /\ conn' = [conn EXCEPT ![c] = FALSE]
    /\ UNCHANGED <<table, members, pc, room, target, profile, observers,
                   evictee, evictRoom, kickVars>>

\* KickMember picks one business client of the listed room, DissolveRoom all
\* of them; they are told and closed one by one, with no lock held.
AdminPick(k, i, cs) ==
    /\ victims[k] = {} /\ notice[k] = Nobody
    /\ table[i] # NoRoom
    /\ cs # {}
    /\ cs \subseteq Business(table[i])
    /\ Cardinality(cs) = 1 \/ cs = Business(table[i])
    /\ victims' = [victims EXCEPT ![k] = cs]
    /\ cut' = cut \ {k}
    /\ UNCHANGED <<table, members, pc, room, target, profile, conn,
                   observers, evictee, evictRoom, notice>>

\* ForceKick sends the notice ...
KickNotice(k, c) ==
    /\ notice[k] = Nobody
    /\ c \in victims[k]
    /\ victims' = [victims EXCEPT ![k] = @ \ {c}]
    /\ notice' = [notice EXCEPT ![k] = c]
    /\ UNCHANGED <<table, members, pc, room, target, profile, conn,
                   observers, evictee, evictRoom, cut>>

\* Mutant: the client is told but its socket stays open.
KickCloseNot(k) ==
    /\ notice[k] # Nobody
    /\ notice' = [notice EXCEPT ![k] = Nobody]
    /\ UNCHANGED <<table, members, pc, room, target, profile, conn,
                   observers, evictee, evictRoom, victims, cut>>

\* ... and closes the socket.
KickClose(k) ==
    /\ notice[k] # Nobody
    /\ conn' = [c \in Clients |-> conn[c] /\ c # notice[k]]
    /\ notice' = [notice EXCEPT ![k] = Nobody]
    /\ UNCHANGED <<table, members, pc, room, target, profile, observers,
                   evictee, evictRoom, victims, cut>>

(***************************************************************************)
(* A business client is cleaned up: the read loop returns or panics,       *)
(* cleanup closes the channel and calls c.room.removeClient.               *)
(***************************************************************************)

\* Those who may be sending to c what c.closed did not stop: joiners of a room
\* that is not private and leavers announcing themselves, and kick requests.
Announcers(c) ==
    {p \in Clients \ {c} :
        /\ \/ pc[p] = "announce" /\ roomMode[target[p]] # "solo"
           \/ pc[p] = "farewell"
        /\ c \in members[target[p]]}
Notifiers(c) == {k \in Kicks : notice[k] = c}

\* The channel is closed under those in hit and the requests in ks: a joiner's
\* own cleanup follows, a leaver was in its cleanup, a request ends.
CloseChannel(c, after, hit, ks) ==
    /\ pc' = [p \in People |->
                 IF p = c THEN after
                 ELSE IF p \in hit
                      THEN IF pc[p] = "announce" THEN "failed" ELSE "gone"
                      ELSE pc[p]]
    /\ conn' = [conn EXCEPT ![c] = FALSE]
    /\ victims' = [k \in Kicks |-> IF k \in ks THEN {} ELSE victims[k]]
    /\ notice' = [k \in Kicks |-> IF k \in ks THEN Nobody ELSE notice[k]]
    /\ cut' = cut \cup ks

Cleanup(c) ==
    /\ pc[c] \in {"idle", "joined"}
    /\ ~conn[c]
    /\ \E hit \in SUBSET Announcers(c), ks \in SUBSET Notifiers(c) :
          CloseChannel(c, IF room[c] = NoRoom THEN "gone" ELSE "remove", hit, ks)
    /\ target' = [target EXCEPT ![c] = room[c]]
    /\ UNCHANGED <<table, members, room, profile, observers, evictee, evictRoom>>

\* The cleanup of a joiner whose announcement panicked finds c.room nil, and
\* leaves it in the room it was inserted in.
CleanupFailed(c) ==
    /\ pc[c] = "failed"
    /\ \E hit \in SUBSET Announcers(c), ks \in SUBSET Notifiers(c) :
          CloseChannel(c, "stuck", hit, ks)
    /\ UNCHANGED <<table, members, room, target, profile, observers, evictee,
                   evictRoom>>

\* removeClient's first section: absent means somebody else removed it.
RemoveClient(c) ==
    /\ pc[c] = "remove"
    /\ members' = [members EXCEPT ![target[c]] = @ \ {c}]
    /\ profile' = [profile EXCEPT ![c] = Unset]
    /\ Goto(c, IF c \in members[target[c]] THEN "farewell" ELSE "gone")
    /\ UNCHANGED <<table, room, target, conn, observers, evictee, evictRoom,
                   kickVars>>

\* The broadcasts of removeClient are over.
Farewell(c) ==
    /\ pc[c] = "farewell"
    /\ Goto(c, "check")
    /\ UNCHANGED <<table, members, room, target, profile, conn, observers,
                   evictee, evictRoom, kickVars>>

CheckActive(c) ==
    /\ pc[c] = "check"
    /\ Goto(c, IF isBusinessActive(target[c]) THEN "sweep" ELSE "collect")
    /\ UNCHANGED <<table, members, room, target, profile, conn, observers,
                   evictee, evictRoom, kickVars>>

CollectObservers(c) ==
    /\ pc[c] = "collect"
    /\ observers' = [observers EXCEPT ![c] = members[target[c]] \cap Observers]
    /\ Goto(c, "dismiss")
    /\ UNCHANGED <<table, members, room, target, profile, conn, evictee,
                   evictRoom, kickVars>>

\* Mutant: LeaveRoom forgets the room and does not remove the client.
DismissOneForget(c, o) ==
    /\ pc[c] = "dismiss"
    /\ o \in observers[c]
    /\ observers' = [observers EXCEPT ![c] = @ \ {o}]
    /\ room' = [room EXCEPT ![o] = NoRoom]
    /\ UNCHANGED <<table, members, pc, target, profile, conn, evictee,
                   evictRoom, kickVars>>

\* dismissObservers calls o.LeaveRoom(): nothing if o.room is nil.
DismissOne(c, o) ==
    /\ pc[c] = "dismiss"
    /\ o \in observers[c]
    /\ observers' = [observers EXCEPT ![c] = @ \ {o}]
    /\ IF room[o] = NoRoom
       THEN UNCHANGED <<pc, room, evictee, evictRoom>>
       ELSE /\ room' = [room EXCEPT ![o] = NoRoom]
            /\ evictee' = [evictee EXCEPT ![c] = o]
            /\ evictRoom' = [evictRoom EXCEPT ![c] = room[o]]
            /\ Goto(c, "evict")
    /\ UNCHANGED <<table, members, target, profile, conn, kickVars>>

\* removeClient of the observer, run by the goroutine that dismisses it.
Evict(c) ==
    /\ pc[c] = "evict"
    /\ members' = [members EXCEPT ![evictRoom[c]] = @ \ {evictee[c]}]
    /\ evictee' = [evictee EXCEPT ![c] = Nobody]
    /\ IF evictee[c] \in members[evictRoom[c]]
       THEN /\ Goto(c, "evictSweep")
            /\ UNCHANGED evictRoom
       ELSE /\ Goto(c, "dismiss")
            /\ evictRoom' = [evictRoom EXCEPT ![c] = NoRoom]
    /\ UNCHANGED <<table, room, target, profile, conn, observers, kickVars>>

EvictSweep(c) ==
    /\ pc[c] = "evictSweep"
    /\ removeRoomIfEmpty(evictRoom[c])
    /\ evictRoom' = [evictRoom EXCEPT ![c] = NoRoom]
    /\ Goto(c, "dismiss")
    /\ UNCHANGED <<members, room, target, profile, conn, observers, evictee,
                   kickVars>>

\* Mutant: removeClient returns after dismissing the observers.
DismissDoneReturn(c) ==
    /\ pc[c] = "dismiss"
    /\ observers[c] = {}
    /\ Goto(c, "gone")
    /\ UNCHANGED <<table, members, room, target, profile, conn, observers,
                   evictee, evictRoom, kickVars>>

DismissDone(c) ==
    /\ pc[c] = "dismiss"
    /\ observers[c] = {}
    /\ Goto(c, "sweep")
    /\ UNCHANGED <<table, members, room, target, profile, conn, observers,
                   evictee, evictRoom, kickVars>>

\* The last section of removeClient, for a business client and an observer;
\* after it the goroutine ends and its Client object is garbage.
Sweep(p) ==
    /\ pc[p] = "sweep"
    /\ removeRoomIfEmpty(target[p])
    /\ target' = [target EXCEPT ![p] = NoRoom]
    /\ room' = [room EXCEPT ![p] = NoRoom]
    /\ Goto(p, "gone")
    /\ UNCHANGED <<members, profile, conn, observers, evictee, evictRoom,
                   kickVars>>

(***************************************************************************)
(* An administrator watches a room: handleObserveJoin, AddObserverClient   *)
(* and addObserverClient.  The checks read a statistics snapshot; all that *)
(* survives them is the id.                                                *)
(***************************************************************************)
ObserveCheck(o, i) ==
    /\ pc[o] = "idle"
    /\ table[i] # NoRoom
    /\ isBusinessActive(table[i])
    /\ target' = [target EXCEPT ![o] = table[i]]
    /\ Goto(o, "get")
    /\ UNCHANGED <<table, members, room, profile, conn, observers, evictee,
                   evictRoom, kickVars>>

\* Mutant: the second lookup is not tested.
ObserveGetRoomUntested(o) ==
    /\ pc[o] = "get"
    /\ target' = [target EXCEPT ![o] = table[roomID[@]]]
    /\ Goto(o, "insert")
    /\ UNCHANGED <<table, members, room, profile, conn, observers, evictee,
                   evictRoom, kickVars>>

\* AddObserverClient looks the id up again.
ObserveGetRoom(o) ==
    /\ pc[o] = "get"
    /\ LET r == table[roomID[target[o]]]
       IN  /\ target' = [target EXCEPT ![o] = r]
           /\ Goto(o, IF r = NoRoom THEN "idle" ELSE "insert")
    /\ UNCHANGED <<table, members, room, profile, conn, observers, evictee,
                   evictRoom, kickVars>>

ObserveInsert(o) ==
    /\ pc[o] = "insert"
    /\ members' = [members EXCEPT ![target[o]] = @ \cup {o}]
    /\ Goto(o, "bind")
    /\ UNCHANGED <<table, room, target, profile, conn, observers, evictee,
                   evictRoom, kickVars>>

\* c.room = r, first in addObserverClient and again in AddObserverClient.
ObserveBind(o) ==
    /\ pc[o] \in {"bind", "rebind"}
    /\ room' = [room EXCEPT ![o] = target[o]]
    /\ Goto(o, IF pc[o] = "bind" THEN "rebind" ELSE "watching")
    /\ UNCHANGED <<table, members, target, profile, conn, observers, evictee,
                   evictRoom, kickVars>>

\* observe-leave, or the end of the read loop: LeaveRoom.
ObserveLeave(o) ==
    /\ pc[o] = "watching"
    /\ target' = [target EXCEPT ![o] = room[o]]
    /\ room' = [room EXCEPT ![o] = NoRoom]
    /\ Goto(o, IF room[o] = NoRoom THEN "gone" ELSE "remove")
    /\ UNCHANGED <<table, members, profile, conn, observers, evictee,
                   evictRoom, kickVars>>

\* Mutant: removeClient returns for an observer before removeRoomIfEmpty.
RemoveObserverOnly(o) ==
    /\ pc[o] = "remove"
    /\ members' = [members EXCEPT ![target[o]] = @ \ {o}]
    /\ Goto(o, "gone")
    /\ target' = [target EXCEPT ![o] = NoRoom]
    /\ UNCHANGED <<table, room, profile, conn, observers, evictee, evictRoom,
                   kickVars>>

RemoveObserver(o) ==
    /\ pc[o] = "remove"
    /\ members' = [members EXCEPT ![target[o]] = @ \ {o}]
    /\ IF o \in members[target[o]]
       THEN Goto(o, "sweep") /\ UNCHANGED target
       ELSE Goto(o, "gone") /\ target' = [target EXCEPT ![o] = NoRoom]
    /\ UNCHANGED <<table, room, profile, conn, observers, evictee, evictRoom,
                   kickVars>>

\* A finished connection's place is taken by a new one, once no slice and no
\* room holds the old Client object.
Reconnect(p) ==
    /\ pc[p] = "gone"
    /\ \A r \in Rooms : p \notin members[r]
    /\ \A k \in Kicks : p \notin victims[k] /\ p # notice[k]
    /\ \A c \in Clients : p \notin observers[c] /\ p # evictee[c]
    /\ conn' = [c \in Clients |-> c = p \/ conn[c]]
    /\ room' = [room EXCEPT ![p] = NoRoom]
    /\ target' = [target EXCEPT ![p] = NoRoom]
    /\ Goto(p, "idle")
    /\ UNCHANGED <<table, members, profile, observers, evictee, evictRoom,
                   kickVars>>

-----------------------------------------------------------------------------
Init ==
    /\ table = [i \in RoomIds |-> NoRoom]
    /\ members = [r \in Rooms |-> {}]
    /\ pc = [p \in People |-> "idle"]
    /\ room = [p \in People |-> NoRoom]
    /\ target = [p \in People |-> NoRoom]
    /\ profile = [c \in Clients |-> Unset]
    /\ conn = [c \in Clients |-> TRUE]
    /\ observers = [c \in Clients |-> {}]
    /\ evictee = [c \in Clients |-> Nobody]
    /\ evictRoom = [c \in Clients |-> NoRoom]
    /\ victims = [k \in Kicks |-> {}]
    /\ notice = [k \in Kicks |-> Nobody]
    /\ cut = {}

\* What a goroutine does by itself once it has started.
ClientStep(c) ==
    \/ JoinAdd(c) \/ JoinDrop(c) \/ JoinBind(c)
    \/ Cleanup(c) \/ CleanupFailed(c)
    \/ RemoveClient(c) \/ Farewell(c) \/ CheckActive(c) \/ CollectObservers(c)
    \/ \E o \in Observers : DismissOne(c, o)
    \/ Evict(c) \/ EvictSweep(c) \/ DismissDone(c) \/ Sweep(c)

ObserverStep(o) ==
    \/ ObserveGetRoom(o) \/ ObserveInsert(o) \/ ObserveBind(o)
    \/ RemoveObserver(o) \/ Sweep(o)

\* What users, administrators and the network decide.
ClientInput(c) ==
    \/ \E i \in RoomIds, p \in Requests : JoinGetRoom(c, i, p)
    \/ Disconnect(c)
    \/ Reconnect(c)

ObserverInput(o) ==
    \/ \E i \in RoomIds : ObserveCheck(o, i)
    \/ ObserveLeave(o)
    \/ Reconnect(o)

Admin ==
    \E k \in Kicks, i \in RoomIds, cs \in SUBSET Clients : AdminPick(k, i, cs)

KickStep(k) == KickClose(k) \/ \E c \in Clients : KickNotice(k, c)

Next ==
    \/ \E c \in Clients : ClientStep(c) \/ ClientInput(c)
    \/ \E o \in Observers : ObserverStep(o) \/ ObserverInput(o)
    \/ Admin
    \/ \E k \in Kicks : KickStep(k)

\* Goroutines are scheduled and Go's mutexes do not starve a waiter, so every
\* started handler runs to its end.  Nobody is obliged to join, leave or watch.
Fairness ==
    /\ \A c \in Clients : WF_vars(ClientStep(c))
    /\ \A o \in Observers : WF_vars(ObserverStep(o))
    /\ \A k \in Kicks : WF_vars(KickStep(k))

Spec == Init /\ [][Next]_vars
FairSpec == Spec /\ Fairness

-----------------------------------------------------------------------------
TypeOK ==
    /\ table \in [RoomIds -> Rooms \cup {NoRoom}]
    /\ members \in [Rooms -> SUBSET People]
    /\ pc \in [People -> ClientPC \cup ObserverPC]
    /\ \A c \in Clients : pc[c] \in ClientPC
    /\ \A o \in Observers : pc[o] \in ObserverPC
    /\ room \in [People -> Rooms \cup {NoRoom}]
    /\ target \in [People -> Rooms \cup {NoRoom}]
    /\ profile \in [Clients -> Profiles]
    /\ conn \in [Clients -> BOOLEAN]
    /\ observers \in [Clients -> SUBSET Observers]
    /\ evictee \in [Clients -> Observers \cup {Nobody}]
    /\ evictRoom \in [Clients -> Rooms \cup {NoRoom}]
    /\ victims \in [Kicks -> SUBSET Clients]
    /\ notice \in [Kicks -> Clients \cup {Nobody}]
    /\ cut \subseteq Kicks
    /\ \A p \in People : pc[p] \notin {"idle", "gone"} => target[p] \in Rooms

\* No Room object admits what addClient refuses, whatever the order in which
\* joins, failed joins, departures and dismissals interleave (room.go:180-212):
\* at most two parties to a call, at most one publisher in a solo room, no
\* nickname twice, and every member asked for the mode of its room.
Admission ==
    \A r \in Rooms :
        /\ roomMode[r] = "call" => Cardinality(Business(r)) <= 2
        /\ roomMode[r] = "solo" => Cardinality(Pushers(r)) <= 1
        /\ \A c, d \in Business(r) :
              profile[c].nick = profile[d].nick => c = d
        /\ \A c \in Business(r) : profile[c].mode = roomMode[r]

\* Goroutines that will call removeRoomIfEmpty(r), or have yet to fill r.
WillSweep(r) ==
    \/ \E p \in People :
          /\ target[p] = r
          /\ pc[p] \in {"add", "drop", "farewell", "check", "collect",
                        "dismiss", "evict", "evictSweep", "sweep"}
    \/ \E c \in Clients : evictRoom[c] = r /\ pc[c] = "evictSweep"

\* A listed room is never abandoned: while it is empty, some goroutine is
\* still going to fill it or to drop it (hub.go:78, client.go:451-455,
\* room.go:278 and 333).  Every path that can empty or create a room counts.
EmptyRoomHasSweeper ==
    \A i \in RoomIds :
        table[i] # NoRoom /\ members[table[i]] = {} => WillSweep(table[i])

\* A member is where its goroutine left it: a business client is a member of
\* the one room it is joining or its c.room names, and of none once its cleanup
\* has finished (client.go:212-226 and 450-456) - except a joiner whose own
\* announcement panicked, which is never removed; in a private room, where
\* nothing is announced, that cannot happen (room.go:219).
NoGhostMember ==
    \A c \in Clients, r \in Rooms :
        c \in members[r] =>
            \/ pc[c] \in {"joined", "remove"} /\ room[c] = r
            \/ pc[c] = "announce" /\ target[c] = r
            \/ /\ pc[c] \in {"failed", "stuck"} /\ target[c] = r
               /\ roomMode[r] # "solo"

\* An observer whose leave has finished stays in a room only for as long as
\* the goroutine that dismisses it is about to remove it: LeaveRoom clears
\* c.room before it removes the client (client.go:87-93, room.go:362-377).
NoGhostObserver ==
    \A o \in Observers, r \in Rooms :
        pc[o] \in {"idle", "get", "insert", "sweep", "gone"} /\ o \in members[r]
        => \E c \in Clients : /\ pc[c] = "evict"
                              /\ evictee[c] = o
                              /\ evictRoom[c] = r

\* The rooms keep the promise of RoomMembership: each insertion of addClient
\* seats one client in a well formed room, each removeClient unseats one, and
\* nothing else moves a business client (room.go:180-212 and 268-280).
Seats == [r \in Rooms |-> Business(r)]
Who == [c \in Clients |->
          IF \E r \in Rooms : c \in members[r] THEN profile[c] ELSE Unset]
Membership == INSTANCE RoomMembership WITH seats <- Seats, who <- Who
KeepsMembership == Membership!Spec

\* An empty room does not stay listed (hub.go:78: "removeRoomIfEmpty drops a
\* room from the table if it has no clients left").
EmptyRoomDropped ==
    \A i \in RoomIds, r \in Rooms :
        table[i] = r /\ members[r] = {} ~> table[i] # r \/ members[r] # {}

\* A client an administrator picked is out of every room in the end, even if
\* its join, another kick or a dismissal is in flight (hub_admin.go:7-50),
\* unless a panic cut the request short or left the client in its room for good.
VictimLeaves ==
    \A c \in Clients, k \in Kicks :
        c \in victims[k] ~> \/ k \in cut
                            \/ pc[c] = "stuck"
                            \/ \A r \in Rooms : c \notin members[r]

\* Clients who joined the same room id are in the same room: client.go:575-577
\* says of the ZLM app "Same room <=> same ZLM app, so peers in the same room
\* line up automatically", and hub.go:13 that the table is global.
SameIdSameRoom ==
    \A c, d \in Clients :
        /\ pc[c] = "joined" /\ pc[d] = "joined"
        /\ roomID[room[c]] = roomID[room[d]]
        => room[c] = room[d]

\* When nothing is in flight, nobody watches a room whose business has ended
\* (room.go:361, dismissObservers "removes them from the room").
Quiet ==
    /\ \A c \in Clients :
          \/ pc[c] \in {"idle", "joined"} /\ conn[c]
          \/ pc[c] \in {"stuck", "gone"}
    /\ \A o \in Observers : pc[o] \in {"idle", "watching", "gone"}

ObserversDismissed ==
    Quiet => \A r \in Rooms :
        members[r] \cap Observers # {} => isBusinessActive(r)
=============================================================================
