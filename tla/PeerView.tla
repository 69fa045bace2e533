------------------------------ MODULE PeerView ------------------------------
(***************************************************************************)
(* What the members of one meeting or call are told about each other, and  *)
(* what their browsers make of it: addClient's answer and announcement,    *)
(* the stream and departure broadcasts, Client.send with its bounded       *)
(* channel, cleanup, and the handlers of app.js that keep state.peers      *)
(* (backend/src/pkg/signaling: client.go, room.go; frontend/js/app.js).    *)
(*                                                                         *)
(* A broadcast holds r.mu for reading and offers the message to the        *)
(* members one by one; each offer first reads the recipient's closed flag  *)
(* under c.mu and then uses its channel without a lock.  Every client      *)
(* connects once and has one stream, its camera.                           *)
(***************************************************************************)
EXTENDS Naturals, Sequences, FiniteSets

CONSTANTS
    Clients,
    Publishers,  \* those that have a camera to publish
    Cap,       \* capacity of sendCh (32 in newClient)
    Nobody     \* no recipient has been checked yet

ASSUME PeerAssumption ==
    /\ Publishers \subseteq Clients
    /\ Cap \in Nat \ {0}
    /\ Nobody \notin Clients

VARIABLES
    present,   \* Room.clients
    pc,        \* where each client's read loop is
    cam,       \* has the client a registered stream? (Client.streams)
    snap,      \* snapshotPeers' result, until it is sent
    todo,      \* recipients the running broadcast has still to offer to
    armed,     \* the recipient whose closed flag it has read as FALSE
    queue,     \* sendCh
    closed,    \* Client.closed, and sendCh closed with it
    view,      \* state.peers of each browser
    after,     \* <<v, p>> : p was inserted after v was told it had joined
    lossy,     \* members some message never reached
    panicked   \* goroutines that panicked

vars == <<present, pc, cam, snap, todo, armed, queue, closed, view, after,
          lossy, panicked>>

Casting == {"announce", "started", "stopped", "ending", "left"}
PCs == {"out", "snapshot", "tell", "joined", "unwind", "closing", "gone"}
       \cup Casting
Views == {"absent", "tile", "stream"}

\* The message a broadcast carries, and what its sender does next.
Word(c) == CASE pc[c] = "announce" -> "peer-joined"
             [] pc[c] = "started" -> "peer-stream-started"
             [] pc[c] \in {"stopped", "ending"} -> "peer-stream-stopped"
             [] pc[c] = "left" -> "peer-left"

Messages == [type : {"peer-joined", "peer-stream-started",
                     "peer-stream-stopped", "peer-left"}, from : Clients]
            \cup [type : {"joined"}, peers : SUBSET Clients,
                  streams : SUBSET Clients]

\* r.mu is free for writing while no broadcast holds it for reading.
RoomUnlocked == \A c \in Clients : pc[c] \notin Casting

-----------------------------------------------------------------------------
(***************************************************************************)
(* Client.send: the closed flag was read before; a full channel drops the  *)
(* message; sending on a closed one panics.                                *)
(***************************************************************************)
\* Mutant: the channel has no bound.
OfferUnbounded(d, m) ==
    queue' = [queue EXCEPT ![d] = Append(@, m)] /\ UNCHANGED lossy

Offer(d, m) ==
    IF Len(queue[d]) < Cap
    THEN queue' = [queue EXCEPT ![d] = Append(@, m)] /\ UNCHANGED lossy
    ELSE lossy' = lossy \cup {d} /\ UNCHANGED queue

\* A panic unwinds to the read loop's deferred cleanup, and net/http recovers
\* it.  Inside cleanup nothing is left to run, and inside addClient c.room is
\* not set yet, so in both cases the client is not removed any further.
Panic(c) ==
    /\ panicked' = panicked \cup {c}
    /\ lossy' = Clients
    /\ todo' = [todo EXCEPT ![c] = {}]
    /\ armed' = [armed EXCEPT ![c] = Nobody]
    /\ IF pc[c] \in {"started", "stopped"}
       THEN pc' = [pc EXCEPT ![c] = "unwind"] /\ UNCHANGED <<closed, queue>>
       ELSE /\ pc' = [pc EXCEPT ![c] = "gone"]
            /\ closed' = [closed EXCEPT ![c] = TRUE]
            /\ queue' = [queue EXCEPT ![c] = <<>>]

Broadcast(c, l) ==
    /\ pc' = [pc EXCEPT ![c] = l]
    /\ todo' = [todo EXCEPT ![c] = present \ {c}]

CastCheck(c, d) ==
    /\ pc[c] \in Casting
    /\ armed[c] = Nobody
    /\ d \in todo[c]
    /\ IF closed[d]
       THEN todo' = [todo EXCEPT ![c] = @ \ {d}] /\ UNCHANGED armed
       ELSE armed' = [armed EXCEPT ![c] = d] /\ UNCHANGED todo
    /\ UNCHANGED <<present, pc, cam, snap, queue, closed, view, after, lossy,
                   panicked>>

CastSend(c) ==
    /\ armed[c] # Nobody
    /\ IF closed[armed[c]]
       THEN Panic(c)
       ELSE /\ Offer(armed[c], [type |-> Word(c), from |-> c])
            /\ todo' = [todo EXCEPT ![c] = @ \ {armed[c]}]
            /\ armed' = [armed EXCEPT ![c] = Nobody]
            /\ UNCHANGED <<pc, closed, panicked>>
    /\ UNCHANGED <<present, cam, snap, view, after>>

\* Mutant: a departing publisher only announces the end of its stream.
CastDoneSilent(c) ==
    /\ pc[c] \in Casting
    /\ todo[c] = {}
    /\ pc' = [pc EXCEPT ![c] = IF @ \in {"ending", "left"} THEN "gone"
                              ELSE "joined"]
    /\ UNCHANGED <<present, cam, snap, todo, armed, queue, closed, view,
                   after, lossy, panicked>>

CastDone(c) ==
    /\ pc[c] \in Casting
    /\ todo[c] = {}
    /\ IF pc[c] = "ending"
       THEN Broadcast(c, "left")
       ELSE /\ pc' = [pc EXCEPT ![c] = IF @ = "left" THEN "gone" ELSE "joined"]
            /\ UNCHANGED todo
    /\ UNCHANGED <<present, cam, snap, armed, queue, closed, view, after,
                   lossy, panicked>>

(***************************************************************************)
(* addClient                                                               *)
(***************************************************************************)
Insert(c) ==
    /\ pc[c] = "out"
    /\ RoomUnlocked
    /\ present' = present \cup {c}
    /\ after' = after \cup {<<v, c>> : v \in
                   {w \in present : pc[w] \notin {"snapshot", "tell"}}}
    /\ pc' = [pc EXCEPT ![c] = "snapshot"]
    /\ UNCHANGED <<cam, snap, todo, armed, queue, closed, view, lossy, panicked>>

\* Mutant: the snapshot leaves the streams out.
SnapshotPeersBare(c) ==
    /\ pc[c] = "snapshot"
    /\ snap' = [snap EXCEPT ![c] = [type |-> "joined", peers |-> present \ {c},
                                   streams |-> {}]]
    /\ pc' = [pc EXCEPT ![c] = "tell"]
    /\ UNCHANGED <<present, cam, todo, armed, queue, closed, view, after,
                   lossy, panicked>>

SnapshotPeers(c) ==
    /\ pc[c] = "snapshot"
    /\ LET peers == present \ {c}
       IN  snap' = [snap EXCEPT ![c] = [type |-> "joined", peers |-> peers,
                                 streams |-> {p \in peers : cam[p]}]]
    /\ pc' = [pc EXCEPT ![c] = "tell"]
    /\ UNCHANGED <<present, cam, todo, armed, queue, closed, view, after,
                   lossy, panicked>>

\* The joiner is told who is already here, then the others are told of it.
TellJoined(c) ==
    /\ pc[c] = "tell"
    /\ Offer(c, snap[c])
    /\ snap' = [snap EXCEPT ![c] = <<>>]
    /\ Broadcast(c, "announce")
    /\ UNCHANGED <<present, cam, armed, closed, view, after, panicked>>

(***************************************************************************)
(* webrtc-offer (publish) and stream-stopped                               *)
(***************************************************************************)
Publish(c) ==
    /\ pc[c] = "joined"
    /\ c \in Publishers
    /\ cam' = [cam EXCEPT ![c] = TRUE]
    /\ Broadcast(c, "started")
    /\ UNCHANGED <<present, snap, armed, queue, closed, view, after, lossy,
                   panicked>>

StreamStopped(c) ==
    /\ pc[c] = "joined"
    /\ cam[c]
    /\ cam' = [cam EXCEPT ![c] = FALSE]
    /\ Broadcast(c, "stopped")
    /\ UNCHANGED <<present, snap, armed, queue, closed, view, after, lossy,
                   panicked>>

(***************************************************************************)
(* cleanup: close the channel, then removeClient.                          *)
(***************************************************************************)
Close(c) ==
    /\ pc[c] \in {"joined", "unwind"}
    /\ closed' = [closed EXCEPT ![c] = TRUE]
    /\ queue' = [queue EXCEPT ![c] = <<>>]
    /\ view' = [view EXCEPT ![c] = [p \in Clients |-> "absent"]]
    /\ pc' = [pc EXCEPT ![c] = "closing"]
    /\ UNCHANGED <<present, cam, snap, todo, armed, after, lossy, panicked>>

\* Deletion under r.mu, then the streams are collected and each is announced
\* as stopped before the departure is.
Remove(c) ==
    /\ pc[c] = "closing"
    /\ RoomUnlocked
    /\ present' = present \ {c}
    /\ cam' = [cam EXCEPT ![c] = FALSE]
    /\ pc' = [pc EXCEPT ![c] = IF cam[c] THEN "ending" ELSE "left"]
    /\ todo' = [todo EXCEPT ![c] = present \ {c}]
    /\ UNCHANGED <<snap, armed, queue, closed, view, after, lossy, panicked>>

(***************************************************************************)
(* The browser handles the oldest message.                                 *)
(***************************************************************************)
Seen(old, m) ==
    CASE m.type = "joined" ->
            [p \in Clients |-> IF p \in m.streams THEN "stream"
                               ELSE IF p \in m.peers /\ old[p] = "absent"
                               THEN "tile" ELSE old[p]]
      [] m.type = "peer-joined" ->
            [old EXCEPT ![m.from] = IF @ = "absent" THEN "tile" ELSE @]
      [] m.type = "peer-stream-started" -> [old EXCEPT ![m.from] = "stream"]
      [] m.type = "peer-stream-stopped" ->
            [old EXCEPT ![m.from] = IF @ = "absent" THEN "absent" ELSE "tile"]
      [] m.type = "peer-left" -> [old EXCEPT ![m.from] = "absent"]

Receive(v) ==
    /\ queue[v] # <<>>
    /\ view' = [view EXCEPT ![v] = Seen(@, Head(queue[v]))]
    /\ queue' = [queue EXCEPT ![v] = Tail(@)]
    /\ UNCHANGED <<present, pc, cam, snap, todo, armed, closed, after, lossy,
                   panicked>>

-----------------------------------------------------------------------------
Init ==
    /\ present = {}
    /\ pc = [c \in Clients |-> "out"]
    /\ cam = [c \in Clients |-> FALSE]
    /\ snap = [c \in Clients |-> <<>>]
    /\ todo = [c \in Clients |-> {}]
    /\ armed = [c \in Clients |-> Nobody]
    /\ queue = [c \in Clients |-> <<>>]
    /\ closed = [c \in Clients |-> FALSE]
    /\ view = [c \in Clients |-> [p \in Clients |-> "absent"]]
    /\ after = {}
    /\ lossy = {}
    /\ panicked = {}

Next ==
    \E c \in Clients :
        \/ Insert(c) \/ SnapshotPeers(c) \/ TellJoined(c)
        \/ Publish(c) \/ StreamStopped(c)
        \/ Close(c) \/ Remove(c)
        \/ \E d \in Clients : CastCheck(c, d)
        \/ CastSend(c) \/ CastDone(c)
        \/ Receive(c)

Spec == Init /\ [][Next]_vars

-----------------------------------------------------------------------------
TypeOK ==
    /\ present \subseteq Clients
    /\ pc \in [Clients -> PCs]
    /\ cam \in [Clients -> BOOLEAN]
    /\ \A c \in Clients : snap[c] \in Messages \cup {<<>>}
    /\ todo \in [Clients -> SUBSET Clients]
    /\ armed \in [Clients -> Clients \cup {Nobody}]
    /\ \A c \in Clients :
          /\ Len(queue[c]) <= Cap
          /\ \A n \in DOMAIN queue[c] : queue[c][n] \in Messages
    /\ closed \in [Clients -> BOOLEAN]
    /\ view \in [Clients -> [Clients -> Views]]
    /\ after \subseteq Clients \X Clients
    /\ lossy \subseteq Clients
    /\ panicked \subseteq Clients

\* v has handled everything it was ever sent, and nothing was lost.
CaughtUp(v) == pc[v] = "joined" /\ queue[v] = <<>> /\ v \notin lossy

\* Nobody is missed: a member that has caught up knows every other member that
\* is not in the middle of a broadcast, and pulls the stream of each of them
\* that publishes, whichever way their joins and publications crossed
\* (room.go:180-238: insertion before snapshot before announcement).
NobodyMissed ==
    \A v, p \in Clients :
        CaughtUp(v) /\ v # p /\ pc[p] = "joined" =>
            IF cam[p] THEN view[v][p] = "stream" ELSE view[v][p] # "absent"

\* Of those who came after it was told it had joined, a member that has caught
\* up knows exactly what is true: here, publishing, or gone.
LaterPeersExact ==
    \A v, p \in Clients :
        CaughtUp(v) /\ <<v, p>> \in after /\ pc[p] \in {"joined", "gone"} =>
            view[v][p] = IF p \notin present THEN "absent"
                         ELSE IF cam[p] THEN "stream" ELSE "tile"

\* A member that has caught up shows nobody who has left: room.go:211 "Tell
\* the joiner who is already here."
NoGhostPeer ==
    \A v, p \in Clients :
        CaughtUp(v) /\ pc[p] = "gone" => view[v][p] = "absent"

\* Sending to a client that has gone is harmless: client.go:228 "Drops the
\* message if the client is already disconnected".
SendNeverPanics == panicked = {}
=============================================================================
