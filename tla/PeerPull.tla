------------------------------ MODULE PeerPull ------------------------------
(***************************************************************************)
(* Playing another member's stream in a meeting or a call: the server's    *)
(* messages about the member, the pulls they start, each of which tries    *)
(* again until it has a player or is overtaken by a later one, and the     *)
(* member's tile.  One member and one kind of stream; the pulls of another *)
(* are kept apart by their keys.                                           *)
(*                                                                         *)
(* pullPeerStreamWithRetry keeps working on the object ensurePeer gave it  *)
(* when it began, though the member may have left and the object with it.  *)
(* Pulls are numbered in the order they begin, which is the order of the   *)
(* generations of each object.                                             *)
(***************************************************************************)
EXTENDS Naturals, Sequences, FiniteSets

CONSTANTS
    MaxPulls,   \* bound on the pulls of a behaviour
    MaxObjects, \* bound on the objects ensurePeer makes
    MaxTries,   \* maxAttempts of a pull
    MaxFails,   \* retries of a player that fails
    MaxNews,    \* bound on the server's messages about the member
    Passes      \* how often the page pulls everything again, twice in the code

ASSUME PullAssumption ==
    /\ {MaxPulls, MaxObjects, MaxTries, MaxFails, MaxNews} \subseteq Nat \ {0}
    /\ Passes \in Nat

Pulls == 1 .. MaxPulls
Objects == 1 .. MaxObjects
NoPull == 0     \* no object, no pull

VARIABLES
    there,      \* at the server the member is "out", "in", "live" or "gone"
    news,       \* messages sent about it so far
    inbox,      \* messages on their way
    passes,     \* retryExistingPeerPulls calls still to come
    peer,       \* state.peers.get(userId): the object's number
    objects,    \* objects made so far
    begun,      \* pulls begun so far
    objOf,      \* objOf[p]: the object pull p works on
    phase,      \* phase[p]: what pull p is doing
    tries,      \* tries[p]: attempts of pull p that failed
    latest,     \* latest[o]: camPullGen
    inflight,   \* inflight[o]: camPulling
    kept,       \* kept[o]: peer.cam, named by its pull
    fails,      \* fails[o]: camFailRetries
    pcs,        \* open connections with an answer, named by their pull
    tile        \* "none", "empty", or "stream"

serverSide == <<there, news>>
pullSide == <<objOf, phase, tries, latest, inflight, kept, fails, pcs, begun>>
pullVars == <<serverSide, inbox, passes, peer, objects, pullSide, tile>>

Running(p) == phase[p] \in {"asked", "answered", "asleep"}
Overtaken(p) == latest[objOf[p]] # p
GivenUp(o) ==
    \/ fails[o] = MaxFails
    \/ latest[o] # NoPull /\ phase[latest[o]] = "gaveUp"
-----------------------------------------------------------------------------
(* Beginning a pull. *)

\* ensurePeer: the object of the member, made if there is none.
Ensured == IF peer # NoPull THEN peer ELSE objects + 1
EnsurePeer ==
    /\ Ensured \in Objects
    /\ peer' = Ensured
    /\ objects' = IF peer = NoPull THEN objects + 1 ELSE objects

\* A pull of object o begins and overtakes the one under way; the players of the
\* objects in `stopped' are closed.
Begin(o, stopped) ==
    LET p == begun + 1 IN
    /\ p \in Pulls
    /\ begun' = p
    /\ objOf' = [objOf EXCEPT ![p] = o]
    /\ phase' = [phase EXCEPT ![p] = "asked"]
    /\ latest' = [latest EXCEPT ![o] = p]
    /\ inflight' = [inflight EXCEPT ![o] = p]
    /\ kept' = [x \in Objects |-> IF x \in stopped THEN NoPull ELSE kept[x]]
    /\ pcs' = pcs \ {kept[x] : x \in stopped}
    /\ tile' = IF tile = "none" THEN "empty" ELSE tile

-----------------------------------------------------------------------------
(* The server's messages. *)

Says(state, message) ==
    /\ news < MaxNews
    /\ news' = news + 1
    /\ there' = state
    /\ inbox' = Append(inbox, message)
    /\ UNCHANGED <<passes, peer, objects, pullSide, tile>>

PeerComes == there = "out" /\ Says("in", "joined")
StreamStarts == there = "in" /\ Says("live", "started")
StreamStops == there = "live" /\ Says("in", "stopped")
PeerLeaves == there \in {"in", "live"} /\ Says("gone", "left")

Receives(message) == inbox # <<>> /\ Head(inbox) = message /\ inbox' = Tail(inbox)

\* peer-joined, peer-state: a placeholder tile.
OnJoined ==
    /\ Receives("joined")
    /\ EnsurePeer
    /\ tile' = IF tile = "none" THEN "empty" ELSE tile
    /\ UNCHANGED <<serverSide, passes, pullSide>>

\* joined: the member was there with its stream before this page.  This pull is not
\* forced: it leaves alone what is there.
OnListed ==
    /\ Receives("listed")
    /\ EnsurePeer
    /\ IF kept[Ensured] # NoPull \/ inflight[Ensured] # NoPull
       THEN UNCHANGED <<begun, objOf, phase, latest, inflight, kept, pcs, tile>>
       ELSE Begin(Ensured, {})
    /\ UNCHANGED <<serverSide, passes, tries, fails>>

\* A forced pull: the player there is belongs to the former stream.
OnStarted ==
    /\ Receives("started")
    /\ EnsurePeer
    /\ Begin(Ensured, {Ensured})
    /\ UNCHANGED <<serverSide, passes, tries, fails>>

\* The player is closed; a pull under way goes on.
OnStopped ==
    /\ Receives("stopped")
    /\ IF peer = NoPull THEN UNCHANGED <<kept, pcs>>
       ELSE /\ pcs' = pcs \ {kept[peer]}
            /\ kept' = [kept EXCEPT ![peer] = NoPull]
    /\ tile' = IF peer = NoPull THEN "none" ELSE "empty"
    /\ UNCHANGED <<serverSide, passes, peer, objects, objOf, phase, tries, latest,
                   inflight, fails, begun>>

\* The object is dropped with its player.  A pull under way keeps it.
OnLeft ==
    /\ Receives("left")
    /\ pcs' = IF peer = NoPull THEN pcs ELSE pcs \ {kept[peer]}
    /\ peer' = NoPull
    /\ tile' = "none"
    /\ UNCHANGED <<serverSide, passes, objects, objOf, phase, tries, latest, inflight,
                   kept, fails, begun>>

\* retryExistingPeerPulls: the local media are ready, and are being published.
PullAgain ==
    /\ passes > 0
    /\ passes' = passes - 1
    /\ IF peer = NoPull THEN UNCHANGED <<pullSide, tile>>
       ELSE Begin(peer, {peer}) /\ UNCHANGED <<tries, fails>>
    /\ UNCHANGED <<serverSide, inbox, peer, objects>>
-----------------------------------------------------------------------------
(* The pulls. *)

\* The pull is over; its finally forgets whatever pull is noted as under way.
Over(p, how) ==
    /\ phase' = [phase EXCEPT ![p] = how]
    /\ tries' = [tries EXCEPT ![p] = 0]
    /\ inflight' = [inflight EXCEPT ![objOf[p]] = NoPull]

\* The server finds the stream and has it played.
StreamServed(p) ==
    /\ phase[p] = "asked"
    /\ there = "live"
    /\ phase' = [phase EXCEPT ![p] = "answered"]
    /\ UNCHANGED <<serverSide, inbox, passes, peer, objects, objOf, tries, latest,
                   inflight, kept, fails, pcs, begun, tile>>

\* Mutant: the generation is not compared when the answer has come.
AnsweredUnchecked(p) ==
    /\ phase[p] = "answered"
    /\ Over(p, "over")
    /\ kept' = [kept EXCEPT ![objOf[p]] = p]
    /\ pcs' = pcs \cup {p}
    /\ fails' = [fails EXCEPT ![objOf[p]] = 0]
    /\ UNCHANGED <<serverSide, inbox, passes, peer, objects, objOf, latest, begun, tile>>

Answered(p) ==
    /\ phase[p] = "answered"
    /\ Over(p, "over")
    /\ IF Overtaken(p) THEN UNCHANGED <<kept, pcs, fails>>
       ELSE /\ kept' = [kept EXCEPT ![objOf[p]] = p]
            /\ pcs' = pcs \cup {p}
            /\ fails' = [fails EXCEPT ![objOf[p]] = 0]
    /\ UNCHANGED <<serverSide, inbox, passes, peer, objects, objOf, latest, begun, tile>>

\* Mutant: one attempt too many.
PullFailsOnceMore(p) ==
    /\ phase[p] \in {"asked", "answered"}
    /\ IF tries[p] < MaxTries
       THEN /\ tries' = [tries EXCEPT ![p] = @ + 1]
            /\ phase' = [phase EXCEPT ![p] = "asleep"]
            /\ UNCHANGED inflight
       ELSE Over(p, "gaveUp")
    /\ UNCHANGED <<serverSide, inbox, passes, peer, objects, objOf, latest, kept, fails,
                   pcs, begun, tile>>

\* An error, 15 s without an answer, an answer that does not fit: tried again.
PullFails(p) ==
    /\ phase[p] \in {"asked", "answered"}
    /\ IF tries[p] + 1 < MaxTries
       THEN /\ tries' = [tries EXCEPT ![p] = @ + 1]
            /\ phase' = [phase EXCEPT ![p] = "asleep"]
            /\ UNCHANGED inflight
       ELSE Over(p, "gaveUp")
    /\ UNCHANGED <<serverSide, inbox, passes, peer, objects, objOf, latest, kept, fails,
                   pcs, begun, tile>>

\* Mutant: a pull that failed once does not ask again.
WakeAndStop(p) ==
    /\ phase[p] = "asleep"
    /\ Over(p, "over")
    /\ UNCHANGED <<serverSide, inbox, passes, peer, objects, objOf, latest, kept,
                   fails, pcs, begun, tile>>

Wake(p) ==
    /\ phase[p] = "asleep"
    /\ IF Overtaken(p) \/ kept[objOf[p]] # NoPull THEN Over(p, "over")
       ELSE phase' = [phase EXCEPT ![p] = "asked"] /\ UNCHANGED <<inflight, tries>>
    /\ UNCHANGED <<serverSide, inbox, passes, peer, objects, objOf, latest, kept,
                   fails, pcs, begun, tile>>

\* A track arrives, while the answer is being applied or later: the tile shows it,
\* and is made again if it is gone.
Track(p) ==
    /\ phase[p] = "answered" \/ p \in pcs
    /\ ~Overtaken(p)
    /\ tile' = "stream"
    /\ UNCHANGED <<serverSide, inbox, passes, peer, objects, pullSide>>

\* The connection fails.  Its object may not be the member's any more: the new
\* pull then makes the member anew.
PlayerFails(p) ==
    LET o == objOf[p] IN
    /\ \/ p \in pcs /\ kept[o] = p
       \/ phase[p] = "answered" /\ kept[o] = NoPull
    /\ ~Overtaken(p)
    /\ fails[o] < MaxFails
    /\ fails' = [fails EXCEPT ![o] = @ + 1]
    /\ IF fails[o] + 1 = MaxFails
       THEN /\ pcs' = pcs \ {kept[o]}
            /\ kept' = [kept EXCEPT ![o] = NoPull]
            /\ UNCHANGED <<begun, objOf, phase, latest, inflight, peer, objects, tile>>
       ELSE /\ EnsurePeer
            /\ Begin(Ensured, {o, Ensured})
    /\ UNCHANGED <<serverSide, inbox, passes, tries>>

\* The page has joined: the member is not there yet, or is and streams.
PullInit ==
    /\ there \in {"out", "live"}
    /\ news = 0
    /\ inbox = IF there = "live" THEN <<"listed">> ELSE <<>>
    /\ passes = Passes
    /\ peer = NoPull
    /\ objects = 0
    /\ begun = 0
    /\ objOf = [p \in Pulls |-> 1]
    /\ phase = [p \in Pulls |-> "unused"]
    /\ tries = [p \in Pulls |-> 0]
    /\ latest = [o \in Objects |-> NoPull]
    /\ inflight = [o \in Objects |-> NoPull]
    /\ kept = [o \in Objects |-> NoPull]
    /\ fails = [o \in Objects |-> 0]
    /\ pcs = {}
    /\ tile = "none"

PullNext ==
    \/ PeerComes \/ StreamStarts \/ StreamStops \/ PeerLeaves
    \/ OnJoined \/ OnListed \/ OnStarted \/ OnStopped \/ OnLeft
    \/ PullAgain
    \/ \E p \in Pulls : \/ StreamServed(p) \/ Answered(p) \/ PullFails(p) \/ Wake(p)
                        \/ Track(p) \/ PlayerFails(p)

PullFairness ==
    /\ WF_pullVars(OnJoined \/ OnListed \/ OnStarted \/ OnStopped \/ OnLeft)
    /\ \A p \in Pulls : WF_pullVars(StreamServed(p) \/ Answered(p) \/ Wake(p))

PullSpec == PullInit /\ [][PullNext]_pullVars /\ PullFairness
-----------------------------------------------------------------------------
PullTypeOK ==
    /\ there \in {"out", "in", "live", "gone"}
    /\ news \in 0 .. MaxNews
    /\ Len(inbox) <= MaxNews + 1
    /\ passes \in 0 .. Passes
    /\ objects \in 0 .. MaxObjects /\ peer \in 0 .. objects
    /\ begun \in 0 .. MaxPulls
    /\ objOf \in [Pulls -> Objects]
    /\ phase \in [Pulls -> {"unused", "asked", "answered", "asleep", "over", "gaveUp"}]
    /\ tries \in [Pulls -> 0 .. MaxTries - 1]
    /\ latest \in [Objects -> 0 .. begun]
    /\ inflight \in [Objects -> 0 .. begun]
    /\ kept \in [Objects -> 0 .. begun]
    /\ fails \in [Objects -> 0 .. MaxFails]
    /\ pcs \subseteq 1 .. begun
    /\ tile \in {"none", "empty", "stream"}

\* However pulls overtake each other, an open player is the one its member holds
\* and comes from the latest pull: no former one plays on beside it, unseen.
PlayersAreHeld ==
    \A p \in pcs : kept[objOf[p]] = p /\ latest[objOf[p]] = p

\* A member that keeps streaming ends up with a player, unless its last pull has
\* used up its attempts or its player has failed too often.
StreamIsPulled ==
    <>[](there = "live" /\ begun < MaxPulls /\ objects < MaxObjects) =>
        []<>(peer # NoPull /\ (kept[peer] # NoPull \/ GivenUp(peer)))
=============================================================================
