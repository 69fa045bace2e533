------------------------------ MODULE SoloPlay ------------------------------
(***************************************************************************)
(* The page that plays a published stream: pulls started by its button and *)
(* started again when the publisher comes back, each overtaken by what     *)
(* happens while it waits for its answer.                                  *)
(*                                                                         *)
(* pullGen is compared with the numbers of pulls only, so it is modelled   *)
(* by the pull it is the number of, if any.  An alert is modal: nothing    *)
(* can be clicked until the page has gone back to its ready state.         *)
(***************************************************************************)
EXTENDS Naturals

CONSTANT MaxPlays       \* bound on the pulls of a behaviour

ASSUME PlaysAssumption == MaxPlays \in Nat

Plays == 1 .. MaxPlays
NoPlay == 0

VARIABLES
    started,    \* pulls started so far
    current,    \* the pull whose number is pullGen, or NoPlay
    waiting,    \* pulls whose playStream has not ended
    playing,    \* open connections, named by their pull
    pull,       \* state.pull
    pulling,    \* state.pulling
    video       \* the pull whose stream remoteVideo shows, or NoPlay

playVars == <<started, current, waiting, playing, pull, pulling, video>>

\* startPull, of a page in which no other pull is under way.
StartPull ==
    /\ started < MaxPlays
    /\ started' = started + 1
    /\ current' = started + 1
    /\ waiting' = waiting \cup {started + 1}
    /\ pulling' = TRUE

TearDown ==
    /\ playing' = playing \ {pull}
    /\ pull' = NoPlay
    /\ video' = NoPlay

\* invalidatePull: the pull is outdated and its player is torn down.
Invalidate == current' = NoPlay /\ TearDown

\* toggleStream.
ClickStart ==
    /\ pull = NoPlay
    /\ ~pulling
    /\ StartPull
    /\ UNCHANGED <<playing, pull, video>>

ClickStop ==
    /\ pull # NoPlay
    /\ Invalidate
    /\ pulling' = FALSE
    /\ UNCHANGED <<started, waiting>>

\* peer-stream-started.  While a pull is under way it is ignored.
PublisherBack ==
    /\ pull # NoPlay
    /\ ~pulling
    /\ StartPull
    /\ TearDown

\* peer-stream-stopped, once there is a player; peer-left, also before.
PublisherGone ==
    /\ pull # NoPlay \/ pulling
    /\ Invalidate
    /\ pulling' = FALSE
    /\ UNCHANGED <<started, waiting>>

\* Mutant: an outdated answer is kept like any other.
SoloAnsweredUnchecked(p) ==
    /\ p \in waiting
    /\ waiting' = waiting \ {p}
    /\ playing' = playing \cup {p}
    /\ pull' = p
    /\ pulling' = FALSE
    /\ UNCHANGED <<started, current, video>>

\* The answer: state.pull is overwritten before the number is compared, so an
\* outdated pull also forgets the player of a later one.
SoloAnswered(p) ==
    /\ p \in waiting
    /\ waiting' = waiting \ {p}
    /\ IF p = current
       THEN /\ playing' = playing \cup {p}
            /\ pull' = p
            /\ pulling' = FALSE
       ELSE /\ pull' = NoPlay
            /\ UNCHANGED <<playing, pulling>>
    /\ UNCHANGED <<started, current, video>>

\* Mutant: the error handler leaves `pulling' as it is.
SoloFailsStuck(p) ==
    /\ p \in waiting
    /\ waiting' = waiting \ {p}
    /\ IF p = current THEN Invalidate ELSE UNCHANGED <<current, playing, pull, video>>
    /\ UNCHANGED <<started, pulling>>

\* An error or 15 s without an answer.
SoloFails(p) ==
    /\ p \in waiting
    /\ waiting' = waiting \ {p}
    /\ IF p = current THEN Invalidate /\ pulling' = FALSE
       ELSE UNCHANGED <<current, playing, pull, pulling, video>>
    /\ UNCHANGED started

\* Tracks arrive while the answer is applied, or later.
PlayTrack(p) ==
    /\ p \in waiting \cup playing
    /\ p = current
    /\ video' = p
    /\ UNCHANGED <<started, current, waiting, playing, pull, pulling>>

\* onPullDisconnected.
PlayBreaks(p) ==
    /\ p \in playing
    /\ p = current /\ pull # NoPlay
    /\ Invalidate
    /\ pulling' = FALSE
    /\ UNCHANGED <<started, waiting>>

PlayInit ==
    /\ started = 0
    /\ current = NoPlay
    /\ waiting = {} /\ playing = {}
    /\ pull = NoPlay
    /\ pulling = FALSE
    /\ video = NoPlay

PlayNext ==
    \/ ClickStart \/ ClickStop \/ PublisherBack \/ PublisherGone
    \/ \E p \in Plays : SoloAnswered(p) \/ SoloFails(p) \/ PlayTrack(p) \/ PlayBreaks(p)

\* Every request is answered or times out.
PlayFairness == \A p \in Plays : WF_playVars(SoloAnswered(p) \/ SoloFails(p))

PlaySpec == PlayInit /\ [][PlayNext]_playVars /\ PlayFairness
-----------------------------------------------------------------------------
PlayTypeOK ==
    /\ started \in 0 .. MaxPlays
    /\ current \in 0 .. started
    /\ waiting \subseteq 1 .. started
    /\ playing \subseteq 1 .. started
    /\ pull \in 0 .. started
    /\ pulling \in BOOLEAN
    /\ video \in 0 .. started

\* The player the page holds is open and belongs to the latest pull, and the
\* picture shown is that of an open player, or of one about to be: an answer that
\* comes too late never takes the screen.
PlayerIsCurrent ==
    /\ pull # NoPlay => pull = current /\ pull \in playing
    /\ video # NoPlay => video \in playing \/ (video \in waiting /\ video = current)

\* The page does not stay busy: pulling ends, however pulls overtake each other.
PullingEnds == []<>~pulling
=============================================================================
