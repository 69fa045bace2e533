------------------------------ MODULE WatchWall ------------------------------
(***************************************************************************)
(* The wall of the administrator's live page: the tiles being watched, in  *)
(* the order they were started, the slots of the layout that show them,    *)
(* the slots pinned to a tile, and the carousel that takes turns when      *)
(* there are more tiles than slots.                                        *)
(*                                                                         *)
(* What a slot shows (displayedTileKey) and where a tile believes it is    *)
(* shown (displaySlotIndex) are kept twice, and so are the pins            *)
(* (pinnedTileKey of the slot, pinnedSlotIndex of the tile).               *)
(***************************************************************************)
EXTENDS Naturals, FiniteSets, Sequences, Functions

CONSTANTS
    Tiles,      \* the streams an administrator may watch (the keys of `tiles')
    Nobody,     \* what an empty slot shows
    Layouts,    \* the layouts of the picker
    Capacity,   \* the number of slots of a layout
    Audible,    \* bound: the tiles whose controls the administrator touches
    MaxTiles,   \* MAX_TILES
    MaxOpening, \* bound on the starts of one tile that are under way at once
    Cycle       \* the carousel's counter is kept modulo this multiple of every
                \* number of tiles that can take turns: it is only used modulo them

ASSUME WallAssumption ==
    /\ Nobody \notin Tiles
    /\ Capacity \in [Layouts -> Nat \ {0}]
    /\ Audible \subseteq Tiles
    /\ MaxTiles \in Nat \ {0}
    /\ MaxOpening \in Nat \ {0}
    /\ Cycle \in Nat \ {0}
    /\ \A n \in 1 .. MaxTiles : Cycle % n = 0

VARIABLES
    order,      \* watchOrder: the watched tiles, oldest first
    opening,    \* opening[k]: startTile calls for k that have not ended
    layout,     \* currentLayoutKey
    shown,      \* shown[i]: displayedTileKey of slot i
    at,         \* at[k]: displaySlotIndex of tile k, 0 for null
    pinned,     \* pinned[i]: pinnedTileKey of slot i, Nobody if it is not pinned
    pinnedAt,   \* pinnedAt[k]: pinnedSlotIndex of tile k, 0 for null
    audio,      \* audio[k]: audioOn of tile k
    loud,       \* loud[i]: slot i carries the "unmuted" mark
    batch,      \* carouselBatchIndex
    ticking,    \* the carousel's interval timer is set
    abandoned   \* history: the wall could not be cleared, and its timer is off since

wallVars == <<order, opening, layout, shown, at, pinned, pinnedAt, audio, loud,
              batch, ticking, abandoned>>

Watched == Range(order)
SlotsOf(l) == 1 .. Capacity[l]
Slots == SlotsOf(layout)

NeedsCarousel(ord, l) == Len(ord) > Capacity[l]

PinnedSlots == {i \in Slots : pinned[i] # Nobody}

Empty(n) == [i \in 1 .. n |-> Nobody]
Silent(n) == [i \in 1 .. n |-> FALSE]
-----------------------------------------------------------------------------
(* Sharing the slots out. *)

\* The members of S before x, and the one before which there are n.
Before(x, S) == Cardinality({y \in S : y < x})
Nth(S, n) == CHOOSE x \in S : Before(x, S) = n

\* filter: what ord has at the places S, in its order.
Picked(ord, S) == [n \in 1 .. Cardinality(S) |-> ord[Nth(S, n - 1)]]

Loose(ord, pat) == Picked(ord, {n \in DOMAIN ord : pat[ord[n]] = 0})
Without(ord, k) == Picked(ord, {n \in DOMAIN ord : ord[n] # k})

Free(l, pins) == {i \in SlotsOf(l) : pins[i] = Nobody}

\* Mutant: a pinned tile takes part in the turns as well.
PicturesOfAll(ord, l, pins, pat, b) ==
    LET free == Free(l, pins)
        start == (b * Cardinality(free)) % Len(ord)
    IN  [i \in SlotsOf(l) |->
            CASE i \notin free -> pins[i]
              [] i \in free /\ NeedsCarousel(ord, l) ->
                    ord[((start + Before(i, free)) % Len(ord)) + 1]
              [] i \in free /\ ~NeedsCarousel(ord, l) ->
                    IF Before(i, free) < Len(ord) THEN ord[Before(i, free) + 1] ELSE Nobody]

\* Every free slot in turn gets a tile that is not pinned: the first ones if all
\* fit, else as many as there are free slots from the place turn b begins at.
Pictures(ord, l, pins, pat, b) ==
    LET loose == Loose(ord, pat)
        free == Free(l, pins)
        start == (b * Cardinality(free)) % Len(loose)
    IN  [i \in SlotsOf(l) |->
            CASE i \notin free -> pins[i]
              [] i \in free /\ NeedsCarousel(ord, l) ->
                    loose[((start + Before(i, free)) % Len(loose)) + 1]
              [] i \in free /\ ~NeedsCarousel(ord, l) ->
                    IF Before(i, free) < Len(loose) THEN loose[Before(i, free) + 1] ELSE Nobody]

\* The slots `was' are repainted as `new': a tile that is shown learns its slot,
\* one that was shown where it believed forgets it, any other keeps its belief.
Repaint(was, new, known, snd) ==
    /\ shown' = new
    /\ at' = [k \in Tiles |->
                IF k \in Range(shown') THEN CHOOSE i \in DOMAIN shown' : shown'[i] = k
                ELSE IF known[k] \in DOMAIN was /\ was[known[k]] = k THEN 0
                ELSE known[k]]
    /\ loud' = [i \in DOMAIN shown' |-> shown'[i] # Nobody /\ snd[shown'[i]]]

\* All slots are shared out anew, and the carousel starts over if it is needed.
Redistribute(was, known, ord, l, pins, pat) ==
    /\ Repaint(was, Pictures(ord, l, pins, pat, 0), known, audio)
    /\ batch' = 0
    /\ ticking' = NeedsCarousel(ord, l)
    /\ abandoned' = FALSE
-----------------------------------------------------------------------------
(* Tiles come and go. *)

\* A tile is listed before it is connected, and shared out when it is.
TileStarted(k) ==
    /\ k \notin Watched
    /\ Len(order) < MaxTiles
    /\ opening[k] < MaxOpening
    /\ order' = Append(order, k)
    /\ opening' = [opening EXCEPT ![k] = @ + 1]
    /\ audio' = [audio EXCEPT ![k] = FALSE]
    /\ UNCHANGED <<layout, shown, at, pinned, pinnedAt, loud, batch, ticking,
                   abandoned>>

\* Mutant: the tile is not given a slot when it is connected.
TileConnectedUnseen(k) ==
    /\ opening[k] > 0
    /\ opening' = [opening EXCEPT ![k] = @ - 1]
    /\ UNCHANGED <<order, layout, shown, at, pinned, pinnedAt, audio, loud, batch, ticking,
                   abandoned>>

TileConnected(k) ==
    /\ opening[k] > 0
    /\ opening' = [opening EXCEPT ![k] = @ - 1]
    /\ Redistribute(shown, at, order, layout, pinned, pinnedAt)
    /\ UNCHANGED <<order, layout, pinned, pinnedAt, audio>>

\* A tile goes: its slot is emptied, its pin released, the rest shared out.
RemoveTile(k) ==
    LET ord == Without(order, k)
        pins == [i \in Slots |-> IF pinned[i] = k THEN Nobody ELSE pinned[i]]
        pat == [pinnedAt EXCEPT ![k] = 0]
    IN  /\ order' = ord
        /\ pinned' = pins
        /\ pinnedAt' = pat
        /\ Redistribute(shown, [at EXCEPT ![k] = 0], ord, layout, pins, pat)
        /\ audio' = [audio EXCEPT ![k] = FALSE]

TileFailed(k) ==
    /\ opening[k] > 0
    /\ opening' = [opening EXCEPT ![k] = @ - 1]
    /\ RemoveTile(k)
    /\ UNCHANGED layout

TileStopped(k) ==
    /\ k \in Watched
    /\ RemoveTile(k)
    /\ UNCHANGED <<opening, layout>>
-----------------------------------------------------------------------------
(* What the administrator does to the wall. *)

\* Mutant: the tiles keep their pins in the new layout.
SetLayoutKeepingPins(l) ==
    /\ l # layout
    /\ layout' = l
    /\ pinned' = Empty(Capacity[l])
    /\ Redistribute(Empty(Capacity[l]), at, order, l, pinned', pinnedAt)
    /\ UNCHANGED <<order, opening, pinnedAt, audio>>

\* Another layout: pins released, slots rebuilt.  The tiles keep the index of
\* the slot they had in the old one until they are assigned again.
SetLayout(l) ==
    /\ l # layout
    /\ layout' = l
    /\ pinned' = Empty(Capacity[l])
    /\ pinnedAt' = [k \in Tiles |-> 0]
    /\ Redistribute(Empty(Capacity[l]), at, order, l, pinned', pinnedAt')
    /\ UNCHANGED <<order, opening, audio>>

\* While the carousel is needed one slot must stay free for it.
MayPin == NeedsCarousel(order, layout)
            => Cardinality(PinnedSlots) < Capacity[layout] - 1

PinSlot(i) ==
    /\ shown[i] # Nobody
    /\ pinned[i] = Nobody
    /\ MayPin
    /\ LET pins == [pinned EXCEPT ![i] = shown[i]]
           pat == [pinnedAt EXCEPT ![shown[i]] = i]
       IN  /\ pinned' = pins
           /\ pinnedAt' = pat
           /\ Redistribute(shown, at, order, layout, pins, pat)
    /\ UNCHANGED <<order, opening, layout, audio>>

\* Unpinning leaves every picture where it is.
UnpinSlot(i) ==
    /\ shown[i] # Nobody
    /\ pinned[i] # Nobody
    /\ pinned' = [pinned EXCEPT ![i] = Nobody]
    /\ pinnedAt' = [pinnedAt EXCEPT ![shown[i]] = 0]
    /\ ticking' = (ticking \/ NeedsCarousel(order, layout))
    /\ abandoned' = (abandoned /\ ~ticking')
    /\ UNCHANGED <<order, opening, layout, shown, at, audio, loud, batch>>

\* Mutant: the marks stay where they are when two tiles change places.
SwapPicturesOnly(i, j) ==
    /\ i # j
    /\ pinned[i] = Nobody /\ pinned[j] = Nobody
    /\ ~NeedsCarousel(order, layout)
    /\ ~(shown[i] = Nobody /\ shown[j] = Nobody)
    /\ LET a == shown[i]
           b == shown[j]
       IN  /\ shown' = [shown EXCEPT ![i] = b, ![j] = a]
           /\ at' = [k \in Tiles |->
                        CASE k = a -> IF b # Nobody THEN j ELSE 0
                          [] k = b -> IF a # Nobody THEN i ELSE 0
                          [] OTHER -> at[k]]
    /\ UNCHANGED <<order, opening, layout, pinned, pinnedAt, audio, loud, batch, ticking,
                   abandoned>>

\* A tile is dropped on another slot.  The slot it was picked up from is an
\* index taken when the drag began, so it may be any slot by now.
SwapSlots(i, j) ==
    /\ i # j
    /\ pinned[i] = Nobody /\ pinned[j] = Nobody
    /\ ~NeedsCarousel(order, layout)
    /\ ~(shown[i] = Nobody /\ shown[j] = Nobody)
    /\ LET a == shown[i]
           b == shown[j]
           Sound(k) == k # Nobody /\ audio[k]
       IN  /\ shown' = [shown EXCEPT ![i] = b, ![j] = a]
           /\ at' = [k \in Tiles |->
                        CASE k = a -> IF b # Nobody THEN j ELSE 0
                          [] k = b -> IF a # Nobody THEN i ELSE 0
                          [] OTHER -> at[k]]
           /\ loud' = [loud EXCEPT ![i] = Sound(b), ![j] = Sound(a)]
    /\ UNCHANGED <<order, opening, layout, pinned, pinnedAt, audio, batch, ticking,
                   abandoned>>

\* A control of the slot that shows tile k; audio stands for the three of them.
ToggleAudio(i) ==
    LET k == shown[i] IN
    /\ k \in Audible
    /\ audio' = [audio EXCEPT ![k] = ~@]
    /\ loud' = [s \in Slots |-> IF s = at[k] THEN ~audio[k] ELSE loud[s]]
    /\ UNCHANGED <<order, opening, layout, shown, at, pinned, pinnedAt, batch, ticking,
                   abandoned>>

\* A new carousel interval restarts the timer.
ChangeInterval ==
    /\ NeedsCarousel(order, layout)
    /\ ticking' = TRUE
    /\ abandoned' = FALSE
    /\ UNCHANGED <<order, opening, layout, shown, at, pinned, pinnedAt, audio, loud, batch>>

\* stopAllWatching: the timer first, then tile after tile.  A tile that cannot report
\* to its connection ends it: the tiles after it stay.  If some have gone before it, it
\* is as if they had been stopped one by one; if it is the first, the timer stays off.
WallCleared ==
    /\ order # <<>>
    /\ order' = <<>>
    /\ shown' = Empty(Capacity[layout])
    /\ loud' = Silent(Capacity[layout])
    /\ pinned' = Empty(Capacity[layout])
    /\ at' = [k \in Tiles |-> 0]
    /\ pinnedAt' = [k \in Tiles |-> 0]
    /\ audio' = [k \in Tiles |-> FALSE]
    /\ batch' = 0
    /\ ticking' = FALSE
    /\ abandoned' = FALSE
    /\ UNCHANGED <<opening, layout>>

WallKept ==
    /\ order # <<>>
    /\ ticking' = FALSE
    /\ abandoned' = TRUE
    /\ UNCHANGED <<order, opening, layout, shown, at, pinned, pinnedAt, audio, loud, batch>>
-----------------------------------------------------------------------------
(* The carousel. *)

\* Mutant: every tick draws the same turn again.
SameTurn ==
    /\ ticking
    /\ IF NeedsCarousel(order, layout)
       THEN IF PinnedSlots = Slots THEN UNCHANGED <<shown, at, loud>>
            ELSE Repaint(shown, Pictures(order, layout, pinned, pinnedAt, batch), at, audio)
       ELSE UNCHANGED <<shown, at, loud>>
    /\ ticking' = NeedsCarousel(order, layout)
    /\ UNCHANGED <<order, opening, layout, pinned, pinnedAt, audio, batch, abandoned>>

CarouselTick ==
    /\ ticking
    /\ IF NeedsCarousel(order, layout)
       THEN /\ batch' = (batch + 1) % Cycle
            /\ IF PinnedSlots = Slots THEN UNCHANGED <<shown, at, loud>>
               ELSE Repaint(shown, Pictures(order, layout, pinned, pinnedAt, batch'), at, audio)
            /\ ticking' = TRUE
       ELSE ticking' = FALSE /\ UNCHANGED <<batch, shown, at, loud>>
    /\ UNCHANGED <<order, opening, layout, pinned, pinnedAt, audio, abandoned>>

WallInit ==
    /\ order = <<>>
    /\ opening = [k \in Tiles |-> 0]
    /\ layout \in Layouts
    /\ shown = Empty(Capacity[layout])
    /\ at = [k \in Tiles |-> 0]
    /\ pinned = Empty(Capacity[layout])
    /\ pinnedAt = [k \in Tiles |-> 0]
    /\ audio = [k \in Tiles |-> FALSE]
    /\ loud = Silent(Capacity[layout])
    /\ batch = 0
    /\ ticking = FALSE
    /\ abandoned = FALSE

WallNext ==
    \/ \E k \in Tiles : TileStarted(k) \/ TileConnected(k) \/ TileFailed(k) \/ TileStopped(k)
    \/ \E l \in Layouts : SetLayout(l)
    \/ \E i \in Slots : PinSlot(i) \/ UnpinSlot(i) \/ ToggleAudio(i)
    \/ \E i, j \in Slots : SwapSlots(i, j)
    \/ ChangeInterval
    \/ WallCleared \/ WallKept
    \/ CarouselTick

\* The interval timer fires again and again for as long as it is set.
WallFairness == WF_wallVars(CarouselTick)

WallSpec == WallInit /\ [][WallNext]_wallVars /\ WallFairness
-----------------------------------------------------------------------------
WallTypeOK ==
    /\ order \in UNION {[1 .. n -> Tiles] : n \in 0 .. MaxTiles}
    /\ opening \in [Tiles -> 0 .. MaxOpening]
    /\ layout \in Layouts
    /\ shown \in [Slots -> Watched \cup {Nobody}]
    /\ at \in [Tiles -> Nat]
    /\ pinned \in [Slots -> Watched \cup {Nobody}]
    /\ pinnedAt \in [Tiles -> {0} \cup Slots]
    /\ audio \in [Tiles -> BOOLEAN]
    /\ loud \in [Slots -> BOOLEAN]
    /\ batch \in 0 .. Cycle - 1
    /\ ticking \in BOOLEAN
    /\ abandoned \in BOOLEAN

\* No stream is in two slots, and a tile that is shown knows its slot or none:
\* whatever sequence of drags, pins, turns and layouts brought it there, its
\* controls never act on the slot of another.
ShownOnce ==
    \A i \in Slots : shown[i] # Nobody =>
        /\ \A j \in Slots : shown[j] = shown[i] => j = i
        /\ at[shown[i]] \in {0, i}

\* A pinned slot shows the tile it is pinned to, the tile knows it, and no
\* other tile thinks it is pinned: the carousel and the pins never overlap.
PinsAgree ==
    /\ \A i \in Slots : pinned[i] # Nobody => shown[i] = pinned[i] /\ pinnedAt[pinned[i]] = i
    /\ \A k \in Tiles : pinnedAt[k] # 0 => pinned[pinnedAt[k]] = k

\* If the tiles fit into the layout, all that are connected are shown; if they
\* do not, no slot is left empty.
WallUsed ==
    IF ~NeedsCarousel(order, layout)
    THEN \A k \in Watched : opening[k] = 0 => \E i \in Slots : shown[i] = k
    ELSE (\A k \in Tiles : opening[k] = 0) => \A i \in Slots : shown[i] # Nobody

\* The sound mark of a slot tells the truth about the tile that knows it is there.
MarksTell ==
    \A i \in Slots :
        IF shown[i] = Nobody THEN ~loud[i]
        ELSE at[shown[i]] = i => loud[i] = audio[shown[i]]

\* Once the administrator leaves the wall alone, every tile has its turn again
\* and again, as long as one slot is not pinned - unless leaving it alone was an
\* attempt to clear it that failed at its first tile.
EveryTileHasItsTurn ==
    <>[][CarouselTick]_wallVars =>
        \A k \in Tiles : []<>(\/ k \notin Watched
                              \/ opening # [x \in Tiles |-> 0]
                              \/ PinnedSlots = Slots
                              \/ abandoned
                              \/ \E i \in Slots : shown[i] = k)
=============================================================================
