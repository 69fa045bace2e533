------------------------------- MODULE MCPages -------------------------------
(***************************************************************************)
(* The pages of the browser, and the server's pushes to the dashboard,     *)
(* checked together: a behaviour follows one of these parts.  The parts    *)
(* share no variable, so this is the sum of their specifications and says  *)
(* of each what a run of its own would say.  A part that is not followed   *)
(* stays at an initial state in which none of its fair actions is enabled. *)
(***************************************************************************)
EXTENDS WatchWall, WatchSession, AdminTables, AdminPage, PeerPull, SoloPlay, Publisher,
        DashboardPush

CONSTANTS
    t1, t2, t3, k1, k2, r1, d1      \* model values

Parts == {"wall", "session", "tables", "admin", "pull", "play", "publish", "push"}

\* One slot and two slots for three tiles: with `two' the carousel is needed as
\* soon as the third tile comes, with `one' from the second on.
MCCapacity == [l \in Layouts |-> IF l = "one" THEN 1 ELSE 2]

MCRoomOf == [k \in Keys |-> r1]

\* A version with more rows than a page holds, one with so few that pages are gone,
\* and an empty one.
MCRows == <<3, 1, 0>>

VARIABLE page       \* the part that is followed

pagesVars == <<page, wallVars, sessionVars, tablesVars, adminVars, pullVars, playVars,
               publishVars, pushVars>>

Only(p, init, dormant) == init /\ (page # p => dormant)

PagesInit ==
    /\ page \in Parts
    /\ Only("wall", WallInit, layout = CHOOSE l \in Layouts : TRUE)
    /\ Only("session", SessionInit, TRUE)
    /\ Only("tables", TablesInit, viewed = "rooms" /\ pageSize = CHOOSE s \in Sizes : TRUE)
    /\ Only("admin", AdminInit, used = 0)
    /\ Only("pull", PullInit, there = "out")
    /\ Only("play", PlayInit, TRUE)
    /\ Only("publish", PublishInit, biz = "solo" /\ wants = {})
    /\ Only("push", PushInit, TRUE)

PagesNext ==
    \/ /\ page = "wall" /\ WallNext
       /\ UNCHANGED <<page, sessionVars, tablesVars, adminVars, pullVars, playVars,
                      publishVars, pushVars>>
    \/ /\ page = "session" /\ SessionNext
       /\ UNCHANGED <<page, wallVars, tablesVars, adminVars, pullVars, playVars,
                      publishVars, pushVars>>
    \/ /\ page = "tables" /\ TablesNext
       /\ UNCHANGED <<page, wallVars, sessionVars, adminVars, pullVars, playVars,
                      publishVars, pushVars>>
    \/ /\ page = "admin" /\ AdminNext
       /\ UNCHANGED <<page, wallVars, sessionVars, tablesVars, pullVars, playVars,
                      publishVars, pushVars>>
    \/ /\ page = "pull" /\ PullNext
       /\ UNCHANGED <<page, wallVars, sessionVars, tablesVars, adminVars, playVars,
                      publishVars, pushVars>>
    \/ /\ page = "play" /\ PlayNext
       /\ UNCHANGED <<page, wallVars, sessionVars, tablesVars, adminVars, pullVars,
                      publishVars, pushVars>>
    \/ /\ page = "publish" /\ PublishNext
       /\ UNCHANGED <<page, wallVars, sessionVars, tablesVars, adminVars, pullVars,
                      playVars, pushVars>>
    \/ /\ page = "push" /\ PushNext
       /\ UNCHANGED <<page, wallVars, sessionVars, tablesVars, adminVars, pullVars,
                      playVars, publishVars>>

PagesSpec ==
    /\ PagesInit /\ [][PagesNext]_pagesVars
    /\ WallFairness /\ SessionFairness /\ TablesFairness
    /\ AdminFairness /\ PullFairness /\ PlayFairness
    /\ PublishFairness /\ PushFairness

\* Every part keeps its types.
PagesTypeOK ==
    /\ WallTypeOK /\ SessionTypeOK /\ TablesTypeOK /\ AdminTypeOK
    /\ PullTypeOK /\ PlayTypeOK /\ PublishTypeOK /\ PushTypeOK
=============================================================================
