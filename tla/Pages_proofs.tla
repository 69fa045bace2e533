---------------------------- MODULE Pages_proofs ----------------------------
(***************************************************************************)
(* What is proved of the pages one by one holds of them side by side, as   *)
(* MCPages composes them: a behaviour of the whole is one of each part,    *)
(* which takes its own steps while it is followed and stutters otherwise.  *)
(***************************************************************************)
EXTENDS MCPages, MediaPages_proofs, AdminSessions_proofs, AdminViews_proofs,
        DashboardPush_proofs

\* The composition starts every part where it may start.
LEMMA PartsStart ==
  PagesInit => /\ WallInit /\ SessionInit /\ TablesInit /\ AdminInit
               /\ PullInit /\ PlayInit /\ PublishInit /\ PushInit
BY DEF PagesInit, Only

\* A step of the composition is for every part one of its own or none.
LEMMA PartsStep ==
  [PagesNext]_pagesVars =>
    /\ [WallNext]_wallVars /\ [SessionNext]_sessionVars
    /\ [TablesNext]_tablesVars /\ [AdminNext]_adminVars
    /\ [PullNext]_pullVars /\ [PlayNext]_playVars
    /\ [PublishNext]_publishVars /\ [PushNext]_pushVars
BY DEF PagesNext, pagesVars

\* The composition implements each of its parts, fairness included: what holds of a
\* part alone holds of it among the others.
THEOREM PagesImplementParts ==
  PagesSpec => /\ WallSpec /\ SessionSpec /\ TablesSpec /\ AdminSpec
               /\ PullSpec /\ PlaySpec /\ PublishSpec /\ PushSpec
BY PartsStart, PartsStep, PTL
   DEF PagesSpec, WallSpec, SessionSpec, TablesSpec, AdminSpec, PullSpec, PlaySpec,
       PublishSpec, PushSpec

\* Every page keeps its types, and the server's pushes theirs, for all values of
\* the constants at once.
THEOREM PagesAreTyped == PagesSpec => []PagesTypeOK
<1>1. /\ WallTypeOK /\ SessionTypeOK /\ TablesTypeOK /\ AdminTypeOK
      /\ PullTypeOK /\ PlayTypeOK /\ PublishTypeOK /\ PushTypeOK
      => PagesTypeOK
  BY DEF PagesTypeOK
<1> QED
  BY <1>1, PagesImplementParts, WallTypeCorrect, SessionTypeCorrect, EveryRowShown,
     AdminTypeCorrect, PullTypeCorrect, PlayTypeCorrect, PublishTypeCorrect,
     PushTypeCorrect, PTL

\* What the administrator's pages promise holds of the composition: the wall, the
\* sessions behind its tiles, the tables and the dashboard connection
\* (admin-monitor.js, admin.js).
THEOREM AdminPagesAreSafe ==
  PagesSpec => [](/\ ShownOnce /\ PinsAgree /\ WallUsed /\ MarksTell
                  /\ TilesKeepTheirPlayer /\ IdleSessionsEnd
                  /\ EveryRowIsOnOnePage /\ OneDashboard /\ NoChangeForgotten)
BY PagesImplementParts, WallShowsOnce, WallKeepsPins, WallIsUsed, WallMarksTell,
   WatchedTilesPlay, NobodyWatchesIdly, EveryRowShown, OnlyOneDashboard,
   ChangesReachDashboards, PTL

\* And what the pages that publish and play promise (app.js, push.js, play.js).
THEOREM MediaPagesAreSafe ==
  PagesSpec => [](/\ PlayersAreHeld /\ PlayerIsCurrent
                  /\ SwitchesAreObeyed /\ PublicationInStep)
BY PagesImplementParts, OnePlayerPerObject, LateAnswersLose, TracksObeyTheirSwitch,
   OneConnectionInStep, PTL
=============================================================================
