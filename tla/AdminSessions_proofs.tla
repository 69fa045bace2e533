------------------------ MODULE AdminSessions_proofs ------------------------
(****************************************************************************)
(* The administrator's connections, for any number of logins, tiles and    *)
(* rooms: AdminPage has one dashboard at most, and WatchSession a player   *)
(* for every tile that plays and a session only for rooms that are         *)
(* watched.                                                                *)
(****************************************************************************)
EXTENDS AdminPage, WatchSession, FiniteSetTheorems, TLAPS

-----------------------------------------------------------------------------
(* AdminPage: requests are named by the token they were sent with.         *)

USE LoginsAssumption

\* What the page stores and shows, and what its connections are named by.
TokensAreNamed ==
    /\ live \in Tokens \cup {NoToken}
    /\ used \in 0 .. MaxLogins
    /\ line \in [Tokens -> {"none", "opening", "checked", "registered", "kicked",
                            "cut", "closing", "gone"}]
    /\ stored \in Tokens \cup {NoToken}
    /\ view \in {"login", "app"}
    /\ feed \in Tokens \cup {NoToken}
    /\ ask \in [Requests -> 0 .. Refused]
    /\ granted \subseteq Tokens

\* While the stored token is being checked the page has nothing else under way, and
\* its login form is locked: nothing takes the token from under the check.
RestoringAlone ==
    ask["restore"] # NoToken =>
        /\ stored # NoToken /\ view = "login" /\ submitting /\ granted = {}
        /\ \A q \in Requests \ {"restore"} : ask[q] = NoToken

\* A failure has been handled only once the application is left.
FailedMeansLeft == view = "app" => ~failed

\* The inductive invariant.
PageInvariant == TokensAreNamed /\ RestoringAlone /\ FailedMeansLeft /\ OneDashboard

\* Whatever the page comes from, showing the login view leaves no connection open.
LEMMA ShowLoginIsSafe ==
  ASSUME PageInvariant, ShowLogin
  PROVE  /\ line' \in [Tokens -> {"none", "opening", "checked", "registered", "kicked",
                                  "cut", "closing", "gone"}]
         /\ \A t \in Tokens : Ended(t)'
<1> USE DEF PageInvariant, TokensAreNamed, OneDashboard, Ended, ShowLogin, Hung, NoToken, Tokens
<1>1. line' = IF feed # NoToken /\ line[feed] # "gone"
              THEN [line EXCEPT ![feed] = "closing"] ELSE line
  OBVIOUS
<1> QED
  BY <1>1

\* Showing the application leaves only the connection it opens.
LEMMA ShowAppIsSafe ==
  ASSUME PageInvariant, NEW t \in Tokens, ShowApp(t)
  PROVE  /\ line' \in [Tokens -> {"none", "opening", "checked", "registered", "kicked",
                                  "cut", "closing", "gone"}]
         /\ \A x \in Tokens : x # t => Ended(x)'
<1> USE DEF PageInvariant, TokensAreNamed, OneDashboard, Ended, ShowApp, Hung, NoToken, Tokens
<1>1. CASE feed # NoToken /\ line[feed] # "gone"
  <2>1. line' = [[line EXCEPT ![feed] = "closing"] EXCEPT ![t] = "opening"]
    BY <1>1
  <2> QED
    BY <1>1, <2>1
<1>2. CASE ~(feed # NoToken /\ line[feed] # "gone")
  <2>1. line' = [line EXCEPT ![t] = "opening"]
    BY <1>2
  <2> QED
    BY <1>2, <2>1
<1> QED
  BY <1>1, <1>2

\* Once the application is shown for a token, nothing of a former session is left.
LEMMA AppIsSafe ==
  ASSUME PageInvariant, NEW t \in Tokens, ShowApp(t), UNCHANGED serverVars,
         granted' \subseteq granted, ask' \in [Requests -> 0 .. Refused],
         ask'["restore"] = NoToken
  PROVE  PageInvariant'
<1>1. /\ line' \in [Tokens -> {"none", "opening", "checked", "registered", "kicked",
                                "cut", "closing", "gone"}]
      /\ \A x \in Tokens : x # t => Ended(x)'
  BY ShowAppIsSafe
<1>2. view' = "app" /\ stored' = t /\ feed' = t /\ failed' = FALSE
  BY DEF ShowApp
<1>3. TokensAreNamed'
  BY <1>1, <1>2 DEF PageInvariant, TokensAreNamed, serverVars
<1>4. RestoringAlone' /\ FailedMeansLeft'
  BY <1>2 DEF RestoringAlone, FailedMeansLeft
<1>5. OneDashboard'
  BY <1>1, <1>2 DEF OneDashboard, Tokens, NoToken
<1> QED
  BY <1>3, <1>4, <1>5 DEF PageInvariant

\* A request of the application does not disturb a check of the stored token: there
\* is none.
LEMMA AskingIsSafe ==
  ASSUME PageInvariant, view = "app", NEW q \in Requests \ {"restore"}, ask' = Asked(q),
         UNCHANGED <<serverVars, line, stored, view, tab, feed, failed, granted, submitting>>
  PROVE  PageInvariant'
<1> USE DEF PageInvariant, TokensAreNamed, serverVars, NoToken
<1>1. ask' \in [Requests -> 0 .. Refused] /\ ask'["restore"] = ask["restore"]
  <2>1. stored \in 0 .. Refused /\ Refused \in 0 .. Refused
    BY LoginsAssumption DEF Tokens, Refused
  <2> QED
    BY <2>1 DEF Asked, Usable, Requests
<1>2. ask["restore"] = NoToken
  BY DEF RestoringAlone
<1> QED
  BY <1>1, <1>2 DEF RestoringAlone, FailedMeansLeft, OneDashboard, Ended

\* An invalidated token's connection is at most told so.
LEMMA ReplaceIsSafe ==
  ASSUME PageInvariant, Replace
  PROVE  /\ live' \in Tokens /\ used' \in 0 .. MaxLogins
         /\ line' \in [Tokens -> {"none", "opening", "checked", "registered", "kicked",
                                  "cut", "closing", "gone"}]
         /\ \A t \in Tokens : Ended(t) => Ended(t)'
BY DEF PageInvariant, TokensAreNamed, Replace, Ended, Tokens, NoToken

\* A page opened anew shows its login view and has no connection.
LEMMA PageStarts == AdminInit => PageInvariant
<1> SUFFICES ASSUME AdminInit PROVE PageInvariant
  OBVIOUS
<1> USE DEF Tokens, NoToken, Refused, Requests
<1>1. MaxLogins \in Nat \ {0}
  BY LoginsAssumption
<1>2. /\ used \in {0, 1} /\ stored \in {0, used} /\ live \in {0, used}
      /\ view = "login" /\ feed = NoToken /\ granted = {}
      /\ line = [t \in Tokens |-> "none"]
  BY DEF AdminInit
<1>3. ask \in [Requests -> 0 .. Refused]
  <2>1. ask = [q \in Requests |->
                 IF q # "restore" \/ stored = NoToken THEN NoToken
                 ELSE IF stored = live THEN stored ELSE Refused]
    BY DEF AdminInit
  <2>2. stored \in 0 .. Refused
    BY <1>1, <1>2
  <2> QED
    BY <1>1, <2>1, <2>2
<1>4. TokensAreNamed
  BY <1>1, <1>2, <1>3 DEF TokensAreNamed
<1>5. RestoringAlone
  <2>1. /\ ask["restore"] # NoToken => stored # NoToken
        /\ \A q \in Requests \ {"restore"} : ask[q] = NoToken
    BY DEF AdminInit
  <2>2. stored # NoToken => submitting
    BY DEF AdminInit
  <2> QED
    BY <1>2, <2>1, <2>2 DEF RestoringAlone
<1>6. FailedMeansLeft
  BY <1>2 DEF FailedMeansLeft
<1>7. OneDashboard
  <2>1. stored # NoToken => ask["restore"] # NoToken
    BY <1>1, <1>2 DEF AdminInit
  <2> QED
    BY <1>2, <2>1 DEF OneDashboard, Ended
<1> QED
  BY <1>4, <1>5, <1>6, <1>7 DEF PageInvariant

\* Every step of the page, of the server and of its other users keeps the invariant.
LEMMA PageStep == PageInvariant /\ [AdminNext]_adminVars => PageInvariant'
<1> SUFFICES ASSUME PageInvariant, [AdminNext]_adminVars PROVE PageInvariant'
  OBVIOUS
<1> USE DEF PageInvariant, TokensAreNamed, RestoringAlone, FailedMeansLeft,
            OneDashboard, Ended, Tokens, NoToken, Refused, Requests
<1>1. CASE SubmitLogin
  BY <1>1, ReplaceIsSafe DEF SubmitLogin, Replace
<1>2. CASE LoggedInElsewhere
  BY <1>2, ReplaceIsSafe DEF LoggedInElsewhere
<1>3. CASE ClickLogout
  <2>1. view = "app" /\ ask' = Asked("logout")
        /\ UNCHANGED <<serverVars, line, stored, view, tab, feed, failed, granted, submitting>>
    BY <1>3 DEF ClickLogout
  <2> QED
    BY <2>1, AskingIsSafe
<1>4. CASE LogoutServed
  BY <1>4 DEF LogoutServed
<1>5. CASE LogoutAnswered
  BY <1>5, ShowLoginIsSafe DEF LogoutAnswered, ShowLogin, serverVars
<1>6. ASSUME NEW t \in Tokens, LoginAnswered(t) PROVE PageInvariant'
  <2>1. /\ ShowApp(t) /\ granted' \subseteq granted /\ t \in granted
        /\ UNCHANGED <<serverVars, tab, ask>>
    BY <1>6 DEF LoginAnswered
  <2>2. ask["restore"] = NoToken
    BY <2>1
  <2> QED
    BY <2>1, <2>2, AppIsSafe
<1>7. ASSUME NEW t \in Tokens, LoginFails(t) PROVE PageInvariant'
  BY <1>7 DEF LoginFails, serverVars
<1>8. ASSUME NEW t \in Tokens, Check(t) \/ Register(t) \/ Breaks(t) PROVE PageInvariant'
  <2>1. PICK to \in {"checked", "cut", "registered"} :
            \E from \in {"opening", "checked", "registered", "kicked"} : Goes(t, from, to)
    BY <1>8 DEF Check, Register, Breaks
  <2> QED
    BY <2>1 DEF Goes, serverVars
<1>9. ASSUME NEW t \in Tokens, KickNotice(t) PROVE PageInvariant'
  <2>1. line[t] = "kicked" /\ ShowLogin /\ UNCHANGED <<serverVars, tab, failed, ask, granted>>
    BY <1>9 DEF KickNotice
  <2>2. t = feed /\ t # NoToken
    BY <2>1
  <2>3. ask["restore"] = NoToken
    BY <2>2
  <2>4. /\ line' \in [Tokens -> {"none", "opening", "checked", "registered", "kicked",
                                "cut", "closing", "gone"}]
        /\ \A x \in Tokens : Ended(x)'
    BY <2>1, ShowLoginIsSafe
  <2>5. view' = "login" /\ stored' = NoToken /\ feed' = NoToken
    BY <2>1 DEF ShowLogin
  <2> QED
    BY <2>1, <2>3, <2>4, <2>5 DEF serverVars
<1>10. ASSUME NEW t \in Tokens, Closed(t) PROVE PageInvariant'
  <2>1. /\ line[t] \in {"closing", "cut"} /\ UNCHANGED <<serverVars, tab, ask, granted>>
        /\ IF stored # NoToken /\ view = "app" /\ ~failed
           THEN /\ view' = "login" /\ stored' = NoToken /\ feed' = NoToken
                /\ line' = [Hung(IF feed = t THEN NoToken ELSE feed) EXCEPT ![t] = "gone"]
           ELSE /\ feed' = IF feed = t THEN NoToken ELSE feed
                /\ line' = [line EXCEPT ![t] = "gone"]
                /\ UNCHANGED <<view, stored, submitting, failed>>
    BY <1>10 DEF Closed
  <2>2. CASE stored # NoToken /\ view = "app" /\ ~failed
    <3> DEFINE hung == Hung(IF feed = t THEN NoToken ELSE feed)
    <3>1. \/ hung = line /\ (feed = t \/ Ended(feed))
          \/ hung = [line EXCEPT ![feed] = "closing"]
      BY <2>2 DEF Hung
    <3>2. /\ hung \in [Tokens -> {"none", "opening", "checked", "registered", "kicked",
                                "cut", "closing", "gone"}]
          /\ \A x \in Tokens : x = t \/ hung[x] \in {"none", "closing", "gone"}
      BY <2>2, <3>1
    <3>3. line' = [hung EXCEPT ![t] = "gone"]
      BY <2>1, <2>2
    <3> HIDE DEF hung
    <3>4. line' \in [Tokens -> {"none", "opening", "checked", "registered", "kicked",
                               "cut", "closing", "gone"}]
      BY <3>2, <3>3
    <3>5. \A x \in Tokens : line'[x] \in {"none", "closing", "gone"}
      BY <3>2, <3>3
    <3> QED
      BY <2>1, <2>2, <3>4, <3>5 DEF serverVars
  <2>3. CASE ~(stored # NoToken /\ view = "app" /\ ~failed)
    BY <2>1, <2>3 DEF serverVars
  <2> QED
    BY <2>2, <2>3
<1>11. CASE Push \/ RequestRefresh \/ LoadAudit
  <2>1. feed # NoToken \/ view = "app"
    BY <1>11 DEF Push, RequestRefresh, LoadAudit
  <2>2. view = "app"
    BY <2>1
  <2>3. ask' = ask \/ \E q \in Requests \ {"restore"} : ask' = Asked(q)
    BY <1>11 DEF Push, RequestRefresh, LoadAudit, Handled
  <2>4. UNCHANGED <<serverVars, line, stored, view, tab, feed, failed, granted, submitting>>
    BY <1>11 DEF Push, RequestRefresh, LoadAudit
  <2>5. CASE ask' = ask
    BY <2>4, <2>5 DEF serverVars
  <2> QED
    BY <2>2, <2>3, <2>4, <2>5, AskingIsSafe
<1>12. CASE SwitchTab
  BY <1>12 DEF SwitchTab, serverVars
<1>16. CASE Wedge
  BY <1>16 DEF Wedge, serverVars
<1>13. ASSUME NEW q \in Requests, Authorised(q) PROVE PageInvariant'
  <2>1. /\ ask[q] \in Tokens /\ ask' = [ask EXCEPT ![q] = NoToken]
        /\ UNCHANGED <<serverVars, tab, granted>>
    BY <1>13 DEF Authorised, Done
  <2>2. CASE q = "restore"
    <3>1. ShowApp(stored) /\ stored \in Tokens
      BY <1>13, <2>1, <2>2 DEF Authorised
    <3>2. ask'["restore"] = NoToken /\ ask' \in [Requests -> 0 .. Refused]
      BY <2>1, <2>2
    <3> QED
      BY <2>1, <3>1, <3>2, AppIsSafe
  <2>4. CASE q = "dashboard" /\ wedged
    <3>1. NetworkFailure
      BY <1>13, <2>4 DEF Authorised
    <3>2. ask["restore"] = NoToken /\ ask'["restore"] = NoToken
      BY <2>1, <2>4
    <3> QED
      BY ZenonT(40), <2>1, <3>1, <3>2, ShowLoginIsSafe DEF NetworkFailure, ShowLogin, serverVars
  <2>3. CASE q # "restore" /\ ~(q = "dashboard" /\ wedged)
    <3>1. UNCHANGED <<line, stored, view, feed, failed, submitting>>
      BY <1>13, <2>3 DEF Authorised
    <3>2. ask["restore"] = NoToken /\ ask'["restore"] = NoToken
      BY <2>1, <2>3
    <3> QED
      BY <2>1, <3>1, <3>2 DEF serverVars
  <2> QED
    BY <2>2, <2>3, <2>4
<1>14. ASSUME NEW q \in Requests, Unauthorised(q) \/ NoAnswer(q) PROVE PageInvariant'
  BY ZenonT(40), <1>14, ShowLoginIsSafe
     DEF Unauthorised, NoAnswer, NetworkFailure, Done, ShowLogin, serverVars
<1>15. CASE UNCHANGED adminVars
  BY <1>15 DEF adminVars, serverVars
<1> QED
  BY <1>1, <1>2, <1>3, <1>4, <1>5, <1>6, <1>7, <1>8, <1>9, <1>10, <1>11, <1>12,
     <1>13, <1>14, <1>15, <1>16 DEF AdminNext

\* The page's tab and its flags are of their types.
ModesAreTyped ==
    /\ tab \in {"dashboard", "other"}
    /\ failed \in BOOLEAN /\ submitting \in BOOLEAN /\ wedged \in BOOLEAN

\* Every step keeps them so.
LEMMA ModesStep == ModesAreTyped /\ [AdminNext]_adminVars => ModesAreTyped'
<1> SUFFICES ASSUME ModesAreTyped, [AdminNext]_adminVars PROVE ModesAreTyped'
  OBVIOUS
<1> USE DEF ModesAreTyped
<1>1. CASE SubmitLogin \/ LoggedInElsewhere \/ ClickLogout \/ LogoutServed \/ LogoutAnswered
  BY <1>1 DEF SubmitLogin, LoggedInElsewhere, ClickLogout, LogoutServed, LogoutAnswered, ShowLogin
<1>2. ASSUME NEW t \in Tokens, LoginAnswered(t) \/ LoginFails(t) \/ KickNotice(t)
      PROVE  ModesAreTyped'
  BY <1>2 DEF LoginAnswered, LoginFails, KickNotice, ShowApp, ShowLogin
<1>3. ASSUME NEW t \in Tokens, Check(t) \/ Register(t) \/ Breaks(t) PROVE ModesAreTyped'
  BY <1>3 DEF Check, Register, Breaks, Goes
<1>4. ASSUME NEW t \in Tokens, Closed(t) PROVE ModesAreTyped'
  BY <1>4 DEF Closed
<1>5. CASE Push \/ Wedge \/ RequestRefresh \/ SwitchTab \/ LoadAudit
  BY <1>5 DEF Push, Wedge, RequestRefresh, SwitchTab, LoadAudit
<1>6. ASSUME NEW q \in Requests, Authorised(q) PROVE ModesAreTyped'
  BY <1>6 DEF Authorised, ShowApp, NetworkFailure, ShowLogin
<1>7. ASSUME NEW q \in Requests, Unauthorised(q) \/ NoAnswer(q) PROVE ModesAreTyped'
  BY <1>7 DEF Unauthorised, NoAnswer, NetworkFailure, ShowLogin
<1>8. CASE UNCHANGED adminVars
  BY <1>8 DEF adminVars
<1> QED
  BY <1>1, <1>2, <1>3, <1>4, <1>5, <1>6, <1>7, <1>8 DEF AdminNext

\* The administrator's page and the server's record of it keep their types: every
\* token on either side is one that a login has given out (admin.js, auth.go).
THEOREM AdminTypeCorrect == AdminSpec => []AdminTypeOK
<1>1. AdminInit => ModesAreTyped
  BY DEF AdminInit, ModesAreTyped
<1>2. PageInvariant /\ ModesAreTyped => AdminTypeOK
  BY DEF PageInvariant, TokensAreNamed, ModesAreTyped, AdminTypeOK
<1> QED
  BY <1>1, <1>2, PageStarts, PageStep, ModesStep, PTL DEF AdminSpec

\* The application is shown exactly while a token is stored, or is being checked on
\* opening the page, and only that token's dashboard connection is left open:
\* logins, logouts, kick notices, late answers and late close events come in any
\* order (admin.js).
THEOREM OnlyOneDashboard == AdminSpec => []OneDashboard
<1>1. PageInvariant => OneDashboard
  BY DEF PageInvariant
<1> QED
  BY PageStarts, PageStep, <1>1, PTL DEF AdminSpec

-----------------------------------------------------------------------------
(* WatchSession: starts are named by when they began; what a room is still *)
(* used by is counted.                                                     *)

USE SessionAssumption

\* What a start is, what it is for, and what it can have made.
StartsAreNamed ==
    /\ tiles \subseteq Keys
    /\ player \in [Keys -> Starts \cup {NoStart}]
    /\ stage \in [Starts -> Stages]
    /\ keyOf \in [Starts -> Keys \cup {NoKey}]

\* A player was made by a start of the tile's own key that is over: no two tiles
\* have the same player, so closing one's leaves the others alone.
PlayersAreOwn ==
    \A k \in Keys : player[k] # NoStart =>
        stage[player[k]] = "done" /\ keyOf[player[k]] = k

\* The inductive invariant of the players.
WatchInvariant == StartsAreNamed /\ PlayersAreOwn /\ TilesKeepTheirPlayer

\* Removing tiles closes their players and no other tile's.
LEMMA ReleaseIsSafe ==
  ASSUME WatchInvariant, NEW gone \in SUBSET Keys, NEW uncount, NEW over, NEW stillEnding,
         Release(gone, uncount, over, stillEnding),
         stage' \in [Starts -> Stages], UNCHANGED keyOf,
         \A a \in Starts : stage[a] = "done" => stage'[a] = "done"
  PROVE  WatchInvariant'
<1> USE DEF WatchInvariant, StartsAreNamed, PlayersAreOwn, TilesKeepTheirPlayer, Starts, NoStart
<1>1. /\ tiles' = tiles \ gone
      /\ players' = players \ {player[k] : k \in gone}
      /\ player' = [k \in Keys |-> IF k \in gone THEN NoStart ELSE player[k]]
  BY DEF Release
<1>2. StartsAreNamed' /\ PlayersAreOwn'
  BY <1>1
<1>3. ASSUME NEW k \in Keys, player'[k] # NoStart
      PROVE  k \in tiles' /\ player'[k] \in players'
  <2>1. k \notin gone /\ player'[k] = player[k]
    BY <1>1, <1>3
  <2>2. \A g \in gone : player[g] # player[k]
    BY <1>3, <2>1
  <2> QED
    BY <1>1, <1>3, <2>1, <2>2
<1> QED
  BY <1>2, <1>3

\* A start that ends without a player takes its tile with it, or finds it gone.
LEMMA FailingIsSafe ==
  ASSUME WatchInvariant, NEW a \in Starts, StartFails(a)
  PROVE  WatchInvariant'
<1>1. /\ stage' = [stage EXCEPT ![a] = "done"] /\ UNCHANGED keyOf
      /\ Release({keyOf[a]} \cap tiles, CountBy({keyOf[a]} \cap tiles), {}, ending)
  BY DEF StartFails, Ends
<1>2. stage' \in [Starts -> Stages] /\ \A b \in Starts : stage[b] = "done" => stage'[b] = "done"
  BY <1>1 DEF WatchInvariant, StartsAreNamed, Stages
<1>3. {keyOf[a]} \cap tiles \in SUBSET Keys
  BY DEF WatchInvariant, StartsAreNamed
<1> QED
  BY <1>1, <1>2, <1>3, ReleaseIsSafe

\* Nothing is watched at first.
LEMMA WatchStarts == SessionInit => WatchInvariant
BY DEF SessionInit, WatchInvariant, StartsAreNamed, PlayersAreOwn,
       TilesKeepTheirPlayer, Stages, Starts, NoStart

\* Every step keeps players with their tiles.
LEMMA WatchStep == WatchInvariant /\ [SessionNext]_sessionVars => WatchInvariant'
<1> SUFFICES ASSUME WatchInvariant, [SessionNext]_sessionVars PROVE WatchInvariant'
  OBVIOUS
<1> USE DEF WatchInvariant, StartsAreNamed, PlayersAreOwn, TilesKeepTheirPlayer, NoStart
<1>1. ASSUME NEW k \in Keys, StartTile(k) PROVE WatchInvariant'
  <2>1. PICK a \in Unused :
            /\ \/ stage' = [stage EXCEPT ![a] = "play"]
               \/ stage' = [stage EXCEPT ![a] = "connect"]
            /\ keyOf' = [keyOf EXCEPT ![a] = k]
            /\ tiles' = tiles \cup {k}
            /\ UNCHANGED <<player, players>>
    BY <1>1 DEF StartTile
  <2>2. a \in Starts /\ stage[a] # "done"
    BY DEF Unused
  <2> QED
    BY <2>1, <2>2 DEF Stages, Starts
<1>2. ASSUME NEW a \in Starts, Connected(a) PROVE WatchInvariant'
  BY <1>2 DEF Connected, Stages, Starts
<1>3. ASSUME NEW a \in Starts, ConnectFails(a) \/ JoinFails(a) \/ PlayFails(a)
      PROVE  WatchInvariant'
  BY <1>3, FailingIsSafe DEF ConnectFails, JoinFails, PlayFails
<1>4. ASSUME NEW a \in Starts, Joined(a) PROVE WatchInvariant'
  BY <1>4 DEF Joined, Stages, Starts
<1>5. ASSUME NEW a \in Starts, Playing(a) PROVE WatchInvariant'
  <2>1. /\ stage[a] = "play" /\ stage' = [stage EXCEPT ![a] = "done"]
        /\ player' = [player EXCEPT ![keyOf[a]] = IF keyOf[a] \in tiles THEN a ELSE @]
        /\ players' = players \cup {a} /\ UNCHANGED <<tiles, keyOf>>
    BY <1>5 DEF Playing, Ends
  <2>2. stage' \in [Starts -> Stages] /\ player' \in [Keys -> Starts \cup {NoStart}]
    BY <2>1 DEF Stages, Starts
  <2>3. \A b \in Starts : stage'[b] = IF b = a THEN "done" ELSE stage[b]
    BY <2>1
  <2>4. \A k \in Keys : player'[k] = IF k = keyOf[a] /\ k \in tiles THEN a ELSE player[k]
    BY <2>1
  <2>5. PlayersAreOwn'
    BY <2>1, <2>2, <2>3, <2>4
  <2> QED
    BY <2>1, <2>2, <2>4, <2>5
<1>6. ASSUME NEW ks \in SUBSET tiles, StopTiles(ks) PROVE WatchInvariant'
  <2>1. \E gone \in SUBSET Keys : \E over : Release(gone, CountBy(gone), over, ending)
    BY <1>6 DEF StopTiles, StopEach
  <2> QED
    BY <1>6, <2>1, ReleaseIsSafe DEF StopTiles
<1>7. ASSUME NEW ks \in SUBSET tiles, NEW rs \in SUBSET Rooms, SyncTilesWithHub(ks, rs)
      PROVE  WatchInvariant'
  <2>1. \E gone \in SUBSET Keys : \E over : Release(gone, CountBy(gone), over, ending)
    BY <1>7 DEF SyncTilesWithHub, StopEach
  <2> QED
    BY <1>7, <2>1, ReleaseIsSafe DEF SyncTilesWithHub
<1>8. ASSUME NEW r \in Rooms, RoomEnds(r) PROVE WatchInvariant'
  <2>1. TilesOf(r) \in SUBSET Keys
    BY DEF TilesOf
  <2>2. CASE Release(TilesOf(r), CountBy(TilesOf(r)), {r}, {})
    BY <1>8, <2>1, <2>2, ReleaseIsSafe DEF RoomEnds
  <2>3. CASE UNCHANGED <<tiles, player, socket, players, session, refCount, stranded>>
    BY <1>8, <2>3 DEF RoomEnds
  <2> QED
    BY <1>8, <2>2, <2>3 DEF RoomEnds
<1>9. CASE StopAllWatching
  <2>1. \E gone \in SUBSET Keys : \E over : Release(gone, CountBy(gone), over, {})
    BY <1>9 DEF StopAllWatching
  <2> QED
    BY <1>9, <2>1, ReleaseIsSafe DEF StopAllWatching
<1>10. CASE UNCHANGED <<tiles, player, stage, keyOf, players>>
  BY <1>10
<1> QED
  BY <1>1, <1>2, <1>3, <1>4, <1>5, <1>6, <1>7, <1>8, <1>9, <1>10
     DEF SessionNext, sessionVars, ConnectionLost, ObserveEnded

\* A watched tile keeps the player it was given until the tile itself ends: an
\* overtaken start of the same key, a failing one, or the end of other tiles of the
\* room never closes it (admin-monitor.js, startTile and stopTile).
THEOREM WatchedTilesPlay == SessionSpec => []TilesKeepTheirPlayer
<1>1. WatchInvariant => TilesKeepTheirPlayer
  BY DEF WatchInvariant
<1> QED
  BY WatchStarts, WatchStep, <1>1, PTL DEF SessionSpec

\* Only what has joined is a session, only finitely many tiles are there, and a room
\* that is about to end has its timeout set.
SessionsHaveJoined ==
    /\ tiles \subseteq Keys /\ IsFiniteSet(tiles)
    /\ stage \in [Starts -> Stages]
    /\ socket \in [Starts -> {"none", "connecting", "open", "closed", "lost"}]
    /\ session \in [Rooms -> Starts \cup {NoStart}]
    /\ \A r \in Rooms : session[r] # NoStart => stage[session[r]] \in {"play", "done"}
    /\ refCount \in [Rooms -> Nat]
    /\ timers \in [Rooms -> Nat]
    /\ \A r \in ending : timers[r] > 0
    /\ ending \subseteq Rooms

\* An open session is counted on, by whatever it may be, or a timeout that ends it is
\* set.
CountedOn ==
    \A r \in Rooms : session[r] # NoStart /\ socket[session[r]] = "open" =>
        refCount[r] > 0 \/ timers[r] > 0

\* The inductive invariant of the counts.
CountInvariant == SessionsHaveJoined /\ CountedOn

\* Uses are counted in natural numbers.
LEMMA CountIsNatural ==
  ASSUME IsFiniteSet(tiles), NEW ks \in SUBSET tiles
  PROVE  CountBy(ks) \in [Rooms -> Nat]
<1>1. ASSUME NEW r \in Rooms PROVE Cardinality({k \in ks : RoomOf[k] = r}) \in Nat
  <2>1. {k \in ks : RoomOf[k] = r} \subseteq tiles
    OBVIOUS
  <2>2. IsFiniteSet({k \in ks : RoomOf[k] = r})
    BY <2>1, FS_Subset
  <2> QED
    BY <2>2, FS_CardinalityType
<1> QED
  BY <1>1 DEF CountBy

\* A session whose last use is given back ends, unless its room is about to end.
LEMMA ReleaseEndsIdle ==
  ASSUME CountInvariant, NEW ks \in SUBSET tiles, NEW over, NEW stillEnding \in SUBSET ending,
         Release(ks, CountBy(ks), over, stillEnding),
         stage' \in [Starts -> Stages],
         \A a \in Starts : stage[a] \in {"play", "done"} => stage'[a] \in {"play", "done"},
         timers' \in [Rooms -> Nat], ending' \subseteq Rooms,
         \A r \in ending' : timers'[r] > 0,
         \A r \in Rooms \ over : timers[r] > 0 => timers'[r] > 0
  PROVE  CountInvariant'
<1> DEFINE n == CountBy(ks)
           idle == {r \in Rooms : /\ session[r] # NoStart
                                  /\ \/ r \in over
                                     \/ n[r] > 0 /\ Released(r, n[r]) = 0
                                        /\ r \notin stillEnding}
           ended == {session[r] : r \in idle}
<1>1. /\ tiles' = tiles \ ks
      /\ session' = [r \in Rooms |-> IF r \in idle THEN NoStart ELSE session[r]]
      /\ refCount' = [r \in Rooms |-> IF r \in idle \/ session[r] = NoStart THEN 0
                                      ELSE Released(r, n[r])]
      /\ socket' = [a \in Starts |-> IF a \in ended THEN "closed" ELSE socket[a]]
  BY DEF Release
<1>2. \A r \in Rooms : n[r] \in Nat
  BY CountIsNatural DEF CountInvariant, SessionsHaveJoined
<1>3. \A r \in Rooms : /\ Released(r, n[r]) \in Nat
                       /\ refCount[r] > 0 /\ Released(r, n[r]) = 0 => n[r] > 0
  BY <1>2 DEF Released, CountInvariant, SessionsHaveJoined
<1> HIDE DEF n
<1>4. SessionsHaveJoined'
  <2>1. IsFiniteSet(tiles') /\ tiles' \subseteq Keys
    BY <1>1, FS_Subset DEF CountInvariant, SessionsHaveJoined
  <2>2. refCount' \in [Rooms -> Nat]
    BY <1>1, <1>3
  <2>3. socket' \in [Starts -> {"none", "connecting", "open", "closed", "lost"}]
    BY <1>1 DEF CountInvariant, SessionsHaveJoined
  <2>4. /\ session' \in [Rooms -> Starts \cup {NoStart}]
        /\ \A r \in Rooms : session'[r] # NoStart => stage'[session'[r]] \in {"play", "done"}
    BY <1>1 DEF CountInvariant, SessionsHaveJoined
  <2> QED
    BY <2>1, <2>2, <2>3, <2>4 DEF SessionsHaveJoined
<1>5. ASSUME NEW r \in Rooms, session'[r] # NoStart, socket'[session'[r]] = "open"
      PROVE  refCount'[r] > 0 \/ timers'[r] > 0
  <2>1. r \notin idle /\ session'[r] = session[r] /\ session[r] # NoStart
    BY <1>1, <1>5
  <2>2. session[r] \in Starts /\ socket[session[r]] = "open" /\ r \notin over
    BY <1>1, <1>5, <2>1 DEF CountInvariant, SessionsHaveJoined
  <2>3. refCount[r] > 0 \/ timers[r] > 0
    BY <2>1, <2>2 DEF CountInvariant, CountedOn
  <2>4. CASE timers[r] > 0
    BY <2>2, <2>4
  <2>5. CASE refCount[r] > 0
    <3>1. refCount'[r] = Released(r, n[r])
      BY <1>1, <2>1
    <3>2. CASE Released(r, n[r]) = 0
      <4>1. r \in stillEnding
        BY <1>3, <2>1, <2>5, <3>2
      <4>2. timers[r] > 0
        BY <4>1 DEF CountInvariant, SessionsHaveJoined
      <4> QED
        BY <2>2, <4>2
    <3>3. CASE Released(r, n[r]) # 0
      BY <1>3, <3>1, <3>3
    <3> QED
      BY <3>2, <3>3
  <2> QED
    BY <2>3, <2>4, <2>5
<1> QED
  BY <1>4, <1>5 DEF CountInvariant, CountedOn

\* No room is observed at first.
LEMMA CountStarts == SessionInit => CountInvariant
<1>1. SessionInit => IsFiniteSet(tiles)
  BY FS_EmptySet DEF SessionInit
<1> QED
  BY <1>1 DEF SessionInit, CountInvariant, SessionsHaveJoined, CountedOn, Stages,
     NoStart

\* Every step keeps each session counted on or about to end.
LEMMA CountStep == CountInvariant /\ [SessionNext]_sessionVars => CountInvariant'
<1> SUFFICES ASSUME CountInvariant, [SessionNext]_sessionVars PROVE CountInvariant'
  OBVIOUS
<1> USE DEF CountInvariant, SessionsHaveJoined, CountedOn
<1>1. ASSUME NEW k \in Keys, StartTile(k) PROVE CountInvariant'
  <2>1. IsFiniteSet(tiles') /\ tiles' \subseteq Keys
    BY <1>1, FS_AddElement DEF StartTile
  <2>2. RoomOf[k] \in Rooms
    BY SessionAssumption
  <2>3. PICK b \in Unused :
           IF session[RoomOf[k]] # NoStart
           THEN /\ stage' = [stage EXCEPT ![b] = "play"]
                /\ refCount' = [refCount EXCEPT ![RoomOf[k]] = @ + 1]
                /\ UNCHANGED socket
           ELSE /\ stage' = [stage EXCEPT ![b] = "connect"]
                /\ socket' = [socket EXCEPT ![b] = "connecting"]
                /\ UNCHANGED refCount
    BY <1>1 DEF StartTile
  <2>4. b \in Starts /\ stage[b] = "unused"
    BY DEF Unused
  <2>5. UNCHANGED <<session, ending, timers>>
    BY <1>1 DEF StartTile
  <2>6. CASE session[RoomOf[k]] # NoStart
    BY <2>1, <2>2, <2>3, <2>4, <2>5, <2>6 DEF Stages
  <2>7. CASE session[RoomOf[k]] = NoStart
    BY <2>1, <2>3, <2>4, <2>5, <2>7 DEF Stages
  <2> QED
    BY <2>6, <2>7
<1>2. ASSUME NEW a \in Starts, Connected(a) PROVE CountInvariant'
  BY <1>2 DEF Connected, Stages
<1>3. ASSUME NEW a \in Starts, ConnectFails(a) \/ JoinFails(a) \/ PlayFails(a)
      PROVE  CountInvariant'
  <2>1. StartFails(a)
    BY <1>3 DEF ConnectFails, JoinFails, PlayFails
  <2>2. /\ stage' = [stage EXCEPT ![a] = "done"] /\ UNCHANGED <<ending, timers>>
        /\ Release({keyOf[a]} \cap tiles, CountBy({keyOf[a]} \cap tiles), {}, ending)
    BY <2>1 DEF StartFails, Ends
  <2>3. /\ stage' \in [Starts -> Stages]
        /\ \A b \in Starts : stage[b] \in {"play", "done"} => stage'[b] \in {"play", "done"}
    BY <2>2 DEF Stages
  <2> QED
    BY <2>2, <2>3, ReleaseEndsIdle
<1>4. ASSUME NEW a \in Starts, Joined(a) PROVE CountInvariant'
  <2> DEFINE r == RoomOf[keyOf[a]]
  <2>1. /\ stage' = [stage EXCEPT ![a] = "play"]
        /\ session' = [session EXCEPT ![r] = a]
        /\ refCount' = [refCount EXCEPT ![r] = 1]
        /\ UNCHANGED <<tiles, socket, ending, timers>>
    BY <1>4 DEF Joined
  <2> HIDE DEF r
  <2>2. /\ stage' \in [Starts -> Stages] /\ stage'[a] = "play"
        /\ \A b \in Starts : stage[b] \in {"play", "done"} => stage'[b] \in {"play", "done"}
    BY <2>1 DEF Stages
  <2>3. CASE r \in Rooms
    BY <2>1, <2>2, <2>3
  <2>4. CASE r \notin Rooms
    <3>1. session' = session /\ refCount' = refCount
      BY <2>1, <2>4
    <3>2. \A x \in Rooms : session'[x] # NoStart => stage'[session'[x]] \in {"play", "done"}
      BY <2>2, <3>1
    <3>3. CountedOn'
      BY <2>1, <3>1
    <3> QED
      BY ZenonT(40), <2>1, <2>2, <3>1, <3>2, <3>3
  <2> QED
    BY <2>3, <2>4
<1>5. ASSUME NEW a \in Starts, Playing(a) PROVE CountInvariant'
  BY <1>5 DEF Playing, Ends, Stages
<1>6. ASSUME NEW ks \in SUBSET tiles, StopTiles(ks) PROVE CountInvariant'
  <2>1. \E some \in SUBSET tiles : Release(some, CountBy(some), {}, ending)
    BY <1>6 DEF StopTiles, StopEach
  <2> QED
    BY <1>6, <2>1, ReleaseEndsIdle DEF StopTiles
<1>7. ASSUME NEW ks \in SUBSET tiles, NEW rs \in SUBSET Rooms, SyncTilesWithHub(ks, rs)
      PROVE  CountInvariant'
  <2>1. \E some \in SUBSET tiles : Release(some, CountBy(some), {}, ending)
    BY <1>7 DEF SyncTilesWithHub, StopEach
  <2>2. ScheduleRoomEnd(rs) \/ UNCHANGED <<ending, timers>>
    BY <1>7 DEF SyncTilesWithHub
  <2>3. /\ timers' \in [Rooms -> Nat] /\ ending' \subseteq Rooms
        /\ \A r \in ending' : timers'[r] > 0
        /\ \A r \in Rooms : timers[r] > 0 => timers'[r] > 0
    BY <2>2 DEF ScheduleRoomEnd
  <2> QED
    BY <1>7, <2>1, <2>3, ReleaseEndsIdle DEF SyncTilesWithHub
<1>8. ASSUME NEW r \in Rooms, ObserveEnded(r) PROVE CountInvariant'
  <2>1. ScheduleRoomEnd({r}) /\ UNCHANGED <<tiles, stage, socket, session, refCount>>
    BY <1>8 DEF ObserveEnded
  <2>2. /\ timers' \in [Rooms -> Nat] /\ ending' \subseteq Rooms
        /\ \A x \in ending' : timers'[x] > 0
        /\ \A x \in Rooms : timers[x] > 0 => timers'[x] > 0
    BY <2>1 DEF ScheduleRoomEnd
  <2> QED
    BY <2>1, <2>2
<1>9. ASSUME NEW r \in Rooms, RoomEnds(r) PROVE CountInvariant'
  <2>1. /\ timers[r] > 0 /\ timers' = [timers EXCEPT ![r] = @ - 1]
        /\ ending' = ending \ {r} /\ UNCHANGED stage
    BY <1>9 DEF RoomEnds
  <2>2. /\ timers' \in [Rooms -> Nat] /\ ending' \subseteq Rooms
        /\ \A x \in ending' : timers'[x] > 0
        /\ \A x \in Rooms \ {r} : timers[x] > 0 => timers'[x] > 0
    BY <2>1
  <2>3. CASE \A k \in TilesOf(r) : CanReport(k)
    <3>1. Release(TilesOf(r), CountBy(TilesOf(r)), {r}, {}) /\ TilesOf(r) \in SUBSET tiles
      BY <1>9, <2>3 DEF RoomEnds, TilesOf
    <3> QED
      BY <2>1, <2>2, <3>1, ReleaseEndsIdle
  <2>4. CASE \E k \in TilesOf(r) : ~CanReport(k)
    \* The connection is not open any more.
    <3>1. UNCHANGED <<tiles, socket, session, refCount>>
      BY <1>9, <2>4 DEF RoomEnds
    <3>2. session[r] # NoStart /\ socket[session[r]] # "open"
      BY <2>4 DEF CanReport, TilesOf
    <3> QED
      BY <2>1, <2>2, <3>1, <3>2
  <2> QED
    BY <2>3, <2>4
<1>10. CASE StopAllWatching
  <2>1. \E some \in SUBSET tiles : \E over : Release(some, CountBy(some), over, {})
    BY <1>10 DEF StopAllWatching
  <2>2. ending' = {} /\ UNCHANGED <<stage, timers>>
    BY <1>10 DEF StopAllWatching
  <2> QED
    BY <2>1, <2>2, ReleaseEndsIdle
<1>11. ASSUME NEW a \in Starts, ConnectionLost(a) PROVE CountInvariant'
  BY <1>11 DEF ConnectionLost
<1>12. CASE UNCHANGED sessionVars
  BY <1>12 DEF sessionVars
<1> QED
  BY <1>1, <1>2, <1>3, <1>4, <1>5, <1>6, <1>7, <1>8, <1>9, <1>10, <1>11, <1>12
     DEF SessionNext

\* No session counts more uses than its room has tiles, but the stranded ones.
UsesAreTiles ==
    \A r \in Rooms \ stranded :
        session[r] # NoStart => refCount[r] <= Cardinality(TilesOf(r))

\* A room has a finite number of tiles, which is zero if it has none.
LEMMA TilesAreCounted ==
  ASSUME IsFiniteSet(tiles), NEW r
  PROVE  /\ IsFiniteSet(TilesOf(r)) /\ Cardinality(TilesOf(r)) \in Nat
         /\ TilesOf(r) = {} <=> Cardinality(TilesOf(r)) = 0
<1>1. IsFiniteSet(TilesOf(r))
  BY FS_Subset DEF TilesOf
<1> QED
  BY <1>1, FS_CardinalityType, FS_EmptySet

\* Tiles that go give back as many uses as they are.
LEMMA ReleaseGivesBack ==
  ASSUME SessionsHaveJoined, UsesAreTiles, NEW ks \in SUBSET tiles, NEW over, NEW stillEnding,
         Release(ks, CountBy(ks), over, stillEnding)
  PROVE  UsesAreTiles'
<1> DEFINE n == CountBy(ks)
           idle == {r \in Rooms : /\ session[r] # NoStart
                                  /\ \/ r \in over
                                     \/ n[r] > 0 /\ Released(r, n[r]) = 0
                                        /\ r \notin stillEnding}
<1>1. /\ tiles' = tiles \ ks /\ stranded' = stranded \ idle
      /\ session' = [r \in Rooms |-> IF r \in idle THEN NoStart ELSE session[r]]
      /\ refCount' = [r \in Rooms |-> IF r \in idle \/ session[r] = NoStart THEN 0
                                      ELSE Released(r, n[r])]
  BY DEF Release
<1> HIDE DEF idle
<1>2. ASSUME NEW r \in Rooms \ stranded', session'[r] # NoStart
      PROVE  refCount'[r] <= Cardinality(TilesOf(r)')
  <2> DEFINE mine == {k \in ks : RoomOf[k] = r}
  <2>1. r \in Rooms /\ r \notin stranded /\ session[r] # NoStart /\ r \notin idle
    BY <1>1, <1>2
  <2>2. refCount'[r] = Released(r, Cardinality(mine))
    BY <1>1, <2>1 DEF CountBy
  <2>3. refCount[r] <= Cardinality(TilesOf(r)) /\ refCount[r] \in Nat
    BY <2>1 DEF UsesAreTiles, SessionsHaveJoined
  <2>4. /\ IsFiniteSet(TilesOf(r)) /\ Cardinality(TilesOf(r)) \in Nat
        /\ mine \subseteq TilesOf(r) /\ TilesOf(r)' = TilesOf(r) \ mine
    <3>1. mine \subseteq TilesOf(r) /\ TilesOf(r)' = TilesOf(r) \ mine
      BY <1>1 DEF TilesOf
    <3> QED
      BY <3>1, TilesAreCounted DEF SessionsHaveJoined
  <2> HIDE DEF mine
  <2>5. IsFiniteSet(mine) /\ Cardinality(mine) \in Nat /\ TilesOf(r) \cap mine = mine
    BY <2>4, FS_Subset, FS_CardinalityType
  <2>6. Cardinality(TilesOf(r) \ mine) = Cardinality(TilesOf(r)) - Cardinality(mine)
    BY <2>4, <2>5, FS_Difference
  <2>7. Cardinality(mine) <= Cardinality(TilesOf(r))
    BY <2>4, FS_Subset
  <2> QED
    BY <2>2, <2>3, <2>4, <2>5, <2>6, <2>7 DEF Released
<1> QED
  BY <1>2 DEF UsesAreTiles

\* No step lets a session count more uses than there are tiles of its room.
LEMMA UsesStep ==
  SessionsHaveJoined /\ UsesAreTiles /\ [SessionNext]_sessionVars => UsesAreTiles'
<1> SUFFICES ASSUME SessionsHaveJoined, UsesAreTiles, [SessionNext]_sessionVars
             PROVE  UsesAreTiles'
  OBVIOUS
<1>0. /\ IsFiniteSet(tiles) /\ refCount \in [Rooms -> Nat]
      /\ session \in [Rooms -> Starts \cup {NoStart}]
  BY DEF SessionsHaveJoined
<1>1. ASSUME NEW k \in Keys, StartTile(k) PROVE UsesAreTiles'
  <2>1. /\ k \notin tiles /\ tiles' = tiles \cup {k} /\ UNCHANGED <<session, stranded>>
        /\ session[RoomOf[k]] # NoStart => refCount' = [refCount EXCEPT ![RoomOf[k]] = @ + 1]
        /\ session[RoomOf[k]] = NoStart => refCount' = refCount
    BY <1>1 DEF StartTile
  <2>2. ASSUME NEW r \in Rooms \ stranded, session[r] # NoStart
        PROVE  refCount'[r] <= Cardinality(TilesOf(r)')
    <3>1. /\ refCount[r] \in Nat /\ refCount[r] <= Cardinality(TilesOf(r))
          /\ IsFiniteSet(TilesOf(r)) /\ Cardinality(TilesOf(r)) \in Nat
      BY <1>0, <2>2, TilesAreCounted DEF UsesAreTiles
    <3>2. CASE r = RoomOf[k]
      <4>1. TilesOf(r)' = TilesOf(r) \cup {k} /\ k \notin TilesOf(r)
        BY <2>1, <3>2 DEF TilesOf
      <4>2. Cardinality(TilesOf(r)') = Cardinality(TilesOf(r)) + 1
        BY <3>1, <4>1, FS_AddElement
      <4>3. refCount'[r] = refCount[r] + 1
        BY <1>0, <2>1, <2>2, <3>2
      <4> QED
        BY <3>1, <4>2, <4>3
    <3>3. CASE r # RoomOf[k]
      <4>1. TilesOf(r)' = TilesOf(r)
        BY <2>1, <3>3 DEF TilesOf
      <4>2. refCount'[r] = refCount[r]
        BY <1>0, <2>1, <3>3
      <4> QED
        BY <3>1, <4>1, <4>2
    <3> QED
      BY <3>2, <3>3
  <2> QED
    BY <2>1, <2>2 DEF UsesAreTiles
<1>2. ASSUME NEW a \in Starts, ConnectFails(a) \/ JoinFails(a) \/ PlayFails(a)
      PROVE  UsesAreTiles'
  <2>1. Release({keyOf[a]} \cap tiles, CountBy({keyOf[a]} \cap tiles), {}, ending)
    BY <1>2 DEF ConnectFails, JoinFails, PlayFails, StartFails
  <2> QED
    BY <2>1, ReleaseGivesBack
<1>3. ASSUME NEW a \in Starts, Joined(a) PROVE UsesAreTiles'
  <2> DEFINE r == RoomOf[keyOf[a]]
  <2>1. /\ tiles' = tiles
        /\ session' = [session EXCEPT ![r] = a]
        /\ refCount' = [refCount EXCEPT ![r] = 1]
        /\ stranded' = IF TilesOf(r) # {} THEN stranded \ {r} ELSE stranded \cup {r}
    BY <1>3 DEF Joined
  <2> HIDE DEF r
  <2>2. ASSUME NEW x \in Rooms \ stranded', session'[x] # NoStart
        PROVE  refCount'[x] <= Cardinality(TilesOf(x))
    <3>1. CASE x = r
      <4>1. TilesOf(x) # {} /\ refCount'[x] = 1
        BY <1>0, <2>1, <2>2, <3>1
      <4>2. Cardinality(TilesOf(x)) \in Nat /\ Cardinality(TilesOf(x)) # 0
        BY <1>0, <4>1, TilesAreCounted
      <4> QED
        BY <4>1, <4>2
    <3>2. CASE x # r
      <4>1. x \in Rooms \ stranded /\ session'[x] = session[x] /\ refCount'[x] = refCount[x]
        BY <1>0, <2>1, <2>2, <3>2
      <4> QED
        BY <2>2, <4>1 DEF UsesAreTiles
    <3> QED
      BY <3>1, <3>2
  <2> QED
    BY <2>1, <2>2 DEF UsesAreTiles, TilesOf
<1>4. ASSUME NEW ks \in SUBSET tiles, NEW rs \in SUBSET Rooms,
             StopTiles(ks) \/ SyncTilesWithHub(ks, rs)
      PROVE  UsesAreTiles'
  <2>1. \E some \in SUBSET tiles : Release(some, CountBy(some), {}, ending)
    BY <1>4 DEF StopTiles, SyncTilesWithHub, StopEach
  <2> QED
    BY <2>1, ReleaseGivesBack
<1>5. ASSUME NEW r \in Rooms, RoomEnds(r) PROVE UsesAreTiles'
  <2>1. CASE \A k \in TilesOf(r) : CanReport(k)
    <3>1. Release(TilesOf(r), CountBy(TilesOf(r)), {r}, {}) /\ TilesOf(r) \in SUBSET tiles
      BY <1>5, <2>1 DEF RoomEnds, TilesOf
    <3> QED
      BY <3>1, ReleaseGivesBack
  <2>2. CASE \E k \in TilesOf(r) : ~CanReport(k)
    <3>1. UNCHANGED <<tiles, session, refCount, stranded>>
      BY <1>5, <2>2 DEF RoomEnds
    <3> QED
      BY <3>1 DEF UsesAreTiles, TilesOf
  <2> QED
    BY <2>1, <2>2
<1>6. CASE StopAllWatching
  <2>1. \E some \in SUBSET tiles : \E over : Release(some, CountBy(some), over, {})
    BY <1>6 DEF StopAllWatching
  <2> QED
    BY <2>1, ReleaseGivesBack
<1>7. CASE UNCHANGED <<tiles, session, refCount, stranded>>
  BY <1>7 DEF UsesAreTiles, TilesOf
<1> QED
  BY <1>1, <1>2, <1>3, <1>4, <1>5, <1>6, <1>7
     DEF SessionNext, sessionVars, Connected, Playing, ConnectionLost, ObserveEnded

\* No open connection observes a room of which no tile is left: in whatever order
\* starts, failures, stops, kicks, statistics and timeouts come, a timeout that ends it
\* is set - unless it joined when the last tile had gone already.  Uses may be given
\* back too often; what keeps a session for good is only a use without a tile.
THEOREM NobodyWatchesIdly == SessionSpec => []IdleSessionsEnd
<1>1. SessionInit => UsesAreTiles
  BY DEF SessionInit, UsesAreTiles
<1>2. CountInvariant => SessionsHaveJoined
  BY DEF CountInvariant
<1>3. CountInvariant /\ UsesAreTiles => IdleSessionsEnd
  <2> SUFFICES ASSUME CountInvariant, UsesAreTiles, NEW r \in Rooms \ stranded,
                      session[r] # NoStart, socket[session[r]] = "open", timers[r] <= 0
               PROVE  TilesOf(r) # {}
    BY DEF IdleSessionsEnd, CountInvariant, SessionsHaveJoined
  <2>1. refCount[r] > 0 /\ refCount[r] <= Cardinality(TilesOf(r)) /\ refCount[r] \in Nat
    BY DEF CountInvariant, CountedOn, UsesAreTiles, SessionsHaveJoined
  <2>2. Cardinality(TilesOf(r)) \in Nat /\ (TilesOf(r) = {} => Cardinality(TilesOf(r)) = 0)
    BY TilesAreCounted DEF CountInvariant, SessionsHaveJoined
  <2> QED
    BY <2>1, <2>2
<1> QED
  BY CountStarts, CountStep, UsesStep, <1>1, <1>2, <1>3, PTL DEF SessionSpec

\* What starts refer to, and how far a session can count: every use it counts was
\* made by a start, and starts are used one after the other.
StartsAreCounted ==
    /\ keyOf \in [Starts -> Keys]
    /\ via \in [Starts -> Starts \cup {NoStart}]
    /\ players \subseteq Starts
    /\ timers \in [Rooms -> 0 .. MaxTimers]
    /\ \E n \in 0 .. MaxStarts :
          /\ \A a \in Starts : stage[a] # "unused" <=> a <= n
          /\ \A r \in Rooms : refCount[r] <= n

\* Removing tiles counts down.
LEMMA ReleaseCountsDown ==
  ASSUME CountInvariant, StartsAreCounted, NEW ks \in SUBSET tiles, NEW over, NEW stillEnding,
         Release(ks, CountBy(ks), over, stillEnding)
  PROVE  players' \subseteq Starts /\ \A r \in Rooms : refCount'[r] <= refCount[r]
<1> DEFINE n == CountBy(ks)
           idle == {r \in Rooms : /\ session[r] # NoStart
                                  /\ \/ r \in over
                                     \/ n[r] > 0 /\ Released(r, n[r]) = 0
                                        /\ r \notin stillEnding}
<1>1. /\ players' \subseteq players
      /\ refCount' = [r \in Rooms |-> IF r \in idle \/ session[r] = NoStart THEN 0
                                      ELSE Released(r, n[r])]
  BY DEF Release
<1>2. \A r \in Rooms : n[r] \in Nat
  BY CountIsNatural DEF CountInvariant, SessionsHaveJoined
<1> HIDE DEF n, idle
<1>3. ASSUME NEW r \in Rooms PROVE refCount'[r] <= refCount[r]
  <2>1. refCount[r] \in Nat /\ n[r] \in Nat
    BY <1>2 DEF CountInvariant, SessionsHaveJoined
  <2>2. refCount'[r] = 0 \/ refCount'[r] = refCount[r] - n[r]
    BY <1>1 DEF Released
  <2> QED
    BY <2>1, <2>2
<1> QED
  BY <1>1, <1>3 DEF StartsAreCounted

\* Nothing new starts: what is counted stays within what has started.
LEMMA CountsStay ==
  ASSUME StartsAreCounted, refCount' \in [Rooms -> Nat], refCount \in [Rooms -> Nat],
         \A a \in Starts : stage'[a] = "unused" <=> stage[a] = "unused",
         \A r \in Rooms : refCount'[r] <= refCount[r]
  PROVE  \E n \in 0 .. MaxStarts :
            /\ \A a \in Starts : stage'[a] # "unused" <=> a <= n
            /\ \A r \in Rooms : refCount'[r] <= n
<1>1. PICK n \in 0 .. MaxStarts :
         /\ \A a \in Starts : stage[a] # "unused" <=> a <= n
         /\ \A r \in Rooms : refCount[r] <= n
  BY DEF StartsAreCounted
<1>2. ASSUME NEW r \in Rooms PROVE refCount'[r] <= n
  <2>1. refCount'[r] \in Nat /\ refCount[r] \in Nat /\ refCount'[r] <= refCount[r] /\ refCount[r] <= n
    BY <1>1
  <2> QED
    BY <2>1
<1> QED
  BY <1>1, <1>2

\* A start that fails counts down at most.
LEMMA FailingCountsDown ==
  ASSUME CountInvariant, CountInvariant', StartsAreCounted, NEW a \in Starts, StartFails(a),
         stage[a] # "unused"
  PROVE  StartsAreCounted'
<1> DEFINE ks == {keyOf[a]} \cap tiles
<1>1. /\ Release(ks, CountBy(ks), {}, ending) /\ ks \in SUBSET tiles
      /\ stage' = [stage EXCEPT ![a] = "done"] /\ via' = [via EXCEPT ![a] = NoStart]
      /\ UNCHANGED <<keyOf, timers>>
  BY DEF StartFails, Ends
<1>2. players' \subseteq Starts /\ \A r \in Rooms : refCount'[r] <= refCount[r]
  BY <1>1, ReleaseCountsDown
<1>3. \A b \in Starts : stage'[b] = "unused" <=> stage[b] = "unused"
  BY <1>1 DEF CountInvariant, SessionsHaveJoined
<1>4. refCount' \in [Rooms -> Nat] /\ refCount \in [Rooms -> Nat]
  BY DEF CountInvariant, SessionsHaveJoined
<1>5. \E n \in 0 .. MaxStarts :
         /\ \A b \in Starts : stage'[b] # "unused" <=> b <= n
         /\ \A r \in Rooms : refCount'[r] <= n
  BY <1>2, <1>3, <1>4, CountsStay
<1> QED
  BY <1>1, <1>2, <1>5 DEF StartsAreCounted

\* The end of a room is scheduled only while a timeout can be set.
LEMMA TimersFit ==
  ASSUME timers \in [Rooms -> 0 .. MaxTimers], NEW rs, ScheduleRoomEnd(rs)
  PROVE  timers' \in [Rooms -> 0 .. MaxTimers]
<1>1. /\ \A r \in rs \ ending : timers[r] < MaxTimers
      /\ timers' = [r \in Rooms |-> IF r \in rs \ ending THEN timers[r] + 1 ELSE timers[r]]
  BY DEF ScheduleRoomEnd
<1>2. \A r \in Rooms : r \in rs \ ending => timers[r] + 1 \in 0 .. MaxTimers
  BY <1>1, SessionAssumption
<1> QED
  BY <1>1, <1>2

\* Every step keeps the counts within the starts.
LEMMA StartsStep ==
  CountInvariant /\ CountInvariant' /\ StartsAreCounted /\ [SessionNext]_sessionVars
    => StartsAreCounted'
<1> SUFFICES ASSUME CountInvariant, CountInvariant', StartsAreCounted, [SessionNext]_sessionVars
             PROVE  StartsAreCounted'
  OBVIOUS
<1>0. /\ refCount' \in [Rooms -> Nat] /\ refCount \in [Rooms -> Nat]
      /\ stage \in [Starts -> Stages] /\ MaxStarts \in Nat
      /\ session \in [Rooms -> Starts \cup {NoStart}]
  BY SessionAssumption DEF CountInvariant, SessionsHaveJoined
<1>1. ASSUME NEW k \in Keys, StartTile(k) PROVE StartsAreCounted'
  <2>1. PICK a \in Unused :
           /\ \A b \in Unused : a <= b
           /\ keyOf' = [keyOf EXCEPT ![a] = k]
           /\ \/ /\ session[RoomOf[k]] # NoStart
                 /\ stage' = [stage EXCEPT ![a] = "play"]
                 /\ via' = [via EXCEPT ![a] = session[RoomOf[k]]]
                 /\ refCount' = [refCount EXCEPT ![RoomOf[k]] = @ + 1]
              \/ /\ stage' = [stage EXCEPT ![a] = "connect"]
                 /\ via' = [via EXCEPT ![a] = a] /\ refCount' = refCount
    BY <1>1 DEF StartTile
  <2>2. a \in Starts /\ stage[a] = "unused" /\ RoomOf[k] \in Rooms
    BY SessionAssumption DEF Unused
  <2>3. PICK n \in 0 .. MaxStarts :
           /\ \A b \in Starts : stage[b] # "unused" <=> b <= n
           /\ \A r \in Rooms : refCount[r] <= n
    BY DEF StartsAreCounted
  <2>4. n \in Nat /\ a > n /\ a \in 1 .. MaxStarts
    BY <2>2, <2>3 DEF Starts
  <2>5. n + 1 \in Starts /\ stage[n + 1] = "unused"
    BY <1>0, <2>3, <2>4 DEF Starts
  <2>6. a = n + 1
    BY <2>1, <2>4, <2>5 DEF Unused
  <2>7. ASSUME NEW b \in Starts PROVE stage'[b] # "unused" <=> b <= n + 1
    <3>1. b \in Nat /\ (stage[b] # "unused" <=> b <= n)
      BY <2>3 DEF Starts
    <3>2. CASE b = a
      BY <1>0, <2>1, <2>2, <2>4, <2>6, <3>2
    <3>3. CASE b # a
      BY <1>0, <2>1, <2>4, <2>6, <3>1, <3>3
    <3> QED
      BY <3>2, <3>3
  <2>8. ASSUME NEW r \in Rooms PROVE refCount'[r] <= n + 1
    <3>1. refCount[r] \in Nat /\ refCount[r] <= n
      BY <1>0, <2>3
    <3>2. refCount'[r] = refCount[r] \/ refCount'[r] = refCount[r] + 1
      BY <1>0, <2>1
    <3> QED
      BY <2>4, <3>1, <3>2
  <2>9. n + 1 \in 0 .. MaxStarts
    BY <2>4, <2>6
  <2>10. keyOf' \in [Starts -> Keys] /\ via' \in [Starts -> Starts \cup {NoStart}]
    BY <1>0, <2>1, <2>2 DEF StartsAreCounted
  <2>11. players' \subseteq Starts /\ timers' \in [Rooms -> 0 .. MaxTimers]
    BY <1>1 DEF StartTile, StartsAreCounted
  <2> QED
    BY <2>7, <2>8, <2>9, <2>10, <2>11 DEF StartsAreCounted
<1>2. ASSUME \A a \in Starts : stage'[a] = "unused" <=> stage[a] = "unused",
             \A r \in Rooms : refCount'[r] <= refCount[r],
             players' \subseteq Starts, timers' \in [Rooms -> 0 .. MaxTimers],
             via' = via \/ \E a \in Starts : via' = [via EXCEPT ![a] = NoStart],
             keyOf' = keyOf
      PROVE  StartsAreCounted'
  <2>1. \E n \in 0 .. MaxStarts :
           /\ \A a \in Starts : stage'[a] # "unused" <=> a <= n
           /\ \A r \in Rooms : refCount'[r] <= n
    BY <1>0, <1>2, CountsStay
  <2>2. via' \in [Starts -> Starts \cup {NoStart}] /\ keyOf' \in [Starts -> Keys]
    BY <1>2 DEF StartsAreCounted
  <2> QED
    BY <1>2, <2>1, <2>2 DEF StartsAreCounted
<1>3. players \subseteq Starts /\ timers \in [Rooms -> 0 .. MaxTimers]
  BY DEF StartsAreCounted
<1>4. \A r \in Rooms : refCount[r] <= refCount[r]
  BY <1>0
<1>5. ASSUME NEW a \in Starts, Connected(a) \/ ConnectionLost(a) PROVE StartsAreCounted'
  <2>1. /\ refCount' = refCount /\ players' = players /\ timers' = timers /\ via' = via
        /\ keyOf' = keyOf
    BY <1>5 DEF Connected, ConnectionLost
  <2>2. \A b \in Starts : stage'[b] = "unused" <=> stage[b] = "unused"
    BY <1>0, <1>5 DEF Connected, ConnectionLost
  <2> QED
    BY <1>2, <1>3, <1>4, <2>1, <2>2
<1>6. ASSUME NEW a \in Starts, ConnectFails(a) \/ JoinFails(a) \/ PlayFails(a)
      PROVE  StartsAreCounted'
  <2>1. StartFails(a) /\ stage[a] # "unused"
    BY <1>6 DEF ConnectFails, JoinFails, PlayFails
  <2> QED
    BY <2>1, FailingCountsDown
<1>7. ASSUME NEW a \in Starts, Joined(a) PROVE StartsAreCounted'
  <2> DEFINE r == RoomOf[keyOf[a]]
  <2>1. /\ stage[a] = "join" /\ stage' = [stage EXCEPT ![a] = "play"]
        /\ refCount' = [refCount EXCEPT ![r] = 1]
        /\ UNCHANGED <<keyOf, via, players, timers>>
    BY <1>7 DEF Joined
  <2> HIDE DEF r
  <2>2. PICK n \in 0 .. MaxStarts :
           /\ \A b \in Starts : stage[b] # "unused" <=> b <= n
           /\ \A x \in Rooms : refCount[x] <= n
    BY DEF StartsAreCounted
  <2>3. n >= 1 /\ n \in Nat
    BY <1>0, <2>1, <2>2 DEF Starts
  <2>4. \A b \in Starts : stage'[b] # "unused" <=> b <= n
    BY <1>0, <2>1, <2>2
  <2>5. \A x \in Rooms : refCount'[x] <= n
    BY <1>0, <2>1, <2>2, <2>3
  <2> QED
    BY <2>1, <2>4, <2>5 DEF StartsAreCounted
<1>8. ASSUME NEW a \in Starts, Playing(a) PROVE StartsAreCounted'
  <2>1. /\ stage[a] = "play" /\ stage' = [stage EXCEPT ![a] = "done"]
        /\ via' = [via EXCEPT ![a] = NoStart] /\ keyOf' = keyOf
        /\ players' = players \cup {a} /\ UNCHANGED <<refCount, timers>>
    BY <1>8 DEF Playing, Ends
  <2>2. \A b \in Starts : stage'[b] = "unused" <=> stage[b] = "unused"
    BY <1>0, <2>1
  <2>3. players' \subseteq Starts
    BY <1>3, <2>1
  <2> QED
    BY <1>2, <1>3, <1>4, <2>1, <2>2, <2>3
<1>9. ASSUME NEW ks \in SUBSET tiles, NEW over, NEW stillEnding,
             Release(ks, CountBy(ks), over, stillEnding), UNCHANGED <<stage, keyOf, via>>,
             timers' \in [Rooms -> 0 .. MaxTimers]
      PROVE  StartsAreCounted'
  <2>1. players' \subseteq Starts /\ \A r \in Rooms : refCount'[r] <= refCount[r]
    BY <1>9, ReleaseCountsDown
  <2> QED
    BY <1>2, <1>9, <2>1
<1>10. ASSUME NEW ks \in SUBSET tiles, StopTiles(ks) PROVE StartsAreCounted'
  <2>1. PICK some \in SUBSET tiles : Release(some, CountBy(some), {}, ending)
    BY <1>10 DEF StopTiles, StopEach
  <2> QED
    BY <1>3, <1>9, <1>10, <2>1 DEF StopTiles
<1>11. ASSUME NEW ks \in SUBSET tiles, NEW rs \in SUBSET Rooms, SyncTilesWithHub(ks, rs)
       PROVE  StartsAreCounted'
  <2>1. PICK some \in SUBSET tiles : Release(some, CountBy(some), {}, ending)
    BY <1>11 DEF SyncTilesWithHub, StopEach
  <2>2. timers' \in [Rooms -> 0 .. MaxTimers]
    BY <1>3, <1>11, TimersFit DEF SyncTilesWithHub
  <2> QED
    BY <1>9, <1>11, <2>1, <2>2 DEF SyncTilesWithHub
<1>12. ASSUME NEW r \in Rooms, ObserveEnded(r) PROVE StartsAreCounted'
  <2>1. /\ ScheduleRoomEnd({r})
        /\ UNCHANGED <<stage, keyOf, via, players, refCount>>
    BY <1>12 DEF ObserveEnded
  <2>2. timers' \in [Rooms -> 0 .. MaxTimers]
    BY <1>3, <2>1, TimersFit
  <2> QED
    BY <1>2, <1>3, <1>4, <2>1, <2>2
<1>13. ASSUME NEW r \in Rooms, RoomEnds(r) PROVE StartsAreCounted'
  <2>1. /\ timers[r] > 0 /\ timers' = [timers EXCEPT ![r] = @ - 1]
        /\ UNCHANGED <<stage, keyOf, via>>
    BY <1>13 DEF RoomEnds
  <2>2. timers' \in [Rooms -> 0 .. MaxTimers]
    BY <1>3, <2>1, SessionAssumption
  <2>3. CASE UNCHANGED <<tiles, player, socket, players, session, refCount>>
    BY <1>2, <1>3, <1>4, <2>1, <2>2, <2>3
  <2>4. CASE Release(TilesOf(r), CountBy(TilesOf(r)), {r}, {})
    <3>1. TilesOf(r) \in SUBSET tiles
      BY DEF TilesOf
    <3> QED
      BY <1>9, <2>1, <2>2, <2>4, <3>1
  <2> QED
    BY <1>13, <2>3, <2>4 DEF RoomEnds
<1>14. CASE StopAllWatching
  <2>1. \E some \in SUBSET tiles : \E over : Release(some, CountBy(some), over, {})
    BY <1>14 DEF StopAllWatching
  <2> QED
    BY <1>3, <1>9, <1>14, <2>1 DEF StopAllWatching
<1>15. CASE UNCHANGED sessionVars
  BY <1>15 DEF sessionVars, StartsAreCounted
<1> QED
  BY <1>1, <1>5, <1>6, <1>7, <1>8, <1>10, <1>11, <1>12, <1>13, <1>14, <1>15 DEF SessionNext

\* Nothing has started at first.
LEMMA StartsBegin == SessionInit => StartsAreCounted
<1> SUFFICES ASSUME SessionInit PROVE StartsAreCounted
  OBVIOUS
<1>1. NoKey \in Keys /\ MaxStarts \in Nat /\ MaxTimers \in Nat
  BY SessionAssumption DEF NoKey
<1>2. 0 \in 0 .. MaxStarts /\ \A a \in Starts : ~(a <= 0)
  BY <1>1 DEF Starts
<1>3. (\A a \in Starts : stage[a] = "unused") /\ \A r \in Rooms : refCount[r] = 0
  BY DEF SessionInit
<1>4. \E n \in 0 .. MaxStarts :
         /\ \A a \in Starts : stage[a] # "unused" <=> a <= n
         /\ \A r \in Rooms : refCount[r] <= n
  BY <1>2, <1>3
<1> QED
  BY <1>1, <1>4 DEF SessionInit, StartsAreCounted, NoStart

\* What is stranded is a room.
LEMMA RoomsAreStranded ==
  StartsAreCounted /\ stranded \subseteq Rooms /\ [SessionNext]_sessionVars
    => stranded' \subseteq Rooms
<1> SUFFICES ASSUME StartsAreCounted, stranded \subseteq Rooms, [SessionNext]_sessionVars
             PROVE  stranded' \subseteq Rooms
  OBVIOUS
<1>1. ASSUME NEW a \in Starts, Joined(a) PROVE stranded' \subseteq Rooms
  <2>1. RoomOf[keyOf[a]] \in Rooms
    BY SessionAssumption DEF StartsAreCounted
  <2> QED
    BY <1>1, <2>1 DEF Joined
<1>2. ASSUME NEW gone, NEW uncount, NEW over, NEW stillEnding,
             Release(gone, uncount, over, stillEnding)
      PROVE  stranded' \subseteq stranded
  BY <1>2 DEF Release
<1>3. CASE \E a \in Starts : ConnectFails(a) \/ JoinFails(a) \/ PlayFails(a)
  BY <1>2, <1>3 DEF ConnectFails, JoinFails, PlayFails, StartFails
<1>4. CASE \E ks \in SUBSET tiles : \/ StopTiles(ks)
                                   \/ \E rs \in SUBSET Rooms : SyncTilesWithHub(ks, rs)
  <2>1. \E ks : StopEach(ks)
    BY <1>4 DEF StopTiles, SyncTilesWithHub
  <2> QED
    BY <1>2, <2>1 DEF StopEach
<1>5. CASE StopAllWatching
  BY <1>2, <1>5 DEF StopAllWatching
<1>6. CASE \E r \in Rooms : RoomEnds(r)
  <2>1. stranded' = stranded \/ \E r \in Rooms : Release(TilesOf(r), CountBy(TilesOf(r)), {r}, {})
    BY <1>6 DEF RoomEnds
  <2> QED
    BY <1>2, <2>1
<1>7. CASE UNCHANGED stranded
  BY <1>7
<1> QED
  BY <1>1, <1>3, <1>4, <1>5, <1>6, <1>7
     DEF SessionNext, sessionVars, StartTile, Connected, Playing, ConnectionLost, ObserveEnded

\* The invariants together say what SessionTypeOK says.
LEMMA SessionIsTyped ==
  WatchInvariant /\ CountInvariant /\ StartsAreCounted /\ stranded \subseteq Rooms => SessionTypeOK
<1> SUFFICES ASSUME WatchInvariant, CountInvariant, StartsAreCounted, stranded \subseteq Rooms
             PROVE  SessionTypeOK
  OBVIOUS
<1>1. refCount \in [Rooms -> 0 .. MaxStarts]
  <2>1. PICK n \in 0 .. MaxStarts : \A r \in Rooms : refCount[r] <= n
    BY DEF StartsAreCounted
  <2>2. refCount \in [Rooms -> Nat] /\ n \in Nat /\ n <= MaxStarts /\ MaxStarts \in Nat
    BY SessionAssumption DEF CountInvariant, SessionsHaveJoined
  <2>3. \A r \in Rooms : refCount[r] \in 0 .. MaxStarts
    BY <2>1, <2>2
  <2> QED
    BY <2>2, <2>3
<1> QED
  BY <1>1 DEF WatchInvariant, StartsAreNamed, CountInvariant, SessionsHaveJoined,
              StartsAreCounted, SessionTypeOK

\* The administrator's sessions keep their types: however often rooms are entered
\* and left, no room is used more often than starts were made, none a negative
\* number of times, and no room has more timers than releases (admin-monitor.js:
\* ensureRoomSession, scheduleRoomEnd).
THEOREM SessionTypeCorrect == SessionSpec => []SessionTypeOK
<1> DEFINE Counted == WatchInvariant /\ CountInvariant /\ StartsAreCounted
           All == Counted /\ stranded \subseteq Rooms
<1>1. SessionInit => All
  BY WatchStarts, CountStarts, StartsBegin DEF SessionInit
<1>2. All /\ [SessionNext]_sessionVars => All'
  <2>1. Counted /\ [SessionNext]_sessionVars => Counted'
    BY WatchStep, CountStep, StartsStep
  <2> QED
    BY <2>1, RoomsAreStranded
<1>3. All => SessionTypeOK
  BY SessionIsTyped
<1> QED
  BY <1>1, <1>2, <1>3, PTL DEF SessionSpec
=============================================================================
