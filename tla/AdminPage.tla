------------------------------ MODULE AdminPage ------------------------------
(***************************************************************************)
(* The administrator's page and the server it is logged in to: the token   *)
(* in the page's storage, the login and the application view, the          *)
(* dashboard connection, the requests whose answers come late; and at the  *)
(* server the one token of the account and the dashboard connections it    *)
(* has checked and registered.  Somebody else may log in to the same       *)
(* account.                                                                *)
(*                                                                         *)
(* A page opens at most one dashboard connection per token, so connections *)
(* are named by their token.  A token that stopped being valid never is    *)
(* again: an answer may say "authorised" if the token was valid when the   *)
(* request was made, and "unauthorised" if it is not when the answer       *)
(* comes.                                                                  *)
(***************************************************************************)
EXTENDS Naturals, FiniteSets

CONSTANT MaxLogins      \* bound on the logins of a behaviour

ASSUME LoginsAssumption == MaxLogins \in Nat \ {0}

Tokens == 1 .. MaxLogins
NoToken == 0
Refused == MaxLogins + 1    \* what a request holds whose token was not valid

Requests == {"restore", "dashboard", "members", "audit", "logout"}

VARIABLES
    live,       \* byUser[username]: the token the server accepts, or NoToken
    used,       \* the tokens handed out so far are 1 .. used
    line,       \* line[t]: the dashboard connection of token t
    stored,     \* the token in sessionStorage
    view,       \* loginView or appView is active
    tab,        \* the dashboard tab is open, so the page polls, or another one
    feed,       \* dashboardWs: the token of its connection, or NoToken
    failed,     \* networkFailureHandled
    ask,        \* ask[q]: request q is out, with this token (or Refused)
    granted,    \* tokens of login answers on their way
    submitting, \* loginSubmit.disabled
    wedged      \* a tile was left on the live page that cannot be stopped: its member
                \* has gone, its room has not, and its connection is lost

adminVars == <<live, used, line, stored, view, tab, feed, failed, ask, granted,
               submitting, wedged>>
serverVars == <<live, used>>

Usable(t) == t # NoToken /\ t = live

\* The connection is gone for the page: it was closed, or is being closed.
Ended(t) == line[t] \in {"none", "closing", "gone"}
-----------------------------------------------------------------------------
(* Views.  showLogin closes the dashboard connection; its close event      *)
(* comes later, when wsManualClose is false again.                         *)

Hung(t) == IF t # NoToken /\ line[t] # "gone"
           THEN [line EXCEPT ![t] = "closing"] ELSE line

\* Mutant: the view changes and the dashboard connection stays open.
ShowLoginOnly ==
    /\ view' = "login"
    /\ stored' = NoToken
    /\ feed' = NoToken
    /\ submitting' = FALSE
    /\ UNCHANGED line

\* handleSessionExpired, the end of a logout, and of a failed restore.
ShowLogin ==
    /\ view' = "login"
    /\ stored' = NoToken
    /\ line' = Hung(feed)
    /\ feed' = NoToken
    /\ submitting' = FALSE

\* handleNetworkFailure acts once, and only in the application.
NetworkFailure ==
    IF failed \/ view # "app" THEN UNCHANGED <<view, stored, line, feed, submitting, failed>>
    ELSE ShowLogin /\ failed' = TRUE

\* showApp: any earlier connection is closed and one for the token is opened.
ShowApp(t) ==
    /\ view' = "app"
    /\ stored' = t
    /\ failed' = FALSE
    /\ feed' = t
    /\ line' = [Hung(feed) EXCEPT ![t] = "opening"]
    /\ submitting' = FALSE
-----------------------------------------------------------------------------
(* Logging in and out. *)

\* Login: the account's former token is invalid, its registered connection is
\* told so.  A connection that was checked and not registered is not found.
Replace ==
    /\ used < MaxLogins
    /\ used' = used + 1
    /\ live' = used + 1
    /\ line' = IF live # NoToken /\ line[live] = "registered"
               THEN [line EXCEPT ![live] = "kicked"] ELSE line

SubmitLogin ==
    /\ view = "login"
    /\ ~submitting
    /\ Replace
    /\ submitting' = TRUE
    /\ granted' = granted \cup {used + 1}
    /\ UNCHANGED <<wedged, stored, view, tab, feed, failed, ask>>

LoginAnswered(t) ==
    /\ t \in granted
    /\ granted' = granted \ {t}
    /\ ShowApp(t)
    /\ UNCHANGED <<serverVars, wedged, tab, ask>>

\* The answer is lost, or says no.
LoginFails(t) ==
    /\ t \in granted
    /\ granted' = granted \ {t}
    /\ submitting' = FALSE
    /\ UNCHANGED <<serverVars, wedged, line, stored, view, tab, feed, failed, ask>>

LoggedInElsewhere ==
    /\ Replace
    /\ UNCHANGED <<wedged, stored, view, tab, feed, failed, ask, granted, submitting>>

Asked(q) == [ask EXCEPT ![q] = IF @ # NoToken THEN @
                               ELSE IF Usable(stored) THEN stored ELSE Refused]

ClickLogout ==
    /\ view = "app"
    /\ ask["logout"] = NoToken
    /\ ask' = Asked("logout")
    /\ UNCHANGED <<serverVars, wedged, line, stored, view, tab, feed, failed, granted, submitting>>

LogoutServed ==
    /\ ask["logout"] = live
    /\ live # NoToken
    /\ live' = NoToken
    /\ UNCHANGED <<used, wedged, line, stored, view, tab, feed, failed, ask, granted, submitting>>

\* Whatever the answer, the page forgets the token it has by then.
LogoutAnswered ==
    /\ ask["logout"] # NoToken
    /\ ask' = [ask EXCEPT !["logout"] = NoToken]
    /\ ShowLogin
    /\ UNCHANGED <<serverVars, wedged, tab, failed, granted>>
-----------------------------------------------------------------------------
(* The dashboard connection. *)

Goes(t, from, to) ==
    /\ line[t] = from
    /\ line' = [line EXCEPT ![t] = to]
    /\ UNCHANGED <<serverVars, wedged, stored, view, tab, feed, failed, ask, granted, submitting>>

\* handleWS checks the token, upgrades, and only then registers the connection.
Check(t) == Goes(t, "opening", IF Usable(t) THEN "checked" ELSE "cut")
Register(t) == Goes(t, "checked", "registered")

Breaks(t) == \E from \in {"opening", "checked", "registered", "kicked"} : Goes(t, from, "cut")

\* handleKick: the notice arrives before the connection closes.
KickNotice(t) ==
    /\ line[t] = "kicked"
    /\ ShowLogin
    /\ UNCHANGED <<serverVars, wedged, tab, failed, ask, granted>>

\* onclose, of any connection: if the application is shown, it is a failure.
Closed(t) ==
    /\ line[t] \in {"closing", "cut"}
    /\ LET mine == feed = t IN
       IF stored # NoToken /\ view = "app" /\ ~failed
       THEN /\ view' = "login" /\ stored' = NoToken /\ submitting' = FALSE /\ failed' = TRUE
            /\ feed' = NoToken
            /\ line' = [Hung(IF mine THEN NoToken ELSE feed) EXCEPT ![t] = "gone"]
       ELSE /\ feed' = IF mine THEN NoToken ELSE feed
            /\ line' = [line EXCEPT ![t] = "gone"]
            /\ UNCHANGED <<view, stored, submitting, failed>>
    /\ UNCHANGED <<serverVars, wedged, tab, ask, granted>>

\* The handler of a dashboard message compares the tiles with the rooms, which throws
\* at a tile that cannot be stopped; only then it asks for the members.
Handled == IF wedged THEN ask ELSE Asked("members")

Wedge ==
    /\ view = "app"
    /\ wedged' = ~wedged
    /\ UNCHANGED <<serverVars, line, stored, view, tab, feed, failed, ask, granted, submitting>>

\* A dashboard message.
Push ==
    /\ feed # NoToken
    /\ line[feed] = "registered"
    /\ ask' = Handled
    /\ UNCHANGED <<serverVars, wedged, line, stored, view, tab, feed, failed, granted, submitting>>

\* Mutant: over an open connection the poll asks nobody.
RequestNoRefresh ==
    /\ view = "app"
    /\ ask' = IF feed # NoToken /\ line[feed] \in {"registered", "kicked"}
              THEN ask ELSE Asked("dashboard")
    /\ UNCHANGED <<serverVars, wedged, line, stored, view, tab, feed, failed, granted, submitting>>

\* requestDashboardRefresh: over the connection, whose answer is a message, or
\* by a request if the connection is not open.
RequestRefresh ==
    /\ view = "app"
    /\ ask' = CASE feed # NoToken /\ line[feed] = "registered" -> Handled
                [] feed # NoToken /\ line[feed] = "kicked" -> ask
                [] OTHER -> Asked("dashboard")
    /\ UNCHANGED <<serverVars, wedged, line, stored, view, tab, feed, failed, granted, submitting>>

SwitchTab ==
    /\ view = "app"
    /\ tab' = IF tab = "dashboard" THEN "other" ELSE "dashboard"
    /\ UNCHANGED <<serverVars, wedged, line, stored, view, feed, failed, ask, granted, submitting>>

LoadAudit ==
    /\ view = "app"
    /\ ask["audit"] = NoToken
    /\ ask' = Asked("audit")
    /\ UNCHANGED <<serverVars, wedged, line, stored, view, tab, feed, failed, granted, submitting>>
-----------------------------------------------------------------------------
(* Answers. *)

Done(q) == ask' = [ask EXCEPT ![q] = NoToken]

\* The answer with the dashboard is handled like a message; a throw is caught there,
\* and taken for a failure of the network.
Authorised(q) ==
    /\ ask[q] \in Tokens
    /\ q # "logout"
    /\ Done(q)
    /\ CASE q = "restore" -> ShowApp(stored)
         [] q = "dashboard" /\ wedged -> NetworkFailure
         [] OTHER -> UNCHANGED <<line, stored, view, feed, failed, submitting>>
    /\ UNCHANGED <<serverVars, wedged, tab, granted>>

\* Unauthorised members are taken for a failure of the network.
Unauthorised(q) ==
    /\ ask[q] # NoToken
    /\ q # "logout"
    /\ ~Usable(ask[q])
    /\ Done(q)
    /\ IF q = "members" THEN NetworkFailure ELSE ShowLogin /\ UNCHANGED failed
    /\ UNCHANGED <<serverVars, wedged, tab, granted>>

\* No answer.  Members and audit log only say so.
NoAnswer(q) ==
    /\ ask[q] # NoToken
    /\ q # "logout"
    /\ Done(q)
    /\ CASE q = "restore" -> ShowLogin /\ UNCHANGED failed
         [] q = "dashboard" -> NetworkFailure
         [] OTHER -> UNCHANGED <<line, stored, view, feed, failed, submitting>>
    /\ UNCHANGED <<serverVars, wedged, tab, granted>>

\* A page opened anew, perhaps with a token that may have been replaced since.
AdminInit ==
    /\ used \in {0, 1}
    /\ stored \in {NoToken, used}
    /\ live \in {NoToken, used}
    /\ view = "login"
    /\ tab = "dashboard"
    /\ feed = NoToken
    /\ failed = FALSE
    /\ line = [t \in Tokens |-> "none"]
    /\ granted = {}
    /\ submitting = (stored # NoToken)
    /\ wedged = FALSE
    /\ ask = [q \in Requests |->
                IF q # "restore" \/ stored = NoToken THEN NoToken
                ELSE IF stored = live THEN stored ELSE Refused]

AdminNext ==
    \/ SubmitLogin \/ LoggedInElsewhere
    \/ ClickLogout \/ LogoutServed \/ LogoutAnswered
    \/ \E t \in Tokens : \/ LoginAnswered(t) \/ LoginFails(t)
                         \/ Check(t) \/ Register(t) \/ Breaks(t)
                         \/ KickNotice(t) \/ Closed(t)
    \/ Push \/ Wedge \/ RequestRefresh \/ SwitchTab \/ LoadAudit
    \/ \E q \in Requests : Authorised(q) \/ Unauthorised(q) \/ NoAnswer(q)

\* Connections are set up, notices and close events arrive, and the poll
\* of the dashboard tab goes on; requests are answered, if only with a failure.
AdminFairness ==
    /\ \A t \in Tokens : WF_adminVars(Check(t) \/ Register(t) \/ KickNotice(t) \/ Closed(t))
    /\ \A q \in Requests : WF_adminVars(Authorised(q) \/ Unauthorised(q))
    /\ WF_adminVars(tab = "dashboard" /\ RequestRefresh)

AdminSpec == AdminInit /\ [][AdminNext]_adminVars /\ AdminFairness
-----------------------------------------------------------------------------
AdminTypeOK ==
    /\ live \in Tokens \cup {NoToken}
    /\ used \in 0 .. MaxLogins
    /\ line \in [Tokens -> {"none", "opening", "checked", "registered", "kicked",
                            "cut", "closing", "gone"}]
    /\ stored \in Tokens \cup {NoToken}
    /\ view \in {"login", "app"}
    /\ tab \in {"dashboard", "other"}
    /\ feed \in Tokens \cup {NoToken}
    /\ failed \in BOOLEAN
    /\ ask \in [Requests -> 0 .. Refused]
    /\ granted \subseteq Tokens
    /\ submitting \in BOOLEAN
    /\ wedged \in BOOLEAN

\* The application is shown exactly while a token is stored (or is being checked
\* on opening the page), and only the connection of that token is left open: no
\* late answer, notice or close event leaves one of a former session behind.
OneDashboard ==
    /\ view = "app" => stored # NoToken /\ feed = stored
    /\ view = "login" => feed = NoToken /\ (stored # NoToken => ask["restore"] # NoToken)
    /\ \A t \in Tokens : Ended(t) \/ t = feed

\* A page whose token was replaced leaves the application while its dashboard tab
\* is open and requests are answered, although its connection may have been
\* registered too late to be told - unless a tile that cannot be stopped keeps it from
\* handling its messages.
ReplacedPageLeaves ==
    <>[][\A q \in Requests : ~NoAnswer(q)]_adminVars /\ <>[]~wedged =>
        []<>(view = "login" \/ stored = live \/ tab # "dashboard")
=============================================================================
