---------------------------- MODULE DashboardPush ----------------------------
(***************************************************************************)
(* How a change of the hub's statistics reaches the administrators'        *)
(* dashboards: the hook called after a change, the debounce timer, the     *)
(* pushes its goroutines make (snapshot, list of clients, sends), the      *)
(* snapshot a new connection is greeted with or asks for, and each         *)
(* connection's channel (server/admin_dashboard.go).                       *)
(*                                                                         *)
(* A step is one section of d.mu, of the hub's locks or one use of a       *)
(* channel.  A snapshot is the version of the statistics it shows.  A push *)
(* copies the clients, unlocks and sends, so a channel may be closed when  *)
(* it is used, which stops the program.                                    *)
(*                                                                         *)
(* Not every change calls the hook: media-state and stream-started change  *)
(* what a snapshot shows and do not, and a handler whose broadcast panics  *)
(* never gets to its call.  What dashboards are promised is up to `due'.   *)
(***************************************************************************)
EXTENDS Naturals, Sequences, FiniteSets

CONSTANTS
    Dashboards,     \* connections
    Pushes,         \* bound: goroutines of broadcastHub at one time
    MaxChanges,     \* bound on the changes of the statistics
    ChannelSize     \* adminWSOutboundQueue

ASSUME PushAssumption ==
    /\ MaxChanges \in Nat
    /\ ChannelSize \in Nat \ {0}

Builds == MaxChanges + 1    \* a snapshot that is about to be taken
Idles == MaxChanges + 2     \* no snapshot
Seen == 0 .. MaxChanges

VARIABLES
    stats,      \* the version of the statistics
    owed,       \* changes whose notifyStatsChanged has not been called yet
    due,        \* history: the version of the latest change with such a call
    debounce,   \* d.debounce: "nil", or "set" while the timer runs
    snap,       \* snap[p]: the snapshot of push p, Builds or Idles
    recipients, \* recipients[p]: the clients push p still has to send to
    copied,     \* the pushes that have copied d.clients
    clients,    \* d.clients
    wire,       \* wire[c]: "new", "open", "leaving" (unregistered) or "closed"
    reply,      \* reply[c]: the snapshot c's read loop is about to send
    channel,    \* channel[c]: c.send
    screen,     \* screen[c]: the version dashboard c shows
    told,       \* history: the latest version put into the channel of c
    missed,     \* history: the clients a message was dropped for
    late,       \* history: the clients that were sent a version after a later one
    up          \* the program has not panicked

pushVars == <<stats, owed, due, debounce, snap, recipients, copied, clients, wire, reply,
              channel, told, missed, late, screen, up>>
hubVars == <<stats, owed, due>>
historyVars == <<told, missed, late>>
chanVars == <<channel, historyVars>>
workVars == <<snap, recipients, copied>>
wireVars == <<clients, wire, reply, chanVars, screen>>

\* A send that does not wait: a full channel drops the message.
Offered(c, v) ==
    IF Len(channel[c]) < ChannelSize
    THEN /\ channel' = [channel EXCEPT ![c] = Append(@, v)]
         /\ told' = [told EXCEPT ![c] = IF v > @ THEN v ELSE @]
         /\ late' = IF v < told[c] THEN late \cup {c} ELSE late
         /\ UNCHANGED missed
    ELSE missed' = missed \cup {c} /\ UNCHANGED <<channel, told, late>>
-----------------------------------------------------------------------------
(* The hub and the debounce timer. *)

StatsChange ==
    /\ up
    /\ stats < MaxChanges
    /\ stats' = stats + 1
    /\ owed' = owed + 1
    /\ due' = stats'
    /\ UNCHANGED <<debounce, workVars, wireVars, up>>

\* A change that calls no hook, or whose handler panics on its way to the call.
SilentChange ==
    /\ up
    /\ stats < MaxChanges
    /\ stats' = stats + 1
    /\ UNCHANGED <<owed, due, debounce, workVars, wireVars, up>>

\* Mutant: the timer is forgotten only when its push is over.
SchedulePushBusy ==
    /\ up
    /\ owed > 0
    /\ owed' = owed - 1
    /\ debounce' = IF \A p \in Pushes : snap[p] = Idles THEN "set" ELSE debounce
    /\ UNCHANGED <<stats, due, workVars, wireVars, up>>

\* scheduleHubPush: a change while the timer runs is left to its push.
SchedulePush ==
    /\ up
    /\ owed > 0
    /\ owed' = owed - 1
    /\ debounce' = "set"
    /\ UNCHANGED <<stats, due, workVars, wireVars, up>>

\* The timer fires and is forgotten before its snapshot is taken.
Fire(p) ==
    /\ up
    /\ debounce = "set"
    /\ snap[p] = Idles
    /\ debounce' = "nil"
    /\ snap' = [snap EXCEPT ![p] = Builds]
    /\ UNCHANGED <<hubVars, recipients, copied, wireVars, up>>
-----------------------------------------------------------------------------
(* broadcastHub, broadcast. *)

BuildPayload(p) ==
    /\ up
    /\ snap[p] = Builds
    /\ snap' = [snap EXCEPT ![p] = stats]
    /\ UNCHANGED <<hubVars, debounce, recipients, copied, wireVars, up>>

CopyClients(p) ==
    /\ up
    /\ snap[p] \in Seen
    /\ p \notin copied
    /\ copied' = copied \cup {p}
    /\ recipients' = [recipients EXCEPT ![p] = clients]
    /\ UNCHANGED <<hubVars, debounce, snap, wireVars, up>>

\* A client that has closed its channel since it was copied makes the send panic.
SendTo(p, c) ==
    /\ up
    /\ p \in copied
    /\ c \in recipients[p]
    /\ recipients' = [recipients EXCEPT ![p] = @ \ {c}]
    /\ IF wire[c] = "closed" THEN up' = FALSE /\ UNCHANGED chanVars
       ELSE Offered(c, snap[p]) /\ UNCHANGED up
    /\ UNCHANGED <<hubVars, debounce, snap, copied, clients, wire, reply, screen>>

PushDone(p) ==
    /\ up
    /\ p \in copied
    /\ recipients[p] = {}
    /\ copied' = copied \ {p}
    /\ snap' = [snap EXCEPT ![p] = Idles]
    /\ UNCHANGED <<hubVars, debounce, recipients, wireVars, up>>
-----------------------------------------------------------------------------
(* A connection: handleWS, readLoop, writeLoop, close. *)

\* Mutant: a new connection is left to wait for the next change.
RegisterSilently(c) ==
    /\ up
    /\ wire[c] = "new"
    /\ wire' = [wire EXCEPT ![c] = "open"]
    /\ clients' = clients \cup {c}
    /\ UNCHANGED <<hubVars, debounce, workVars, reply, chanVars, screen, up>>

\* Registered first, greeted with a snapshot then.
RegisterClient(c) ==
    /\ up
    /\ wire[c] = "new"
    /\ wire' = [wire EXCEPT ![c] = "open"]
    /\ clients' = clients \cup {c}
    /\ reply' = [reply EXCEPT ![c] = Builds]
    /\ UNCHANGED <<hubVars, debounce, workVars, chanVars, screen, up>>

RefreshAsked(c) ==
    /\ up
    /\ wire[c] = "open"
    /\ reply[c] = Idles
    /\ reply' = [reply EXCEPT ![c] = Builds]
    /\ UNCHANGED <<hubVars, debounce, workVars, clients, wire, chanVars, screen, up>>

BuildReply(c) ==
    /\ up
    /\ reply[c] = Builds
    /\ reply' = [reply EXCEPT ![c] = stats]
    /\ UNCHANGED <<hubVars, debounce, workVars, clients, wire, chanVars, screen, up>>

SendReply(c) ==
    /\ up
    /\ reply[c] \in Seen
    /\ reply' = [reply EXCEPT ![c] = Idles]
    /\ Offered(c, reply[c])
    /\ UNCHANGED <<hubVars, debounce, workVars, clients, wire, screen, up>>

\* writeLoop, and the page that shows what it is sent.
Deliver(c) ==
    /\ up
    /\ wire[c] = "open"
    /\ channel[c] # <<>>
    /\ screen' = [screen EXCEPT ![c] = Head(channel[c])]
    /\ channel' = [channel EXCEPT ![c] = Tail(@)]
    /\ UNCHANGED <<hubVars, debounce, workVars, clients, wire, reply, historyVars, up>>

\* The read loop ends: close unregisters the client, then closes its channel.
Unregister(c) ==
    /\ up
    /\ wire[c] = "open"
    /\ reply[c] = Idles
    /\ wire' = [wire EXCEPT ![c] = "leaving"]
    /\ clients' = clients \ {c}
    /\ UNCHANGED <<hubVars, debounce, workVars, reply, chanVars, screen, up>>

CloseChannel(c) ==
    /\ up
    /\ wire[c] = "leaving"
    /\ wire' = [wire EXCEPT ![c] = "closed"]
    /\ channel' = [channel EXCEPT ![c] = <<>>]
    /\ UNCHANGED <<hubVars, debounce, workVars, clients, reply, screen, historyVars, up>>

PushInit ==
    /\ stats = 0
    /\ owed = 0
    /\ due = 0
    /\ debounce = "nil"
    /\ snap = [p \in Pushes |-> Idles]
    /\ recipients = [p \in Pushes |-> {}]
    /\ copied = {}
    /\ clients = {}
    /\ wire = [c \in Dashboards |-> "new"]
    /\ reply = [c \in Dashboards |-> Idles]
    /\ channel = [c \in Dashboards |-> <<>>]
    /\ screen = [c \in Dashboards |-> 0]
    /\ told = [c \in Dashboards |-> 0]
    /\ missed = {}
    /\ late = {}
    /\ up = TRUE

PushNext ==
    \/ StatsChange \/ SilentChange \/ SchedulePush
    \/ \E p \in Pushes : \/ Fire(p) \/ BuildPayload(p) \/ CopyClients(p) \/ PushDone(p)
                         \/ \E c \in Dashboards : SendTo(p, c)
    \/ \E c \in Dashboards : \/ RegisterClient(c) \/ RefreshAsked(c)
                             \/ BuildReply(c) \/ SendReply(c) \/ Deliver(c)
                             \/ Unregister(c) \/ CloseChannel(c)

\* The timer fires, goroutines that have work go on, connections are written to.
PushFairness ==
    /\ WF_pushVars(SchedulePush)
    /\ WF_pushVars(\E p \in Pushes : Fire(p))
    /\ \A p \in Pushes :
          WF_pushVars(\/ BuildPayload(p) \/ CopyClients(p) \/ PushDone(p)
                      \/ \E c \in Dashboards : SendTo(p, c))
    /\ \A c \in Dashboards : /\ WF_pushVars(BuildReply(c) \/ SendReply(c))
                             /\ WF_pushVars(Deliver(c))

PushSpec == PushInit /\ [][PushNext]_pushVars /\ PushFairness
-----------------------------------------------------------------------------
PushTypeOK ==
    /\ stats \in Seen
    /\ owed \in 0 .. due
    /\ due \in 0 .. stats
    /\ debounce \in {"nil", "set"}
    /\ snap \in [Pushes -> Seen \cup {Builds, Idles}]
    /\ recipients \in [Pushes -> SUBSET Dashboards]
    /\ copied \subseteq Pushes
    /\ \A p \in copied : snap[p] \in Seen
    /\ clients \subseteq Dashboards
    /\ wire \in [Dashboards -> {"new", "open", "leaving", "closed"}]
    /\ reply \in [Dashboards -> Seen \cup {Builds, Idles}]
    /\ channel \in [Dashboards -> Seq(Seen)]
    /\ \A c \in Dashboards : Len(channel[c]) <= ChannelSize
    /\ screen \in [Dashboards -> Seen]
    /\ told \in [Dashboards -> Seen]
    /\ missed \subseteq Dashboards /\ late \subseteq Dashboards
    /\ up \in BOOLEAN

\* A push of the statistics as they are is still to come: a change has yet to be
\* announced, the timer runs, or a push has yet to take its snapshot.
PushToCome == owed > 0 \/ debounce = "set" \/ \E p \in Pushes : snap[p] = Builds

\* A snapshot that shows every change due.
Shows(v) == v \in Seen /\ v >= due

\* Such a snapshot is on its way to client c, in a push or a reply.
OnTheWay(c) ==
    \/ reply[c] = Builds \/ Shows(reply[c])
    \/ \E p \in Pushes : Shows(snap[p]) /\ (p \in copied => c \in recipients[p])

\* No change that calls the hook is forgotten between the hook, the timer, a push and
\* a registration: a client that has missed no message has been sent the statistics
\* with that change, or they are on their way to it or about to be pushed.
NoChangeForgotten ==
    \A c \in clients \ missed : Shows(told[c]) \/ OnTheWay(c) \/ PushToCome

\* A dashboard that stays connected, and whose messages were neither dropped nor
\* overtaken by a later one, ends up with every change that calls the hook, though
\* nothing is pushed or asked for again.
DashboardsLearn ==
    \A c \in Dashboards :
        <>[](up /\ c \in clients \ (missed \cup late)) => <>[]Shows(screen[c])
=============================================================================
