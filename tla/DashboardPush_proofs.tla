------------------------ MODULE DashboardPush_proofs ------------------------
(***************************************************************************)
(* Proofs about DashboardPush, for any number of connections, pushes and   *)
(* changes and any size of the channels.                                   *)
(***************************************************************************)
EXTENDS DashboardPush, TLAPS

USE PushAssumption

\* A send that does not wait leaves a channel no longer than its size, and is noted
\* as sent, or as missed (admin_dashboard.go:135-139, 274-278).
LEMMA OfferedIsTyped ==
  ASSUME PushTypeOK, NEW c \in Dashboards, NEW v \in Seen, Offered(c, v)
  PROVE  /\ channel' \in [Dashboards -> Seq(Seen)]
         /\ \A d \in Dashboards : Len(channel'[d]) <= ChannelSize
         /\ told' \in [Dashboards -> Seen]
         /\ missed' \subseteq Dashboards /\ late' \subseteq Dashboards
<1> USE DEF PushTypeOK, Seen
<1>1. CASE Len(channel[c]) < ChannelSize
  <2>1. /\ channel' = [channel EXCEPT ![c] = Append(@, v)]
        /\ told' = [told EXCEPT ![c] = IF v > @ THEN v ELSE @]
        /\ late' = IF v < told[c] THEN late \cup {c} ELSE late
        /\ UNCHANGED missed
    BY <1>1 DEF Offered
  <2>2. /\ Append(channel[c], v) \in Seq(Seen)
        /\ Len(Append(channel[c], v)) = Len(channel[c]) + 1
    OBVIOUS
  <2>3. channel' \in [Dashboards -> Seq(Seen)]
    BY <2>1, <2>2
  <2>4. \A d \in Dashboards : Len(channel'[d]) <= ChannelSize
    BY <1>1, <2>1, <2>2
  <2> QED
    BY <2>1, <2>3, <2>4
<1>2. CASE ~(Len(channel[c]) < ChannelSize)
  BY <1>2 DEF Offered
<1> QED
  BY <1>1, <1>2

\* The initial values have their types.
LEMMA PushTypeStarts == PushInit => PushTypeOK
BY DEF PushInit, PushTypeOK, Seen

\* Every step keeps them.
LEMMA PushTypeStep == PushTypeOK /\ [PushNext]_pushVars => PushTypeOK'
<1> SUFFICES ASSUME PushTypeOK, [PushNext]_pushVars PROVE PushTypeOK'
  OBVIOUS
<1> USE DEF PushTypeOK, Seen, hubVars, workVars, wireVars, chanVars, historyVars
<1>1. CASE StatsChange
  BY <1>1 DEF StatsChange
<1>2. CASE SchedulePush
  BY <1>2 DEF SchedulePush
<1>3. ASSUME NEW p \in Pushes, Fire(p) PROVE PushTypeOK'
  <2>1. p \notin copied
    BY <1>3 DEF Fire, Idles
  <2> QED
    BY <1>3, <2>1 DEF Fire
<1>4. ASSUME NEW p \in Pushes, BuildPayload(p) PROVE PushTypeOK'
  BY <1>4 DEF BuildPayload
<1>5. ASSUME NEW p \in Pushes, CopyClients(p) PROVE PushTypeOK'
  BY <1>5 DEF CopyClients
<1>6. ASSUME NEW p \in Pushes, PushDone(p) PROVE PushTypeOK'
  BY <1>6 DEF PushDone
<1>7. ASSUME NEW p \in Pushes, NEW c \in Dashboards, SendTo(p, c)
      PROVE  PushTypeOK'
  <2> snap[p] \in Seen
    BY <1>7 DEF SendTo
  <2>1. up' \in BOOLEAN
    BY <1>7 DEF SendTo
  <2>2. recipients' \in [Pushes -> SUBSET Dashboards]
    BY <1>7 DEF SendTo
  <2>3. UNCHANGED <<stats, owed, due, debounce, snap, copied, clients, wire, reply, screen>>
    BY <1>7 DEF SendTo
  <2>4. UNCHANGED chanVars \/ Offered(c, snap[p])
    BY <1>7 DEF SendTo
  <2>5. CASE UNCHANGED chanVars
    BY <2>1, <2>2, <2>3, <2>5
  <2>6. CASE Offered(c, snap[p])
    <3>1. /\ channel' \in [Dashboards -> Seq(Seen)]
          /\ \A d \in Dashboards : Len(channel'[d]) <= ChannelSize
          /\ told' \in [Dashboards -> Seen]
          /\ missed' \subseteq Dashboards /\ late' \subseteq Dashboards
      BY <1>7, <2>6, OfferedIsTyped
    <3> QED
      BY <2>1, <2>2, <2>3, <3>1
  <2> QED
    BY <2>4, <2>5, <2>6
<1>8. ASSUME NEW c \in Dashboards, RegisterClient(c) PROVE PushTypeOK'
  BY <1>8 DEF RegisterClient
<1>9. ASSUME NEW c \in Dashboards, RefreshAsked(c) PROVE PushTypeOK'
  BY <1>9 DEF RefreshAsked
<1>10. ASSUME NEW c \in Dashboards, BuildReply(c) PROVE PushTypeOK'
  BY <1>10 DEF BuildReply
<1>11. ASSUME NEW c \in Dashboards, SendReply(c) PROVE PushTypeOK'
  <2>1. /\ reply' \in [Dashboards -> Seen \cup {Builds, Idles}]
        /\ Offered(c, reply[c]) /\ reply[c] \in Seen
        /\ UNCHANGED <<stats, owed, due, debounce, workVars, clients, wire, screen, up>>
    BY <1>11 DEF SendReply
  <2>2. /\ channel' \in [Dashboards -> Seq(Seen)]
        /\ \A d \in Dashboards : Len(channel'[d]) <= ChannelSize
        /\ told' \in [Dashboards -> Seen]
        /\ missed' \subseteq Dashboards /\ late' \subseteq Dashboards
    BY <2>1, OfferedIsTyped
  <2> QED
    BY <2>1, <2>2
<1>12. ASSUME NEW c \in Dashboards, Deliver(c) PROVE PushTypeOK'
  <2>1. /\ channel[c] # <<>>
        /\ screen' = [screen EXCEPT ![c] = Head(channel[c])]
        /\ channel' = [channel EXCEPT ![c] = Tail(channel[c])]
        /\ UNCHANGED <<stats, owed, due, debounce, workVars, clients, wire, reply, historyVars, up>>
    BY <1>12 DEF Deliver
  <2>2. /\ Head(channel[c]) \in Seen
        /\ Tail(channel[c]) \in Seq(Seen)
        /\ Len(Tail(channel[c])) = Len(channel[c]) - 1
    BY <2>1
  <2>3. Len(channel[c]) - 1 <= ChannelSize
    OBVIOUS
  <2> QED
    BY <2>1, <2>2, <2>3
<1>13. ASSUME NEW c \in Dashboards, Unregister(c) PROVE PushTypeOK'
  BY <1>13 DEF Unregister
<1>14. ASSUME NEW c \in Dashboards, CloseChannel(c) PROVE PushTypeOK'
  BY <1>14 DEF CloseChannel
<1>15. CASE SilentChange
  BY <1>15 DEF SilentChange
<1>16. CASE UNCHANGED pushVars
  BY <1>16 DEF pushVars
<1> QED
  BY <1>1, <1>2, <1>3, <1>4, <1>5, <1>6, <1>7, <1>8, <1>9, <1>10, <1>11, <1>12,
     <1>13, <1>14, <1>15, <1>16 DEF PushNext

\* Every variable keeps its type; no more changes are owed than were made, and no
\* channel is longer than its size.
THEOREM PushTypeCorrect == PushSpec => []PushTypeOK
BY PushTypeStarts, PushTypeStep, PTL DEF PushSpec

\* A registered client has not begun to close: its channel takes what is sent.
ClientsAreOpen == \A c \in clients : wire[c] = "open"

\* The inductive invariant.
PushInvariant == PushTypeOK /\ ClientsAreOpen /\ NoChangeForgotten

\* What is sent to a client is what it has been told, or it has missed it.
LEMMA OfferedIsTold ==
  ASSUME PushTypeOK, NEW c \in Dashboards, NEW v \in Seen, Offered(c, v), due' = due
  PROVE  /\ Shows(v) => Shows(told[c])' \/ c \in missed'
         /\ \A d \in Dashboards : Shows(told[d]) => Shows(told[d])'
         /\ missed \subseteq missed'
<1> USE DEF PushTypeOK, Seen, Shows
<1>1. CASE Len(channel[c]) < ChannelSize
  <2>1. /\ told' = [told EXCEPT ![c] = IF v > @ THEN v ELSE @]
        /\ UNCHANGED missed
    BY <1>1 DEF Offered
  <2> QED
    BY <2>1
<1>2. CASE ~(Len(channel[c]) < ChannelSize)
  BY <1>2 DEF Offered
<1> QED
  BY <1>1, <1>2

\* A client is unregistered before its channel is closed (admin_dashboard.go:293-297).
LEMMA OpenStaysOpen ==
  ASSUME PushTypeOK, ClientsAreOpen, [PushNext]_pushVars
  PROVE  ClientsAreOpen'
<1> USE DEF PushTypeOK, ClientsAreOpen, hubVars, workVars, wireVars
<1>1. ASSUME NEW c \in Dashboards, RegisterClient(c) PROVE ClientsAreOpen'
  BY <1>1 DEF RegisterClient
<1>2. ASSUME NEW c \in Dashboards, Unregister(c) PROVE ClientsAreOpen'
  BY <1>2 DEF Unregister
<1>3. ASSUME NEW c \in Dashboards, CloseChannel(c) PROVE ClientsAreOpen'
  BY <1>3 DEF CloseChannel
<1>4. CASE UNCHANGED <<clients, wire>>
  BY <1>4
<1> QED
  BY <1>1, <1>2, <1>3, <1>4 DEF PushNext, pushVars, StatsChange, SilentChange, SchedulePush, Fire,
     BuildPayload, CopyClients, PushDone, SendTo, RefreshAsked, BuildReply, SendReply, Deliver

\* No change of the statistics that calls the hook is forgotten: a connected dashboard
\* that has missed no message has been sent statistics with it, or is going to be: they
\* are on their way to it, in a push that has not passed it by or in a reply, or a push
\* has yet to take its snapshot (scheduleHubPush clears the timer first, handleWS
\* registers before the greeting, close unregisters first).
THEOREM ChangesReachDashboards == PushSpec => []NoChangeForgotten
<1>1. PushInit => PushInvariant
  BY DEF PushInit, PushInvariant, PushTypeOK, ClientsAreOpen,
         NoChangeForgotten, Seen, Idles
<1>2. PushInvariant /\ PushTypeOK' /\ [PushNext]_pushVars => PushInvariant'
  <2> SUFFICES ASSUME PushInvariant, PushTypeOK', [PushNext]_pushVars
               PROVE  NoChangeForgotten'
    BY OpenStaysOpen DEF PushInvariant
  <2> USE DEF PushInvariant, PushTypeOK, NoChangeForgotten,
              PushToCome, OnTheWay, Shows, Seen, Builds, Idles,
              hubVars, workVars, wireVars, chanVars, historyVars
  <2>1. CASE StatsChange
    BY <2>1 DEF StatsChange
  <2>2. CASE SchedulePush
    BY <2>2 DEF SchedulePush
  <2>3. ASSUME NEW p \in Pushes, Fire(p) PROVE NoChangeForgotten'
    BY <2>3 DEF Fire
  <2>4. ASSUME NEW p \in Pushes, BuildPayload(p) PROVE NoChangeForgotten'
    BY <2>4 DEF BuildPayload
  <2>5. ASSUME NEW p \in Pushes, CopyClients(p) PROVE NoChangeForgotten'
    BY <2>5 DEF CopyClients
  <2>6. ASSUME NEW p \in Pushes, PushDone(p) PROVE NoChangeForgotten'
    <3>1. /\ snap' = [snap EXCEPT ![p] = Idles]
          /\ copied' = copied \ {p}
          /\ p \in copied /\ recipients[p] = {}
          /\ UNCHANGED <<stats, owed, due, debounce, recipients, clients, reply, told, missed>>
      BY <2>6 DEF PushDone
    <3>2. \A q \in Pushes : q # p => snap'[q] = snap[q] /\ (q \in copied' <=> q \in copied)
      BY <3>1
    <3>3. snap[p] # Builds /\ snap'[p] = Idles
      BY <3>1
    <3>4. ASSUME NEW d \in clients \ missed
          PROVE  (Shows(told[d]) \/ OnTheWay(d) \/ PushToCome)'
      <4>1. PushToCome => PushToCome'
        BY <3>1, <3>2, <3>3
      <4>2. OnTheWay(d) => OnTheWay(d)'
        BY <3>1, <3>2
      <4> QED
        BY <3>1, <4>1, <4>2
    <3> QED
      BY <3>1, <3>4
  <2>7. ASSUME NEW p \in Pushes, NEW c \in Dashboards, SendTo(p, c)
        PROVE  NoChangeForgotten'
    <3>1. /\ p \in copied /\ c \in recipients[p]
          /\ recipients' = [recipients EXCEPT ![p] = @ \ {c}]
          /\ UNCHANGED <<stats, owed, due, debounce, snap, copied, clients, wire, reply>>
          /\ IF wire[c] = "closed" THEN UNCHANGED chanVars ELSE Offered(c, snap[p])
      BY <2>7 DEF SendTo
    <3>2. PushToCome => PushToCome'
      BY <3>1
    <3>3. /\ \A d \in Dashboards : d # c /\ OnTheWay(d) => OnTheWay(d)'
          /\ OnTheWay(c) => OnTheWay(c)' \/ Shows(snap[p])
      BY <3>1
    <3>4. CASE wire[c] = "closed"
      <4>1. c \notin clients /\ UNCHANGED <<told, missed>>
        BY <3>1, <3>4 DEF ClientsAreOpen
      <4> QED
        BY <3>1, <3>2, <3>3, <4>1
    <3>5. CASE wire[c] # "closed"
      <4>1. snap[p] \in Seen
        BY <3>1
      <4>2. /\ Shows(snap[p]) => Shows(told[c])' \/ c \in missed'
            /\ \A d \in Dashboards : Shows(told[d]) => Shows(told[d])'
            /\ missed \subseteq missed'
        BY <3>1, <3>5, <4>1, OfferedIsTold
      <4>3. ASSUME NEW d \in clients' \ missed'
            PROVE  (Shows(told[d]) \/ OnTheWay(d) \/ PushToCome)'
        <5>1. d \in Dashboards /\ d \in clients \ missed
          BY <3>1, <4>2, <4>3
        <5>2. Shows(told[d]) \/ OnTheWay(d) \/ PushToCome
          BY <5>1
        <5> HIDE DEF PushInvariant, PushTypeOK, NoChangeForgotten, PushToCome, OnTheWay, Shows
        <5> QED
          BY <3>2, <3>3, <4>2, <4>3, <5>1, <5>2
      <4> QED
        BY <4>3
    <3> QED
      BY <3>4, <3>5
  <2>8. ASSUME NEW c \in Dashboards, RegisterClient(c) PROVE NoChangeForgotten'
    <3>1. /\ reply' = [reply EXCEPT ![c] = Builds]
          /\ UNCHANGED <<stats, owed, due, debounce, snap, recipients, copied, told, missed>>
          /\ clients' = clients \cup {c}
      BY <2>8 DEF RegisterClient
    <3>2. reply'[c] = Builds /\ \A d \in Dashboards : d # c => reply'[d] = reply[d]
      BY <3>1
    <3>3. \A d \in Dashboards : OnTheWay(d) \/ d = c => OnTheWay(d)'
      BY <3>1, <3>2
    <3>4. PushToCome => PushToCome'
      BY <3>1
    <3> QED
      BY <3>1, <3>3, <3>4
  <2>9. ASSUME NEW c \in Dashboards, RefreshAsked(c) PROVE NoChangeForgotten'
    <3>1. /\ reply' = [reply EXCEPT ![c] = Builds]
          /\ UNCHANGED <<stats, owed, due, debounce, snap, recipients, copied, clients, told, missed>>
      BY <2>9 DEF RefreshAsked
    <3>2. reply'[c] = Builds /\ \A d \in Dashboards : d # c => reply'[d] = reply[d]
      BY <3>1
    <3>3. \A d \in Dashboards : OnTheWay(d) \/ d = c => OnTheWay(d)'
      BY <3>1, <3>2
    <3>4. PushToCome => PushToCome'
      BY <3>1
    <3> QED
      BY <3>1, <3>3, <3>4
  <2>10. ASSUME NEW c \in Dashboards, BuildReply(c) PROVE NoChangeForgotten'
    <3>1. /\ reply' = [reply EXCEPT ![c] = stats]
          /\ UNCHANGED <<stats, owed, due, debounce, snap, recipients, copied, clients, told, missed>>
      BY <2>10 DEF BuildReply
    <3>2. reply'[c] = stats /\ \A d \in Dashboards : d # c => reply'[d] = reply[d]
      BY <3>1
    <3>3. \A d \in Dashboards : OnTheWay(d) \/ d = c => OnTheWay(d)'
      BY <3>1, <3>2
    <3>4. PushToCome => PushToCome'
      BY <3>1
    <3> QED
      BY <3>1, <3>3, <3>4
  <2>11. ASSUME NEW c \in Dashboards, SendReply(c) PROVE NoChangeForgotten'
    <3>1. /\ reply[c] \in Seen /\ Offered(c, reply[c])
          /\ reply' = [reply EXCEPT ![c] = Idles]
          /\ UNCHANGED <<stats, owed, due, debounce, snap, recipients, copied, clients>>
      BY <2>11 DEF SendReply
    <3>2. /\ Shows(reply[c]) => Shows(told[c])' \/ c \in missed'
          /\ \A d \in Dashboards : Shows(told[d]) => Shows(told[d])'
          /\ missed \subseteq missed'
      BY <3>1, OfferedIsTold
    <3>3. reply'[c] = Idles /\ \A d \in Dashboards : d # c => reply'[d] = reply[d]
      BY <3>1
    <3>4. /\ \A d \in Dashboards : d # c /\ OnTheWay(d) => OnTheWay(d)'
          /\ OnTheWay(c) => OnTheWay(c)' \/ Shows(reply[c])
      BY <3>1, <3>3
    <3>5. PushToCome => PushToCome'
      BY <3>1
    <3>6. ASSUME NEW d \in clients' \ missed'
          PROVE  (Shows(told[d]) \/ OnTheWay(d) \/ PushToCome)'
      <4>1. d \in Dashboards /\ d \in clients \ missed
        BY <3>1, <3>2, <3>6
      <4>2. Shows(told[d]) \/ OnTheWay(d) \/ PushToCome
        BY <4>1
      <4> HIDE DEF PushInvariant, PushTypeOK, NoChangeForgotten, PushToCome, OnTheWay, Shows
      <4> QED
        BY <3>2, <3>4, <3>5, <3>6, <4>1, <4>2
    <3> QED
      BY <3>6
  <2>12. ASSUME NEW c \in Dashboards, Deliver(c) PROVE NoChangeForgotten'
    BY <2>12 DEF Deliver
  <2>13. ASSUME NEW c \in Dashboards, Unregister(c) PROVE NoChangeForgotten'
    BY <2>13 DEF Unregister
  <2>14. ASSUME NEW c \in Dashboards, CloseChannel(c) PROVE NoChangeForgotten'
    BY <2>14 DEF CloseChannel
  <2>15. CASE SilentChange
    BY <2>15 DEF SilentChange
  <2>16. CASE UNCHANGED pushVars
    BY <2>16 DEF pushVars
  <2> HIDE DEF PushInvariant, NoChangeForgotten
  <2> QED
    BY <2>1, <2>2, <2>3, <2>4, <2>5, <2>6, <2>7, <2>8, <2>9, <2>10, <2>11, <2>12,
       <2>13, <2>14, <2>15, <2>16 DEF PushNext
<1>3. PushInvariant => NoChangeForgotten
  BY DEF PushInvariant
<1> QED
  BY <1>1, <1>2, <1>3, PushTypeCorrect, PTL DEF PushSpec
=============================================================================
