-------------------------- MODULE PeerView_proofs ---------------------------
(****************************************************************************)
(* What the members of a meeting know of each other, for any number of     *)
(* clients and any capacity of their channels. A client's view lags behind *)
(* the room by what is in its channel; what it will be once that is read   *)
(* can be compared with the room in every state.                           *)
(****************************************************************************)
EXTENDS PeerView, SequenceTheorems, TLAPS

\* What a reader of channel q will end up with, of something that is `on' now,
\* that the messages `ups' turn on and the messages `downs' turn off: the last of
\* them decides. It is stated without recursion, so that the provers can reason
\* about it.
Settles(q, on, ups, downs) ==
    \/ on /\ \A n \in DOMAIN q : q[n] \notin downs
    \/ \E n \in DOMAIN q : q[n] \in ups /\ \A k \in DOMAIN q : k > n => q[k] \notin downs

\* The positions of a channel and the messages in it.
LEMMA QueueDomain ==
  ASSUME NEW q \in Seq(Messages)
  PROVE  Len(q) \in Nat /\ DOMAIN q = 1 .. Len(q) /\ \A n \in DOMAIN q : q[n] \in Messages
  BY LenProperties, ElementOfSeq

\* An empty channel changes nothing.
LEMMA SettlesEmpty ==
  ASSUME NEW on \in BOOLEAN, NEW ups, NEW downs
  PROVE  Settles(<<>>, on, ups, downs) <=> on
  BY DEF Settles

\* A message that is added decides, unless it says nothing.
LEMMA SettlesAppend ==
  ASSUME NEW q \in Seq(Messages), NEW m \in Messages, NEW on \in BOOLEAN, NEW ups, NEW downs,
         m \notin ups \/ m \notin downs
  PROVE  Settles(Append(q, m), on, ups, downs)
            <=> m \in ups \/ (m \notin downs /\ Settles(q, on, ups, downs))
<1> DEFINE r == Append(q, m)
           l == Len(q)
<1>1. /\ l \in Nat /\ DOMAIN q = 1 .. l /\ DOMAIN r = 1 .. l + 1
      /\ r[l + 1] = m /\ \A n \in 1 .. l : r[n] = q[n]
  BY QueueDomain, AppendProperties
<1> HIDE DEF r, l
<1>2. (\A n \in DOMAIN r : r[n] \notin downs) <=> m \notin downs /\ \A n \in DOMAIN q : q[n] \notin downs
  BY <1>1
<1>3. ASSUME NEW n \in 1 .. l
      PROVE  (\A k \in DOMAIN r : k > n => r[k] \notin downs)
                <=> m \notin downs /\ \A k \in DOMAIN q : k > n => q[k] \notin downs
  BY <1>1
<1>4. \A k \in DOMAIN r : k > l + 1 => r[k] \notin downs
  BY <1>1
<1>5. Settles(r, on, ups, downs) <=>
        \/ on /\ \A n \in DOMAIN r : r[n] \notin downs
        \/ \E n \in DOMAIN r : r[n] \in ups /\ \A k \in DOMAIN r : k > n => r[k] \notin downs
  BY DEF Settles
<1>6. Settles(q, on, ups, downs) <=>
        \/ on /\ \A n \in DOMAIN q : q[n] \notin downs
        \/ \E n \in DOMAIN q : q[n] \in ups /\ \A k \in DOMAIN q : k > n => q[k] \notin downs
  BY DEF Settles
<1>7. ASSUME Settles(r, on, ups, downs)
      PROVE  m \in ups \/ (m \notin downs /\ Settles(q, on, ups, downs))
  <2>1. CASE \A n \in DOMAIN r : r[n] \notin downs
    BY <1>1, <1>2, <1>3, <1>5, <1>6, <1>7, <2>1
  <2>2. ASSUME NEW n \in DOMAIN r, r[n] \in ups, \A k \in DOMAIN r : k > n => r[k] \notin downs
        PROVE  m \in ups \/ (m \notin downs /\ Settles(q, on, ups, downs))
    <3>1. CASE n = l + 1
      BY <1>1, <2>2, <3>1
    <3>2. CASE n # l + 1
      <4>1. n \in 1 .. l
        BY <1>1, <3>2
      <4> QED
        BY <1>1, <1>3, <1>6, <2>2, <4>1
    <3> QED
      BY <3>1, <3>2
  <2> QED
    BY <1>5, <1>7, <2>1, <2>2
<1>8. ASSUME m \in ups PROVE Settles(r, on, ups, downs)
  <2>1. l + 1 \in DOMAIN r /\ r[l + 1] \in ups
    BY <1>1, <1>8
  <2> QED
    BY <1>4, <1>5, <2>1
<1>9. ASSUME m \notin downs, Settles(q, on, ups, downs) PROVE Settles(r, on, ups, downs)
  <2>1. CASE on /\ \A n \in DOMAIN q : q[n] \notin downs
    BY <1>2, <1>5, <1>9, <2>1
  <2>2. ASSUME NEW n \in DOMAIN q, q[n] \in ups, \A k \in DOMAIN q : k > n => q[k] \notin downs
        PROVE  Settles(r, on, ups, downs)
    <3>1. n \in 1 .. l /\ n \in DOMAIN r /\ r[n] \in ups
      BY <1>1, <2>2
    <3> QED
      BY <1>3, <1>5, <1>9, <2>2, <3>1
  <2> QED
    BY <1>6, <1>9, <2>1, <2>2
<1> QED
  BY <1>7, <1>8, <1>9 DEF r

\* Reading the first message does not change what the reader will end up with.
LEMMA SettlesTail ==
  ASSUME NEW q \in Seq(Messages), q # <<>>, NEW on \in BOOLEAN, NEW on2 \in BOOLEAN,
         NEW ups, NEW downs, Head(q) \notin ups \/ Head(q) \notin downs,
         on2 <=> Head(q) \in ups \/ (on /\ Head(q) \notin downs)
  PROVE  Settles(Tail(q), on2, ups, downs) <=> Settles(q, on, ups, downs)
<1> DEFINE t == Tail(q)
           l == Len(t)
           h == Head(q)
<1>1. /\ l \in Nat /\ DOMAIN t = 1 .. l /\ DOMAIN q = 1 .. l + 1 /\ q[1] = h
      /\ \A n \in 1 .. l : t[n] = q[n + 1]
  BY QueueDomain, HeadTailProperties
<1>2. on2 <=> h \in ups \/ (on /\ h \notin downs)
  OBVIOUS
<1> HIDE DEF t, l, h
<1>3. \A n \in DOMAIN q : n = 1 \/ (n - 1 \in 1 .. l /\ t[n - 1] = q[n])
  <2> SUFFICES ASSUME NEW n \in DOMAIN q, n # 1 PROVE n - 1 \in 1 .. l /\ t[n - 1] = q[n]
    OBVIOUS
  <2>1. n - 1 \in 1 .. l /\ (n - 1) + 1 = n
    BY <1>1
  <2> QED
    BY <1>1, <2>1
<1>4. \A n \in 1 .. l : n + 1 \in DOMAIN q /\ n + 1 # 1 /\ t[n] = q[n + 1]
  BY <1>1
<1>5. (\A n \in DOMAIN q : q[n] \notin downs) <=> h \notin downs /\ \A n \in DOMAIN t : t[n] \notin downs
  <2>1. ASSUME \A n \in DOMAIN q : q[n] \notin downs
        PROVE  h \notin downs /\ \A n \in DOMAIN t : t[n] \notin downs
    <3>1. 1 \in DOMAIN q
      BY <1>1
    <3> QED
      BY <1>1, <1>4, <2>1, <3>1
  <2>2. ASSUME h \notin downs, \A n \in DOMAIN t : t[n] \notin downs, NEW n \in DOMAIN q
        PROVE  q[n] \notin downs
    BY <1>1, <1>3, <2>2
  <2> QED
    BY <2>1, <2>2
<1>6. (\A k \in DOMAIN q : k > 1 => q[k] \notin downs) <=> \A n \in DOMAIN t : t[n] \notin downs
  <2>1. \A k \in DOMAIN q : k > 1 <=> k # 1
    BY <1>1
  <2> QED
    BY <1>1, <1>3, <1>4, <2>1
<1>7. ASSUME NEW n \in 1 .. l
      PROVE  (\A k \in DOMAIN q : k > n + 1 => q[k] \notin downs)
                <=> \A k \in DOMAIN t : k > n => t[k] \notin downs
  <2>1. ASSUME \A k \in DOMAIN q : k > n + 1 => q[k] \notin downs, NEW k \in DOMAIN t, k > n
        PROVE  t[k] \notin downs
    <3>1. k \in 1 .. l /\ k + 1 > n + 1
      BY <1>1, <2>1
    <3> QED
      BY <1>4, <2>1, <3>1
  <2>2. ASSUME \A k \in DOMAIN t : k > n => t[k] \notin downs, NEW k \in DOMAIN q, k > n + 1
        PROVE  q[k] \notin downs
    <3>1. k # 1 /\ k - 1 > n
      BY <1>1, <2>2
    <3> QED
      BY <1>1, <1>3, <2>2, <3>1
  <2> QED
    BY <2>1, <2>2
<1>8. Settles(t, on2, ups, downs) <=>
        \/ on2 /\ \A n \in DOMAIN t : t[n] \notin downs
        \/ \E n \in DOMAIN t : t[n] \in ups /\ \A k \in DOMAIN t : k > n => t[k] \notin downs
  BY DEF Settles
<1>9. Settles(q, on, ups, downs) <=>
        \/ on /\ \A n \in DOMAIN q : q[n] \notin downs
        \/ \E n \in DOMAIN q : q[n] \in ups /\ \A k \in DOMAIN q : k > n => q[k] \notin downs
  BY DEF Settles
<1>10. ASSUME Settles(q, on, ups, downs) PROVE Settles(t, on2, ups, downs)
  <2>1. CASE on /\ \A n \in DOMAIN q : q[n] \notin downs
    BY <1>2, <1>5, <1>8, <2>1
  <2>2. ASSUME NEW n \in DOMAIN q, q[n] \in ups, \A k \in DOMAIN q : k > n => q[k] \notin downs
        PROVE  Settles(t, on2, ups, downs)
    <3>1. CASE n = 1
      BY <1>1, <1>2, <1>6, <1>8, <2>2, <3>1
    <3>2. CASE n # 1
      <4>1. n - 1 \in 1 .. l /\ t[n - 1] = q[n] /\ (n - 1) + 1 = n
        BY <1>1, <1>3, <2>2, <3>2
      <4>2. \A k \in DOMAIN t : k > n - 1 => t[k] \notin downs
        BY <1>7, <2>2, <4>1
      <4>3. n - 1 \in DOMAIN t /\ t[n - 1] \in ups
        BY <1>1, <2>2, <4>1
      <4> QED
        BY <1>8, <4>2, <4>3
    <3> QED
      BY <3>1, <3>2
  <2> QED
    BY <1>9, <1>10, <2>1, <2>2
<1>11. ASSUME Settles(t, on2, ups, downs) PROVE Settles(q, on, ups, downs)
  <2>1. CASE on2 /\ \A n \in DOMAIN t : t[n] \notin downs
    <3>1. CASE h \in ups
      <4>1. 1 \in DOMAIN q /\ q[1] \in ups
        BY <1>1, <3>1
      <4> QED
        BY <1>6, <1>9, <2>1, <4>1
    <3>2. CASE on /\ h \notin downs
      BY <1>5, <1>9, <2>1, <3>2
    <3> QED
      BY <1>2, <2>1, <3>1, <3>2
  <2>2. ASSUME NEW n \in DOMAIN t, t[n] \in ups, \A k \in DOMAIN t : k > n => t[k] \notin downs
        PROVE  Settles(q, on, ups, downs)
    <3>1. n \in 1 .. l /\ n + 1 \in DOMAIN q /\ q[n + 1] \in ups
      BY <1>1, <1>4, <2>2
    <3>2. \A k \in DOMAIN q : k > n + 1 => q[k] \notin downs
      BY <1>7, <2>2, <3>1
    <3> QED
      BY <1>9, <3>1, <3>2
  <2> QED
    BY <1>8, <1>11, <2>1, <2>2
<1> QED
  BY <1>10, <1>11 DEF t

\* The answers to a join, and the messages about one peer.
Joinings == [type : {"joined"}, peers : SUBSET Clients, streams : SUBSET Clients]
News(types, p) == [type : types, from : {p}]

\* The messages that make p's stream appear or disappear in a browser, and those
\* that make p itself known or forgotten.
Starting(p) == News({"peer-stream-started"}, p) \cup {m \in Joinings : p \in m.streams}
Ending(p) == News({"peer-stream-stopped", "peer-left"}, p)
Naming(p) == News({"peer-joined", "peer-stream-started"}, p)
             \cup {m \in Joinings : p \in m.peers \cup m.streams}
Leaving(p) == News({"peer-left"}, p)

\* Will v pull p's stream, and will v know p, once v has read its channel?
WillStream(v, p) == Settles(queue[v], view[v][p] = "stream", Starting(p), Ending(p))
WillKnow(v, p) == Settles(queue[v], view[v][p] # "absent", Naming(p), Leaving(p))

\* A message is an answer to a join or says one word about one client.
LEMMA MessageKinds ==
  ASSUME NEW m \in Messages
  PROVE  \/ m \in Joinings /\ m.type = "joined" /\ m.peers \subseteq Clients /\ m.streams \subseteq Clients
         \/ /\ m \notin Joinings
            /\ m.type \in {"peer-joined", "peer-stream-started", "peer-stream-stopped", "peer-left"}
            /\ m.from \in Clients
            /\ m = [type |-> m.type, from |-> m.from]
  BY DEF Messages, Joinings

\* What an answer to a join says of p.
LEMMA JoiningsTell ==
  ASSUME NEW m \in Joinings, NEW p \in Clients
  PROVE  /\ m \in Messages
         /\ m \in Starting(p) <=> p \in m.streams
         /\ m \in Naming(p) <=> p \in m.peers \cup m.streams
         /\ m \notin Ending(p) /\ m \notin Leaving(p)
  BY DEF Joinings, Messages, Starting, Naming, Ending, Leaving, News

\* What a word about c says of p.
LEMMA WordsTell ==
  ASSUME NEW t \in {"peer-joined", "peer-stream-started", "peer-stream-stopped", "peer-left"},
         NEW c \in Clients, NEW p \in Clients
  PROVE  LET m == [type |-> t, from |-> c] IN
         /\ m \in Messages
         /\ m \in Starting(p) <=> p = c /\ t = "peer-stream-started"
         /\ m \in Naming(p) <=> p = c /\ t \in {"peer-joined", "peer-stream-started"}
         /\ m \in Ending(p) <=> p = c /\ t \in {"peer-stream-stopped", "peer-left"}
         /\ m \in Leaving(p) <=> p = c /\ t = "peer-left"
<1> DEFINE m == [type |-> t, from |-> c]
<1>1. m \in Messages /\ m \notin Joinings
  BY DEF Messages, Joinings
<1>2. \A T : m \in News(T, p) <=> t \in T /\ c = p
  BY DEF News
<1> HIDE DEF m
<1> QED
  BY <1>1, <1>2 DEF Starting, Naming, Ending, Leaving, m

\* No message says yes and no of the same client.
LEMMA Apart ==
  ASSUME NEW m \in Messages, NEW p \in Clients
  PROVE  (m \notin Starting(p) \/ m \notin Ending(p)) /\ (m \notin Naming(p) \/ m \notin Leaving(p))
<1>1. CASE m \in Joinings
  BY <1>1, JoiningsTell
<1>2. CASE m \notin Joinings
  BY <1>2, MessageKinds, WordsTell
<1> QED
  BY <1>1, <1>2

\* The browser's handlers (app.js) do what the four sets of messages say.
LEMMA SeenIsRight ==
  ASSUME NEW m \in Messages, NEW old \in [Clients -> Views], NEW p \in Clients
  PROVE  /\ Seen(old, m) \in [Clients -> Views]
         /\ Seen(old, m)[p] = "stream" <=> m \in Starting(p) \/ (old[p] = "stream" /\ m \notin Ending(p))
         /\ Seen(old, m)[p] # "absent" <=> m \in Naming(p) \/ (old[p] # "absent" /\ m \notin Leaving(p))
<1>1. CASE m \in Joinings
  <2>1. m.type = "joined"
    BY <1>1 DEF Joinings
  <2>2. Seen(old, m) = [x \in Clients |-> IF x \in m.streams THEN "stream"
                               ELSE IF x \in m.peers /\ old[x] = "absent"
                               THEN "tile" ELSE old[x]]
    BY <2>1 DEF Seen
  <2> QED
    BY <1>1, <2>2, JoiningsTell DEF Views
<1>2. CASE m \notin Joinings
  <2>1. /\ m.from \in Clients /\ m = [type |-> m.type, from |-> m.from]
        /\ m.type \in {"peer-joined", "peer-stream-started", "peer-stream-stopped", "peer-left"}
    BY <1>2, MessageKinds
  <2> DEFINE t == m.type
             c == m.from
  <2>2. /\ m \in Starting(p) <=> p = c /\ t = "peer-stream-started"
        /\ m \in Naming(p) <=> p = c /\ t \in {"peer-joined", "peer-stream-started"}
        /\ m \in Ending(p) <=> p = c /\ t \in {"peer-stream-stopped", "peer-left"}
        /\ m \in Leaving(p) <=> p = c /\ t = "peer-left"
    BY <2>1, WordsTell
  <2>3. CASE t = "peer-joined"
    <3>1. Seen(old, m) = [old EXCEPT ![c] = IF @ = "absent" THEN "tile" ELSE @]
      BY <2>3 DEF Seen
    <3> QED
      BY <2>1, <2>2, <2>3, <3>1 DEF Views
  <2>4. CASE t = "peer-stream-started"
    <3>1. Seen(old, m) = [old EXCEPT ![c] = "stream"]
      BY <2>4 DEF Seen
    <3> QED
      BY <2>1, <2>2, <2>4, <3>1 DEF Views
  <2>5. CASE t = "peer-stream-stopped"
    <3>1. Seen(old, m) = [old EXCEPT ![c] = IF @ = "absent" THEN "absent" ELSE "tile"]
      BY <2>5 DEF Seen
    <3> QED
      BY <2>1, <2>2, <2>5, <3>1 DEF Views
  <2>6. CASE t = "peer-left"
    <3>1. Seen(old, m) = [old EXCEPT ![c] = "absent"]
      BY <2>6 DEF Seen
    <3> QED
      BY <2>1, <2>2, <2>6, <3>1 DEF Views
  <2> QED
    BY <2>1, <2>3, <2>4, <2>5, <2>6
<1> QED
  BY <1>1, <1>2

\* TypeOK, with the channels' bound stated apart.
PeerTyped ==
    /\ present \subseteq Clients
    /\ pc \in [Clients -> PCs]
    /\ cam \in [Clients -> BOOLEAN]
    /\ snap \in [Clients -> Messages \cup {<<>>}]
    /\ todo \in [Clients -> SUBSET Clients]
    /\ armed \in [Clients -> Clients \cup {Nobody}]
    /\ queue \in [Clients -> Seq(Messages)]
    /\ \A c \in Clients : Len(queue[c]) <= Cap
    /\ closed \in [Clients -> BOOLEAN]
    /\ view \in [Clients -> [Clients -> Views]]
    /\ after \subseteq Clients \X Clients
    /\ lossy \subseteq Clients
    /\ panicked \subseteq Clients

\* It changes with the channel and the view alone.
LEMMA OthersUnmoved ==
  ASSUME NEW w \in Clients, queue'[w] = queue[w], view'[w] = view[w], NEW p \in Clients
  PROVE  (WillStream(w, p)' <=> WillStream(w, p)) /\ (WillKnow(w, p)' <=> WillKnow(w, p))
  BY DEF WillStream, WillKnow, Settles, Starting, Ending, Naming, Leaving, News, Joinings

\* A message that is offered decides, or it is lost and the recipient is known to
\* have lost one (Client.send drops when the channel is full).
LEMMA OfferedMessage ==
  ASSUME PeerTyped, NEW v \in Clients, NEW m \in Messages, Offer(v, m),
         view' = view, NEW p \in Clients
  PROVE  \/ /\ WillStream(v, p)' <=> m \in Starting(p) \/ (m \notin Ending(p) /\ WillStream(v, p))
            /\ WillKnow(v, p)' <=> m \in Naming(p) \/ (m \notin Leaving(p) /\ WillKnow(v, p))
         \/ /\ v \in lossy'
            /\ WillStream(v, p)' <=> WillStream(v, p)
            /\ WillKnow(v, p)' <=> WillKnow(v, p)
<1> DEFINE q == queue[v]
           pulled == view[v][p] = "stream"
           known == view[v][p] # "absent"
<1>0. CASE ~(Len(queue[v]) < Cap)
  <2>1. v \in lossy' /\ queue' = queue
    BY <1>0 DEF Offer
  <2> QED
    BY <2>1, OthersUnmoved
<1> SUFFICES ASSUME Len(queue[v]) < Cap
             PROVE  /\ WillStream(v, p)' <=> m \in Starting(p) \/ (m \notin Ending(p) /\ WillStream(v, p))
                    /\ WillKnow(v, p)' <=> m \in Naming(p) \/ (m \notin Leaving(p) /\ WillKnow(v, p))
  BY <1>0
<1>1. queue' = [queue EXCEPT ![v] = Append(@, m)] /\ queue \in [Clients -> Seq(Messages)]
  BY DEF Offer, PeerTyped
<1>2. queue'[v] = Append(q, m) /\ q \in Seq(Messages)
  BY <1>1
<1>3. pulled \in BOOLEAN /\ known \in BOOLEAN
  OBVIOUS
<1>4. /\ m \notin Starting(p) \/ m \notin Ending(p)
      /\ m \notin Naming(p) \/ m \notin Leaving(p)
  BY Apart
<1>5. /\ WillStream(v, p) = Settles(q, pulled, Starting(p), Ending(p))
      /\ WillKnow(v, p) = Settles(q, known, Naming(p), Leaving(p))
  BY DEF WillStream, WillKnow
<1>6. /\ WillStream(v, p)' = Settles(Append(q, m), pulled, Starting(p), Ending(p))
      /\ WillKnow(v, p)' = Settles(Append(q, m), known, Naming(p), Leaving(p))
  BY <1>2 DEF WillStream, WillKnow, Starting, Ending, Naming, Leaving, News, Joinings
<1> HIDE DEF pulled, known, q
<1>7. Settles(Append(q, m), pulled, Starting(p), Ending(p))
        <=> m \in Starting(p) \/ (m \notin Ending(p) /\ Settles(q, pulled, Starting(p), Ending(p)))
  BY <1>2, <1>3, <1>4, SettlesAppend
<1>8. Settles(Append(q, m), known, Naming(p), Leaving(p))
        <=> m \in Naming(p) \/ (m \notin Leaving(p) /\ Settles(q, known, Naming(p), Leaving(p)))
  BY <1>2, <1>3, <1>4, SettlesAppend
<1> QED
  BY <1>5, <1>6, <1>7, <1>8

\* Reading a message changes nothing of what a client will know.
LEMMA ReceivedMessage ==
  ASSUME PeerTyped, NEW v \in Clients, Receive(v), NEW p \in Clients
  PROVE  (WillStream(v, p)' <=> WillStream(v, p)) /\ (WillKnow(v, p)' <=> WillKnow(v, p))
<1> DEFINE q == queue[v]
           m == Head(q)
           old == view[v]
           pulled == view[v][p] = "stream"
           known == view[v][p] # "absent"
           pulled2 == view'[v][p] = "stream"
           known2 == view'[v][p] # "absent"
<1>1. /\ q # <<>> /\ view' = [view EXCEPT ![v] = Seen(old, m)]
      /\ queue' = [queue EXCEPT ![v] = Tail(q)]
      /\ view \in [Clients -> [Clients -> Views]] /\ queue \in [Clients -> Seq(Messages)]
  BY DEF Receive, PeerTyped
<1>2. /\ queue'[v] = Tail(q) /\ view'[v] = Seen(old, m)
      /\ q \in Seq(Messages) /\ old \in [Clients -> Views]
  BY <1>1
<1>3. m \in Messages
  BY <1>1, <1>2, HeadTailProperties
<1>4. /\ pulled \in BOOLEAN /\ known \in BOOLEAN /\ pulled2 \in BOOLEAN /\ known2 \in BOOLEAN
  OBVIOUS
<1>5. /\ m \notin Starting(p) \/ m \notin Ending(p)
      /\ m \notin Naming(p) \/ m \notin Leaving(p)
  BY <1>3, Apart
<1>6. /\ pulled2 <=> m \in Starting(p) \/ (pulled /\ m \notin Ending(p))
      /\ known2 <=> m \in Naming(p) \/ (known /\ m \notin Leaving(p))
  BY <1>2, <1>3, SeenIsRight
<1>7. /\ WillStream(v, p) = Settles(q, pulled, Starting(p), Ending(p))
      /\ WillKnow(v, p) = Settles(q, known, Naming(p), Leaving(p))
  BY DEF WillStream, WillKnow
<1>8. /\ WillStream(v, p)' = Settles(Tail(q), pulled2, Starting(p), Ending(p))
      /\ WillKnow(v, p)' = Settles(Tail(q), known2, Naming(p), Leaving(p))
  BY <1>2 DEF WillStream, WillKnow, Starting, Ending, Naming, Leaving, News, Joinings
<1> HIDE DEF pulled, known, pulled2, known2
<1>9. Settles(Tail(q), pulled2, Starting(p), Ending(p)) <=> Settles(q, pulled, Starting(p), Ending(p))
  BY <1>1, <1>2, <1>4, <1>5, <1>6, SettlesTail
<1>10. Settles(Tail(q), known2, Naming(p), Leaving(p)) <=> Settles(q, known, Naming(p), Leaving(p))
  BY <1>1, <1>2, <1>4, <1>5, <1>6, SettlesTail
<1> QED
  BY <1>7, <1>8, <1>9, <1>10

\* Where a client is in its life settles what the room and the channels hold of it.
Places == \A c \in Clients :
    /\ pc[c] \in {"out", "ending", "left"} => c \notin present
    /\ pc[c] \notin {"out", "ending", "left", "gone"} => c \in present
    /\ pc[c] = "gone" => c \notin present \/ lossy = Clients
    /\ closed[c] <=> pc[c] \in {"closing", "ending", "left", "gone"}
    /\ cam[c] => pc[c] \in {"joined", "started", "unwind", "closing"}
    /\ pc[c] = "started" => cam[c]
    /\ armed[c] # Nobody => pc[c] \in Casting /\ armed[c] \in todo[c]
    /\ pc[c] = "tell" => snap[c] \in Joinings

\* A member that reads its channel, and to which no message was lost.
Listens(v) == v \in present /\ ~closed[v] /\ v \notin lossy

\* Nobody that has lost no message has heard of a client before it is in the room.
Unheard(v, p) == pc[p] = "out" =>
    /\ v \notin lossy => ~WillKnow(v, p) /\ ~WillStream(v, p)
    /\ pc[v] = "tell" => p \notin snap[v].peers \cup snap[v].streams

\* Only a client that came after the other one had its answer is `later'.
Later(v, p) == <<v, p>> \in after =>
    v # p /\ pc[v] \notin {"out", "snapshot", "tell"} /\ pc[p] # "out"

\* A member that is there will be known: from the channel, the snapshot still to be
\* taken or sent, or the announcement still to be made.
Known(v, p) == Listens(v) /\ v # p /\ p \in present =>
    \/ WillKnow(v, p)
    \/ pc[v] = "snapshot"
    \/ pc[v] = "tell" /\ p \in snap[v].peers
    \/ pc[p] \in {"snapshot", "tell"}
    \/ pc[p] = "announce" /\ v \in todo[p]

\* A stream that is there will be pulled.
Pulled(v, p) == Listens(v) /\ v # p /\ p \in present /\ cam[p] =>
    \/ WillStream(v, p)
    \/ pc[v] = "snapshot"
    \/ pc[v] = "tell" /\ p \in snap[v].streams
    \/ pc[p] = "started" /\ v \in todo[p]

\* Of those who came later, a stream that has ended will not be pulled, and a member
\* that has left will be forgotten.
NotPulled(v, p) == Listens(v) /\ <<v, p>> \in after /\ ~cam[p] =>
    \/ ~WillStream(v, p)
    \/ pc[p] \in {"stopped", "ending"} /\ v \in todo[p]

Forgotten(v, p) == Listens(v) /\ <<v, p>> \in after /\ p \notin present =>
    \/ ~WillKnow(v, p)
    \/ pc[p] = "ending"
    \/ pc[p] = "left" /\ v \in todo[p]

\* All that is promised to v about p.
Promises(v, p) ==
    /\ Unheard(v, p) /\ Later(v, p)
    /\ Known(v, p) /\ Pulled(v, p) /\ NotPulled(v, p) /\ Forgotten(v, p)

\* All of this together is inductive.
PeerInvariant ==
    PeerTyped /\ Places /\ \A v, p \in Clients : Promises(v, p)

\* An offer keeps the channels within their bounds.
LEMMA OfferTyped ==
  ASSUME PeerTyped, NEW d \in Clients, NEW m \in Messages, Offer(d, m)
  PROVE  /\ queue' \in [Clients -> Seq(Messages)] /\ \A c \in Clients : Len(queue'[c]) <= Cap
         /\ lossy' \subseteq Clients
<1>1. /\ queue \in [Clients -> Seq(Messages)] /\ \A c \in Clients : Len(queue[c]) <= Cap
      /\ lossy \subseteq Clients /\ Cap \in Nat
  BY PeerAssumption DEF PeerTyped
<1>2. CASE Len(queue[d]) < Cap
  <2> DEFINE q == Append(queue[d], m)
  <2>1. queue' = [queue EXCEPT ![d] = q] /\ lossy' = lossy
    BY <1>2 DEF Offer
  <2>2. q \in Seq(Messages) /\ Len(q) = Len(queue[d]) + 1 /\ Len(queue[d]) \in Nat
    BY <1>1, AppendProperties, LenProperties
  <2> HIDE DEF q
  <2>3. Len(q) <= Cap
    BY <1>1, <1>2, <2>2
  <2>4. \A c \in Clients : queue'[c] = IF c = d THEN q ELSE queue[c]
    BY <1>1, <2>1
  <2>5. queue' \in [Clients -> Seq(Messages)]
    BY <1>1, <2>1, <2>2
  <2> QED
    BY <1>1, <2>1, <2>3, <2>4, <2>5
<1>3. CASE ~(Len(queue[d]) < Cap)
  BY <1>1, <1>3 DEF Offer
<1> QED
  BY <1>2, <1>3

\* Every broadcast carries its own word.
LEMMA WordIsOne ==
  ASSUME NEW c \in Clients, pc[c] \in Casting
  PROVE  /\ Word(c) \in {"peer-joined", "peer-stream-started", "peer-stream-stopped", "peer-left"}
         /\ Word(c) = "peer-joined" <=> pc[c] = "announce"
         /\ Word(c) = "peer-stream-started" <=> pc[c] = "started"
         /\ Word(c) = "peer-stream-stopped" <=> pc[c] \in {"stopped", "ending"}
         /\ Word(c) = "peer-left" <=> pc[c] = "left"
<1>1. CASE pc[c] = "announce"
  BY <1>1 DEF Word
<1>2. CASE pc[c] = "started"
  BY <1>2 DEF Word
<1>3. CASE pc[c] \in {"stopped", "ending"}
  BY <1>3 DEF Word
<1>4. CASE pc[c] = "left"
  BY <1>4 DEF Word
<1> QED
  BY <1>1, <1>2, <1>3, <1>4 DEF Casting

\* An offer concerns one recipient, and who lost a message is not forgotten.
LEMMA OfferLoses ==
  ASSUME PeerTyped, NEW d \in Clients, NEW m, Offer(d, m)
  PROVE  /\ lossy \subseteq lossy' /\ (lossy = Clients => lossy' = Clients)
         /\ \A v \in Clients \ {d} : queue'[v] = queue[v]
<1>1. lossy \cup {d} \subseteq Clients
  BY DEF PeerTyped
<1>2. (lossy' = lossy \/ lossy' = lossy \cup {d}) /\ \A v \in Clients \ {d} : queue'[v] = queue[v]
  BY DEF Offer, PeerTyped
<1> QED
  BY <1>1, <1>2

\* The empty channel.
LEMMA EmptyQueues ==
  /\ <<>> \in Seq(Messages) /\ Len(<<>>) = 0 /\ 0 <= Cap
  BY PeerAssumption, EmptySeq

\* Every step keeps the types.
LEMMA TypedStep ==
  ASSUME PeerTyped, Places, NEW c \in Clients,
         \/ Insert(c) \/ SnapshotPeers(c) \/ TellJoined(c)
         \/ Publish(c) \/ StreamStopped(c)
         \/ Close(c) \/ Remove(c)
         \/ \E d \in Clients : CastCheck(c, d)
         \/ CastSend(c) \/ CastDone(c)
         \/ Receive(c)
  PROVE  PeerTyped'
<1> USE DEF PCs, Casting
<1>0. USE DEF PeerTyped
<1>1. CASE Insert(c)
  <2>1. after' \subseteq Clients \X Clients
    <3>1. after' = after \cup {<<v, c>> : v \in {w \in present : pc[w] \notin {"snapshot", "tell"}}}
      BY <1>1 DEF Insert
    <3> QED
      BY <3>1
  <2> QED
    BY <1>1, <2>1 DEF Insert
<1>2. CASE SnapshotPeers(c)
  <2> DEFINE m == [type |-> "joined", peers |-> present \ {c},
                   streams |-> {p \in present \ {c} : cam[p]}]
  <2>1. m \in Joinings
    BY DEF Joinings
  <2>2. m \in Messages
    BY <2>1, JoiningsTell
  <2>3. snap' = [snap EXCEPT ![c] = m]
    BY <1>2 DEF SnapshotPeers
  <2> HIDE DEF m
  <2> QED
    BY <1>2, <2>2, <2>3 DEF SnapshotPeers
<1>3. CASE TellJoined(c)
  <2>1. snap[c] \in Messages
    BY <1>3, JoiningsTell DEF TellJoined, Places
  <2>2. /\ queue' \in [Clients -> Seq(Messages)] /\ \A x \in Clients : Len(queue'[x]) <= Cap
        /\ lossy' \subseteq Clients
    BY <1>3, <2>1, OfferTyped DEF TellJoined
  <2>3. snap' \in [Clients -> Messages \cup {<<>>}]
    BY <1>3 DEF TellJoined
  <2> QED
    BY <1>3, <2>2, <2>3 DEF TellJoined, Broadcast
<1>4. CASE Publish(c)
  BY <1>4 DEF Publish, Broadcast
<1>5. CASE StreamStopped(c)
  BY <1>5 DEF StreamStopped, Broadcast
<1>6. CASE Close(c)
  <2>1. queue' = [queue EXCEPT ![c] = <<>>]
    BY <1>6 DEF Close
  <2>2. queue' \in [Clients -> Seq(Messages)] /\ \A x \in Clients : Len(queue'[x]) <= Cap
    BY <2>1, EmptyQueues
  <2>3. view' \in [Clients -> [Clients -> Views]]
    BY <1>6 DEF Close, Views
  <2> QED
    BY <1>6, <2>2, <2>3 DEF Close
<1>7. CASE Remove(c)
  BY <1>7 DEF Remove
<1>8. ASSUME NEW d \in Clients, CastCheck(c, d) PROVE PeerTyped'
  <2>1. CASE closed[d]
    <3>1. todo' = [todo EXCEPT ![c] = @ \ {d}]
      BY <1>8, <2>1 DEF CastCheck
    <3>2. todo' \in [Clients -> SUBSET Clients]
      BY <3>1
    <3> QED
      BY <1>8, <2>1, <3>2 DEF CastCheck
  <2>2. CASE ~closed[d]
    BY <1>8, <2>2 DEF CastCheck
  <2> QED
    BY <2>1, <2>2
<1>9. CASE CastSend(c)
  <2>1. armed[c] \in Clients /\ armed[c] # Nobody /\ pc[c] \in Casting
    BY <1>9 DEF CastSend, Places
  <2>2. CASE closed[armed[c]]
    <3>1. Panic(c) /\ UNCHANGED <<present, cam, snap, view, after>>
      BY <1>9, <2>2 DEF CastSend
    <3>2. /\ panicked' \subseteq Clients /\ lossy' \subseteq Clients
          /\ todo' \in [Clients -> SUBSET Clients] /\ armed' \in [Clients -> Clients \cup {Nobody}]
      BY <3>1 DEF Panic
    <3>3. CASE pc[c] \in {"started", "stopped"}
      <4>1. pc' = [pc EXCEPT ![c] = "unwind"] /\ UNCHANGED <<closed, queue>>
        BY <3>1, <3>3 DEF Panic
      <4>2. pc' \in [Clients -> PCs]
        BY <4>1
      <4> QED
        BY <3>1, <3>2, <4>1, <4>2
    <3>4. CASE pc[c] \notin {"started", "stopped"}
      <4>1. queue' = [queue EXCEPT ![c] = <<>>]
        BY <3>1, <3>4 DEF Panic
      <4>2. queue' \in [Clients -> Seq(Messages)] /\ \A x \in Clients : Len(queue'[x]) <= Cap
        BY <4>1, EmptyQueues
      <4>3. pc' \in [Clients -> PCs] /\ closed' \in [Clients -> BOOLEAN]
        BY <3>1, <3>4 DEF Panic
      <4> QED
        BY <3>1, <3>2, <4>2, <4>3
    <3> QED
      BY <3>3, <3>4
  <2>3. CASE ~closed[armed[c]]
    <3>1. /\ Offer(armed[c], [type |-> Word(c), from |-> c])
          /\ todo' = [todo EXCEPT ![c] = @ \ {armed[c]}]
          /\ armed' = [armed EXCEPT ![c] = Nobody]
          /\ UNCHANGED <<pc, closed, panicked, present, cam, snap, view, after>>
      BY <1>9, <2>3 DEF CastSend
    <3>2. [type |-> Word(c), from |-> c] \in Messages
      BY <2>1, WordIsOne, WordsTell
    <3>3. /\ queue' \in [Clients -> Seq(Messages)] /\ \A x \in Clients : Len(queue'[x]) <= Cap
          /\ lossy' \subseteq Clients
      BY <2>1, <3>1, <3>2, OfferTyped
    <3> QED
      BY <3>1, <3>3
  <2> QED
    BY <2>2, <2>3
<1>10. CASE CastDone(c)
  <2>1. CASE pc[c] = "ending"
    <3>1. pc' = [pc EXCEPT ![c] = "left"] /\ todo' = [todo EXCEPT ![c] = present \ {c}]
      BY <1>10, <2>1 DEF CastDone, Broadcast
    <3>2. todo' \in [Clients -> SUBSET Clients] /\ pc' \in [Clients -> PCs]
      BY <3>1
    <3> QED
      BY <1>10, <3>2 DEF CastDone
  <2>2. CASE pc[c] # "ending"
    BY <1>10, <2>2 DEF CastDone
  <2> QED
    BY <2>1, <2>2
<1>11. CASE Receive(c)
  <2> DEFINE q == queue[c]
  <2>1. /\ q # <<>> /\ q \in Seq(Messages) /\ Len(q) <= Cap
        /\ queue' = [queue EXCEPT ![c] = Tail(q)]
        /\ view' = [view EXCEPT ![c] = Seen(view[c], Head(q))]
    BY <1>11 DEF Receive
  <2>2. Head(q) \in Messages /\ Tail(q) \in Seq(Messages) /\ Len(Tail(q)) <= Cap
    <3>1. Head(q) \in Messages /\ Tail(q) \in Seq(Messages) /\ Len(Tail(q)) = Len(q) - 1
      BY <2>1, HeadTailProperties
    <3>2. Len(q) \in Nat /\ Cap \in Nat
      BY <2>1, PeerAssumption, LenProperties
    <3> QED
      BY <2>1, <3>1, <3>2
  <2>3. Seen(view[c], Head(q)) \in [Clients -> Views]
    BY <2>2, SeenIsRight
  <2> HIDE DEF q
  <2>4. view' \in [Clients -> [Clients -> Views]]
    BY <2>1, <2>3
  <2>5. queue' \in [Clients -> Seq(Messages)] /\ \A x \in Clients : Len(queue'[x]) <= Cap
    BY <2>1, <2>2
  <2> QED
    BY <1>11, <2>4, <2>5 DEF Receive
<1> QED
  BY <1>1, <1>2, <1>3, <1>4, <1>5, <1>6, <1>7, <1>8, <1>9, <1>10, <1>11

\* Every step keeps clients and room in agreement.
LEMMA PlacesStep ==
  ASSUME PeerTyped, Places, NEW c \in Clients,
         \/ Insert(c) \/ SnapshotPeers(c) \/ TellJoined(c)
         \/ Publish(c) \/ StreamStopped(c)
         \/ Close(c) \/ Remove(c)
         \/ \E d \in Clients : CastCheck(c, d)
         \/ CastSend(c) \/ CastDone(c)
         \/ Receive(c)
  PROVE  Places'
<1> USE DEF PCs, Casting, Places, PeerTyped
<1>0. SUFFICES ASSUME NEW x \in Clients
      PROVE  /\ pc'[x] \in {"out", "ending", "left"} => x \notin present'
             /\ pc'[x] \notin {"out", "ending", "left", "gone"} => x \in present'
             /\ pc'[x] = "gone" => x \notin present' \/ lossy' = Clients
             /\ closed'[x] <=> pc'[x] \in {"closing", "ending", "left", "gone"}
             /\ cam'[x] => pc'[x] \in {"joined", "started", "unwind", "closing"}
             /\ pc'[x] = "started" => cam'[x]
             /\ armed'[x] # Nobody => pc'[x] \in Casting /\ armed'[x] \in todo'[x]
             /\ pc'[x] = "tell" => snap'[x] \in Joinings
  OBVIOUS
<1>1. CASE Insert(c)
  BY <1>1 DEF Insert
<1>2. CASE SnapshotPeers(c)
  <2> DEFINE m == [type |-> "joined", peers |-> present \ {c},
                   streams |-> {p \in present \ {c} : cam[p]}]
  <2>1. m \in Joinings
    BY DEF Joinings
  <2>2. snap' = [snap EXCEPT ![c] = m] /\ pc[c] = "snapshot" /\ pc' = [pc EXCEPT ![c] = "tell"]
        /\ UNCHANGED <<present, cam, todo, armed, closed, lossy>>
    BY <1>2 DEF SnapshotPeers
  <2> HIDE DEF m
  <2> QED
    BY <2>1, <2>2
<1>3. CASE TellJoined(c)
  <2>1. /\ pc[c] = "tell" /\ pc' = [pc EXCEPT ![c] = "announce"]
        /\ todo' = [todo EXCEPT ![c] = present \ {c}] /\ snap' = [snap EXCEPT ![c] = <<>>]
        /\ UNCHANGED <<present, cam, armed, closed>> /\ Offer(c, snap[c])
    BY <1>3 DEF TellJoined, Broadcast
  <2>2. lossy = Clients => lossy' = Clients
    BY <2>1, OfferLoses
  <2> QED
    BY <2>1, <2>2
<1>4. CASE Publish(c)
  BY <1>4 DEF Publish, Broadcast
<1>5. CASE StreamStopped(c)
  BY <1>5 DEF StreamStopped, Broadcast
<1>6. CASE Close(c)
  BY <1>6 DEF Close
<1>7. CASE Remove(c)
  BY <1>7 DEF Remove
<1>8. ASSUME NEW d \in Clients, CastCheck(c, d) PROVE Places'
  BY <1>8 DEF CastCheck
<1>9. CASE CastSend(c)
  <2>1. armed[c] \in Clients /\ armed[c] # Nobody /\ pc[c] \in Casting
    BY <1>9 DEF CastSend
  <2>2. CASE closed[armed[c]]
    BY <1>9, <2>1, <2>2 DEF CastSend, Panic
  <2>3. CASE ~closed[armed[c]]
    <3>1. /\ todo' = [todo EXCEPT ![c] = @ \ {armed[c]}]
          /\ armed' = [armed EXCEPT ![c] = Nobody]
          /\ UNCHANGED <<pc, closed, present, cam, snap>>
          /\ Offer(armed[c], [type |-> Word(c), from |-> c])
      BY <1>9, <2>1, <2>3 DEF CastSend
    <3>2. lossy = Clients => lossy' = Clients
      BY <2>1, <3>1, OfferLoses
    <3> QED
      BY <3>1, <3>2
  <2> QED
    BY <2>2, <2>3
<1>10. CASE CastDone(c)
  BY <1>10 DEF CastDone, Broadcast
<1>11. CASE Receive(c)
  BY <1>11 DEF Receive
<1> QED
  BY <1>1, <1>2, <1>3, <1>4, <1>5, <1>6, <1>7, <1>8, <1>9, <1>10, <1>11

\* A client is inserted into the room, or takes its snapshot: the insertion comes
\* first, so that whoever is not in the snapshot will announce itself.
LEMMA JoiningKeeps ==
  ASSUME PeerInvariant, PeerTyped', Places', NEW c \in Clients, Insert(c) \/ SnapshotPeers(c),
         NEW v \in Clients, NEW p \in Clients
  PROVE  Promises(v, p)'
<1>1. (WillStream(v, p)' <=> WillStream(v, p)) /\ (WillKnow(v, p)' <=> WillKnow(v, p))
  <2>1. queue' = queue /\ view' = view
    BY DEF Insert, SnapshotPeers
  <2> QED
    BY <2>1, OthersUnmoved
<1>2. Promises(v, p) /\ PeerTyped /\ Places
  BY DEF PeerInvariant
<1> USE DEF Promises, Unheard, Later, Known, Pulled, NotPulled, Forgotten, Listens
<1>3. CASE Insert(c)
  <2>1. /\ pc[c] = "out" /\ pc' = [pc EXCEPT ![c] = "snapshot"] /\ present' = present \cup {c}
        /\ after' = after \cup {<<w, c>> : w \in {w \in present : pc[w] \notin {"snapshot", "tell"}}}
        /\ UNCHANGED <<cam, snap, todo, armed, queue, closed, view, lossy>>
    BY <1>3 DEF Insert
  <2>2. /\ \A x \in Clients : pc'[x] = IF x = c THEN "snapshot" ELSE pc[x]
        /\ \A x \in Clients : pc[x] \in PCs
    BY <1>2, <2>1 DEF PeerTyped
  <2>3. c \notin present /\ ~cam[c] /\ \A x \in present : x \in Clients /\ pc[x] # "out"
    BY <1>2, <2>1 DEF PeerTyped, Places
  <2>4. <<v, p>> \in after' =>
           <<v, p>> \in after \/ (p = c /\ v \in present /\ pc[v] \notin {"snapshot", "tell"})
    BY <2>1
  <2>5. Unheard(v, p)' /\ Later(v, p)'
    BY <1>1, <1>2, <2>1, <2>2, <2>3, <2>4
  <2>6. Known(v, p)' /\ Pulled(v, p)'
    BY <1>1, <1>2, <2>1, <2>2, <2>3
  <2>7. NotPulled(v, p)'
    BY <1>1, <1>2, <2>1, <2>2, <2>3, <2>4
  <2>8. Forgotten(v, p)'
    BY <1>1, <1>2, <2>1, <2>2, <2>3, <2>4
  <2> QED
    BY <2>5, <2>6, <2>7, <2>8
<1>4. CASE SnapshotPeers(c)
  <2> DEFINE m == [type |-> "joined", peers |-> present \ {c},
                   streams |-> {x \in present \ {c} : cam[x]}]
  <2>1. /\ pc[c] = "snapshot" /\ pc' = [pc EXCEPT ![c] = "tell"] /\ snap' = [snap EXCEPT ![c] = m]
        /\ UNCHANGED <<present, cam, todo, armed, queue, closed, view, after, lossy>>
    BY <1>4 DEF SnapshotPeers
  <2>2. /\ \A x \in Clients : pc'[x] = IF x = c THEN "tell" ELSE pc[x]
        /\ \A x \in Clients : snap'[x] = IF x = c THEN m ELSE snap[x]
    BY <1>2, <2>1 DEF PeerTyped
  <2>3. m.peers = present \ {c} /\ m.streams = {x \in present \ {c} : cam[x]}
    OBVIOUS
  <2> HIDE DEF m
  <2>4. \A x \in Clients : pc[x] = "out" => x \notin present
    BY <1>2 DEF Places
  <2>5. Unheard(v, p)' /\ Later(v, p)'
    BY <1>1, <1>2, <2>1, <2>2, <2>3, <2>4
  <2>6. Known(v, p)' /\ Pulled(v, p)'
    BY <1>1, <1>2, <2>1, <2>2, <2>3
  <2>7. NotPulled(v, p)' /\ Forgotten(v, p)'
    BY <1>1, <1>2, <2>1, <2>2
  <2> QED
    BY <2>5, <2>6, <2>7
<1> QED
  BY <1>3, <1>4

\* A stream is registered or dropped, or a client removed, before the broadcast
\* about it starts.
LEMMA StreamsKeep ==
  ASSUME PeerInvariant, PeerTyped', Places', NEW c \in Clients,
         Publish(c) \/ StreamStopped(c) \/ Remove(c),
         NEW v \in Clients, NEW p \in Clients
  PROVE  Promises(v, p)'
<1>1. (WillStream(v, p)' <=> WillStream(v, p)) /\ (WillKnow(v, p)' <=> WillKnow(v, p))
  <2>1. queue' = queue /\ view' = view
    BY DEF Publish, StreamStopped, Remove
  <2> QED
    BY <2>1, OthersUnmoved
<1>2. Promises(v, p) /\ PeerTyped /\ Places
  BY DEF PeerInvariant
<1>3. PICK l \in PCs, b \in BOOLEAN :
         /\ pc' = [pc EXCEPT ![c] = l] /\ cam' = [cam EXCEPT ![c] = b]
         /\ todo' = [todo EXCEPT ![c] = present \ {c}]
         /\ UNCHANGED <<snap, queue, closed, view, after, lossy>>
         /\ \/ /\ pc[c] = "joined" /\ l = "started" /\ b /\ present' = present
            \/ /\ pc[c] = "joined" /\ l = "stopped" /\ ~b /\ present' = present
            \/ /\ pc[c] = "closing" /\ l = (IF cam[c] THEN "ending" ELSE "left")
               /\ ~b /\ present' = present \ {c}
  <2>1. CASE Publish(c)
    BY <2>1 DEF Publish, Broadcast, PCs, Casting
  <2>2. CASE StreamStopped(c)
    BY <2>2 DEF StreamStopped, Broadcast, PCs, Casting
  <2>3. CASE Remove(c)
    BY <2>3 DEF Remove, PCs, Casting
  <2> QED
    BY <2>1, <2>2, <2>3
<1>4. /\ \A x \in Clients : pc'[x] = IF x = c THEN l ELSE pc[x]
      /\ \A x \in Clients : cam'[x] = IF x = c THEN b ELSE cam[x]
      /\ \A x \in Clients : todo'[x] = IF x = c THEN present \ {c} ELSE todo[x]
  BY <1>2, <1>3 DEF PeerTyped
<1> USE DEF Promises, Unheard, Later, Known, Pulled, NotPulled, Forgotten, Listens
<1>5. Unheard(v, p)' /\ Later(v, p)'
  BY <1>1, <1>2, <1>3, <1>4
<1>6. Known(v, p)' /\ Pulled(v, p)'
  BY <1>1, <1>2, <1>3, <1>4
<1>7. NotPulled(v, p)'
  BY <1>1, <1>2, <1>3, <1>4
<1>8. Forgotten(v, p)'
  BY <1>1, <1>2, <1>3, <1>4
<1> QED
  BY <1>5, <1>6, <1>7, <1>8

\* A broadcast checks a recipient, or is over: a recipient that is left out is one
\* whose channel is closed.
LEMMA CastingKeeps ==
  ASSUME PeerInvariant, PeerTyped', Places', NEW c \in Clients,
         NEW d \in Clients, CastCheck(c, d) \/ CastDone(c),
         NEW v \in Clients, NEW p \in Clients
  PROVE  Promises(v, p)'
<1>1. (WillStream(v, p)' <=> WillStream(v, p)) /\ (WillKnow(v, p)' <=> WillKnow(v, p))
  <2>1. queue' = queue /\ view' = view
    BY DEF CastCheck, CastDone
  <2> QED
    BY <2>1, OthersUnmoved
<1>2. Promises(v, p) /\ PeerTyped /\ Places
  BY DEF PeerInvariant
<1> USE DEF Promises, Unheard, Later, Known, Pulled, NotPulled, Forgotten, Listens
<1>3. CASE CastCheck(c, d)
  <2>1. UNCHANGED <<present, pc, cam, snap, queue, closed, view, after, lossy>>
    BY <1>3 DEF CastCheck
  <2>2. todo' = todo \/ (closed[d] /\ todo' = [todo EXCEPT ![c] = @ \ {d}])
    BY <1>3 DEF CastCheck
  <2>3. \A x \in Clients : todo'[x] = todo[x] \/ (closed[d] /\ todo'[x] = todo[x] \ {d})
    BY <1>2, <2>2 DEF PeerTyped
  <2>4. ~closed[v] => (v \in todo'[p] <=> v \in todo[p])
    BY <2>3
  <2> QED
    BY <1>1, <1>2, <2>1, <2>4
<1>4. CASE CastDone(c)
  <2>1. /\ pc[c] \in Casting /\ todo[c] = {}
        /\ UNCHANGED <<present, cam, snap, queue, closed, view, after, lossy>>
    BY <1>4 DEF CastDone
  <2>2. CASE pc[c] = "ending"
    <3>1. pc' = [pc EXCEPT ![c] = "left"] /\ todo' = [todo EXCEPT ![c] = present \ {c}]
      BY <1>4, <2>2 DEF CastDone, Broadcast
    <3>2. /\ \A x \in Clients : pc'[x] = IF x = c THEN "left" ELSE pc[x]
          /\ \A x \in Clients : todo'[x] = IF x = c THEN present \ {c} ELSE todo[x]
      BY <1>2, <3>1 DEF PeerTyped
    <3>3. Unheard(v, p)' /\ Later(v, p)'
      BY <1>1, <1>2, <2>1, <2>2, <3>2
    <3>4. Known(v, p)' /\ Pulled(v, p)'
      BY <1>1, <1>2, <2>1, <2>2, <3>2
    <3>5. NotPulled(v, p)' /\ Forgotten(v, p)'
      BY <1>1, <1>2, <2>1, <2>2, <3>2
    <3> QED
      BY <3>3, <3>4, <3>5
  <2>3. CASE pc[c] # "ending"
    <3>1. /\ todo' = todo
          /\ pc' = [pc EXCEPT ![c] = IF pc[c] = "left" THEN "gone" ELSE "joined"]
      BY <1>4, <2>3 DEF CastDone
    <3>2. \A x \in Clients : pc'[x] = IF x = c THEN IF pc[c] = "left" THEN "gone" ELSE "joined"
                                      ELSE pc[x]
      BY <1>2, <3>1 DEF PeerTyped
    <3>3. Unheard(v, p)' /\ Later(v, p)'
      BY <1>1, <1>2, <2>1, <2>3, <3>1, <3>2 DEF Casting
    <3>4. Known(v, p)' /\ Pulled(v, p)'
      BY <1>1, <1>2, <2>1, <2>3, <3>1, <3>2 DEF Casting
    <3>5. NotPulled(v, p)' /\ Forgotten(v, p)'
      BY <1>1, <1>2, <2>1, <2>3, <3>1, <3>2 DEF Casting
    <3> QED
      BY <3>3, <3>4, <3>5
  <2> QED
    BY <2>2, <2>3
<1> QED
  BY <1>3, <1>4

\* The answer to a join is sent: from now on those who come are `later'.
LEMMA TellingKeeps ==
  ASSUME PeerInvariant, PeerTyped', Places', NEW c \in Clients, TellJoined(c),
         NEW v \in Clients, NEW p \in Clients
  PROVE  Promises(v, p)'
<1>1. Promises(v, p) /\ PeerTyped /\ Places /\ Promises(c, p)
  BY DEF PeerInvariant
<1>2. /\ pc[c] = "tell" /\ pc' = [pc EXCEPT ![c] = "announce"]
      /\ todo' = [todo EXCEPT ![c] = present \ {c}]
      /\ snap' = [snap EXCEPT ![c] = <<>>]
      /\ Offer(c, snap[c])
      /\ UNCHANGED <<present, cam, armed, closed, view, after>>
  BY DEF TellJoined, Broadcast
<1>3. /\ \A x \in Clients : pc'[x] = IF x = c THEN "announce" ELSE pc[x]
      /\ \A x \in Clients : todo'[x] = IF x = c THEN present \ {c} ELSE todo[x]
      /\ \A x \in Clients \ {c} : snap'[x] = snap[x]
  BY <1>1, <1>2 DEF PeerTyped
<1>4. snap[c] \in Joinings /\ snap[c] \in Messages
  BY <1>1, <1>2, JoiningsTell DEF Places
<1>5. lossy \subseteq lossy' /\ \A x \in Clients \ {c} : queue'[x] = queue[x]
  BY <1>1, <1>2, OfferLoses
<1> USE DEF Promises, Unheard, Later, Known, Pulled, NotPulled, Forgotten, Listens
<1>6. CASE v # c
  <2>1. (WillStream(v, p)' <=> WillStream(v, p)) /\ (WillKnow(v, p)' <=> WillKnow(v, p))
    <3>1. queue'[v] = queue[v] /\ view'[v] = view[v]
      BY <1>2, <1>5, <1>6
    <3> QED
      BY <3>1, OthersUnmoved
  <2>2. Unheard(v, p)' /\ Later(v, p)'
    BY <1>1, <1>2, <1>3, <1>5, <1>6, <2>1
  <2>3. Known(v, p)'
    BY <1>1, <1>2, <1>3, <1>5, <1>6, <2>1
  <2>4. Pulled(v, p)'
    BY <1>1, <1>2, <1>3, <1>5, <1>6, <2>1
  <2>5. NotPulled(v, p)' /\ Forgotten(v, p)'
    BY <1>1, <1>2, <1>3, <1>5, <1>6, <2>1
  <2> QED
    BY <2>2, <2>3, <2>4, <2>5
<1>7. CASE v = c
  <2>1. \/ /\ WillStream(c, p)' <=> p \in snap[c].streams \/ WillStream(c, p)
           /\ WillKnow(c, p)' <=> p \in snap[c].peers \cup snap[c].streams \/ WillKnow(c, p)
        \/ /\ c \in lossy'
           /\ WillStream(c, p)' <=> WillStream(c, p)
           /\ WillKnow(c, p)' <=> WillKnow(c, p)
    <3>1. \/ /\ WillStream(c, p)'
                  <=> snap[c] \in Starting(p) \/ (snap[c] \notin Ending(p) /\ WillStream(c, p))
             /\ WillKnow(c, p)'
                  <=> snap[c] \in Naming(p) \/ (snap[c] \notin Leaving(p) /\ WillKnow(c, p))
          \/ /\ c \in lossy'
             /\ WillStream(c, p)' <=> WillStream(c, p)
             /\ WillKnow(c, p)' <=> WillKnow(c, p)
      <4>1. view' = view
        BY <1>2
      <4> QED
        BY <1>1, <1>2, <1>4, <4>1, OfferedMessage
    <3>2. /\ snap[c] \in Starting(p) <=> p \in snap[c].streams
          /\ snap[c] \in Naming(p) <=> p \in snap[c].peers \cup snap[c].streams
          /\ snap[c] \notin Ending(p) /\ snap[c] \notin Leaving(p)
      BY <1>4, JoiningsTell
    <3> QED
      BY <3>1, <3>2
  <2>2. <<c, p>> \notin after
    BY <1>1, <1>2
  <2>3. Unheard(c, p)' /\ Later(c, p)'
    BY <1>1, <1>2, <1>3, <1>5, <2>1, <2>2
  <2>4. Known(c, p)'
    BY <1>1, <1>2, <1>3, <1>5, <2>1
  <2>5. Pulled(c, p)'
    BY <1>1, <1>2, <1>3, <1>5, <2>1
  <2>6. NotPulled(c, p)' /\ Forgotten(c, p)'
    BY <1>2, <2>2
  <2> QED
    BY <1>7, <2>3, <2>4, <2>5, <2>6
<1> QED
  BY <1>6, <1>7

\* A broadcast offers its word to one recipient that is still open.
LEMMA OneIsTold ==
  ASSUME PeerInvariant, NEW c \in Clients, NEW d \in Clients, NEW m,
         m = [type |-> Word(c), from |-> c],
         pc[c] \in Casting, d \in todo[c], Offer(d, m),
         todo' = [todo EXCEPT ![c] = @ \ {d}],
         UNCHANGED <<pc, closed, present, cam, snap, view, after>>,
         NEW v \in Clients, NEW p \in Clients
  PROVE  Promises(v, p)'
<1>1. Promises(v, p) /\ Promises(d, p) /\ PeerTyped /\ Places
  BY DEF PeerInvariant
<1>2. \A x \in Clients : todo'[x] = IF x = c THEN todo[c] \ {d} ELSE todo[x]
  BY <1>1 DEF PeerTyped
<1>3. lossy \subseteq lossy' /\ \A x \in Clients \ {d} : queue'[x] = queue[x]
  BY <1>1, OfferLoses
<1>4. /\ m \in Messages
      /\ m \in Starting(p) <=> p = c /\ pc[c] = "started"
      /\ m \in Naming(p) <=> p = c /\ pc[c] \in {"announce", "started"}
      /\ m \in Ending(p) <=> p = c /\ pc[c] \in {"stopped", "ending", "left"}
      /\ m \in Leaving(p) <=> p = c /\ pc[c] = "left"
  BY WordIsOne, WordsTell
<1>5. /\ pc' = pc /\ closed' = closed /\ present' = present /\ cam' = cam /\ snap' = snap
      /\ view' = view /\ after' = after
  OBVIOUS
<1>6. /\ pc[c] \in {"ending", "left"} => c \notin present
      /\ pc[c] \notin {"out", "ending", "left", "gone"} => c \in present
      /\ cam[c] => pc[c] \in {"joined", "started", "unwind", "closing"}
      /\ pc[c] = "started" => cam[c]
      /\ pc[c] \in {"announce", "started", "stopped", "ending", "left"}
  BY <1>1 DEF Places, Casting
<1>7. CASE v # d
  <2>1. (WillStream(v, p)' <=> WillStream(v, p)) /\ (WillKnow(v, p)' <=> WillKnow(v, p))
    <3>1. queue'[v] = queue[v] /\ view'[v] = view[v]
      BY <1>3, <1>5, <1>7
    <3> QED
      BY <3>1, OthersUnmoved
  <2>2. v \in todo'[p] <=> v \in todo[p]
    BY <1>2, <1>7
  <2> USE DEF Promises, Unheard, Later, Known, Pulled, NotPulled, Forgotten, Listens
  <2>3. Unheard(v, p)' /\ Later(v, p)'
    BY <1>1, <1>3, <1>5, <2>1
  <2>4. Known(v, p)' /\ Pulled(v, p)'
    BY <1>1, <1>3, <1>5, <2>1, <2>2
  <2>5. NotPulled(v, p)' /\ Forgotten(v, p)'
    BY <1>1, <1>3, <1>5, <2>1, <2>2
  <2> QED
    BY <2>3, <2>4, <2>5
<1>8. CASE v = d
  <2>1. \/ /\ WillStream(v, p)' <=> m \in Starting(p) \/ (m \notin Ending(p) /\ WillStream(v, p))
           /\ WillKnow(v, p)' <=> m \in Naming(p) \/ (m \notin Leaving(p) /\ WillKnow(v, p))
        \/ /\ v \in lossy'
           /\ WillStream(v, p)' <=> WillStream(v, p)
           /\ WillKnow(v, p)' <=> WillKnow(v, p)
    BY <1>1, <1>4, <1>5, <1>8, OfferedMessage
  <2>2. v \in todo'[p] <=> v \in todo[p] /\ p # c
    BY <1>1, <1>2, <1>8 DEF PeerTyped
  <2> HIDE DEF Places
  <2> USE DEF Promises, Unheard, Later, Known, Pulled, NotPulled, Forgotten, Listens
  <2>3. Unheard(v, p)' /\ Later(v, p)'
    BY <1>1, <1>3, <1>4, <1>5, <1>6, <2>1
  <2>4. Known(v, p)'
    BY <1>1, <1>3, <1>4, <1>5, <1>6, <2>1, <2>2
  <2>5. Pulled(v, p)'
    BY <1>1, <1>3, <1>4, <1>5, <1>6, <2>1, <2>2
  <2>6. NotPulled(v, p)'
    BY <1>1, <1>3, <1>4, <1>5, <1>6, <2>1, <2>2
  <2>7. Forgotten(v, p)'
    BY <1>1, <1>3, <1>4, <1>5, <1>6, <2>1, <2>2
  <2> QED
    BY <2>3, <2>4, <2>5, <2>6, <2>7
<1> QED
  BY <1>7, <1>8

\* A recipient whose flag was read as open is offered the word, even if it has
\* been closed in between.
LEMMA SendingKeeps ==
  ASSUME PeerInvariant, NEW c \in Clients, CastSend(c),
         NEW v \in Clients, NEW p \in Clients
  PROVE  Promises(v, p)'
<1>1. Promises(v, p) /\ PeerTyped /\ Places
  BY DEF PeerInvariant
<1>2. /\ armed[c] # Nobody /\ armed[c] \in Clients /\ pc[c] \in Casting
      /\ armed[c] \in todo[c]
  BY <1>1 DEF CastSend, PeerTyped, Places
<1>3. CASE closed[armed[c]]
  <2>1. Panic(c) /\ UNCHANGED <<present, cam, snap, view, after>>
    BY <1>3 DEF CastSend
  <2>2. lossy' = Clients
    BY <2>1 DEF Panic
  <2>3. \A x \in Clients : pc'[x] = pc[x] \/ (x = c /\ pc'[x] \in {"unwind", "gone"})
    BY <1>1, <2>1 DEF Panic, PeerTyped
  <2>4. \A x \in Clients : pc'[x] = "out" => pc[x] = "out"
    BY <2>3
  <2>5. \A x \in Clients : pc'[x] = "tell" => pc[x] = "tell"
    BY <2>3
  <2>6. pc'[v] \in {"out", "snapshot", "tell"} => pc'[v] = pc[v]
    BY <2>3
  <2>7. pc'[p] = "out" => pc'[p] = pc[p]
    BY <2>3
  <2>8. Unheard(v, p)' /\ Later(v, p)'
    BY <1>1, <2>1, <2>2, <2>4, <2>5, <2>6, <2>7 DEF Promises, Unheard, Later
  <2>9. ~Listens(v)'
    BY <2>2 DEF Listens
  <2> QED
    BY <2>8, <2>9 DEF Promises, Known, Pulled, NotPulled, Forgotten
<1>4. CASE ~closed[armed[c]]
  <2>1. /\ Offer(armed[c], [type |-> Word(c), from |-> c])
        /\ todo' = [todo EXCEPT ![c] = @ \ {armed[c]}]
        /\ UNCHANGED <<pc, closed, present, cam, snap, view, after>>
    BY <1>4 DEF CastSend
  <2> QED
    BY <1>2, <2>1, OneIsTold
<1> QED
  BY <1>3, <1>4

\* A client is closed: it does not listen any more.
LEMMA ClosingKeeps ==
  ASSUME PeerInvariant, NEW c \in Clients, Close(c),
         NEW v \in Clients, NEW p \in Clients
  PROVE  Promises(v, p)'
<1>1. Promises(v, p) /\ PeerTyped /\ Places
  BY DEF PeerInvariant
<1>2. /\ pc[c] \in {"joined", "unwind"} /\ pc' = [pc EXCEPT ![c] = "closing"]
      /\ closed' = [closed EXCEPT ![c] = TRUE] /\ queue' = [queue EXCEPT ![c] = <<>>]
      /\ view' = [view EXCEPT ![c] = [x \in Clients |-> "absent"]]
      /\ UNCHANGED <<present, cam, snap, todo, after, lossy>>
  BY DEF Close
<1>3. /\ \A x \in Clients : pc'[x] = IF x = c THEN "closing" ELSE pc[x]
      /\ \A x \in Clients : closed'[x] = (x = c \/ closed[x])
  BY <1>1, <1>2 DEF PeerTyped
<1>4. CASE v = c
  <2>1. queue'[v] = <<>> /\ view'[v][p] = "absent"
    BY <1>1, <1>2, <1>4 DEF PeerTyped
  <2>2. ~WillStream(v, p)' /\ ~WillKnow(v, p)'
    BY <2>1 DEF WillStream, WillKnow, Settles
  <2>3. Unheard(v, p)' /\ Later(v, p)'
    BY <1>1, <1>2, <1>3, <1>4, <2>2 DEF Promises, Unheard, Later
  <2>4. ~Listens(v)'
    BY <1>3, <1>4 DEF Listens
  <2> QED
    BY <2>3, <2>4 DEF Promises, Known, Pulled, NotPulled, Forgotten
<1>5. CASE v # c
  <2>1. (WillStream(v, p)' <=> WillStream(v, p)) /\ (WillKnow(v, p)' <=> WillKnow(v, p))
    <3>1. queue'[v] = queue[v] /\ view'[v] = view[v]
      BY <1>1, <1>2, <1>5 DEF PeerTyped
    <3> QED
      BY <3>1, OthersUnmoved
  <2> USE DEF Promises, Unheard, Later, Known, Pulled, NotPulled, Forgotten, Listens
  <2>2. Unheard(v, p)' /\ Later(v, p)'
    BY <1>1, <1>2, <1>3, <1>5, <2>1
  <2>3. Known(v, p)' /\ Pulled(v, p)'
    BY <1>1, <1>2, <1>3, <1>5, <2>1
  <2>4. NotPulled(v, p)' /\ Forgotten(v, p)'
    BY <1>1, <1>2, <1>3, <1>5, <2>1
  <2> QED
    BY <2>2, <2>3, <2>4
<1> QED
  BY <1>4, <1>5

\* A browser handles a message.
LEMMA ReceivingKeeps ==
  ASSUME PeerInvariant, NEW c \in Clients, Receive(c),
         NEW v \in Clients, NEW p \in Clients
  PROVE  Promises(v, p)'
<1>1. Promises(v, p) /\ PeerTyped /\ Places
  BY DEF PeerInvariant
<1>2. UNCHANGED <<present, pc, cam, snap, todo, armed, closed, after, lossy>>
  BY DEF Receive
<1>3. (WillStream(v, p)' <=> WillStream(v, p)) /\ (WillKnow(v, p)' <=> WillKnow(v, p))
  <2>1. CASE v = c
    BY <1>1, <2>1, ReceivedMessage
  <2>2. CASE v # c
    <3>1. queue'[v] = queue[v] /\ view'[v] = view[v]
      BY <1>1, <2>2 DEF Receive, PeerTyped
    <3> QED
      BY <3>1, OthersUnmoved
  <2> QED
    BY <2>1, <2>2
<1> USE DEF Promises, Unheard, Later, Known, Pulled, NotPulled, Forgotten, Listens
<1>4. Unheard(v, p)' /\ Later(v, p)'
  BY <1>1, <1>2, <1>3
<1>5. Known(v, p)' /\ Pulled(v, p)'
  BY <1>1, <1>2, <1>3
<1>6. NotPulled(v, p)' /\ Forgotten(v, p)'
  BY <1>1, <1>2, <1>3
<1> QED
  BY <1>4, <1>5, <1>6

\* An empty room promises nothing.
LEMMA PeerStarts == Init => PeerInvariant
<1> SUFFICES ASSUME Init PROVE PeerInvariant
  OBVIOUS
<1>1. PeerTyped
  BY EmptyQueues DEF Init, PeerTyped, PCs, Views
<1>2. Places
  BY DEF Init, Places, Casting
<1>3. ASSUME NEW v \in Clients, NEW p \in Clients PROVE Promises(v, p)
  <2>1. queue[v] = <<>> /\ view[v][p] = "absent" /\ pc[v] = "out" /\ present = {} /\ after = {}
    BY DEF Init
  <2>2. ~WillStream(v, p) /\ ~WillKnow(v, p)
    BY <2>1 DEF WillStream, WillKnow, Settles
  <2> QED
    BY <2>1, <2>2 DEF Promises, Unheard, Later, Known, Pulled, NotPulled, Forgotten, Listens
<1> QED
  BY <1>1, <1>2, <1>3 DEF PeerInvariant

\* Every step keeps the invariant.
LEMMA PeerStep == PeerInvariant /\ [Next]_vars => PeerInvariant'
<1> SUFFICES ASSUME PeerInvariant, [Next]_vars PROVE PeerInvariant'
  OBVIOUS
<1>1. CASE UNCHANGED vars
  <2>1. PeerTyped' /\ Places'
    BY <1>1 DEF vars, PeerInvariant, PeerTyped, Places, Casting, PCs, Views, Messages, Joinings
  <2>2. ASSUME NEW v \in Clients, NEW p \in Clients PROVE Promises(v, p)'
    <3>1. (WillStream(v, p)' <=> WillStream(v, p)) /\ (WillKnow(v, p)' <=> WillKnow(v, p))
      <4>1. queue'[v] = queue[v] /\ view'[v] = view[v]
        BY <1>1 DEF vars
      <4> QED
        BY <4>1, OthersUnmoved
    <3>2. Promises(v, p)
      BY DEF PeerInvariant
    <3> QED
      BY <1>1, <3>1, <3>2 DEF vars, Promises, Unheard, Later, Known, Pulled, NotPulled,
                              Forgotten, Listens
  <2> QED
    BY <2>1, <2>2 DEF PeerInvariant
<1>2. ASSUME NEW c \in Clients,
             \/ Insert(c) \/ SnapshotPeers(c) \/ TellJoined(c)
             \/ Publish(c) \/ StreamStopped(c)
             \/ Close(c) \/ Remove(c)
             \/ \E d \in Clients : CastCheck(c, d)
             \/ CastSend(c) \/ CastDone(c)
             \/ Receive(c)
      PROVE  PeerInvariant'
  <2>1. PeerTyped /\ Places
    BY DEF PeerInvariant
  <2>2. PeerTyped'
    BY <1>2, <2>1, TypedStep
  <2>3. Places'
    BY <1>2, <2>1, PlacesStep
  <2>4. ASSUME NEW v \in Clients, NEW p \in Clients PROVE Promises(v, p)'
    <3>1. CASE Insert(c) \/ SnapshotPeers(c)
      BY <2>2, <2>3, <3>1, JoiningKeeps
    <3>2. CASE TellJoined(c)
      BY <2>2, <2>3, <3>2, TellingKeeps
    <3>3. CASE Publish(c) \/ StreamStopped(c) \/ Remove(c)
      BY <2>2, <2>3, <3>3, StreamsKeep
    <3>4. CASE Close(c)
      BY <3>4, ClosingKeeps
    <3>5. ASSUME NEW d \in Clients, CastCheck(c, d) PROVE Promises(v, p)'
      BY <2>2, <2>3, <3>5, CastingKeeps
    <3>6. CASE CastSend(c)
      BY <3>6, SendingKeeps
    <3>7. CASE CastDone(c)
      BY <2>2, <2>3, <3>7, CastingKeeps
    <3>8. CASE Receive(c)
      BY <3>8, ReceivingKeeps
    <3> QED
      BY <1>2, <3>1, <3>2, <3>3, <3>4, <3>5, <3>6, <3>7, <3>8
  <2> QED
    BY <2>2, <2>3, <2>4 DEF PeerInvariant
<1> QED
  BY <1>1, <1>2 DEF Next

\* The invariant holds throughout.
LEMMA PeersAlways == Spec => []PeerInvariant
  BY PeerStarts, PeerStep, PTL DEF Spec

\* A meeting keeps its types for any clients and any capacity: no channel is ever
\* longer than its bound (newClient, Client.send).
THEOREM PeerTypeCorrect == Spec => []TypeOK
<1>1. PeerInvariant => TypeOK
  <2> SUFFICES ASSUME PeerInvariant PROVE TypeOK
    OBVIOUS
  <2>1. ASSUME NEW c \in Clients
        PROVE  /\ snap[c] \in Messages \cup {<<>>}
               /\ \A n \in DOMAIN queue[c] : queue[c][n] \in Messages
    BY QueueDomain DEF PeerInvariant, PeerTyped
  <2> QED
    BY <2>1 DEF PeerInvariant, PeerTyped, TypeOK
<1> QED
  BY <1>1, PeersAlways, PTL

\* A member that has handled everything and lost nothing knows every other member
\* that is not in the middle of a broadcast, and pulls the stream of each that
\* publishes, however joins and publications crossed (room.go: insertion before
\* snapshot before announcement).
THEOREM NobodyIsMissed == Spec => []NobodyMissed
<1>1. PeerInvariant => NobodyMissed
  <2> SUFFICES ASSUME PeerInvariant, NEW v \in Clients, NEW p \in Clients,
                      CaughtUp(v), v # p, pc[p] = "joined"
               PROVE  IF cam[p] THEN view[v][p] = "stream" ELSE view[v][p] # "absent"
    BY DEF NobodyMissed
  <2>1. Listens(v) /\ queue[v] = <<>> /\ pc[v] = "joined" /\ p \in present
    BY DEF CaughtUp, Listens, PeerInvariant, PeerTyped, Places
  <2>2. WillKnow(v, p) /\ (cam[p] => WillStream(v, p))
    BY <2>1 DEF PeerInvariant, Promises, Known, Pulled
  <2> QED
    BY <2>1, <2>2 DEF WillKnow, WillStream, Settles
<1> QED
  BY <1>1, PeersAlways, PTL

\* Of those who came after it was told it had joined, a member that has caught up
\* knows exactly what is true (cleanup: the stream's end and the departure are
\* broadcast after the removal).
THEOREM LaterPeersAreExact == Spec => []LaterPeersExact
<1>1. PeerInvariant => LaterPeersExact
  <2> SUFFICES ASSUME PeerInvariant, NEW v \in Clients, NEW p \in Clients,
                      CaughtUp(v), <<v, p>> \in after, pc[p] \in {"joined", "gone"}
               PROVE  view[v][p] = IF p \notin present THEN "absent"
                                   ELSE IF cam[p] THEN "stream" ELSE "tile"
    BY DEF LaterPeersExact
  <2>1. Promises(v, p) /\ PeerTyped /\ Places
    BY DEF PeerInvariant
  <2>2. Listens(v) /\ queue[v] = <<>> /\ pc[v] = "joined" /\ v # p
    BY <2>1 DEF CaughtUp, Listens, Places, Promises, Later
  <2>3. pc[p] = "joined" <=> p \in present
    BY <2>1, <2>2 DEF Places, Listens
  <2>4. (WillKnow(v, p) <=> view[v][p] # "absent") /\ (WillStream(v, p) <=> view[v][p] = "stream")
    BY <2>2 DEF WillKnow, WillStream, Settles
  <2>5. view[v][p] \in Views
    BY <2>1 DEF PeerTyped
  <2>6. CASE p \notin present
    BY <2>1, <2>2, <2>3, <2>4, <2>6 DEF Promises, Forgotten
  <2>7. CASE p \in present
    BY <2>1, <2>2, <2>3, <2>4, <2>5, <2>7 DEF Promises, Known, Pulled, NotPulled, Views
  <2> QED
    BY <2>6, <2>7
<1> QED
  BY <1>1, PeersAlways, PTL
=============================================================================
