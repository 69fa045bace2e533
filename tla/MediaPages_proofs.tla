------------------------- MODULE MediaPages_proofs --------------------------
(****************************************************************************)
(* The pages that publish and play, for any number of connections, pulls   *)
(* and requests: Publisher keeps one connection as long as nothing fails,  *)
(* whatever fails its switches are obeyed; SoloPlay shows what was asked   *)
(* for last; PeerPull has one player per object.                           *)
(****************************************************************************)
EXTENDS Publisher, SoloPlay, PeerPull, TLAPS

-----------------------------------------------------------------------------
(* Publisher: what one activity makes of the page is described between any *)
(* two of its steps, so that the next one finds one connection at most.    *)

\* Only an activity that waits for the server refers to a connection, and no page
\* has more than two such activities: the room's has no start button, the
\* publisher's page does not publish by itself, and a change of quality never does.
ConnectionsAreAwaited ==
    /\ \A x \in Activities : pending[x] # Nil => doing[x] = "server"
    /\ doing["quality"] # "server"
    /\ doing[IF biz = "room" THEN "stream" ELSE "main"] # "server"

\* A switch that waits for something is marked as busy with its kind.
BusySwitch == doing["switch"] # "no" => busyKind \in Kinds

\* What one activity at a time, none of which failed, has made of the page.
StepByStep ==
    /\ ~lost
    /\ \A x, y \in Activities : doing[x] # "no" /\ doing[y] # "no" => x = y
    /\ doing["switch"] # "strayed" /\ doing["main"] # "refused"
    /\ (\A x \in Activities : doing[x] # "server") =>
           alive = {pub} \ {Nil} /\ (pub # Nil => sends[pub] = Offer(has))
    /\ \A x \in Activities : doing[x] = "server" =>
           /\ pending[x] \in Conns
           /\ alive = {pending[x]} /\ sends[pending[x]] = Offer(has)
    /\ doing["main"] = "device" => pub = Nil /\ asked = wants
    /\ doing["main"] # "device" =>
           wants \subseteq IF doing["switch"] = "device" THEN has \cup {busyKind} ELSE has
    /\ doing["quality"] = "device" => "video" \in wants

\* The inductive invariant: what the page's activities make of it whatever
\* happens, and what they make of it while everything goes smoothly.
PublishInvariant ==
    PublishTypeOK /\ ConnectionsAreAwaited /\ BusySwitch /\ (smooth => StepByStep)

\* PublishTypeOK, conjunct by conjunct.
LEMMA TypesSpelled ==
  PublishTypeOK <=>
    /\ biz \in {"room", "solo"}
    /\ wants \subseteq Kinds /\ has \subseteq Kinds /\ on \subseteq Kinds /\ asked \subseteq Kinds
    /\ pub \in Conns \cup {Nil}
    /\ sends \in [Conns -> [Kinds -> {"nothing", "local", "old"}]]
    /\ alive \subseteq Conns
    /\ doing \in [Activities -> {"no", "device", "refused", "strayed", "server"}]
    /\ pending \in [Activities -> Conns \cup {Nil}]
    /\ busyKind \in Kinds \cup {"none"}
    /\ lost \in BOOLEAN /\ smooth \in BOOLEAN
BY DEF PublishTypeOK

\* The two activities that never hold a connection on this page.
NeverConnect == {"quality", IF biz = "room" THEN "stream" ELSE "main"}

\* Three connections are enough for a page: the publication and those of the two
\* activities that publish never use them all up, so a new one has a name of its
\* own.
LEMMA FreshIsFree ==
  ASSUME PublishTypeOK, ConnectionsAreAwaited, NEW x \in Activities \ NeverConnect, pending[x] = Nil
  PROVE  Fresh \in Conns /\ Fresh # pub /\ \A y \in Activities : pending[y] # Fresh
<1>1. \A y \in Activities : pending[y] \in Conns \cup {Nil}
  BY TypesSpelled
<1>2. pub \in Conns \cup {Nil}
  BY TypesSpelled
<1>3. pending["quality"] = Nil /\ pending[IF biz = "room" THEN "stream" ELSE "main"] = Nil
  BY DEF ConnectionsAreAwaited, Activities
<1>4. \E a \in Conns : a # pub /\ \A y \in Activities : pending[y] # a
  <2>1. PICK b \in Conns : \A y \in Activities : pending[y] \in {b, Nil}
    <3>1. ASSUME \A y \in Activities : pending[y] = Nil
          PROVE  \E b \in Conns : \A y \in Activities : pending[y] \in {b, Nil}
      BY <3>1, ConnsAssumption
    <3>2. ASSUME NEW b \in Conns, NEW z \in Activities, pending[z] = b
          PROVE  \A y \in Activities : pending[y] \in {b, Nil}
      <4>1. z # "quality" /\ z # (IF biz = "room" THEN "stream" ELSE "main") /\ z # x
        BY <1>3, <3>2, ConnsAssumption
      <4>2. \A y \in Activities : y = z \/ y = x \/ y = "quality"
                                   \/ y = (IF biz = "room" THEN "stream" ELSE "main")
        BY <4>1 DEF Activities, NeverConnect
      <4> QED
        BY <1>3, <3>2, <4>1, <4>2
    <3> QED
      BY <1>1, <3>1, <3>2
  <2>2. PICK c \in Conns : pub \in {c, Nil}
    BY <1>2, <2>1
  <2>3. PICK a \in Conns \ {b, c} : TRUE
    BY ConnsAssumption
  <2> QED
    BY <2>1, <2>2, <2>3, ConnsAssumption
<1> DEFINE P(a) == a # pub /\ \A y \in Activities : pending[y] # a
<1>5. Fresh = CHOOSE a \in Conns : P(a)
  BY DEF Fresh
<1>6. \E a \in Conns : P(a)
  BY <1>4
<1> HIDE DEF P
<1>7. Fresh \in Conns /\ P(Fresh)
  BY <1>5, <1>6
<1> QED
  BY <1>7 DEF P

\* What a page refers to that has publication p and the pending ones.
Refs(p, pend) == {p} \cup {pend[x] : x \in Activities}

\* Refer keeps the types, and loses a connection only if it is not referred to.
LEMMA ReferredTyped ==
  ASSUME NEW p \in Conns \cup {Nil}, NEW pend \in [Activities -> Conns \cup {Nil}],
         NEW snd \in [Conns -> [Kinds -> {"nothing", "local", "old"}]],
         NEW opn \in SUBSET Conns, Refer(p, pend, snd, opn)
  PROVE  /\ pub' \in Conns \cup {Nil}
         /\ pending' \in [Activities -> Conns \cup {Nil}]
         /\ sends' \in [Conns -> [Kinds -> {"nothing", "local", "old"}]]
         /\ alive' \subseteq Conns /\ lost' \in BOOLEAN
         /\ pub' = p /\ pending' = pend
         /\ alive' = opn \cap Refs(p, pend)
         /\ (~lost /\ opn \subseteq Refs(p, pend) => ~lost')
  BY DEF Refer, Refs, Silence

\* A connection the page still refers to keeps what it sends.
LEMMA ReferredKept ==
  ASSUME NEW p, NEW pend, NEW snd, NEW opn, Refer(p, pend, snd, opn),
         NEW c \in Conns, c \in Refs(p, pend)
  PROVE  sends'[c] = snd[c]
  BY DEF Refer, Refs

\* Offers, and senders whose tracks have been replaced, are of their types.
LEMMA OffersTyped ==
  ASSUME NEW kinds \in SUBSET Kinds
  PROVE  /\ Offer(kinds) \in [Kinds -> {"nothing", "local", "old"}]
         /\ \A snd \in [Conns -> [Kinds -> {"nothing", "local", "old"}]] :
              /\ Aged(snd, kinds) \in [Conns -> [Kinds -> {"nothing", "local", "old"}]]
              /\ \A c \in Conns : [snd EXCEPT ![c] = Offer(kinds)]
                                    \in [Conns -> [Kinds -> {"nothing", "local", "old"}]]
  BY DEF Offer, Aged

\* A connection that was offered some kinds sends those kinds.
LEMMA OfferIsSent ==
  ASSUME NEW c \in Conns, NEW kinds \in SUBSET Kinds, sends[c] = Offer(kinds)
  PROVE  SentKinds(c) = kinds
  BY DEF SentKinds, Offer

\* Activity x takes a connection of its own.
LEMMA NewIsPending ==
  ASSUME PublishInvariant, NEW x \in Activities \ NeverConnect, pending[x] = Nil,
         NEW kinds \in SUBSET Kinds, NEW opn \in SUBSET Conns,
         NEW snd \in [Conns -> [Kinds -> {"nothing", "local", "old"}]],
         PublishNew(x, kinds, snd, opn)
  PROVE  /\ pub' = pub
         /\ pending' \in [Activities -> Conns \cup {Nil}]
         /\ sends' \in [Conns -> [Kinds -> {"nothing", "local", "old"}]]
         /\ alive' \subseteq Conns /\ lost' \in BOOLEAN
         /\ \A y \in Activities \ {x} : pending'[y] = pending[y]
         /\ pending'[x] \in Conns /\ sends'[pending'[x]] = Offer(kinds)
         /\ opn = {} /\ ~lost => ~lost' /\ alive' = {pending'[x]}
<1> DEFINE f == Fresh
           pend == [pending EXCEPT ![x] = f]
           given == [snd EXCEPT ![f] = Offer(kinds)]
<1>1. f \in Conns
  BY FreshIsFree DEF PublishInvariant, Activities
<1>2. /\ pub \in Conns \cup {Nil} /\ pending \in [Activities -> Conns \cup {Nil}] /\ lost \in BOOLEAN
  BY TypesSpelled DEF PublishInvariant
<1>3. Refer(pub, pend, given, opn \cup {f})
  BY DEF PublishNew
<1> HIDE DEF f
<1>4. given \in [Conns -> [Kinds -> {"nothing", "local", "old"}]] /\ given[f] = Offer(kinds)
  BY <1>1, OffersTyped
<1>5. pend \in [Activities -> Conns \cup {Nil}] /\ x \in Activities /\ pend[x] = f
  BY <1>1, <1>2 DEF Activities
<1>6. \A y \in Activities \ {x} : pend[y] = pending[y]
  BY <1>2, <1>5
<1>7. f \in Refs(pub, pend)
  BY <1>5 DEF Refs
<1> HIDE DEF pend, given
<1> DEFINE here == opn \cup {f}
<1>8. here \in SUBSET Conns /\ Refer(pub, pend, given, here)
  BY <1>1, <1>3
<1> HIDE DEF here
<1>9. /\ pub' = pub /\ pending' = pend
      /\ sends' \in [Conns -> [Kinds -> {"nothing", "local", "old"}]]
      /\ alive' \subseteq Conns /\ lost' \in BOOLEAN
      /\ alive' = here \cap Refs(pub, pend)
      /\ (~lost /\ here \subseteq Refs(pub, pend) => ~lost')
  BY ZenonT(40), <1>2, <1>4, <1>5, <1>8, ReferredTyped
<1>12. ASSUME NEW c \in Conns, c \in Refs(pub, pend) PROVE sends'[c] = given[c]
  BY <1>8, <1>12, ReferredKept
<1>10. sends'[f] = Offer(kinds)
  BY <1>1, <1>4, <1>7, <1>12
<1>11. ASSUME opn = {}, ~lost PROVE ~lost' /\ alive' = {f}
  <2>1. here = {f}
    BY <1>11 DEF here
  <2> QED
    BY <1>7, <1>9, <1>11, <2>1
<1> QED
  BY <1>1, <1>5, <1>6, <1>9, <1>10, <1>11

\* The types of what Refer changes, and of the rest of the page.
ConnsTyped ==
    /\ pub \in Conns \cup {Nil}
    /\ pending \in [Activities -> Conns \cup {Nil}]
    /\ sends \in [Conns -> [Kinds -> {"nothing", "local", "old"}]]
    /\ alive \subseteq Conns /\ lost \in BOOLEAN

PageTyped ==
    /\ biz \in {"room", "solo"}
    /\ wants \subseteq Kinds /\ has \subseteq Kinds /\ on \subseteq Kinds /\ asked \subseteq Kinds
    /\ doing \in [Activities -> {"no", "device", "refused", "strayed", "server"}]
    /\ busyKind \in Kinds \cup {"none"}
    /\ smooth \in BOOLEAN

\* The two together are the type invariant.
LEMMA TypesSplit == PublishTypeOK <=> ConnsTyped /\ PageTyped
BY TypesSpelled DEF ConnsTyped, PageTyped

\* The page's one connection, if any, and nothing else, is open.
OnlyPub == alive = {pub} \ {Nil} /\ ~lost

\* After publishOrUpdateStream the switch waits for a connection that offers the
\* local tracks; if the publication was all that was open, so is this one.
LEMMA UpdateIsPending ==
  ASSUME PublishInvariant, pending["switch"] = Nil, NEW kinds \in SUBSET Kinds,
         NEW snd \in [Conns -> [Kinds -> {"nothing", "local", "old"}]],
         PublishOrUpdate("switch", kinds, snd)
  PROVE  /\ ConnsTyped' /\ pub' = pub
         /\ \A y \in Activities \ {"switch"} : pending'[y] = pending[y]
         /\ pending'["switch"] \in Conns
         /\ sends'[pending'["switch"]] = Offer(kinds)
         /\ OnlyPub => ~lost' /\ alive' = {pending'["switch"]}
<1>1. "switch" \in Activities \ NeverConnect
  BY DEF Activities, NeverConnect
<1>2. ConnsTyped
  BY TypesSplit DEF PublishInvariant
<1>3. CASE pub = Nil
  <2>1. PublishNew("switch", kinds, snd, alive) /\ alive \in SUBSET Conns
    BY <1>2, <1>3 DEF PublishOrUpdate, ConnsTyped
  <2>2. OnlyPub => alive = {}
    BY <1>3 DEF OnlyPub
  <2>3. pub' = pub /\ pub \in Conns \cup {Nil}
    BY <1>1, <1>2, <2>1, NewIsPending DEF ConnsTyped
  <2>4. /\ pending' \in [Activities -> Conns \cup {Nil}]
        /\ sends' \in [Conns -> [Kinds -> {"nothing", "local", "old"}]]
        /\ alive' \subseteq Conns /\ lost' \in BOOLEAN
        /\ \A y \in Activities \ {"switch"} : pending'[y] = pending[y]
        /\ pending'["switch"] \in Conns /\ sends'[pending'["switch"]] = Offer(kinds)
        /\ alive = {} /\ ~lost => ~lost' /\ alive' = {pending'["switch"]}
    BY <1>1, <2>1, NewIsPending
  <2> QED
    BY <2>2, <2>3, <2>4 DEF ConnsTyped, OnlyPub
<1>4. CASE pub # Nil /\ kinds # SentKinds(pub)
  <2>1. PublishNew("switch", kinds, snd, alive \ {pub}) /\ alive \ {pub} \in SUBSET Conns
    BY <1>2, <1>4 DEF PublishOrUpdate, ConnsTyped
  <2>2. OnlyPub => alive \ {pub} = {}
    BY DEF OnlyPub
  <2>3. pub' = pub /\ pub \in Conns \cup {Nil}
    BY <1>1, <1>2, <2>1, NewIsPending DEF ConnsTyped
  <2>4. /\ pending' \in [Activities -> Conns \cup {Nil}]
        /\ sends' \in [Conns -> [Kinds -> {"nothing", "local", "old"}]]
        /\ alive' \subseteq Conns /\ lost' \in BOOLEAN
        /\ \A y \in Activities \ {"switch"} : pending'[y] = pending[y]
        /\ pending'["switch"] \in Conns /\ sends'[pending'["switch"]] = Offer(kinds)
        /\ alive \ {pub} = {} /\ ~lost => ~lost' /\ alive' = {pending'["switch"]}
    BY <1>1, <2>1, NewIsPending
  <2> QED
    BY <2>2, <2>3, <2>4 DEF ConnsTyped, OnlyPub
<1>5. CASE pub # Nil /\ kinds = SentKinds(pub)
  <2> DEFINE pend == [pending EXCEPT !["switch"] = pub]
             given == [snd EXCEPT ![pub] = Offer(kinds)]
  <2>1. Refer(pub, pend, given, alive) /\ pub \in Conns
    BY <1>2, <1>5 DEF PublishOrUpdate, ConnsTyped
  <2>2. /\ pend \in [Activities -> Conns \cup {Nil}] /\ pend["switch"] = pub
        /\ \A y \in Activities \ {"switch"} : pend[y] = pending[y]
    BY <1>1, <1>2, <2>1 DEF ConnsTyped
  <2>3. given \in [Conns -> [Kinds -> {"nothing", "local", "old"}]] /\ given[pub] = Offer(kinds)
    BY <2>1, OffersTyped
  <2> HIDE DEF pend, given
  <2>4. pub \in Refs(pub, pend) /\ alive \in SUBSET Conns /\ pub \in Conns \cup {Nil}
    BY <1>2, <2>1 DEF Refs, ConnsTyped
  <2>5. /\ pub' = pub /\ pending' = pend
        /\ sends' \in [Conns -> [Kinds -> {"nothing", "local", "old"}]]
        /\ alive' \subseteq Conns /\ lost' \in BOOLEAN
        /\ alive' = alive \cap Refs(pub, pend)
        /\ (~lost /\ alive \subseteq Refs(pub, pend) => ~lost')
    BY <2>1, <2>2, <2>3, <2>4, ReferredTyped
  <2>6. sends'[pub] = Offer(kinds)
    BY <2>1, <2>3, <2>4, ReferredKept
  <2>7. ASSUME OnlyPub PROVE ~lost' /\ alive' = {pub}
    BY <1>5, <2>4, <2>5, <2>7 DEF OnlyPub
  <2> QED
    BY <2>1, <2>2, <2>4, <2>5, <2>6, <2>7 DEF ConnsTyped
<1> QED
  BY <1>3, <1>4, <1>5

\* A step that makes no connection keeps the publication and what it sends.
LEMMA KeptConnections ==
  ASSUME PublishInvariant, NEW opn \in SUBSET Conns, opn \subseteq alive,
         NEW snd \in [Conns -> [Kinds -> {"nothing", "local", "old"}]],
         Refer(pub, pending, snd, opn)
  PROVE  /\ ConnsTyped' /\ pub' = pub /\ pending' = pending
         /\ OnlyPub => ~lost' /\ alive' = opn /\ (pub # Nil => sends'[pub] = snd[pub])
<1>1. /\ pub \in Conns \cup {Nil} /\ pending \in [Activities -> Conns \cup {Nil}]
      /\ pub \in Refs(pub, pending)
  BY TypesSplit DEF PublishInvariant, ConnsTyped, Refs
<1>2. /\ pub' = pub /\ pending' = pending
      /\ sends' \in [Conns -> [Kinds -> {"nothing", "local", "old"}]]
      /\ alive' \subseteq Conns /\ lost' \in BOOLEAN
      /\ alive' = opn \cap Refs(pub, pending)
      /\ (~lost /\ opn \subseteq Refs(pub, pending) => ~lost')
  BY <1>1, ReferredTyped
<1>3. pub # Nil => sends'[pub] = snd[pub]
  BY <1>1, ReferredKept
<1> QED
  BY <1>1, <1>2, <1>3 DEF ConnsTyped, OnlyPub

\* The two outcomes of a renewal: the switch waits for the server's answer, or
\* nothing had to be published.
AwaitsServer(k, kinds) ==
    /\ doing' = [doing EXCEPT !["switch"] = "server"] /\ busyKind' = k
    /\ pending'["switch"] \in Conns /\ sends'[pending'["switch"]] = Offer(kinds)
    /\ OnlyPub => ~lost' /\ alive' = {pending'["switch"]}

NotRenewed(fresh, kinds, snd) ==
    /\ doing' = [doing EXCEPT !["switch"] = "no"] /\ busyKind' = "none"
    /\ pending' = pending
    /\ kinds # {} /\ fresh => pub = Nil
    /\ OnlyPub => ~lost' /\ alive' = alive /\ (pub # Nil => sends'[pub] = snd[pub])

\* Renewing the publication has one of these two outcomes (Renew's two branches).
LEMMA RenewedPublication ==
  ASSUME PublishInvariant, NEW k \in Kinds, NEW fresh, NEW kinds \in SUBSET Kinds,
         NEW snd \in [Conns -> [Kinds -> {"nothing", "local", "old"}]],
         doing["switch"] # "server", Renew(k, fresh, kinds, snd)
  PROVE  /\ ConnsTyped' /\ pub' = pub
         /\ \A y \in Activities \ {"switch"} : doing'[y] = doing[y] /\ pending'[y] = pending[y]
         /\ AwaitsServer(k, kinds) \/ NotRenewed(fresh, kinds, snd)
<1> DEFINE needed == IF biz = "solo" THEN pub # Nil
                     ELSE fresh \/ (k \in wants' /\ k \in kinds /\ pub = Nil)
<1>1. pending["switch"] = Nil /\ alive \in SUBSET Conns /\ doing \in [Activities -> {"no", "device", "refused", "strayed", "server"}]
  BY TypesSplit DEF PublishInvariant, ConnectionsAreAwaited, Activities, ConnsTyped, PageTyped
<1>2. CASE needed /\ kinds # {}
  <2>1. /\ PublishOrUpdate("switch", kinds, snd)
        /\ doing' = [doing EXCEPT !["switch"] = "server"] /\ busyKind' = k
    BY <1>2 DEF Renew
  <2>2. \A y \in Activities \ {"switch"} : doing'[y] = doing[y]
    BY <1>1, <2>1
  <2> QED
    BY <1>1, <2>1, <2>2, UpdateIsPending DEF AwaitsServer
<1>3. CASE ~(needed /\ kinds # {})
  <2>1. /\ Refer(pub, pending, snd, alive)
        /\ doing' = [doing EXCEPT !["switch"] = "no"] /\ busyKind' = "none"
    BY <1>3 DEF Renew, Idle
  <2>2. \A y \in Activities \ {"switch"} : doing'[y] = doing[y]
    BY <1>1, <2>1
  <2>3. kinds # {} /\ fresh => pub = Nil
    BY <1>3
  <2> QED
    BY <1>1, <2>1, <2>2, <2>3, KeptConnections DEF NotRenewed
<1> QED
  BY <1>2, <1>3

\* What a smooth page is like while no activity waits for the server.
LEMMA BeforeTheServer ==
  ASSUME PublishInvariant, smooth, NEW x \in Activities, doing[x] # "server",
         \A y \in Activities \ {x} : doing[y] = "no"
  PROVE  /\ OnlyPub /\ (pub # Nil => sends[pub] = Offer(has))
         /\ pending = [y \in Activities |-> Nil]
<1>1. \A y \in Activities : doing[y] # "server"
  BY DEF PublishInvariant
<1>2. OnlyPub /\ (pub # Nil => sends[pub] = Offer(has))
  BY <1>1 DEF PublishInvariant, StepByStep, OnlyPub
<1>3. \A y \in Activities : pending[y] = Nil
  BY <1>1 DEF PublishInvariant, ConnectionsAreAwaited
<1>4. pending \in [Activities -> Conns \cup {Nil}]
  BY TypesSplit DEF PublishInvariant, ConnsTyped
<1> QED
  BY <1>2, <1>3, <1>4

\* A page that is just opened satisfies the invariant.
LEMMA PublishStarts == PublishInit => PublishInvariant
<1> SUFFICES ASSUME PublishInit PROVE PublishInvariant
  OBVIOUS
<1>1. /\ biz \in {"room", "solo"} /\ wants \subseteq Kinds /\ has = {} /\ on = {}
      /\ pub = Nil /\ sends = [c \in Conns |-> Silence] /\ alive = {}
      /\ asked = wants /\ pending = [x \in Activities |-> Nil]
      /\ busyKind = "none"
      /\ doing \in [Activities -> {"no", "device", "refused", "strayed", "server"}]
      /\ \A x \in Activities : doing[x] = "no" \/ (x = "main" /\ doing[x] = "device")
      /\ doing["main"] # "device" => wants = {}
  BY DEF PublishInit, Activities
<1>2. ~lost /\ smooth /\ lost \in BOOLEAN
  BY DEF PublishInit
<1>3. Silence \in [Kinds -> {"nothing", "local", "old"}]
  BY DEF Silence
<1>4. ConnsTyped
  BY <1>1, <1>2, <1>3 DEF ConnsTyped
<1>5. PageTyped
  BY <1>1, <1>2 DEF PageTyped
<1>6. ConnectionsAreAwaited /\ BusySwitch
  BY <1>1 DEF ConnectionsAreAwaited, BusySwitch, Activities
<1>7. StepByStep
  BY <1>1, <1>2 DEF StepByStep, Activities
<1> QED
  BY <1>4, <1>5, <1>6, <1>7, TypesSplit DEF PublishInvariant

\* The first capture, with whatever tracks it comes.
LEMMA FirstMediaKeeps ==
  ASSUME PublishInvariant, NEW got \in SUBSET Kinds, FirstMedia(got), wants' \subseteq Kinds,
         smooth' \in BOOLEAN, smooth' => smooth /\ wants' = wants /\ got = asked
  PROVE  PublishInvariant'
<1> DEFINE publishes == biz = "room" /\ got # {}
           snd == Aged(sends, Kinds)
<1>1. ConnsTyped /\ PageTyped /\ ConnectionsAreAwaited /\ BusySwitch
  BY TypesSplit DEF PublishInvariant
<1>2. /\ doing["main"] \in {"device", "refused"} /\ has' = got /\ on' \subseteq got /\ asked' = {}
      /\ doing' = [doing EXCEPT !["main"] = IF publishes THEN "server" ELSE "no",
                                !["switch"] = IF @ = "device" THEN "strayed" ELSE @]
      /\ UNCHANGED <<biz, busyKind>>
  BY DEF FirstMedia, Starting
<1>3. /\ doing'["main"] = IF publishes THEN "server" ELSE "no"
      /\ doing'["switch"] = IF doing["switch"] = "device" THEN "strayed" ELSE doing["switch"]
      /\ \A x \in Activities \ {"main", "switch"} : doing'[x] = doing[x]
      /\ doing' \in [Activities -> {"no", "device", "refused", "strayed", "server"}]
  BY <1>1, <1>2 DEF PageTyped, Activities
<1>4. PageTyped'
  BY <1>1, <1>2, <1>3 DEF PageTyped
<1>5. snd \in [Conns -> [Kinds -> {"nothing", "local", "old"}]] /\ alive \in SUBSET Conns
  BY <1>1, OffersTyped DEF ConnsTyped
<1>6. "main" \in Activities /\ pending["main"] = Nil
  BY <1>1, <1>2 DEF ConnectionsAreAwaited, Activities
<1>7. ASSUME smooth'
      PROVE  /\ smooth /\ pub = Nil /\ alive = {} /\ ~lost /\ wants' = got
             /\ \A y \in Activities \ {"main"} : doing'[y] = "no" /\ doing[y] = "no"
  <2>1. smooth /\ StepByStep /\ wants' = got
    BY <1>2, <1>7 DEF PublishInvariant, StepByStep
  <2>2. \A y \in Activities \ {"main"} : doing[y] = "no"
    BY <1>2, <1>6, <2>1 DEF StepByStep
  <2>3. OnlyPub
    BY <1>2, <1>6, <2>1, <2>2, BeforeTheServer
  <2>4. pub = Nil
    BY <1>2, <2>1 DEF StepByStep
  <2>5. "switch" \in Activities \ {"main"}
    BY DEF Activities
  <2> QED
    BY <1>3, <2>1, <2>2, <2>3, <2>4, <2>5 DEF OnlyPub
<1>8. BusySwitch'
  BY <1>1, <1>2, <1>3 DEF BusySwitch
<1>9. CASE publishes
  <2>1. PublishNew("main", got, snd, alive)
    BY <1>9 DEF FirstMedia
  <2>2. "main" \in Activities \ NeverConnect
    BY <1>9 DEF Activities, NeverConnect
  <2>3. pub' = pub /\ pub \in Conns \cup {Nil}
    BY <1>1, <1>5, <1>6, <2>1, <2>2, NewIsPending DEF ConnsTyped
  <2>4. /\ pending' \in [Activities -> Conns \cup {Nil}]
        /\ sends' \in [Conns -> [Kinds -> {"nothing", "local", "old"}]]
        /\ alive' \subseteq Conns /\ lost' \in BOOLEAN
        /\ \A y \in Activities \ {"main"} : pending'[y] = pending[y]
        /\ pending'["main"] \in Conns /\ sends'[pending'["main"]] = Offer(got)
        /\ alive = {} /\ ~lost => ~lost' /\ alive' = {pending'["main"]}
    BY <1>5, <1>6, <2>1, <2>2, NewIsPending
  <2>5. ConnsTyped'
    BY <2>3, <2>4 DEF ConnsTyped
  <2>6. ConnectionsAreAwaited'
    BY <1>1, <1>2, <1>3, <1>9, <2>4 DEF ConnectionsAreAwaited, Activities
  <2>7. ASSUME smooth' PROVE StepByStep'
    <3>1. /\ doing'["main"] = "server"
          /\ \A x \in Activities : doing'[x] # "no" => x = "main"
      BY <1>3, <1>7, <1>9, <2>7
    <3>2. doing'["switch"] = "no" /\ doing'["quality"] = "no"
      BY <1>7, <2>7 DEF Activities
    <3>3. ~lost' /\ alive' = {pending'["main"]} /\ wants' \subseteq has'
      BY <1>2, <1>7, <2>4, <2>7
    <3> QED
      BY <1>2, <1>6, <2>4, <3>1, <3>2, <3>3 DEF StepByStep
  <2> QED
    BY <1>4, <1>8, <2>5, <2>6, <2>7, TypesSplit, PTL DEF PublishInvariant
<1>10. CASE ~publishes
  <2>1. sends' = snd /\ UNCHANGED <<pub, alive, lost, pending>>
    BY <1>10 DEF FirstMedia
  <2>2. ConnsTyped'
    BY <1>1, <1>5, <2>1 DEF ConnsTyped
  <2>3. ConnectionsAreAwaited'
    BY <1>1, <1>2, <1>3, <1>10, <2>1 DEF ConnectionsAreAwaited, Activities
  <2>4. ASSUME smooth' PROVE StepByStep'
    <3>1. \A x \in Activities : doing'[x] = "no"
      BY <1>3, <1>7, <1>10, <2>4
    <3>2. doing'["switch"] = "no" /\ doing'["quality"] = "no" /\ wants' \subseteq has'
      BY <1>2, <1>7, <2>4, <3>1 DEF Activities
    <3> QED
      BY <1>6, <1>7, <2>1, <2>4, <3>1, <3>2 DEF StepByStep
  <2> QED
    BY <1>4, <1>8, <2>2, <2>3, <2>4, TypesSplit, PTL DEF PublishInvariant
<1> QED
  BY <1>9, <1>10

\* The server's answer to an activity's publication.
LEMMA PublishedKeeps ==
  ASSUME PublishInvariant, NEW x \in Activities, Published(x)
  PROVE  PublishInvariant'
<1> DEFINE p == pending[x]
           pend == [pending EXCEPT ![x] = Nil]
<1>1. ConnsTyped /\ PageTyped /\ ConnectionsAreAwaited /\ BusySwitch
  BY TypesSplit DEF PublishInvariant
<1>2. /\ doing[x] = "server" /\ doing' = [doing EXCEPT ![x] = "no"]
      /\ busyKind' = IF x = "switch" THEN "none" ELSE busyKind
      /\ Refer(p, pend, sends, alive)
      /\ UNCHANGED <<biz, wants, has, on, asked, smooth>>
  BY DEF Published, Idle, FreeSwitch, mediaVars
<1>3. /\ p \in Conns \cup {Nil} /\ pend \in [Activities -> Conns \cup {Nil}]
      /\ sends \in [Conns -> [Kinds -> {"nothing", "local", "old"}]] /\ alive \in SUBSET Conns
      /\ pend[x] = Nil /\ \A y \in Activities \ {x} : pend[y] = pending[y]
  BY <1>1 DEF ConnsTyped
<1>4. /\ doing' \in [Activities -> {"no", "device", "refused", "strayed", "server"}] /\ doing'[x] = "no"
      /\ \A y \in Activities \ {x} : doing'[y] = doing[y]
  BY <1>1, <1>2 DEF PageTyped
<1>5. p \in Refs(p, pend)
  BY DEF Refs
<1> HIDE DEF p, pend
<1>6. /\ pub' = p /\ pending' = pend
      /\ sends' \in [Conns -> [Kinds -> {"nothing", "local", "old"}]]
      /\ alive' \subseteq Conns /\ lost' \in BOOLEAN
      /\ alive' = alive \cap Refs(p, pend)
      /\ (~lost /\ alive \subseteq Refs(p, pend) => ~lost')
  BY <1>2, <1>3, ReferredTyped
<1>7. ASSUME p \in Conns PROVE sends'[p] = sends[p]
  BY <1>2, <1>5, <1>7, ReferredKept
<1>8. ConnsTyped' /\ PageTyped'
  BY <1>1, <1>2, <1>3, <1>4, <1>6 DEF ConnsTyped, PageTyped
<1>9. ConnectionsAreAwaited'
  <2>1. \A y \in Activities : pending'[y] # Nil => doing'[y] = "server"
    BY <1>1, <1>3, <1>4, <1>6 DEF ConnectionsAreAwaited
  <2>2. \A y \in Activities : doing'[y] = "server" => doing[y] = "server"
    BY <1>4
  <2> QED
    BY <1>1, <1>2, <2>1, <2>2 DEF ConnectionsAreAwaited, Activities
<1>10. BusySwitch'
  BY <1>1, <1>2, <1>4 DEF BusySwitch, Activities
<1>11. ASSUME smooth' PROVE StepByStep'
  <2>1. StepByStep /\ smooth
    BY <1>2, <1>11 DEF PublishInvariant
  <2>2. p \in Conns /\ alive = {p} /\ sends[p] = Offer(has) /\ ~lost
    BY <1>2, <2>1 DEF StepByStep, p
  <2>3. \A y \in Activities : doing'[y] = "no"
    BY <1>2, <1>4, <2>1 DEF StepByStep
  <2>4. alive' = {p} /\ ~lost' /\ sends'[p] = Offer(has') /\ p # Nil
    BY <1>2, <1>5, <1>6, <1>7, <2>2, ConnsAssumption
  <2>5. doing["main"] # "device" /\ doing["switch"] # "device"
    BY <1>2, <2>1 DEF StepByStep, Activities
  <2>6. wants' \subseteq has'
    BY <1>2, <2>1, <2>5 DEF StepByStep
  <2>7. doing'["main"] = "no" /\ doing'["switch"] = "no" /\ doing'["quality"] = "no"
    BY <2>3 DEF Activities
  <2> QED
    BY <1>6, <2>3, <2>4, <2>6, <2>7 DEF StepByStep
<1> QED
  BY <1>8, <1>9, <1>10, <1>11, TypesSplit, PTL DEF PublishInvariant

\* An activity that ends without having changed a connection.
LEMMA FailureKeeps ==
  ASSUME PublishInvariant, NEW x \in Activities, ~smooth', smooth' \in BOOLEAN,
         doing' = [doing EXCEPT ![x] = "no"],
         busyKind' = busyKind \/ (x = "switch" /\ busyKind' = "none"),
         ConnsTyped', \A y \in Activities : pending'[y] = IF y = x THEN Nil ELSE pending[y],
         UNCHANGED <<biz, wants, has, on, asked>>
  PROVE  PublishInvariant'
<1>1. ConnsTyped /\ PageTyped /\ ConnectionsAreAwaited /\ BusySwitch
  BY TypesSplit DEF PublishInvariant
<1>2. /\ doing' \in [Activities -> {"no", "device", "refused", "strayed", "server"}] /\ doing'[x] = "no"
      /\ \A y \in Activities \ {x} : doing'[y] = doing[y]
  BY <1>1 DEF PageTyped
<1>3. PageTyped'
  BY <1>1, <1>2 DEF PageTyped
<1>4. ConnectionsAreAwaited'
  <2>1. \A y \in Activities : pending'[y] # Nil => doing'[y] = "server"
    BY <1>1, <1>2 DEF ConnectionsAreAwaited
  <2>2. \A y \in Activities : doing'[y] = "server" => doing[y] = "server"
    BY <1>2
  <2> QED
    BY <1>1, <2>1, <2>2 DEF ConnectionsAreAwaited, Activities
<1>5. BusySwitch'
  BY <1>1, <1>2 DEF BusySwitch, Activities
<1> QED
  BY <1>3, <1>4, <1>5, TypesSplit, PTL DEF PublishInvariant

\* No answer, or an error: the page is not smooth any more, and its types hold.
LEMMA PublishFailsKeeps ==
  ASSUME PublishInvariant, NEW x \in Activities, PublishFails(x)
  PROVE  PublishInvariant'
<1> DEFINE pend == [pending EXCEPT ![x] = Nil]
<1>1. ConnsTyped
  BY TypesSplit DEF PublishInvariant
<1>2. /\ doing' = [doing EXCEPT ![x] = "no"]
      /\ busyKind' = IF x = "switch" THEN "none" ELSE busyKind
      /\ Refer(pub, pend, sends, alive) /\ UNCHANGED <<biz, wants, has, on, asked>>
  BY DEF PublishFails, Idle, FreeSwitch, mediaVars
<1>3. ~smooth' /\ smooth' \in BOOLEAN
  BY DEF PublishFails, Smoothly
<1>4. /\ pub \in Conns \cup {Nil} /\ pend \in [Activities -> Conns \cup {Nil}]
      /\ sends \in [Conns -> [Kinds -> {"nothing", "local", "old"}]] /\ alive \in SUBSET Conns
      /\ \A y \in Activities : pend[y] = IF y = x THEN Nil ELSE pending[y]
  BY <1>1 DEF ConnsTyped
<1> HIDE DEF pend
<1>5. /\ pub' = pub /\ pending' = pend
      /\ sends' \in [Conns -> [Kinds -> {"nothing", "local", "old"}]]
      /\ alive' \subseteq Conns /\ lost' \in BOOLEAN
  BY <1>2, <1>4, ReferredTyped
<1>6. ConnsTyped'
  BY <1>4, <1>5 DEF ConnsTyped
<1> QED
  BY <1>2, <1>3, <1>4, <1>5, <1>6, FailureKeeps

\* A device that cannot be opened.
LEMMA DeviceFailureKeeps ==
  ASSUME PublishInvariant, SwitchFails \/ QualityFails
  PROVE  PublishInvariant'
<1>1. ConnsTyped /\ PageTyped /\ ConnectionsAreAwaited
  BY TypesSplit DEF PublishInvariant
<1>2. PICK y \in {"switch", "quality"} :
         /\ doing[y] \in {"device", "strayed"} /\ doing' = [doing EXCEPT ![y] = "no"]
         /\ busyKind' = busyKind \/ (y = "switch" /\ busyKind' = "none")
         /\ UNCHANGED <<biz, wants, has, on, asked, pub, sends, alive, lost, pending>>
  <2>1. CASE SwitchFails
    BY <2>1 DEF SwitchFails, Idle, FreeSwitch, mediaVars, connVars
  <2>2. CASE QualityFails
    BY <2>2 DEF QualityFails, Idle, mediaVars, connVars
  <2> QED
    BY <2>1, <2>2
<1>3. ~smooth' /\ smooth' \in BOOLEAN
  BY DEF SwitchFails, QualityFails, Smoothly
<1>4. y \in Activities /\ pending[y] = Nil
  BY <1>1, <1>2 DEF ConnectionsAreAwaited, Activities
<1>5. ConnsTyped'
  BY <1>1, <1>2 DEF ConnsTyped
<1>6. \A z \in Activities : pending'[z] = IF z = y THEN Nil ELSE pending[z]
  BY <1>2, <1>4
<1> QED
  BY <1>2, <1>3, <1>4, <1>5, <1>6, FailureKeeps

\* What a switch leaves, once the publication is renewed: for the step of the switch
\* itself and for the track it waited for.
LEMMA RenewalKeeps ==
  ASSUME PublishInvariant, NEW k \in Kinds, NEW fresh, NEW kinds \in SUBSET Kinds,
         NEW snd \in [Conns -> [Kinds -> {"nothing", "local", "old"}]],
         doing["switch"] # "server", Renew(k, fresh, kinds, snd),
         has' = kinds, wants' \subseteq Kinds, on' \subseteq Kinds, UNCHANGED <<biz, asked>>,
         smooth' \in BOOLEAN,
         smooth' => /\ smooth /\ wants' \subseteq kinds
                    /\ \A y \in Activities \ {"switch"} : doing[y] = "no"
                    /\ \/ fresh /\ kinds # {}
                       \/ kinds = has /\ snd = sends
  PROVE  PublishInvariant'
<1>1. ConnsTyped /\ PageTyped /\ ConnectionsAreAwaited /\ BusySwitch
  BY TypesSplit DEF PublishInvariant
<1>2. /\ ConnsTyped' /\ pub' = pub
      /\ \A y \in Activities \ {"switch"} : doing'[y] = doing[y] /\ pending'[y] = pending[y]
  BY RenewedPublication
<1>3. AwaitsServer(k, kinds) \/ NotRenewed(fresh, kinds, snd)
  BY RenewedPublication
<1>4. "switch" \in Activities /\ "main" \in Activities /\ "quality" \in Activities
      /\ "stream" \in Activities /\ doing \in [Activities -> {"no", "device", "refused", "strayed", "server"}]
  BY <1>1 DEF Activities, PageTyped
<1>5. PageTyped'
  BY <1>1, <1>3, <1>4 DEF PageTyped, AwaitsServer, NotRenewed
<1>6. BusySwitch'
  BY <1>3, <1>4 DEF BusySwitch, AwaitsServer, NotRenewed
<1>7. ConnectionsAreAwaited'
  <2>1. pending["switch"] = Nil
    BY <1>1, <1>4 DEF ConnectionsAreAwaited
  <2>2. \A y \in Activities : pending'[y] # Nil => doing'[y] = "server"
    BY <1>1, <1>2, <1>3, <1>4, <2>1 DEF ConnectionsAreAwaited, AwaitsServer, NotRenewed
  <2>3. \A y \in Activities \ {"switch"} : doing'[y] = "server" => doing[y] = "server"
    BY <1>2
  <2> QED
    BY <1>1, <1>4, <2>2, <2>3 DEF ConnectionsAreAwaited
<1>8. ASSUME smooth' PROVE StepByStep'
  <2>1. OnlyPub /\ (pub # Nil => sends[pub] = Offer(has))
    BY <1>4, <1>8, BeforeTheServer
  <2>2. \A y \in Activities \ {"switch"} : doing'[y] = "no"
    BY <1>2, <1>8
  <2>3. doing'["main"] = "no" /\ wants' \subseteq has'
    BY <1>4, <1>8, <2>2
  <2>4. CASE AwaitsServer(k, kinds)
    <3>1. doing'["switch"] = "server"
      BY <1>4, <2>4 DEF AwaitsServer
    <3> QED
      BY <2>1, <2>2, <2>3, <2>4, <3>1, <1>4 DEF StepByStep, AwaitsServer
  <2>5. CASE NotRenewed(fresh, kinds, snd)
    <3>1. \A y \in Activities : doing'[y] = "no"
      BY <1>4, <2>2, <2>5 DEF NotRenewed
    <3>2. alive' = {pub'} \ {Nil} /\ ~lost'
      BY <1>2, <2>1, <2>5 DEF OnlyPub, NotRenewed
    <3>3. pub' # Nil => sends'[pub'] = Offer(has')
      BY <1>2, <1>8, <2>1, <2>5 DEF NotRenewed
    <3> QED
      BY <1>4, <2>3, <3>1, <3>2, <3>3 DEF StepByStep
  <2> QED
    BY <1>3, <2>4, <2>5
<1> QED
  BY <1>2, <1>5, <1>6, <1>7, <1>8, TypesSplit, PTL DEF PublishInvariant

\* A switch is touched: it waits for a device, or renews the publication at once.
LEMMA SwitchKeeps ==
  ASSUME PublishInvariant, NEW k \in Kinds, Switch(k)
  PROVE  PublishInvariant'
<1>1. ConnsTyped /\ PageTyped /\ ConnectionsAreAwaited /\ BusySwitch
  BY TypesSplit DEF PublishInvariant
<1>2. /\ busyKind = "none" /\ wants' \subseteq Kinds /\ UNCHANGED <<biz, has, asked>>
      /\ smooth' \in BOOLEAN /\ (smooth' => smooth /\ Quiet)
  BY <1>1 DEF Switch, Busy, PageTyped, Smoothly
<1>3. doing["switch"] = "no"
  <2>1. "none" \notin Kinds
    BY DEF Kinds
  <2> QED
    BY <1>1, <1>2, <2>1 DEF BusySwitch
<1>4. wants' = IF k \in wants THEN wants \ {k} ELSE wants \cup {k}
  BY DEF Switch
<1>5. smooth' => wants \subseteq has
  <2>1. "main" \in Activities /\ "switch" \in Activities
    BY DEF Activities
  <2> QED
    BY <1>2, <2>1 DEF PublishInvariant, StepByStep, Quiet
<1>6. CASE k \in wants' /\ k \notin has
  <2>1. /\ doing' = [doing EXCEPT !["switch"] = "device"] /\ busyKind' = k
        /\ UNCHANGED <<on, pub, sends, alive, lost, pending>>
    BY <1>6 DEF Switch, connVars
  <2>2. /\ doing'["switch"] = "device" /\ \A y \in Activities \ {"switch"} : doing'[y] = doing[y]
        /\ doing' \in [Activities -> {"no", "device", "refused", "strayed", "server"}]
        /\ "switch" \in Activities /\ "main" \in Activities \ {"switch"}
    BY <1>1, <2>1 DEF PageTyped, Activities
  <2>3. ConnsTyped' /\ PageTyped'
    BY <1>1, <1>2, <2>1, <2>2 DEF ConnsTyped, PageTyped
  <2>4. ConnectionsAreAwaited' /\ BusySwitch'
    BY <1>1, <1>2, <1>3, <2>1, <2>2 DEF ConnectionsAreAwaited, BusySwitch, Activities
  <2>5. ASSUME smooth' PROVE StepByStep'
    <3>1. smooth /\ \A y \in Activities : doing[y] = "no"
      BY <1>2, <2>5 DEF Quiet
    <3>2. OnlyPub /\ (pub # Nil => sends[pub] = Offer(has))
      BY <2>2, <3>1, BeforeTheServer
    <3>3. /\ doing'["main"] = "no" /\ doing'["quality"] = "no"
          /\ wants' \subseteq has \cup {k}
      BY <1>4, <1>5, <2>2, <2>5, <3>1 DEF Activities
    <3> QED
      BY <1>2, <2>1, <2>2, <3>1, <3>2, <3>3 DEF StepByStep, OnlyPub
  <2> QED
    BY <2>3, <2>4, <2>5, TypesSplit, PTL DEF PublishInvariant
<1>7. CASE ~(k \in wants' /\ k \notin has)
  <2>1. /\ on' = (on \ {k}) \cup (wants' \cap has \cap {k}) /\ Renew(k, FALSE, has, sends)
    BY <1>7 DEF Switch
  <2>2. /\ on' \subseteq Kinds /\ has \in SUBSET Kinds
        /\ sends \in [Conns -> [Kinds -> {"nothing", "local", "old"}]]
    BY <1>1, <2>1 DEF ConnsTyped, PageTyped
  <2>3. smooth' => /\ smooth /\ wants' \subseteq has
                   /\ \A y \in Activities \ {"switch"} : doing[y] = "no"
    BY <1>2, <1>4, <1>5, <1>7 DEF Quiet
  <2>4. doing["switch"] # "server"
    BY <1>3
  <2> QED
    BY <1>2, <2>1, <2>2, <2>3, <2>4, RenewalKeeps
<1> QED
  BY <1>6, <1>7

\* The device a switch waited for opens.
LEMMA TrackKeeps ==
  ASSUME PublishInvariant, SwitchGetsTrack
  PROVE  PublishInvariant'
<1> DEFINE k == busyKind
           mine == {x \in {k} : doing["switch"] = "device"}
           snd == Aged(sends, mine)
<1>1. ConnsTyped /\ PageTyped /\ ConnectionsAreAwaited /\ BusySwitch
  BY TypesSplit DEF PublishInvariant
<1>2. /\ doing["switch"] \in {"device", "strayed"}
      /\ has' = has \cup mine /\ on' = (on \ mine) \cup (wants \cap mine)
      /\ UNCHANGED <<biz, wants, asked, smooth>> /\ Renew(k, TRUE, has', snd)
  BY DEF SwitchGetsTrack
<1>3. k \in Kinds
  BY <1>1, <1>2 DEF BusySwitch
<1>4. mine \in SUBSET Kinds /\ has \cup mine \in SUBSET Kinds /\ on' \subseteq Kinds
  BY <1>1, <1>2, <1>3 DEF PageTyped
<1>5. snd \in [Conns -> [Kinds -> {"nothing", "local", "old"}]]
  BY <1>1, <1>4, OffersTyped DEF ConnsTyped
<1>6. Renew(k, TRUE, has \cup mine, snd)
  BY <1>2
<1>7. ASSUME smooth'
      PROVE  /\ smooth /\ wants' \subseteq has \cup mine
             /\ \A y \in Activities \ {"switch"} : doing[y] = "no"
             /\ has \cup mine # {}
  <2>1. smooth /\ StepByStep
    BY <1>2, <1>7 DEF PublishInvariant
  <2>2. doing["switch"] = "device" /\ mine = {k}
    BY <1>2, <2>1 DEF StepByStep
  <2>3. "switch" \in Activities /\ "main" \in Activities \ {"switch"}
    BY DEF Activities
  <2>4. \A y \in Activities \ {"switch"} : doing[y] = "no"
    BY <2>1, <2>2, <2>3 DEF StepByStep
  <2>5. wants \subseteq has \cup {k}
    BY <2>1, <2>2, <2>3, <2>4 DEF StepByStep
  <2> QED
    BY <1>2, <2>1, <2>2, <2>4, <2>5
<1>8. wants' \subseteq Kinds /\ smooth' \in BOOLEAN /\ doing["switch"] # "server"
  BY <1>1, <1>2 DEF PageTyped
<1> HIDE DEF k, mine, snd
<1> DEFINE kinds == has \cup mine
<1>9. kinds \in SUBSET Kinds /\ Renew(k, TRUE, kinds, snd) /\ has' = kinds
  BY <1>2, <1>4, <1>6
<1>10. smooth' => /\ smooth /\ wants' \subseteq kinds /\ kinds # {}
                  /\ \A y \in Activities \ {"switch"} : doing[y] = "no"
  BY <1>7
<1> HIDE DEF kinds
<1> QED
  BY <1>2, <1>3, <1>4, <1>5, <1>8, <1>9, <1>10, RenewalKeeps

\* A change of quality asks for the device, or gets the new picture.
LEMMA QualityKeeps ==
  ASSUME PublishInvariant, ChangeQuality \/ QualityGetsTrack
  PROVE  PublishInvariant'
<1>1. ConnsTyped /\ PageTyped /\ ConnectionsAreAwaited /\ BusySwitch
  BY TypesSplit DEF PublishInvariant
<1>2. /\ "quality" \in Activities /\ "switch" \in Activities \ {"quality"}
      /\ "main" \in Activities \ {"quality"} /\ "stream" \in Activities \ {"quality"}
  BY DEF Activities
<1>3. CASE ChangeQuality
  <2>1. /\ doing["quality"] = "no" /\ doing' = [doing EXCEPT !["quality"] = "device"]
        /\ "video" \in wants
        /\ UNCHANGED <<biz, wants, has, on, pub, sends, alive, lost, pending, busyKind, asked>>
    BY <1>3 DEF ChangeQuality, mediaVars, connVars
  <2>2. smooth' \in BOOLEAN /\ (smooth' => smooth /\ Quiet)
    BY <1>1, <1>3 DEF ChangeQuality, Smoothly, PageTyped
  <2>3. /\ doing'["quality"] = "device" /\ \A y \in Activities \ {"quality"} : doing'[y] = doing[y]
        /\ doing' \in [Activities -> {"no", "device", "refused", "strayed", "server"}]
    BY <1>1, <1>2, <2>1 DEF PageTyped
  <2>4. ConnsTyped' /\ PageTyped'
    BY <1>1, <2>1, <2>2, <2>3 DEF ConnsTyped, PageTyped
  <2>5. ConnectionsAreAwaited' /\ BusySwitch'
    BY <1>1, <1>2, <2>1, <2>3 DEF ConnectionsAreAwaited, BusySwitch
  <2>6. ASSUME smooth' PROVE StepByStep'
    <3>1. smooth /\ StepByStep /\ \A y \in Activities : doing[y] = "no"
      BY <2>2, <2>6 DEF Quiet, PublishInvariant
    <3>2. OnlyPub /\ (pub # Nil => sends[pub] = Offer(has)) /\ wants \subseteq has
      BY <1>2, <3>1, BeforeTheServer DEF StepByStep
    <3> QED
      BY <1>2, <2>1, <2>3, <3>1, <3>2 DEF StepByStep, OnlyPub
  <2> QED
    BY <2>4, <2>5, <2>6, TypesSplit, PTL DEF PublishInvariant
<1>4. CASE QualityGetsTrack
  <2> DEFINE snd == Aged(sends, {"video"})
             shown == [snd EXCEPT ![pub]["video"] = "local"]
  <2>1. /\ doing["quality"] = "device" /\ doing' = [doing EXCEPT !["quality"] = "no"]
        /\ has' = has \cup {"video"} /\ on' = (on \ {"video"}) \cup (wants \cap {"video"})
        /\ sends' = IF pub \in alive /\ snd[pub]["video"] # "nothing" THEN shown ELSE snd
        /\ UNCHANGED <<biz, wants, pub, alive, lost, pending, busyKind, asked, smooth>>
    BY <1>4 DEF QualityGetsTrack, NewPicture, Idle
  <2>2. /\ doing'["quality"] = "no" /\ \A y \in Activities \ {"quality"} : doing'[y] = doing[y]
        /\ doing' \in [Activities -> {"no", "device", "refused", "strayed", "server"}]
    BY <1>1, <1>2, <2>1 DEF PageTyped
  <2>3. snd \in [Conns -> [Kinds -> {"nothing", "local", "old"}]] /\ "video" \in Kinds
    BY <1>1, OffersTyped DEF ConnsTyped, Kinds
  <2>4. sends' \in [Conns -> [Kinds -> {"nothing", "local", "old"}]]
    BY <1>1, <2>1, <2>3 DEF ConnsTyped
  <2>5. ConnsTyped' /\ PageTyped'
    BY <1>1, <2>1, <2>2, <2>3, <2>4 DEF ConnsTyped, PageTyped
  <2>6. ConnectionsAreAwaited' /\ BusySwitch'
    BY <1>1, <1>2, <2>1, <2>2 DEF ConnectionsAreAwaited, BusySwitch
  <2>7. ASSUME smooth' PROVE StepByStep'
    <3>1. smooth /\ StepByStep /\ \A y \in Activities \ {"quality"} : doing[y] = "no"
      BY <1>2, <2>1, <2>7 DEF StepByStep, PublishInvariant
    <3>2. OnlyPub /\ (pub # Nil => sends[pub] = Offer(has)) /\ wants \subseteq has
      BY <1>2, <2>1, <3>1, BeforeTheServer DEF StepByStep
    <3>3. \A y \in Activities : doing'[y] = "no"
      BY <2>2, <3>1
    <3>4. ASSUME pub # Nil PROVE sends'[pub] = Offer(has')
      <4>1. pub \in alive /\ pub \in Conns
        BY <1>1, <3>2, <3>4 DEF OnlyPub, ConnsTyped
      <4>2. /\ \A j \in Kinds : snd[pub][j] = IF j = "video" /\ sends[pub][j] = "local" THEN "old"
                                             ELSE sends[pub][j]
        BY <2>3, <4>1 DEF Aged
      <4>3. \A j \in Kinds : sends[pub][j] = IF j \in has THEN "local" ELSE "nothing"
        BY <3>2, <3>4 DEF Offer
      <4>4. \A j \in Kinds : sends'[pub][j] = IF j \in has' THEN "local" ELSE "nothing"
        <5>1. CASE snd[pub]["video"] # "nothing"
          <6>1. sends' = shown
            BY <2>1, <4>1, <5>1
          <6>2. "video" \in has /\ has' = has
            BY <2>1, <2>3, <4>2, <4>3, <5>1
          <6>3. \A j \in Kinds : sends'[pub][j] = IF j = "video" THEN "local" ELSE snd[pub][j]
            BY <2>3, <4>1, <6>1
          <6> QED
            BY <4>2, <4>3, <6>2, <6>3
        <5>2. CASE snd[pub]["video"] = "nothing"
          <6>1. "video" \in has
            BY <2>1, <3>1, <3>2 DEF StepByStep
          <6> QED
            BY <2>3, <4>2, <4>3, <5>2, <6>1
        <5> QED
          BY <5>1, <5>2
      <4>5. sends'[pub] \in [Kinds -> {"nothing", "local", "old"}]
        BY <2>4, <4>1
      <4> QED
        BY <4>4, <4>5 DEF Offer
    <3> QED
      BY <1>2, <2>1, <3>2, <3>3, <3>4 DEF StepByStep, OnlyPub
  <2> QED
    BY <2>5, <2>6, <2>7, TypesSplit, PTL DEF PublishInvariant
<1> QED
  BY <1>3, <1>4

\* The start and the stop button of the publisher's page.
LEMMA StreamKeeps ==
  ASSUME PublishInvariant, StartStream \/ StopStream
  PROVE  PublishInvariant'
<1>1. ConnsTyped /\ PageTyped /\ ConnectionsAreAwaited /\ BusySwitch
  BY TypesSplit DEF PublishInvariant
<1>2. /\ "stream" \in Activities /\ "switch" \in Activities \ {"stream"}
      /\ "main" \in Activities \ {"stream"} /\ "quality" \in Activities \ {"stream"}
  BY DEF Activities
<1>3. CASE StartStream
  <2>1. /\ biz = "solo" /\ pub = Nil /\ doing["stream"] = "no"
        /\ PublishNew("stream", has, sends, alive)
        /\ doing' = [doing EXCEPT !["stream"] = "server"]
        /\ UNCHANGED <<biz, wants, has, on, busyKind, asked>>
    BY <1>3 DEF StartStream, mediaVars
  <2>2. smooth' \in BOOLEAN /\ (smooth' => smooth /\ Quiet)
    BY <1>1, <1>3 DEF StartStream, Smoothly, PageTyped
  <2>3. /\ doing'["stream"] = "server" /\ \A y \in Activities \ {"stream"} : doing'[y] = doing[y]
        /\ doing' \in [Activities -> {"no", "device", "refused", "strayed", "server"}]
    BY <1>1, <1>2, <2>1 DEF PageTyped
  <2>4. "stream" \in Activities \ NeverConnect /\ pending["stream"] = Nil
    BY <1>1, <1>2, <2>1 DEF NeverConnect, ConnectionsAreAwaited
  <2>5. /\ has \in SUBSET Kinds /\ alive \in SUBSET Conns
        /\ sends \in [Conns -> [Kinds -> {"nothing", "local", "old"}]]
    BY <1>1 DEF ConnsTyped, PageTyped
  <2>6. pub' = pub /\ pub \in Conns \cup {Nil}
    BY <1>1, <2>1, <2>4, <2>5, NewIsPending DEF ConnsTyped
  <2>7. /\ pending' \in [Activities -> Conns \cup {Nil}]
        /\ sends' \in [Conns -> [Kinds -> {"nothing", "local", "old"}]]
        /\ alive' \subseteq Conns /\ lost' \in BOOLEAN
        /\ \A y \in Activities \ {"stream"} : pending'[y] = pending[y]
        /\ pending'["stream"] \in Conns /\ sends'[pending'["stream"]] = Offer(has)
        /\ alive = {} /\ ~lost => ~lost' /\ alive' = {pending'["stream"]}
    BY <2>1, <2>4, <2>5, NewIsPending
  <2>8. ConnsTyped' /\ PageTyped'
    BY <1>1, <2>1, <2>2, <2>3, <2>6, <2>7 DEF ConnsTyped, PageTyped
  <2>9. ConnectionsAreAwaited' /\ BusySwitch'
    BY <1>1, <1>2, <2>1, <2>3, <2>7 DEF ConnectionsAreAwaited, BusySwitch
  <2>10. ASSUME smooth' PROVE StepByStep'
    <3>1. smooth /\ StepByStep /\ \A y \in Activities : doing[y] = "no"
      BY <2>2, <2>10 DEF Quiet, PublishInvariant
    <3>2. alive = {} /\ ~lost /\ wants \subseteq has
      BY <1>2, <2>1, <3>1, BeforeTheServer DEF StepByStep, OnlyPub
    <3> QED
      BY <1>2, <2>1, <2>3, <2>7, <3>1, <3>2 DEF StepByStep
  <2> QED
    BY <2>8, <2>9, <2>10, TypesSplit, PTL DEF PublishInvariant
<1>4. CASE StopStream
  <2> DEFINE opn == alive \ {pub}
  <2>1. /\ Refer(Nil, pending, sends, opn)
        /\ UNCHANGED <<biz, wants, has, on, doing, busyKind, asked>>
    BY <1>4 DEF StopStream, mediaVars
  <2>2. smooth' \in BOOLEAN /\ (smooth' => smooth /\ Quiet)
    BY <1>1, <1>4 DEF StopStream, Smoothly, PageTyped
  <2>3. /\ Nil \in Conns \cup {Nil} /\ pending \in [Activities -> Conns \cup {Nil}]
        /\ sends \in [Conns -> [Kinds -> {"nothing", "local", "old"}]] /\ opn \in SUBSET Conns
    BY <1>1 DEF ConnsTyped
  <2> HIDE DEF opn
  <2>4. /\ pub' = Nil /\ pending' = pending
        /\ sends' \in [Conns -> [Kinds -> {"nothing", "local", "old"}]]
        /\ alive' \subseteq Conns /\ lost' \in BOOLEAN
        /\ alive' = opn \cap Refs(Nil, pending)
        /\ (~lost /\ opn \subseteq Refs(Nil, pending) => ~lost')
    BY <2>1, <2>3, ReferredTyped
  <2>5. ConnsTyped' /\ PageTyped'
    BY <1>1, <2>1, <2>2, <2>3, <2>4 DEF ConnsTyped, PageTyped
  <2>6. ConnectionsAreAwaited' /\ BusySwitch'
    BY <1>1, <2>1, <2>4 DEF ConnectionsAreAwaited, BusySwitch
  <2>7. ASSUME smooth' PROVE StepByStep'
    <3>1. smooth /\ StepByStep /\ \A y \in Activities : doing[y] = "no"
      BY <2>2, <2>7 DEF Quiet, PublishInvariant
    <3>2. alive = {pub} \ {Nil} /\ ~lost /\ wants \subseteq has
      BY <1>2, <3>1, BeforeTheServer DEF StepByStep, OnlyPub
    <3>3. opn = {}
      BY <3>2 DEF opn
    <3>4. alive' = {pub'} \ {Nil} /\ ~lost'
      BY <2>4, <3>2, <3>3
    <3> QED
      BY <1>2, <2>1, <2>4, <3>1, <3>2, <3>4 DEF StepByStep
  <2> QED
    BY <2>5, <2>6, <2>7, TypesSplit, PTL DEF PublishInvariant
<1> QED
  BY <1>3, <1>4

\* Every step of the page keeps the invariant.
LEMMA PublishStep == PublishInvariant /\ [PublishNext]_publishVars => PublishInvariant'
<1> SUFFICES ASSUME PublishInvariant, [PublishNext]_publishVars PROVE PublishInvariant'
  OBVIOUS
<1>1. ConnsTyped /\ PageTyped
  BY TypesSplit DEF PublishInvariant
<1>2. CASE FirstMediaComes
  <2>1. FirstMedia(asked) /\ UNCHANGED <<wants, smooth>>
    BY <1>2 DEF FirstMediaComes
  <2>2. asked \in SUBSET Kinds /\ wants' \subseteq Kinds /\ smooth' \in BOOLEAN
    BY <1>1, <2>1 DEF PageTyped
  <2> QED
    BY <2>1, <2>2, FirstMediaKeeps
<1>3. CASE FirstMediaFails
  <2>1. wants' = {} /\ ~smooth' /\ smooth' \in BOOLEAN
    BY <1>3 DEF FirstMediaFails, Smoothly
  <2>2. CASE biz = "solo"
    <3>1. FirstMedia({}) /\ {} \in SUBSET Kinds
      BY <1>3, <2>2 DEF FirstMediaFails
    <3> QED
      BY <2>1, <3>1, FirstMediaKeeps
  <2>3. CASE biz # "solo"
    <3>1. /\ doing["main"] = "device" /\ doing' = [doing EXCEPT !["main"] = "refused"]
          /\ asked' = {}
          /\ UNCHANGED <<biz, has, on, pub, sends, alive, lost, pending, busyKind>>
      BY <1>3, <2>3 DEF FirstMediaFails, mediaVars, connVars
    <3>2. /\ doing' \in [Activities -> {"no", "device", "refused", "strayed", "server"}]
          /\ \A y \in Activities : doing'[y] = IF y = "main" THEN "refused" ELSE doing[y]
      BY <1>1, <3>1 DEF PageTyped
    <3>3. ConnsTyped' /\ PageTyped'
      BY <1>1, <2>1, <3>1, <3>2 DEF ConnsTyped, PageTyped
    <3>4. ConnectionsAreAwaited' /\ BusySwitch'
      BY <3>1, <3>2 DEF PublishInvariant, ConnectionsAreAwaited, BusySwitch, Activities
    <3> QED
      BY <2>1, <3>3, <3>4, TypesSplit, PTL DEF PublishInvariant
  <2> QED
    BY <2>2, <2>3
<1>4. CASE UNCHANGED publishVars
  <2>1. UNCHANGED <<biz, wants, has, on, pub, sends, alive, lost, doing, pending, busyKind,
                    asked, smooth>>
    BY <1>4 DEF publishVars
  <2>2. ConnsTyped' /\ PageTyped'
    BY <1>1, <2>1 DEF ConnsTyped, PageTyped
  <2>3. ConnectionsAreAwaited' /\ BusySwitch' /\ (smooth' => StepByStep')
    BY <2>1 DEF PublishInvariant, ConnectionsAreAwaited, BusySwitch, StepByStep, Offer
  <2> QED
    BY <2>2, <2>3, TypesSplit, PTL DEF PublishInvariant
<1> QED
  BY <1>2, <1>3, <1>4, PublishedKeeps, PublishFailsKeeps, SwitchKeeps, TrackKeeps,
     DeviceFailureKeeps, QualityKeeps, StreamKeeps DEF PublishNext

\* A publishing page keeps its types for any number of connections: in particular
\* a new connection always has a name no other activity uses (publishStream is
\* only called by those that may publish).
THEOREM PublishTypeCorrect == PublishSpec => []PublishTypeOK
<1>1. PublishInvariant => PublishTypeOK
  BY DEF PublishInvariant
<1> QED
  BY <1>1, PublishStarts, PublishStep, PTL DEF PublishSpec

\* As long as nothing fails and nothing overlaps, a page that is quiet has the one
\* open connection it knows, which sends exactly the local tracks: toggleMic and
\* toggleCam, applyQuality and toggleStream close what they replace (app.js,
\* push.js: publishOrUpdateStream, closePublishPC).
THEOREM OneConnectionInStep == PublishSpec => []PublicationInStep
<1>1. PublishInvariant => PublicationInStep
  <2> SUFFICES ASSUME PublishInvariant, smooth, Quiet
               PROVE  ~lost /\ (pub # Nil => pub \in alive /\ sends[pub] = Offer(has))
    BY DEF PublicationInStep
  <2>1. "main" \in Activities /\ \A y \in Activities : doing[y] = "no"
    BY DEF Activities, Quiet
  <2> QED
    BY <2>1, BeforeTheServer DEF OnlyPub
<1> QED
  BY <1>1, PublishStarts, PublishStep, PTL DEF PublishSpec

\* The stream captured takes the place of the local one, its tracks set to the
\* switches of that moment (app.js, push.js: the first capture).
LEMMA CapturedAsWanted ==
  ASSUME NEW got, FirstMedia(got), wants' = wants \/ got = {}
  PROVE  SwitchesAreObeyed'
<1>1. on' = got \cap wants /\ has' = got
  BY DEF FirstMedia
<1>2. on' = has' \cap wants' /\ on' \subseteq wants'
  BY <1>1
<1> QED
  BY <1>2 DEF SwitchesAreObeyed

\* After a failed capture the page waits for its connection, whatever the switches,
\* the quality and the publications do meanwhile.
LEMMA RefusalLasts ==
  ASSUME PublishTypeOK, doing["main"] = "refused", [PublishNext]_publishVars, ~FirstMediaComes
  PROVE  doing'["main"] = "refused"
<1>1. \A y \in Activities : \A v : y # "main" => [doing EXCEPT ![y] = v]["main"] = "refused"
  BY TypesSpelled DEF Activities
<1>2. {"switch", "quality", "stream"} \subseteq Activities
  BY DEF Activities
<1>3. CASE UNCHANGED doing
  BY <1>3
<1>4. CASE \E x \in Activities : Published(x) \/ PublishFails(x)
  BY <1>1, <1>4 DEF Published, PublishFails, Idle
<1>5. CASE \E k \in Kinds : Switch(k)
  <2>1. PICK v : doing' = [doing EXCEPT !["switch"] = v]
    BY <1>5 DEF Switch, Renew, Idle
  <2> QED
    BY <1>1, <1>2, <2>1
<1>6. CASE SwitchGetsTrack \/ SwitchFails
  <2>1. PICK v : doing' = [doing EXCEPT !["switch"] = v]
    BY <1>6 DEF SwitchGetsTrack, SwitchFails, Renew, Idle
  <2> QED
    BY <1>1, <1>2, <2>1
<1>7. CASE ChangeQuality \/ QualityGetsTrack \/ QualityFails
  BY <1>1, <1>2, <1>7 DEF ChangeQuality, QualityGetsTrack, QualityFails, Idle
<1>8. CASE StartStream \/ StopStream
  BY <1>1, <1>2, <1>8 DEF StartStream, StopStream
<1>9. ~FirstMediaFails
  BY DEF FirstMediaFails
<1> QED
  BY <1>3, <1>4, <1>5, <1>6, <1>7, <1>8, <1>9 DEF PublishNext, publishVars

\* A track of the local stream is enabled exactly while its switch is on: every
\* step that adds a track, and every step that turns a switch, settles the track's
\* `enabled' by the switch as it is then, not as it was when the device was asked
\* for.  Only a failed first capture turns both switches off and leaves the tracks,
\* which go with their stream as soon as the page has connected.
THEOREM TracksObeyTheirSwitch == PublishSpec => []SwitchesAreObeyed
<1>1. PublishInit => SwitchesAreObeyed
  BY DEF PublishInit, SwitchesAreObeyed
<1>2. PublishTypeOK /\ SwitchesAreObeyed /\ [PublishNext]_publishVars => SwitchesAreObeyed'
  <2> SUFFICES ASSUME PublishTypeOK, SwitchesAreObeyed, [PublishNext]_publishVars
               PROVE  SwitchesAreObeyed'
    OBVIOUS
  <2>0. /\ has \cap wants \subseteq on /\ on \subseteq has
        /\ FirstMediaComes \/ doing'["main"] = "refused" \/ on \subseteq wants
    BY RefusalLasts DEF SwitchesAreObeyed
  <2>1. CASE FirstMediaComes
    BY <2>1, CapturedAsWanted DEF FirstMediaComes
  <2>2. CASE FirstMediaFails
    <3>1. CASE biz = "solo"
      BY <2>2, <3>1, CapturedAsWanted DEF FirstMediaFails
    <3>2. CASE biz # "solo"
      <4>1. doing["main"] = "device" /\ doing' = [doing EXCEPT !["main"] = "refused"]
        BY <2>2, <3>2 DEF FirstMediaFails
      <4>2. doing'["main"] = "refused"
        BY <4>1, TypesSpelled DEF Activities
      <4>3. wants' = {} /\ has' = has /\ on' = on
        BY <2>2, <3>2 DEF FirstMediaFails, mediaVars
      <4> QED
        BY <2>0, <4>2, <4>3 DEF SwitchesAreObeyed
    <3> QED
      BY <3>1, <3>2
  <2>3. ASSUME NEW k \in Kinds, Switch(k) PROVE SwitchesAreObeyed'
    \* Only a switch turned on for a kind without a track leaves the tracks alone.
    <3>1. CASE k \in wants' /\ k \notin has
      <4>1. /\ wants' = wants \/ wants' = wants \cup {k} \/ wants' = wants \ {k}
            /\ on' = on /\ has' = has
        BY <2>3, <3>1 DEF Switch
      <4> QED
        BY <2>0, <2>1, <3>1, <4>1 DEF SwitchesAreObeyed
    <3>2. CASE ~(k \in wants' /\ k \notin has)
      <4>1. /\ wants' = IF k \in wants THEN wants \ {k} ELSE wants \cup {k}
            /\ on' = (on \ {k}) \cup (wants' \cap has \cap {k})
            /\ has' = has
        BY <2>3, <3>2 DEF Switch
      <4> QED
        BY <2>0, <2>1, <4>1 DEF SwitchesAreObeyed
    <3> QED
      BY <3>1, <3>2
  <2>4. CASE SwitchGetsTrack
    <3> DEFINE mine == {x \in {busyKind} : doing["switch"] = "device"}
    <3>1. /\ has' = has \cup mine
          /\ on' = (on \ mine) \cup (wants \cap mine)
          /\ wants' = wants
      BY <2>4 DEF SwitchGetsTrack
    <3> HIDE DEF mine
    <3> QED
      BY <2>0, <2>1, <3>1 DEF SwitchesAreObeyed
  <2>5. CASE QualityGetsTrack
    BY <2>0, <2>1, <2>5 DEF QualityGetsTrack, SwitchesAreObeyed
  <2>6. CASE UNCHANGED <<wants, has, on>>
    BY <2>0, <2>1, <2>6 DEF SwitchesAreObeyed
  <2> QED
    BY <2>1, <2>2, <2>3, <2>4, <2>5, <2>6
       DEF PublishNext, publishVars, mediaVars, Published, PublishFails, SwitchFails,
           ChangeQuality, QualityFails, StartStream, StopStream
<1> QED
  BY <1>1, <1>2, PublishTypeCorrect, PTL DEF PublishSpec

-----------------------------------------------------------------------------
(* SoloPlay: only the pull under way may answer, and it is the current     *)
(* one.                                                                    *)

USE PlaysAssumption

\* The initial values have their types.
LEMMA PlayTypeStarts == PlayInit => PlayTypeOK
<1>1. PlayInit => pulling \in BOOLEAN
  BY DEF PlayInit
<1> QED
  BY <1>1 DEF PlayInit, PlayTypeOK, NoPlay

\* Every step keeps them.
LEMMA PlayTypeStep == PlayTypeOK /\ [PlayNext]_playVars => PlayTypeOK'
<1> SUFFICES ASSUME PlayTypeOK, [PlayNext]_playVars PROVE PlayTypeOK'
  OBVIOUS
<1> USE DEF PlayTypeOK, NoPlay, Plays
<1>1. CASE ClickStart
  BY <1>1 DEF ClickStart, StartPull
<1>2. CASE ClickStop
  <2>1. pulling' \in BOOLEAN
    BY <1>2 DEF ClickStop
  <2> QED
    BY <1>2, <2>1 DEF ClickStop, Invalidate, TearDown
<1>3. CASE PublisherBack
  BY <1>3 DEF PublisherBack, StartPull, TearDown
<1>4. CASE PublisherGone
  <2>1. pulling' \in BOOLEAN
    BY <1>4 DEF PublisherGone
  <2> QED
    BY <1>4, <2>1 DEF PublisherGone, Invalidate, TearDown
<1>5. ASSUME NEW p \in Plays, SoloAnswered(p) PROVE PlayTypeOK'
  <2>1. pulling' \in BOOLEAN
    BY <1>5 DEF SoloAnswered
  <2>2. /\ p \in waiting /\ waiting' \subseteq waiting
        /\ playing' \subseteq playing \cup {p}
        /\ pull' \in {p, NoPlay}
        /\ UNCHANGED <<started, current, video>>
    BY <1>5 DEF SoloAnswered
  <2> QED
    BY <2>1, <2>2
<1>6. ASSUME NEW p \in Plays, SoloFails(p) PROVE PlayTypeOK'
  <2>1. pulling' \in BOOLEAN
    BY <1>6 DEF SoloFails
  <2>2. /\ waiting' \subseteq waiting /\ playing' \subseteq playing
        /\ current' \in {current, NoPlay}
        /\ pull' \in {pull, NoPlay} /\ video' \in {video, NoPlay}
        /\ UNCHANGED started
    BY <1>6 DEF SoloFails, Invalidate, TearDown
  <2> QED
    BY <2>1, <2>2
<1>7. ASSUME NEW p \in Plays, PlayTrack(p) PROVE PlayTypeOK'
  BY <1>7 DEF PlayTrack
<1>8. ASSUME NEW p \in Plays, PlayBreaks(p) PROVE PlayTypeOK'
  <2>1. pulling' \in BOOLEAN
    BY <1>8 DEF PlayBreaks
  <2> QED
    BY <1>8, <2>1 DEF PlayBreaks, Invalidate, TearDown
<1>9. CASE UNCHANGED playVars
  BY <1>9 DEF playVars
<1> QED
  BY <1>1, <1>2, <1>3, <1>4, <1>5, <1>6, <1>7, <1>8, <1>9 DEF PlayNext

\* Every variable keeps its type: what the page waits for, plays, holds or shows
\* are pulls it has started (play.js:99-139).
THEOREM PlayTypeCorrect == PlaySpec => []PlayTypeOK
BY PlayTypeStarts, PlayTypeStep, PTL DEF PlaySpec

\* The latest pull is waited for only while the page is busy, so nothing starts
\* another one beside it (play.js:100, 138).
BusyWhileWaiting == current \in waiting => pulling

\* The inductive invariant.
PlayInvariant == PlayTypeOK /\ BusyWhileWaiting /\ PlayerIsCurrent

\* The player the page holds is that of the latest pull, and the picture shown is
\* that of an open player or of the latest pull, whichever answers come too late.
THEOREM LateAnswersLose == PlaySpec => []PlayerIsCurrent
<1>1. PlayInit => PlayInvariant
  <2>1. PlayInit => pulling \in BOOLEAN
    BY DEF PlayInit
  <2> QED
    BY <2>1 DEF PlayInit, PlayInvariant, PlayTypeOK, BusyWhileWaiting, PlayerIsCurrent, NoPlay
<1>2. PlayTypeOK' /\ PlayInvariant /\ [PlayNext]_playVars => PlayInvariant'
  <2> SUFFICES ASSUME PlayTypeOK', PlayInvariant, [PlayNext]_playVars
               PROVE  BusyWhileWaiting' /\ PlayerIsCurrent'
    BY DEF PlayInvariant
  <2> USE DEF PlayInvariant, BusyWhileWaiting, PlayerIsCurrent, PlayTypeOK, NoPlay, Plays
  <2>1. CASE ClickStart
    BY <2>1 DEF ClickStart, StartPull
  <2>2. CASE ClickStop
    BY <2>2 DEF ClickStop, Invalidate, TearDown
  <2>3. CASE PublisherBack
    BY <2>3 DEF PublisherBack, StartPull, TearDown
  <2>4. CASE PublisherGone
    BY <2>4 DEF PublisherGone, Invalidate, TearDown
  <2>5. ASSUME NEW p \in Plays, SoloAnswered(p)
        PROVE  BusyWhileWaiting' /\ PlayerIsCurrent'
    BY <2>5 DEF SoloAnswered
  <2>6. ASSUME NEW p \in Plays, SoloFails(p)
        PROVE  BusyWhileWaiting' /\ PlayerIsCurrent'
    BY <2>6 DEF SoloFails, Invalidate, TearDown
  <2>7. ASSUME NEW p \in Plays, PlayTrack(p)
        PROVE  BusyWhileWaiting' /\ PlayerIsCurrent'
    BY <2>7 DEF PlayTrack
  <2>8. ASSUME NEW p \in Plays, PlayBreaks(p)
        PROVE  BusyWhileWaiting' /\ PlayerIsCurrent'
    BY <2>8 DEF PlayBreaks, Invalidate, TearDown
  <2>9. CASE UNCHANGED playVars
    BY <2>9 DEF playVars
  <2> QED
    BY <2>1, <2>2, <2>3, <2>4, <2>5, <2>6, <2>7, <2>8, <2>9 DEF PlayNext
<1>3. PlayInvariant => PlayerIsCurrent
  BY DEF PlayInvariant
<1> QED
  BY <1>1, <1>2, <1>3, PlayTypeCorrect, PTL DEF PlaySpec

-----------------------------------------------------------------------------
(* PeerPull: pulls are numbered in the order in which they begin, so that  *)
(* a later one is never taken for an earlier one.                          *)

\* The bounds the proofs use.
LEMMA Bounds == MaxPulls \in Nat /\ MaxObjects \in Nat \ {0}
BY PullAssumption

USE Bounds

\* What pulls, objects and players are named by.
PullsAreNumbered ==
    /\ begun \in 0 .. MaxPulls
    /\ objects \in 0 .. MaxObjects /\ peer \in 0 .. objects
    /\ objOf \in [Pulls -> Objects]
    /\ phase \in [Pulls -> {"unused", "asked", "answered", "asleep", "over", "gaveUp"}]
    /\ latest \in [Objects -> 0 .. begun]
    /\ kept \in [Objects -> 0 .. begun]
    /\ pcs \subseteq 1 .. begun
    /\ \A p \in Pulls : phase[p] # "unused" => p <= begun

\* The inductive invariant: a player is held by an object only under a number of
\* its own.
PullInvariant == PullsAreNumbered /\ PlayersAreHeld

\* A pull begins by closing what its object plays, unless there is nothing: pulls
\* that are still under way find a later one (app.js:423-436).
LEMMA BeginIsSafe ==
  ASSUME PullInvariant, NEW o \in Objects, NEW stopped \in SUBSET Objects, Begin(o, stopped),
         o \in stopped \/ kept[o] = NoPull, objects' \in 0 .. MaxObjects, peer' \in 0 .. objects'
  PROVE  PullInvariant'
<1> DEFINE p == begun + 1
<1> USE DEF Pulls, Objects, NoPull
<1>1. /\ p \in Pulls /\ begun' = p
      /\ objOf' = [objOf EXCEPT ![p] = o]
      /\ phase' = [phase EXCEPT ![p] = "asked"]
      /\ latest' = [latest EXCEPT ![o] = p]
      /\ kept' = [x \in Objects |-> IF x \in stopped THEN NoPull ELSE kept[x]]
      /\ pcs' = pcs \ {kept[x] : x \in stopped}
  BY DEF Begin
<1>2. /\ begun \in 0 .. MaxPulls
      /\ objOf \in [Pulls -> Objects]
      /\ phase \in [Pulls -> {"unused", "asked", "answered", "asleep", "over", "gaveUp"}]
      /\ latest \in [Objects -> 0 .. begun]
      /\ kept \in [Objects -> 0 .. begun]
      /\ pcs \subseteq 1 .. begun
      /\ \A q \in Pulls : phase[q] # "unused" => q <= begun
  BY DEF PullInvariant, PullsAreNumbered
<1>3. PullsAreNumbered'
  <2>0. begun \in Nat
    BY <1>2
  <2>1. begun' = begun + 1 /\ begun' \in 0 .. MaxPulls
    BY <1>1, <1>2
  <2>2. objOf' \in [Pulls -> Objects]
    <3>1. objOf' = [objOf EXCEPT ![p] = o] /\ objOf \in [Pulls -> Objects]
      BY <1>1, <1>2
    <3> QED
      BY <3>1
  <2>3. phase' \in [Pulls -> {"unused", "asked", "answered", "asleep", "over", "gaveUp"}]
    BY <1>1, <1>2
  <2>4. \A q \in Pulls : phase'[q] # "unused" => q <= begun'
    BY <1>1, <1>2
  <2>5. latest' \in [Objects -> 0 .. begun']
    <3>1. latest' = [latest EXCEPT ![o] = begun'] /\ latest \in [Objects -> 0 .. begun]
      BY <1>1, <1>2
    <3> QED
      BY <2>0, <2>1, <3>1
  <2>6. kept' \in [Objects -> 0 .. begun']
    <3>1. /\ kept' = [x \in Objects |-> IF x \in stopped THEN NoPull ELSE kept[x]]
          /\ kept \in [Objects -> 0 .. begun]
      BY <1>1, <1>2
    <3> QED
      BY <2>0, <2>1, <3>1
  <2>7. pcs' \subseteq 1 .. begun'
    <3>1. pcs' \subseteq pcs /\ pcs \subseteq 1 .. begun
      BY <1>1, <1>2
    <3> QED
      BY <2>0, <2>1, <3>1
  <2> QED
    BY <2>1, <2>2, <2>3, <2>4, <2>5, <2>6, <2>7 DEF PullsAreNumbered
<1>4. ASSUME NEW q \in pcs'
      PROVE  kept'[objOf'[q]] = q /\ latest'[objOf'[q]] = q
  <2>1. q \in pcs /\ q # p /\ q \in Pulls /\ q # 0
    BY <1>1, <1>2
  <2>2. objOf'[q] = objOf[q] /\ kept[objOf[q]] = q /\ latest[objOf[q]] = q
    BY <1>1, <1>2, <2>1 DEF PullInvariant, PlayersAreHeld
  <2>3. objOf[q] \in Objects
    BY <1>2, <2>1
  <2>4. objOf[q] \notin stopped
    BY <1>1, <2>2
  <2>5. objOf[q] # o
    BY <2>1, <2>2, <2>4
  <2>6. kept'[objOf[q]] = q
    BY <1>1, <2>2, <2>3, <2>4
  <2>7. latest'[objOf[q]] = q
    BY <1>1, <1>2, <2>2, <2>3, <2>5
  <2> QED
    BY <2>2, <2>6, <2>7
<1> QED
  BY <1>3, <1>4 DEF PullInvariant, PlayersAreHeld

\* The player of an object is closed and no other one.
LEMMA PlayerClosed ==
  ASSUME PullInvariant, NEW o \in Objects, pcs' = pcs \ {kept[o]}, kept' = [kept EXCEPT ![o] = NoPull],
         UNCHANGED <<peer, objects, objOf, phase, latest, begun>>
  PROVE  PullInvariant'
<1>1. kept' \in [Objects -> 0 .. begun] /\ pcs' \subseteq pcs
  <2>1. begun \in Nat /\ kept \in [Objects -> 0 .. begun]
    BY DEF PullInvariant, PullsAreNumbered
  <2> QED
    BY <2>1 DEF NoPull
<1>2. PullsAreNumbered'
  BY <1>1 DEF PullInvariant, PullsAreNumbered
<1>3. ASSUME NEW q \in pcs' PROVE kept'[objOf'[q]] = q /\ latest'[objOf'[q]] = q
  <2>1. kept[objOf[q]] = q /\ latest[objOf[q]] = q /\ q # kept[o]
    BY <1>3 DEF PullInvariant, PlayersAreHeld
  <2>2. objOf[q] # o
    BY <2>1
  <2>3. kept'[objOf[q]] = kept[objOf[q]]
    BY <2>2
  <2> QED
    BY <2>1, <2>3
<1> QED
  BY <1>2, <1>3 DEF PullInvariant, PlayersAreHeld

\* ensurePeer finds the member's object or makes the next one (app.js:318-336).
LEMMA EnsureFits ==
  ASSUME PullsAreNumbered, EnsurePeer
  PROVE  /\ Ensured \in Objects /\ peer' = Ensured
         /\ objects' \in 0 .. MaxObjects /\ peer' \in 0 .. objects'
<1> USE DEF Objects, NoPull
<1>1. objects \in Nat /\ objects <= MaxObjects /\ peer \in 0 .. objects
  BY DEF PullsAreNumbered
<1>2. CASE peer = NoPull
  <2>1. peer' = objects + 1 /\ objects' = objects + 1 /\ objects + 1 \in Objects
    BY <1>2 DEF EnsurePeer, Ensured
  <2> QED
    BY <1>1, <1>2, <2>1 DEF EnsurePeer
<1>3. CASE peer # NoPull
  <2>1. peer' = peer /\ objects' = objects
    BY <1>3 DEF EnsurePeer, Ensured
  <2> QED
    BY <1>1, <1>3, <2>1 DEF EnsurePeer
<1> QED
  BY <1>2, <1>3

\* Nothing has been pulled at first.
LEMMA PullStarts == PullInit => PullInvariant
BY DEF PullInit, PullInvariant, PullsAreNumbered, PlayersAreHeld, Pulls, Objects, NoPull

\* Every step, whoever takes it, keeps the invariant.
LEMMA PullStep == PullInvariant /\ [PullNext]_pullVars => PullInvariant'
<1> SUFFICES ASSUME PullInvariant, [PullNext]_pullVars PROVE PullInvariant'
  OBVIOUS
<1> USE DEF PullInvariant, PullsAreNumbered, PlayersAreHeld, Pulls, Objects, NoPull
<1>1. CASE OnJoined
  <2>1. UNCHANGED pullSide
    BY <1>1 DEF OnJoined
  <2>2. objects' \in 0 .. MaxObjects /\ peer' \in 0 .. objects'
    BY <1>1, EnsureFits DEF OnJoined
  <2> QED
    BY <2>1, <2>2 DEF pullSide
<1>2. CASE OnListed
  <2>1. /\ Ensured \in Objects /\ peer' = Ensured
        /\ objects' \in 0 .. MaxObjects /\ peer' \in 0 .. objects'
    BY <1>2, EnsureFits DEF OnListed
  <2>2. CASE UNCHANGED <<begun, objOf, phase, latest, inflight, kept, pcs, tile>>
    BY <2>1, <2>2
  <2>3. CASE kept[Ensured] = NoPull /\ Begin(Ensured, {})
    BY <2>1, <2>3, BeginIsSafe
  <2> QED
    BY <1>2, <2>2, <2>3 DEF OnListed
<1>3. CASE OnStarted
  <2>1. /\ Ensured \in Objects /\ peer' = Ensured /\ Begin(Ensured, {Ensured})
        /\ objects' \in 0 .. MaxObjects /\ peer' \in 0 .. objects'
    BY <1>3, EnsureFits DEF OnStarted
  <2> QED
    BY <2>1, BeginIsSafe
<1>4. CASE OnStopped
  <2>1. UNCHANGED <<peer, objects, objOf, phase, latest, begun>>
    BY <1>4 DEF OnStopped
  <2>2. CASE peer = NoPull
    BY <1>4, <2>1, <2>2 DEF OnStopped
  <2>3. CASE peer # NoPull
    <3>1. pcs' = pcs \ {kept[peer]} /\ kept' = [kept EXCEPT ![peer] = NoPull]
      BY <1>4, <2>3 DEF OnStopped
    <3>2. peer \in Objects
      BY <2>3
    <3> QED
      BY <2>1, <3>1, <3>2, PlayerClosed
  <2> QED
    BY <2>2, <2>3
<1>5. CASE OnLeft
  <2>1. /\ UNCHANGED <<objects, objOf, phase, latest, kept, begun>>
        /\ pcs' \subseteq pcs /\ peer' = NoPull
    BY <1>5 DEF OnLeft
  <2>2. PullsAreNumbered'
    <3>1. objects \in Nat /\ pcs' \subseteq 1 .. begun
      BY <2>1
    <3>2. peer' \in 0 .. objects'
      BY <2>1, <3>1
    <3> QED
      BY <2>1, <3>1, <3>2
  <2> QED
    BY <2>1, <2>2
<1>6. CASE PullAgain
  <2>1. CASE peer = NoPull
    BY <1>6, <2>1 DEF PullAgain, pullSide
  <2>2. CASE peer # NoPull
    <3>1. peer \in Objects /\ Begin(peer, {peer}) /\ UNCHANGED <<peer, objects>>
      BY <1>6, <2>2 DEF PullAgain
    <3> QED
      BY <3>1, BeginIsSafe
  <2> QED
    BY <2>1, <2>2
<1>7. ASSUME NEW p \in Pulls, StreamServed(p) PROVE PullInvariant'
  BY <1>7 DEF StreamServed
<1>8. ASSUME NEW p \in Pulls, Answered(p) PROVE PullInvariant'
  <2>1. /\ phase[p] = "answered" /\ phase' = [phase EXCEPT ![p] = "over"]
        /\ UNCHANGED <<peer, objects, objOf, latest, begun>>
    BY <1>8 DEF Answered, Over
  <2>2. CASE Overtaken(p)
    BY <1>8, <2>1, <2>2 DEF Answered
  <2>3. CASE ~Overtaken(p)
    <3>1. /\ kept' = [kept EXCEPT ![objOf[p]] = p] /\ pcs' = pcs \cup {p}
          /\ latest[objOf[p]] = p /\ p \in 1 .. begun
      BY SMTT(30), <1>8, <2>1, <2>3 DEF Answered, Overtaken
    <3>2. PullsAreNumbered'
      BY <2>1, <3>1
    <3>3. ASSUME NEW q \in pcs' PROVE kept'[objOf'[q]] = q /\ latest'[objOf'[q]] = q
      <4>1. latest[objOf[q]] = q
        BY <3>1
      <4>2. objOf[q] = objOf[p] => q = p
        BY <3>1, <4>1
      <4>3. CASE q = p
        BY <2>1, <3>1, <4>3
      <4>4. CASE q # p
        <5>1. q \in pcs /\ kept[objOf[q]] = q /\ objOf[q] # objOf[p]
          BY <3>1, <4>2, <4>4
        <5> QED
          BY <2>1, <3>1, <4>1, <5>1
      <4> QED
        BY <4>3, <4>4
    <3> QED
      BY <3>2, <3>3
  <2> QED
    BY <2>2, <2>3
<1>9. ASSUME NEW p \in Pulls, PullFails(p) PROVE PullInvariant'
  BY <1>9 DEF PullFails, Over
<1>10. ASSUME NEW p \in Pulls, Wake(p) PROVE PullInvariant'
  BY <1>10 DEF Wake, Over
<1>11. ASSUME NEW p \in Pulls, PlayerFails(p) PROVE PullInvariant'
  <2> DEFINE o == objOf[p]
  <2>1. CASE fails[o] + 1 = MaxFails
    <3>1. /\ pcs' = pcs \ {kept[o]} /\ kept' = [kept EXCEPT ![o] = NoPull]
          /\ UNCHANGED <<peer, objects, objOf, phase, latest, begun>>
      BY <1>11, <2>1 DEF PlayerFails
    <3>2. o \in Objects
      OBVIOUS
    <3> QED
      BY <3>1, <3>2, PlayerClosed
  <2>2. CASE fails[o] + 1 # MaxFails
    <3>1. /\ o \in Objects /\ Ensured \in Objects /\ Begin(Ensured, {o, Ensured})
          /\ objects' \in 0 .. MaxObjects /\ peer' \in 0 .. objects'
      BY <1>11, <2>2, EnsureFits DEF PlayerFails
    <3> QED
      BY <3>1, BeginIsSafe
  <2> QED
    BY <2>1, <2>2
<1>12. CASE UNCHANGED <<peer, objects, pullSide>>
  BY <1>12 DEF pullSide
<1> QED
  BY <1>1, <1>2, <1>3, <1>4, <1>5, <1>6, <1>7, <1>8, <1>9, <1>10, <1>11, <1>12
     DEF PullNext, pullVars, PeerComes, StreamStarts, StreamStops, PeerLeaves, Says, Track

\* An open player is the one its member holds and belongs to the latest pull of its
\* object: a pull that was overtaken neither opens nor keeps one, although pulls go on
\* with an object that is no longer the member's, and `finally' may forget which pull
\* is under way.
THEOREM OnePlayerPerObject == PullSpec => []PlayersAreHeld
<1>1. PullInvariant => PlayersAreHeld
  BY DEF PullInvariant
<1> QED
  BY PullStarts, PullStep, <1>1, PTL DEF PullSpec

\* What the server says of a member.
Said == {"listed", "joined", "started", "stopped", "left"}

\* The server's side, the messages on their way and the counters.
PullsAreBounded ==
    /\ there \in {"out", "in", "live", "gone"}
    /\ news \in 0 .. MaxNews
    /\ inbox \in Seq(Said) /\ Len(inbox) <= news + 1
    /\ passes \in 0 .. Passes
    /\ tries \in [Pulls -> 0 .. MaxTries - 1]
    /\ inflight \in [Objects -> 0 .. begun]
    /\ fails \in [Objects -> 0 .. MaxFails]
    /\ tile \in {"none", "empty", "stream"}

\* A message comes.
LEMMA SaidFits ==
  ASSUME PullsAreBounded, NEW state, NEW message \in Said, Says(state, message)
  PROVE  news' \in 0 .. MaxNews /\ inbox' \in Seq(Said) /\ Len(inbox') <= news' + 1
<1> USE DEF PullsAreBounded
<1>1. MaxNews \in Nat
  BY PullAssumption
<1>2. inbox' \in Seq(Said) /\ Len(inbox') = Len(inbox) + 1 /\ Len(inbox) \in Nat
  BY DEF Says
<1>3. news < MaxNews /\ news' = news + 1 /\ news \in Nat
  BY DEF Says
<1> QED
  BY <1>1, <1>2, <1>3

\* A message is handled.
LEMMA ReceivedFits ==
  ASSUME PullsAreBounded, NEW message, Receives(message), news' = news
  PROVE  news' \in 0 .. MaxNews /\ inbox' \in Seq(Said) /\ Len(inbox') <= news' + 1
<1> USE DEF PullsAreBounded
<1>1. inbox # <<>> /\ inbox' = Tail(inbox)
  BY DEF Receives
<1>2. inbox' \in Seq(Said) /\ Len(inbox') = Len(inbox) - 1 /\ Len(inbox) \in Nat
  BY <1>1
<1>3. news \in Nat
  OBVIOUS
<1> QED
  BY <1>2, <1>3

\* A pull that begins is numbered, and the one its object had is forgotten.
LEMMA BeginFits ==
  ASSUME PullInvariant, PullsAreBounded, NEW o \in Objects, NEW stopped, Begin(o, stopped)
  PROVE  inflight' \in [Objects -> 0 .. begun'] /\ tile' \in {"none", "empty", "stream"}
<1>1. /\ begun' = begun + 1 /\ inflight' = [inflight EXCEPT ![o] = begun + 1]
      /\ tile' = IF tile = "none" THEN "empty" ELSE tile
  BY DEF Begin
<1>2. begun \in Nat /\ inflight \in [Objects -> 0 .. begun]
  BY DEF PullInvariant, PullsAreNumbered, PullsAreBounded
<1> QED
  BY <1>1, <1>2 DEF PullsAreBounded

\* A pull that is over leaves no attempt counted.
LEMMA OverFits ==
  ASSUME PullInvariant, PullsAreBounded, NEW p \in Pulls, NEW how, Over(p, how), begun' = begun
  PROVE  inflight' \in [Objects -> 0 .. begun'] /\ tries' \in [Pulls -> 0 .. MaxTries - 1]
<1>1. /\ tries' = [tries EXCEPT ![p] = 0]
      /\ inflight' = [inflight EXCEPT ![objOf[p]] = NoPull]
  BY DEF Over
<1>2. MaxTries \in Nat \ {0} /\ begun \in Nat
  BY PullAssumption DEF PullInvariant, PullsAreNumbered
<1>3. tries' \in [Pulls -> 0 .. MaxTries - 1]
  <2>1. 0 \in 0 .. MaxTries - 1 /\ tries \in [Pulls -> 0 .. MaxTries - 1]
    BY <1>2 DEF PullsAreBounded
  <2> QED
    BY <1>1, <2>1
<1>4. inflight' \in [Objects -> 0 .. begun]
  <2>1. 0 \in 0 .. begun /\ inflight \in [Objects -> 0 .. begun]
    BY <1>2 DEF PullsAreBounded
  <2> QED
    BY <1>1, <2>1 DEF NoPull
<1> QED
  BY <1>3, <1>4

\* Every step keeps messages, attempts and retries within their bounds.
LEMMA BoundsStep ==
  PullInvariant /\ PullsAreBounded /\ [PullNext]_pullVars => PullsAreBounded'
<1> SUFFICES ASSUME PullInvariant, PullsAreBounded, [PullNext]_pullVars PROVE PullsAreBounded'
  OBVIOUS
<1>0. /\ MaxTries \in Nat \ {0} /\ MaxFails \in Nat \ {0} /\ MaxNews \in Nat /\ Passes \in Nat
      /\ begun \in Nat /\ objOf \in [Pulls -> Objects]
  BY PullAssumption DEF PullInvariant, PullsAreNumbered
<1>1. ASSUME NEW state \in {"in", "live", "gone"}, NEW message \in Said, Says(state, message)
      PROVE  PullsAreBounded'
  <2>1. news' \in 0 .. MaxNews /\ inbox' \in Seq(Said) /\ Len(inbox') <= news' + 1
    BY <1>1, SaidFits
  <2> QED
    BY <1>1, <2>1 DEF Says, PullsAreBounded, pullSide
<1>2. ASSUME NEW message, Receives(message), UNCHANGED serverSide
      PROVE  /\ there' = there
             /\ news' \in 0 .. MaxNews /\ inbox' \in Seq(Said) /\ Len(inbox') <= news' + 1
  <2>1. news' = news /\ there' = there
    BY <1>2 DEF serverSide
  <2> QED
    BY <1>2, <2>1, ReceivedFits
<1>3. CASE OnJoined
  BY <1>2, <1>3 DEF OnJoined, PullsAreBounded, pullSide
<1>4. CASE OnListed
  <2>1. Ensured \in Objects /\ UNCHANGED <<passes, tries, fails>>
    BY <1>4 DEF OnListed, EnsurePeer
  <2>2. CASE UNCHANGED <<begun, inflight, tile>>
    BY <1>2, <1>4, <2>1, <2>2 DEF OnListed, PullsAreBounded
  <2>3. CASE Begin(Ensured, {})
    <3>1. inflight' \in [Objects -> 0 .. begun'] /\ tile' \in {"none", "empty", "stream"}
      BY <2>1, <2>3, BeginFits
    <3> QED
      BY <1>2, <1>4, <2>1, <3>1 DEF OnListed, PullsAreBounded
  <2> QED
    BY <1>4, <2>2, <2>3 DEF OnListed
<1>5. CASE OnStarted
  <2>1. Ensured \in Objects /\ UNCHANGED <<passes, tries, fails>> /\ Begin(Ensured, {Ensured})
    BY <1>5 DEF OnStarted, EnsurePeer
  <2>2. inflight' \in [Objects -> 0 .. begun'] /\ tile' \in {"none", "empty", "stream"}
    BY <2>1, BeginFits
  <2> QED
    BY <1>2, <1>5, <2>1, <2>2 DEF OnStarted, PullsAreBounded
<1>6. CASE OnStopped \/ OnLeft
  BY <1>2, <1>6 DEF OnStopped, OnLeft, PullsAreBounded
<1>7. CASE PullAgain
  <2>1. /\ passes' \in 0 .. Passes
        /\ UNCHANGED <<serverSide, inbox, peer, objects, tries, fails>>
    BY <1>0, <1>7 DEF PullAgain, PullsAreBounded, pullSide
  <2>2. CASE peer = NoPull
    BY <1>7, <2>1, <2>2 DEF PullAgain, PullsAreBounded, pullSide, serverSide
  <2>3. CASE peer # NoPull
    <3>1. peer \in Objects /\ Begin(peer, {peer})
      BY <1>7, <2>3 DEF PullAgain, PullInvariant, PullsAreNumbered, Objects, NoPull
    <3>2. inflight' \in [Objects -> 0 .. begun'] /\ tile' \in {"none", "empty", "stream"}
      BY <3>1, BeginFits
    <3> QED
      BY <2>1, <3>2 DEF PullsAreBounded, serverSide
  <2> QED
    BY <2>2, <2>3
<1>8. ASSUME NEW p \in Pulls, StreamServed(p) \/ Track(p) PROVE PullsAreBounded'
  BY <1>8 DEF StreamServed, Track, PullsAreBounded, serverSide, pullSide
<1>9. ASSUME NEW p \in Pulls, Answered(p) PROVE PullsAreBounded'
  <2>1. inflight' \in [Objects -> 0 .. begun'] /\ tries' \in [Pulls -> 0 .. MaxTries - 1]
    BY <1>9, OverFits DEF Answered
  <2>2. fails' \in [Objects -> 0 .. MaxFails]
    BY SMTT(30), <1>0, <1>9 DEF Answered, PullsAreBounded
  <2> QED
    BY <1>9, <2>1, <2>2 DEF Answered, PullsAreBounded, serverSide
<1>10. ASSUME NEW p \in Pulls, PullFails(p) PROVE PullsAreBounded'
  <2>1. UNCHANGED <<serverSide, inbox, passes, fails, begun, tile>>
    BY <1>10 DEF PullFails
  <2>2. CASE tries[p] + 1 < MaxTries
    <3>1. tries' = [tries EXCEPT ![p] = @ + 1] /\ inflight' = inflight
      BY <1>10, <2>2 DEF PullFails
    <3>2. tries' \in [Pulls -> 0 .. MaxTries - 1]
      BY <1>0, <2>2, <3>1 DEF PullsAreBounded
    <3> QED
      BY <2>1, <3>1, <3>2 DEF PullsAreBounded, serverSide
  <2>3. CASE ~(tries[p] + 1 < MaxTries)
    <3>1. inflight' \in [Objects -> 0 .. begun'] /\ tries' \in [Pulls -> 0 .. MaxTries - 1]
      BY <1>10, <2>1, <2>3, OverFits DEF PullFails
    <3> QED
      BY <2>1, <3>1 DEF PullsAreBounded, serverSide
  <2> QED
    BY <2>2, <2>3
<1>11. ASSUME NEW p \in Pulls, Wake(p) PROVE PullsAreBounded'
  <2>1. UNCHANGED <<serverSide, inbox, passes, fails, begun, tile>>
    BY <1>11 DEF Wake
  <2>2. CASE UNCHANGED <<inflight, tries>>
    BY <2>1, <2>2 DEF PullsAreBounded, serverSide
  <2>3. CASE Over(p, "over")
    <3>1. inflight' \in [Objects -> 0 .. begun'] /\ tries' \in [Pulls -> 0 .. MaxTries - 1]
      BY <2>1, <2>3, OverFits
    <3> QED
      BY <2>1, <3>1 DEF PullsAreBounded, serverSide
  <2> QED
    BY <1>11, <2>2, <2>3 DEF Wake
<1>12. ASSUME NEW p \in Pulls, PlayerFails(p) PROVE PullsAreBounded'
  <2> DEFINE o == objOf[p]
  <2>1. /\ fails[o] < MaxFails /\ fails' = [fails EXCEPT ![o] = @ + 1]
        /\ UNCHANGED <<serverSide, inbox, passes, tries>>
    BY <1>12 DEF PlayerFails
  <2>2. fails' \in [Objects -> 0 .. MaxFails]
    BY <1>0, <2>1 DEF PullsAreBounded
  <2>3. inflight' \in [Objects -> 0 .. begun'] /\ tile' \in {"none", "empty", "stream"}
    <3>1. CASE UNCHANGED <<begun, inflight, tile>>
      BY <3>1 DEF PullsAreBounded
    <3>2. CASE EnsurePeer /\ Begin(Ensured, {o, Ensured})
      BY <3>2, BeginFits DEF EnsurePeer
    <3> QED
      BY <1>12, <3>1, <3>2 DEF PlayerFails
  <2> QED
    BY <2>1, <2>2, <2>3 DEF PullsAreBounded, serverSide
<1>13. CASE UNCHANGED pullVars
  BY <1>13 DEF pullVars, serverSide, pullSide, PullsAreBounded
<1> QED
  BY <1>1, <1>3, <1>4, <1>5, <1>6, <1>7, <1>8, <1>9, <1>10, <1>11, <1>12, <1>13
     DEF PullNext, PeerComes, StreamStarts, StreamStops, PeerLeaves, Said

\* A page that has joined is within its bounds.
LEMMA BoundsStart == PullInit => PullsAreBounded
<1> SUFFICES ASSUME PullInit PROVE PullsAreBounded
  OBVIOUS
<1>1. /\ MaxTries \in Nat \ {0} /\ MaxFails \in Nat /\ MaxNews \in Nat /\ Passes \in Nat
  BY PullAssumption
<1>2. inbox \in Seq(Said) /\ Len(inbox) <= 1
  <2>1. inbox = <<>> \/ inbox = <<"listed">>
    BY DEF PullInit
  <2>2. CASE inbox = <<>>
    BY <2>2
  <2>3. CASE inbox = <<"listed">>
    <3>1. "listed" \in Said
      BY DEF Said
    <3> HIDE DEF Said
    <3>2. <<"listed">> \in Seq(Said) /\ Len(<<"listed">>) = 1
      BY <3>1
    <3> QED
      BY <2>3, <3>2
  <2> QED
    BY <2>1, <2>2, <2>3
<1> QED
  BY <1>1, <1>2 DEF PullInit, PullsAreBounded, NoPull

\* The two invariants say what PullTypeOK says.
LEMMA PullsAreTyped == PullInvariant /\ PullsAreBounded => PullTypeOK
<1> SUFFICES ASSUME PullInvariant, PullsAreBounded PROVE PullTypeOK
  OBVIOUS
<1>1. Len(inbox) <= MaxNews + 1
  <2>1. Len(inbox) \in Nat /\ news \in Nat /\ news <= MaxNews /\ MaxNews \in Nat
        /\ Len(inbox) <= news + 1
    BY PullAssumption DEF PullsAreBounded
  <2> QED
    BY <2>1
<1> QED
  BY <1>1 DEF PullInvariant, PullsAreNumbered, PullsAreBounded, PullTypeOK

\* A page that pulls keeps its types: what the server says of the peer stays within
\* its bounds, and every player's connection is that of a pull that has begun
\* (app.js: startPullingPeerStream, pullPeerStreamWithRetry, stopPeerPull).
THEOREM PullTypeCorrect == PullSpec => []PullTypeOK
BY PullStarts, PullStep, BoundsStart, BoundsStep, PullsAreTyped, PTL DEF PullSpec
=============================================================================
