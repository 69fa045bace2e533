------------------------------ MODULE Publisher ------------------------------
(***************************************************************************)
(* A page that publishes the local camera and microphone: the meeting page *)
(* (biz = "room") and the publisher's page (biz = "solo").  The page's     *)
(* first capture, its switches, the change of quality and the start of the *)
(* publication all wait for devices or for the server; only the two        *)
(* switches exclude each other (mediaToggleBusy), the other activities are *)
(* bounded here to one at a time each.                                     *)
(*                                                                         *)
(* What a connection sends of a kind is nothing, the track the local       *)
(* stream has of that kind, or an older one.  A connection's name is free  *)
(* again when nothing of the page refers to it; if it is then still open,  *)
(* it is lost: nobody will close it.                                       *)
(***************************************************************************)
EXTENDS Naturals

CONSTANT Conns          \* the publication of the page and those being made

Nil == 0

\* There is always a third one, whichever two are in use.
ASSUME ConnsAssumption ==
    /\ Nil \notin Conns /\ Conns # {}
    /\ \A a, b \in Conns : Conns \ {a, b} # {}

Kinds == {"audio", "video"}
Activities == {"main", "switch", "quality", "stream"}

VARIABLES
    biz,        \* which of the two pages
    wants,      \* the kinds that are switched on: micOn, camOn
    has,        \* the kinds the local stream has a track of
    on,         \* the kinds whose local track is enabled
    pub,        \* camPub, state.pub
    sends,      \* sends[c][k]: what connection c sends of kind k
    alive,      \* connections that are not closed
    lost,       \* an open connection was lost
    doing,      \* doing[x]: what activity x waits for: "no", "device", "server";
                \* "strayed": a device whose track goes to a stream no longer used;
                \* "refused": the connection, the first capture having failed
    pending,    \* pending[x]: the connection activity x waits for
    busyKind,   \* the switch that is being worked, or "none"
    asked,      \* the kinds the first capture asked for
    smooth      \* history: so far nothing failed and no two activities overlapped

publishVars == <<biz, wants, has, on, pub, sends, alive, lost, doing, pending, busyKind,
                 asked, smooth>>
mediaVars == <<has, on>>
connVars == <<pub, sends, alive, lost, pending>>

Silence == [k \in Kinds |-> "nothing"]
Offer(kinds) == [k \in Kinds |-> IF k \in kinds THEN "local" ELSE "nothing"]
SentKinds(c) == {k \in Kinds : sends[c][k] # "nothing"}

\* The stream of the first capture is not the local one yet.
Starting == doing["main"] \in {"device", "refused"}

Busy == busyKind # "none"
Quiet == \A x \in Activities : doing[x] = "no"
Smoothly(ok) == smooth' = (smooth /\ ok)

Idle(x) == [doing EXCEPT ![x] = "no"]
FreeSwitch(x) == busyKind' = IF x = "switch" THEN "none" ELSE busyKind

\* The tracks of `kinds' in the local stream are replaced: those sent are old.
Aged(snd, kinds) ==
    [c \in Conns |-> [k \in Kinds |-> IF k \in kinds /\ snd[c][k] = "local" THEN "old"
                                      ELSE snd[c][k]]]

\* The page now refers to publication p and the pending ones; others are lost.
Refer(p, pend, snd, opn) ==
    LET known == {p} \cup {pend[x] : x \in Activities} IN
    /\ pub' = p
    /\ pending' = pend
    /\ sends' = [c \in Conns |-> IF c \in known THEN snd[c] ELSE Silence]
    /\ alive' = opn \cap known
    /\ lost' = (lost \/ ~(opn \subseteq known))

Fresh == CHOOSE c \in Conns : c # pub /\ \A x \in Activities : pending[x] # c
-----------------------------------------------------------------------------
(* publishStream, publishOrUpdateStream: activity x waits for a connection *)
(* that offers the tracks there are.                                       *)

PublishNew(x, kinds, snd, opn) ==
    Refer(pub, [pending EXCEPT ![x] = Fresh], [snd EXCEPT ![Fresh] = Offer(kinds)],
          opn \cup {Fresh})

\* Mutant: a connection whose kinds changed is not closed.
PublishOrUpdateKeeping(x, kinds, snd) ==
    IF pub = Nil \/ kinds # SentKinds(pub) THEN PublishNew(x, kinds, snd, alive)
    ELSE Refer(pub, [pending EXCEPT ![x] = pub], [snd EXCEPT ![pub] = Offer(kinds)], alive)

\* Published anew when the kinds changed, else the senders get the local tracks.
PublishOrUpdate(x, kinds, snd) ==
    IF pub = Nil THEN PublishNew(x, kinds, snd, alive)
    ELSE IF kinds # SentKinds(pub) THEN PublishNew(x, kinds, snd, alive \ {pub})
    ELSE Refer(pub, [pending EXCEPT ![x] = pub], [snd EXCEPT ![pub] = Offer(kinds)], alive)

\* The answer: this publication is the page's, whatever was there.
Published(x) ==
    /\ doing[x] = "server"
    /\ doing' = Idle(x) /\ FreeSwitch(x)
    /\ Refer(pending[x], [pending EXCEPT ![x] = Nil], sends, alive)
    /\ UNCHANGED <<biz, wants, mediaVars, asked, smooth>>

\* An error or 15 s without an answer: the page keeps the publication it had,
\* though a change of kinds has closed it.
PublishFails(x) ==
    /\ doing[x] = "server"
    /\ doing' = Idle(x) /\ FreeSwitch(x)
    /\ Refer(pub, [pending EXCEPT ![x] = Nil], sends, alive)
    /\ Smoothly(FALSE)
    /\ UNCHANGED <<biz, wants, mediaVars, asked>>
-----------------------------------------------------------------------------
(* The first capture (main). *)

\* The stream captured becomes the local one, whatever a switch made before.
FirstMedia(got) ==
    LET publishes == biz = "room" /\ got # {} IN
    /\ Starting
    /\ has' = got
    /\ on' = got \cap wants
    /\ asked' = {}
    /\ doing' = [doing EXCEPT !["main"] = IF publishes THEN "server" ELSE "no",
                              !["switch"] = IF @ = "device" THEN "strayed" ELSE @]
    /\ IF publishes THEN PublishNew("main", got, Aged(sends, Kinds), alive)
       ELSE sends' = Aged(sends, Kinds) /\ UNCHANGED <<pub, alive, lost, pending>>
    /\ UNCHANGED <<biz, busyKind>>

FirstMediaComes == FirstMedia(asked) /\ UNCHANGED <<wants, smooth>>

\* No device, or no permission: the switches go off and the page goes on without.  The
\* meeting page takes the empty stream only when it has connected (FirstMediaComes).
FirstMediaFails ==
    /\ doing["main"] = "device"
    /\ asked # {}
    /\ wants' = {}
    /\ Smoothly(FALSE)
    /\ IF biz = "solo" THEN FirstMedia({})
       ELSE /\ doing' = [doing EXCEPT !["main"] = "refused"]
            /\ asked' = {}
            /\ UNCHANGED <<biz, mediaVars, connVars, busyKind>>
-----------------------------------------------------------------------------
(* The switches: toggleMic, toggleCam. *)

\* The page's publication after a switch.  A room's is made if there is none; a
\* solo page's is renewed if there is one.
Renew(k, fresh, kinds, snd) ==
    LET needed == IF biz = "solo" THEN pub # Nil
                  ELSE fresh \/ (k \in wants' /\ k \in kinds /\ pub = Nil)
    IN  IF needed /\ kinds # {}
        THEN /\ PublishOrUpdate("switch", kinds, snd)
             /\ doing' = [doing EXCEPT !["switch"] = "server"]
             /\ busyKind' = k
        ELSE /\ Refer(pub, pending, snd, alive)
             /\ doing' = Idle("switch")
             /\ busyKind' = "none"

Switch(k) ==
    /\ ~Busy
    /\ wants' = IF k \in wants THEN wants \ {k} ELSE wants \cup {k}
    /\ IF k \in wants' /\ k \notin has
       THEN /\ doing' = [doing EXCEPT !["switch"] = "device"]
            /\ busyKind' = k
            /\ UNCHANGED <<on, connVars>>
       ELSE /\ on' = (on \ {k}) \cup (wants' \cap has \cap {k})
            /\ Renew(k, FALSE, has, sends)
    /\ Smoothly(Quiet)
    /\ UNCHANGED <<biz, has, asked>>

\* acquireLocalTrack: the track is added to the stream that was the local one when
\* the switch was touched.
SwitchGetsTrack ==
    LET k == busyKind
        mine == {x \in {k} : doing["switch"] = "device"}
    IN  /\ doing["switch"] \in {"device", "strayed"}
        /\ has' = has \cup mine
        /\ on' = (on \ mine) \cup (wants \cap mine)
        /\ UNCHANGED <<biz, wants, asked, smooth>>
        /\ Renew(k, TRUE, has', Aged(sends, mine))

\* Mutant: a device that cannot be opened leaves the switches busy.
SwitchFailsBusy ==
    /\ doing["switch"] \in {"device", "strayed"}
    /\ doing' = Idle("switch")
    /\ Smoothly(FALSE)
    /\ UNCHANGED <<biz, wants, mediaVars, connVars, busyKind, asked>>

\* The switch stays on without a track.
SwitchFails ==
    /\ doing["switch"] \in {"device", "strayed"}
    /\ doing' = Idle("switch") /\ FreeSwitch("switch")
    /\ Smoothly(FALSE)
    /\ UNCHANGED <<biz, wants, mediaVars, connVars, asked>>
-----------------------------------------------------------------------------
(* The quality of the picture: applyQuality. *)

ChangeQuality ==
    /\ doing["quality"] = "no"
    /\ "video" \in wants
    /\ doing' = [doing EXCEPT !["quality"] = "device"]
    /\ Smoothly(Quiet)
    /\ UNCHANGED <<biz, wants, mediaVars, connVars, busyKind, asked>>

\* The publication there is now sends the new track, if it is open and sent one.
NewPicture(snd) ==
    IF pub \in alive /\ snd[pub]["video"] # "nothing"
    THEN [snd EXCEPT ![pub]["video"] = "local"] ELSE snd

\* Mutant: the new picture is enabled because the camera was on when asked for.
QualityGetsTrackOn ==
    /\ doing["quality"] = "device"
    /\ ~Starting \/ has # {}
    /\ has' = has \cup {"video"}
    /\ on' = on \cup {"video"}
    /\ sends' = NewPicture(Aged(sends, {"video"}))
    /\ doing' = Idle("quality")
    /\ UNCHANGED <<biz, wants, pub, alive, lost, pending, busyKind, asked, smooth>>

\* The new track takes the place of the old one; a publication that is being made
\* keeps the old one.
QualityGetsTrack ==
    /\ doing["quality"] = "device"
    /\ ~Starting \/ has # {}
    /\ has' = has \cup {"video"}
    /\ on' = (on \ {"video"}) \cup (wants \cap {"video"})
    /\ sends' = NewPicture(Aged(sends, {"video"}))
    /\ doing' = Idle("quality")
    /\ UNCHANGED <<biz, wants, pub, alive, lost, pending, busyKind, asked, smooth>>

QualityFails ==
    /\ doing["quality"] = "device"
    /\ doing' = Idle("quality")
    /\ Smoothly(FALSE)
    /\ UNCHANGED <<biz, wants, mediaVars, connVars, busyKind, asked>>
-----------------------------------------------------------------------------
(* The publisher's page: its start button (toggleStream). *)

StartStream ==
    /\ biz = "solo"
    /\ pub = Nil
    /\ doing["stream"] = "no"
    /\ has # {}
    /\ PublishNew("stream", has, sends, alive)
    /\ doing' = [doing EXCEPT !["stream"] = "server"]
    /\ Smoothly(Quiet)
    /\ UNCHANGED <<biz, wants, mediaVars, busyKind, asked>>

\* The connection is closed; the camera goes on (closePublishPC).
StopStream ==
    /\ biz = "solo"
    /\ pub # Nil
    /\ Refer(Nil, pending, sends, alive \ {pub})
    /\ Smoothly(Quiet)
    /\ UNCHANGED <<biz, wants, mediaVars, doing, busyKind, asked>>

PublishInit ==
    /\ biz \in {"room", "solo"}
    /\ wants \in SUBSET Kinds
    /\ has = {} /\ on = {}
    /\ pub = Nil
    /\ sends = [c \in Conns |-> Silence]
    /\ alive = {} /\ lost = FALSE
    /\ asked = wants
    /\ doing = [x \in Activities |-> IF x = "main" /\ (asked # {} \/ biz = "room")
                                     THEN "device" ELSE "no"]
    /\ pending = [x \in Activities |-> Nil]
    /\ busyKind = "none"
    /\ smooth = TRUE

PublishNext ==
    \/ FirstMediaComes \/ FirstMediaFails
    \/ \E x \in Activities : Published(x) \/ PublishFails(x)
    \/ \E k \in Kinds : Switch(k)
    \/ SwitchGetsTrack \/ SwitchFails
    \/ ChangeQuality \/ QualityGetsTrack \/ QualityFails
    \/ StartStream \/ StopStream

\* The server answers or the request times out; a device opens or does not.
PublishFairness ==
    /\ WF_publishVars(Published("switch") \/ PublishFails("switch"))
    /\ WF_publishVars(SwitchGetsTrack \/ SwitchFails)

PublishSpec == PublishInit /\ [][PublishNext]_publishVars /\ PublishFairness
-----------------------------------------------------------------------------
PublishTypeOK ==
    /\ biz \in {"room", "solo"}
    /\ {wants, has, on, asked} \subseteq SUBSET Kinds
    /\ pub \in Conns \cup {Nil}
    /\ sends \in [Conns -> [Kinds -> {"nothing", "local", "old"}]]
    /\ alive \subseteq Conns
    /\ doing \in [Activities -> {"no", "device", "refused", "strayed", "server"}]
    /\ pending \in [Activities -> Conns \cup {Nil}]
    /\ busyKind \in Kinds \cup {"none"}
    /\ {lost, smooth} \subseteq BOOLEAN

\* A track of the local stream is enabled while its switch is on, and only then,
\* whatever the switches, the quality and the first capture do while the devices open;
\* but a failed first capture puts the switches off before the page has connected and
\* drops the stream a switch may have filled (app.js:194-201, 230-233).  Of what a
\* connection sends this says nothing.
SwitchesAreObeyed ==
    /\ has \cap wants \subseteq on
    /\ on \subseteq has
    /\ doing["main"] = "refused" \/ on \subseteq wants

\* As long as nothing fails and nothing overlaps, any sequence of switches, changes
\* of quality, starts and stops leaves the page with the one connection it knows,
\* and that one sends exactly the local tracks.
PublicationInStep ==
    smooth /\ Quiet =>
        /\ ~lost
        /\ pub # Nil => pub \in alive /\ sends[pub] = Offer(has)

\* The switches do not stay busy.
SwitchesComeBack == []<>~Busy
=============================================================================
