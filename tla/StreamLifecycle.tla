-------------------------- MODULE StreamLifecycle --------------------------
(***************************************************************************)
(* The streams the members of a room publish to ZLMediaKit: what the       *)
(* server has registered (Client.streams, Client.recordings), what ZLM     *)
(* really has, and the calls that are on their way between the two         *)
(* (backend/src/pkg/signaling: client.go, room.go; zlm/client.go).         *)
(*                                                                         *)
(* A client's read loop runs one handler at a time and waits in it for the *)
(* answers of ExchangeSDP, StartRecord and StopRecord.  CloseStream, and   *)
(* everything a departure has to clean up, runs in goroutines of its own   *)
(* that nobody waits for - and is started only after the members have been *)
(* told, a broadcast that may panic when another member is closed in its   *)
(* middle (PeerView).  The goroutine is never started then.  A panic in    *)
(* another handler's broadcast, after its state is set, is a departure.    *)
(* ZLM itself is external: a stream is live once the exchange is served,   *)
(* and closing it ends its recording.                                      *)
(*                                                                         *)
(* stream-started is left out: the browsers send it after the answer, for  *)
(* the id it names, so it rewrites what is registered already.             *)
(***************************************************************************)
EXTENDS Naturals, FiniteSets

CONSTANTS
    Clients,
    Kinds,       \* "cam" and "screen", or "solo"
    Streams,     \* stream ids
    streamID,    \* the id each client uses for each kind; solo publishers
                 \* choose it, so a successor may choose it again
    MaxCloses    \* bound: CloseStream calls under way for one stream

ASSUME StreamAssumption ==
    /\ streamID \in [Clients \X Kinds -> Streams]
    /\ MaxCloses \in Nat \ {0}

VARIABLES
    pc,          \* where each client's read loop is
    arg,         \* the kinds the running handler is about, at most one
    streams,     \* Client.streams, as the set of its kinds
    recordings,  \* Client.recordings, as the set of kinds that are on
    closing,     \* CloseStream goroutines of stream-stopped, per stream
    leaving,     \* what the departure has still to do
    live,        \* the streams ZLM has
    recorded,    \* those of them it records
    failed,      \* streams a call for which has failed
    lost         \* streams whose closing a panic has prevented

vars == <<pc, arg, streams, recordings, closing, leaving, live, recorded,
          failed, lost>>

\* "stopping" and "farewell": the broadcasts of stream-stopped and removeClient.
PCs == {"out", "joined", "exchange", "register", "start", "stop",
        "saveOn", "saveOff", "stopping", "broken", "farewell"}
Ids(c, ks) == {streamID[c, k] : k \in ks}
Rest == [stops |-> {}, closes |-> {}]

\* Some member has registered s, or is registering it.
Wanted(s) ==
    \E c \in Clients : \/ s \in Ids(c, streams[c])
                       \/ pc[c] = "register" /\ s \in Ids(c, arg[c])

\* ZLM drops s, and with it what went wrong for it before.
Drop(s) ==
    /\ live' = live \ {s}
    /\ recorded' = recorded \ {s}
    /\ failed' = failed \ {s}
    /\ lost' = lost \ {s}

Fail(s) ==
    /\ failed' = failed \cup {s}
    /\ UNCHANGED <<live, recorded, lost>>

\* The handler returns without having changed anything on the server.
GiveUp(c) ==
    /\ pc' = [pc EXCEPT ![c] = "joined"]
    /\ arg' = [arg EXCEPT ![c] = {}]

-----------------------------------------------------------------------------
\* Publishers that would use the same id keep each other out of a solo room
\* (addClient); a member's own cleanup may still be running, however.
Join(c) ==
    /\ pc[c] = "out"
    /\ leaving[c] = Rest
    /\ \A d \in Clients \ {c} :
          pc[d] \notin {"out", "farewell"} => Ids(c, Kinds) \cap Ids(d, Kinds) = {}
    /\ pc' = [pc EXCEPT ![c] = "joined"]
    /\ UNCHANGED <<arg, streams, recordings, closing, leaving, live, recorded,
                   failed, lost>>

(***************************************************************************)
(* webrtc-offer, mode publish or publish-solo                              *)
(***************************************************************************)
WebRTCOffer(c, k) ==
    /\ pc[c] = "joined"
    /\ pc' = [pc EXCEPT ![c] = "exchange"]
    /\ arg' = [arg EXCEPT ![c] = {k}]
    /\ UNCHANGED <<streams, recordings, closing, leaving, live, recorded, failed,
                   lost>>

\* ZLM serves the exchange, or the call fails and nothing is registered: the
\* browser has no answer then, so no media ever reaches ZLM.
ExchangeSDP(c) ==
    /\ pc[c] = "exchange"
    /\ \/ /\ live' = live \cup Ids(c, arg[c])
          /\ pc' = [pc EXCEPT ![c] = "register"]
          /\ UNCHANGED arg
       \/ GiveUp(c) /\ UNCHANGED live
    /\ UNCHANGED <<streams, recordings, closing, leaving, recorded, failed, lost>>

RegisterStream(c) ==
    /\ pc[c] = "register"
    /\ streams' = [streams EXCEPT ![c] = @ \cup arg[c]]
    /\ pc' = [pc EXCEPT ![c] = "joined"]
    /\ arg' = [arg EXCEPT ![c] = {}]
    /\ UNCHANGED <<recordings, closing, leaving, live, recorded, failed,
                   lost>>

(***************************************************************************)
(* stream-stopped: unregister, tell the members, close in a goroutine.     *)
(***************************************************************************)
StreamStopped(c, k) ==
    /\ pc[c] = "joined"
    /\ k \in streams[c]
    /\ streams' = [streams EXCEPT ![c] = @ \ {k}]
    /\ pc' = [pc EXCEPT ![c] = "stopping"]
    /\ arg' = [arg EXCEPT ![c] = {k}]
    /\ UNCHANGED <<recordings, closing, leaving, live, recorded, failed, lost>>

\* Everybody is told, and the goroutine is started.
StartClose(c) ==
    /\ pc[c] = "stopping"
    /\ \A s \in Ids(c, arg[c]) : closing[s] < MaxCloses
    /\ closing' = [s \in Streams |->
                     IF s \in Ids(c, arg[c]) THEN closing[s] + 1 ELSE closing[s]]
    /\ GiveUp(c)
    /\ UNCHANGED <<streams, recordings, leaving, live, recorded, failed, lost>>

\* The broadcast panics; the read loop's deferred cleanup follows.
StopPanics(c) ==
    /\ pc[c] = "stopping"
    /\ lost' = lost \cup Ids(c, arg[c])
    /\ pc' = [pc EXCEPT ![c] = "broken"]
    /\ arg' = [arg EXCEPT ![c] = {}]
    /\ UNCHANGED <<streams, recordings, closing, leaving, live, recorded, failed>>

CloseStream(s) ==
    /\ closing[s] > 0
    /\ closing' = [closing EXCEPT ![s] = @ - 1]
    /\ Drop(s) \/ Fail(s)
    /\ UNCHANGED <<pc, arg, streams, recordings, leaving>>

(***************************************************************************)
(* record-start and record-stop: only for a registered stream; the flag is *)
(* kept once ZLM has agreed.  ZLM refuses to record what is not live and   *)
(* to stop what is not recorded.                                           *)
(***************************************************************************)
RecordControl(c, k, start) ==
    /\ pc[c] = "joined"
    /\ k \in streams[c]
    /\ pc' = [pc EXCEPT ![c] = IF start THEN "start" ELSE "stop"]
    /\ arg' = [arg EXCEPT ![c] = {k}]
    /\ UNCHANGED <<streams, recordings, closing, leaving, live, recorded, failed,
                   lost>>

\* ZLM agrees, or does not; or it does and the answer is lost.
StartRecord(c) ==
    /\ pc[c] = "start"
    /\ \/ /\ Ids(c, arg[c]) \subseteq live
          /\ recorded' = recorded \cup Ids(c, arg[c])
          /\ \/ pc' = [pc EXCEPT ![c] = "saveOn"] /\ UNCHANGED <<arg, failed>>
             \/ GiveUp(c) /\ failed' = failed \cup Ids(c, arg[c])
       \/ GiveUp(c) /\ UNCHANGED <<recorded, failed>>
    /\ UNCHANGED <<streams, recordings, closing, leaving, live, lost>>

StopRecord(c) ==
    /\ pc[c] = "stop"
    /\ \/ /\ Ids(c, arg[c]) \subseteq recorded
          /\ recorded' = recorded \ Ids(c, arg[c])
          /\ \/ pc' = [pc EXCEPT ![c] = "saveOff"] /\ UNCHANGED <<arg, failed>>
             \/ GiveUp(c) /\ failed' = failed \cup Ids(c, arg[c])
       \/ GiveUp(c) /\ UNCHANGED <<recorded, failed>>
    /\ UNCHANGED <<streams, recordings, closing, leaving, live, lost>>

\* Mutant: the flag is cleared whatever the request was.
SaveRecordingOff(c) ==
    /\ pc[c] \in {"saveOn", "saveOff"}
    /\ recordings' = [recordings EXCEPT ![c] = @ \ arg[c]]
    /\ pc' = [pc EXCEPT ![c] = "joined"]
    /\ arg' = [arg EXCEPT ![c] = {}]
    /\ UNCHANGED <<streams, closing, leaving, live, recorded, failed,
                   lost>>

\* c.recordings[kind] = start.
SaveRecording(c) ==
    /\ pc[c] \in {"saveOn", "saveOff"}
    /\ recordings' = [recordings EXCEPT ![c] =
                        IF pc[c] = "saveOn" THEN @ \cup arg[c] ELSE @ \ arg[c]]
    /\ pc' = [pc EXCEPT ![c] = "joined"]
    /\ arg' = [arg EXCEPT ![c] = {}]
    /\ UNCHANGED <<streams, closing, leaving, live, recorded, failed,
                   lost>>

(***************************************************************************)
(* removeClient: collect and forget, tell the members, clean up in a       *)
(* goroutine.                                                              *)
(***************************************************************************)
\* Mutants: the recordings to stop are those of the flags, registered or not;
\* only the streams that are recorded are closed.
RemoveAllFlags(c) ==
    /\ pc[c] \in {"joined", "broken"}
    /\ pc' = [pc EXCEPT ![c] = "farewell"]
    /\ leaving' = [leaving EXCEPT ![c] = [stops |-> Ids(c, recordings[c]),
                                          closes |-> Ids(c, streams[c])]]
    /\ streams' = [streams EXCEPT ![c] = {}]
    /\ recordings' = [recordings EXCEPT ![c] = {}]
    /\ UNCHANGED <<arg, closing, live, recorded, failed, lost>>
RemoveRecordedOnly(c) ==
    /\ pc[c] \in {"joined", "broken"}
    /\ pc' = [pc EXCEPT ![c] = "farewell"]
    /\ leaving' = [leaving EXCEPT ![c] = [stops |-> Ids(c, streams[c] \cap recordings[c]),
                                          closes |-> Ids(c, streams[c] \cap recordings[c])]]
    /\ streams' = [streams EXCEPT ![c] = {}]
    /\ recordings' = [recordings EXCEPT ![c] = {}]
    /\ UNCHANGED <<arg, closing, live, recorded, failed, lost>>

RemoveClient(c) ==
    /\ pc[c] \in {"joined", "broken"}
    /\ pc' = [pc EXCEPT ![c] = "farewell"]
    /\ leaving' = [leaving EXCEPT ![c] = [stops |-> Ids(c, streams[c] \cap recordings[c]),
                                          closes |-> Ids(c, streams[c])]]
    /\ streams' = [streams EXCEPT ![c] = {}]
    /\ recordings' = [recordings EXCEPT ![c] = {}]
    /\ UNCHANGED <<arg, closing, live, recorded, failed, lost>>

\* Everybody is told, and the goroutine is started.
StartLeaving(c) ==
    /\ pc[c] = "farewell"
    /\ pc' = [pc EXCEPT ![c] = "out"]
    /\ UNCHANGED <<arg, streams, recordings, closing, leaving, live, recorded,
                   failed, lost>>

\* A broadcast panics, in the cleanup: nothing more happens.
FarewellPanics(c) ==
    /\ pc[c] = "farewell"
    /\ pc' = [pc EXCEPT ![c] = "out"]
    /\ lost' = lost \cup leaving[c].closes
    /\ leaving' = [leaving EXCEPT ![c] = Rest]
    /\ UNCHANGED <<arg, streams, recordings, closing, live, recorded, failed>>

\* Mutant: the goroutine gives up when a recording cannot be stopped.
LeaveStopRecordReturn(c, s) ==
    /\ pc[c] # "farewell"
    /\ s \in leaving[c].stops
    /\ \/ /\ recorded' = recorded \ {s}
          /\ leaving' = [leaving EXCEPT ![c].stops = @ \ {s}]
       \/ /\ leaving' = [leaving EXCEPT ![c] = Rest]
          /\ UNCHANGED recorded
    /\ UNCHANGED <<pc, arg, streams, recordings, closing, live, failed, lost>>

\* A recording that cannot be stopped is logged, and the goroutine goes on.
LeaveStopRecord(c, s) ==
    /\ pc[c] # "farewell"
    /\ s \in leaving[c].stops
    /\ leaving' = [leaving EXCEPT ![c].stops = @ \ {s}]
    /\ recorded' \in {recorded, recorded \ {s}}
    /\ UNCHANGED <<pc, arg, streams, recordings, closing, live, failed, lost>>

LeaveCloseStream(c, s) ==
    /\ pc[c] # "farewell"
    /\ leaving[c].stops = {}
    /\ s \in leaving[c].closes
    /\ leaving' = [leaving EXCEPT ![c].closes = @ \ {s}]
    /\ Drop(s) \/ Fail(s)
    /\ UNCHANGED <<pc, arg, streams, recordings, closing>>

-----------------------------------------------------------------------------
Init ==
    /\ pc = [c \in Clients |-> "out"]
    /\ arg = [c \in Clients |-> {}]
    /\ streams = [c \in Clients |-> {}]
    /\ recordings = [c \in Clients |-> {}]
    /\ closing = [s \in Streams |-> 0]
    /\ leaving = [c \in Clients |-> Rest]
    /\ live = {}
    /\ recorded = {}
    /\ failed = {}
    /\ lost = {}

\* What users do.
Input(c) ==
    \/ Join(c)
    \/ \E k \in Kinds :
          \/ WebRTCOffer(c, k)
          \/ StreamStopped(c, k)
          \/ \E start \in BOOLEAN : RecordControl(c, k, start)
    \/ RemoveClient(c)

\* What the running handler and the departure goroutine do by themselves.
Handler(c) ==
    \/ ExchangeSDP(c) \/ RegisterStream(c) \/ StartRecord(c) \/ StopRecord(c)
    \/ SaveRecording(c)
    \/ StartClose(c) \/ StopPanics(c)
    \/ pc[c] = "broken" /\ RemoveClient(c)
    \/ StartLeaving(c) \/ FarewellPanics(c)

LeaveJob(c) ==
    \E s \in Streams : LeaveStopRecord(c, s) \/ LeaveCloseStream(c, s)

Next ==
    \/ \E c \in Clients : Input(c) \/ Handler(c) \/ LeaveJob(c)
    \/ \E s \in Streams : CloseStream(s)

\* Every call to ZLM is answered or times out after 10 s (zlm/client.go:34).
Fairness ==
    /\ \A c \in Clients : WF_vars(Handler(c)) /\ WF_vars(LeaveJob(c))
    /\ \A s \in Streams : WF_vars(CloseStream(s))

Spec == Init /\ [][Next]_vars
FairSpec == Spec /\ Fairness

-----------------------------------------------------------------------------
TypeOK ==
    /\ pc \in [Clients -> PCs]
    /\ arg \in [Clients -> SUBSET Kinds]
    /\ streams \in [Clients -> SUBSET Kinds]
    /\ recordings \in [Clients -> SUBSET Kinds]
    /\ closing \in [Streams -> 0..MaxCloses]
    /\ leaving \in [Clients -> [stops : SUBSET Streams, closes : SUBSET Streams]]
    /\ live \subseteq Streams
    /\ recorded \subseteq live
    /\ failed \subseteq Streams
    /\ lost \subseteq Streams
    /\ \A c \in Clients : leaving[c].stops \subseteq leaving[c].closes

\* Some goroutine is going to close s, or to start the one that will.
CloseDue(s) ==
    \/ closing[s] > 0
    \/ \E c \in Clients : \/ s \in leaving[c].closes
                          \/ pc[c] = "stopping" /\ s \in Ids(c, arg[c])

\* What ZLM still has was closed in vain, or a panic prevented its closing.
Forsaken(s) == s \in failed \/ s \in lost

\* No stream outlives its publication: what ZLM has is registered by a member,
\* about to be, or about to be closed, unless closing it failed and nobody
\* retries, or the broadcast ahead of it panicked (client.go:659-674,
\* room.go:285-327).
NoLeakedStream ==
    \A s \in live : Wanted(s) \/ CloseDue(s) \/ Forsaken(s)

\* Nothing is recorded in secret: what ZLM records is a stream whose publisher
\* has the recording flag on, or is getting it, or it is about to be closed,
\* with the same two exceptions (client.go:757-771, room.go:285-327).
NoSecretRecording ==
    \A s \in recorded :
        \/ \E c \in Clients, k \in Kinds :
              /\ streamID[c, k] = s
              /\ k \in streams[c]
              /\ k \in recordings[c] \/ (pc[c] = "saveOn" /\ k \in arg[c])
        \/ CloseDue(s)
        \/ Forsaken(s)

\* A stream nobody publishes any more ends at ZLM, unless somebody publishes
\* under its name again or closing it fails or is prevented (zlm/client.go:
\* 341-342: "Used when a user leaves the room or stops sharing their screen").
UnwantedStreamEnds ==
    \A s \in Streams :
        s \in live /\ ~Wanted(s) ~> s \notin live \/ Wanted(s) \/ Forsaken(s)

\* What a member has registered, ZLM has: room.go:65 says hasStreamID "reports
\* whether any client in the room is publishing streamID".
RegisteredIsLive ==
    \A c \in Clients : Ids(c, streams[c]) \subseteq live

\* The recording flag of a registered stream that ZLM has tells whether ZLM
\* records it, if no call for it failed: client.go:46 "kind -> recording on/off".
FlagMeansRecorded ==
    \A c \in Clients :
        pc[c] \notin {"stop", "saveOff"} =>
            (Ids(c, streams[c] \cap recordings[c]) \cap live) \ failed
                \subseteq recorded
=============================================================================
