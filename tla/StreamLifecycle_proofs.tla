----------------------- MODULE StreamLifecycle_proofs -----------------------
(***************************************************************************)
(* Proofs about StreamLifecycle, for any number of clients, kinds and      *)
(* streams and any choice of stream ids.                                   *)
(***************************************************************************)
EXTENDS StreamLifecycle, TLAPS

USE StreamAssumption

-----------------------------------------------------------------------------
(***************************************************************************)
(* Type correctness                                                        *)
(***************************************************************************)

\* A client's streams of some kinds are streams (streamID, client.go:520-523).
LEMMA IdsAreStreams ==
  ASSUME NEW c \in Clients, NEW ks \in SUBSET Kinds
  PROVE  Ids(c, ks) \subseteq Streams
  BY DEF Ids

\* Fewer kinds are fewer streams.
LEMMA IdsMonotonic ==
  ASSUME NEW c, NEW ks, NEW ls, ks \subseteq ls
  PROVE  Ids(c, ks) \subseteq Ids(c, ls)
  BY DEF Ids

\* Every variable keeps its type; ZLM records only what it has, and a departure
\* stops only recordings of streams it closes afterwards (room.go:285-327).
THEOREM TypeCorrect == Spec => []TypeOK
<1>1. Init => TypeOK
  BY DEF Init, TypeOK, PCs, Rest
<1>2. TypeOK /\ [Next]_vars => TypeOK'
  <2> SUFFICES ASSUME TypeOK, [Next]_vars PROVE TypeOK'
    OBVIOUS
  <2> USE DEF TypeOK, PCs
  <2>1. ASSUME NEW c \in Clients, Join(c) PROVE TypeOK'
    BY <2>1 DEF Join
  <2>2. ASSUME NEW c \in Clients, NEW k \in Kinds, WebRTCOffer(c, k)
        PROVE  TypeOK'
    BY <2>2 DEF WebRTCOffer
  <2>3. ASSUME NEW c \in Clients, ExchangeSDP(c) PROVE TypeOK'
    <3>1. Ids(c, arg[c]) \subseteq Streams
      BY IdsAreStreams
    <3>2. /\ pc' \in [Clients -> PCs]
          /\ arg' \in [Clients -> SUBSET Kinds]
          /\ live' \subseteq Streams /\ live \subseteq live'
          /\ UNCHANGED <<streams, recordings, closing, leaving, recorded, failed, lost>>
      BY <2>3, <3>1 DEF ExchangeSDP, GiveUp
    <3> QED
      BY <3>2
  <2>4. ASSUME NEW c \in Clients, RegisterStream(c) PROVE TypeOK'
    BY <2>4 DEF RegisterStream
  <2>5. ASSUME NEW c \in Clients, NEW k \in Kinds, StreamStopped(c, k)
        PROVE  TypeOK'
    BY <2>5 DEF StreamStopped
  <2>6. ASSUME NEW s \in Streams, CloseStream(s) PROVE TypeOK'
    <3>1. closing[s] - 1 \in 0..MaxCloses
      BY <2>6 DEF CloseStream
    <3> QED
      BY <2>6, <3>1 DEF CloseStream, Drop, Fail
  <2>7. ASSUME NEW c \in Clients, NEW k \in Kinds, NEW start \in BOOLEAN,
               RecordControl(c, k, start)
        PROVE  TypeOK'
    BY <2>7 DEF RecordControl
  <2>8. ASSUME NEW c \in Clients, StartRecord(c) PROVE TypeOK'
    BY <2>8, IdsAreStreams DEF StartRecord, GiveUp
  <2>9. ASSUME NEW c \in Clients, StopRecord(c) PROVE TypeOK'
    BY <2>9, IdsAreStreams DEF StopRecord, GiveUp
  <2>10. ASSUME NEW c \in Clients, SaveRecording(c) PROVE TypeOK'
    BY <2>10 DEF SaveRecording
  <2>11. ASSUME NEW c \in Clients, RemoveClient(c) PROVE TypeOK'
    <3>0. streams[c] \in SUBSET Kinds
      OBVIOUS
    <3>1. /\ Ids(c, streams[c]) \subseteq Streams
          /\ Ids(c, streams[c] \cap recordings[c]) \subseteq Ids(c, streams[c])
      <4>1. Ids(c, streams[c]) \subseteq Streams
        BY <3>0, IdsAreStreams
      <4>2. streams[c] \cap recordings[c] \subseteq streams[c]
        OBVIOUS
      <4> QED
        BY <4>1, <4>2, IdsMonotonic
    <3>2. /\ pc' \in [Clients -> PCs]
          /\ streams' \in [Clients -> SUBSET Kinds]
          /\ recordings' \in [Clients -> SUBSET Kinds]
          /\ UNCHANGED <<arg, closing, live, recorded, failed, lost>>
      BY <2>11 DEF RemoveClient
    <3>3. leaving' = [leaving EXCEPT ![c] =
                        [stops |-> Ids(c, streams[c] \cap recordings[c]),
                         closes |-> Ids(c, streams[c])]]
      BY <2>11 DEF RemoveClient
    <3>4. leaving' \in [Clients -> [stops : SUBSET Streams, closes : SUBSET Streams]]
      BY <3>1, <3>3
    <3>5. \A d \in Clients : leaving'[d].stops \subseteq leaving'[d].closes
      BY <3>1, <3>3
    <3> QED
      BY <3>2, <3>4, <3>5
  <2>12. ASSUME NEW c \in Clients, NEW s \in Streams, LeaveStopRecord(c, s)
         PROVE  TypeOK'
    BY <2>12 DEF LeaveStopRecord
  <2>13. ASSUME NEW c \in Clients, NEW s \in Streams, LeaveCloseStream(c, s)
         PROVE  TypeOK'
    BY <2>13 DEF LeaveCloseStream, Drop, Fail
  <2>14. ASSUME NEW c \in Clients, StartClose(c) PROVE TypeOK'
    <3>1. \A s \in Streams : s \in Ids(c, arg[c]) => closing[s] + 1 \in 0..MaxCloses
      BY <2>14 DEF StartClose
    <3>2. closing' \in [Streams -> 0..MaxCloses]
      BY <2>14, <3>1 DEF StartClose
    <3>3. /\ pc' \in [Clients -> PCs]
          /\ arg' \in [Clients -> SUBSET Kinds]
          /\ UNCHANGED <<streams, recordings, leaving, live, recorded, failed, lost>>
      BY <2>14 DEF StartClose, GiveUp
    <3> QED
      BY <3>2, <3>3
  <2>15. ASSUME NEW c \in Clients, StopPanics(c) PROVE TypeOK'
    BY <2>15, IdsAreStreams DEF StopPanics
  <2>16. ASSUME NEW c \in Clients, StartLeaving(c) PROVE TypeOK'
    BY <2>16 DEF StartLeaving
  <2>17. ASSUME NEW c \in Clients, FarewellPanics(c) PROVE TypeOK'
    BY <2>17 DEF FarewellPanics, Rest
  <2>18. CASE UNCHANGED vars
    BY <2>18 DEF vars
  <2> HIDE DEF TypeOK, PCs
  <2> QED
    BY <2>1, <2>2, <2>3, <2>4, <2>5, <2>6, <2>7, <2>8, <2>9, <2>10, <2>11,
       <2>12, <2>13, <2>14, <2>15, <2>16, <2>17, <2>18
    DEF Next, Input, Handler, LeaveJob
<1> QED
  BY <1>1, <1>2, PTL DEF Spec

-----------------------------------------------------------------------------
(***************************************************************************)
(* Members and their handlers                                              *)
(***************************************************************************)

\* A departure goroutine works for nobody who is a member: the client that
\* owns it has been removed, and comes back only after it is done.
LeavingOnlyOut ==
    \A c \in Clients : pc[c] \notin {"out", "farewell"} => leaving[c] = Rest

\* record-start and record-stop are about a stream that is still registered:
\* the read loop that could unregister it is waiting in this handler.
HandlerKind ==
    \A c \in Clients :
        pc[c] \in {"start", "stop", "saveOn", "saveOff"} => arg[c] \subseteq streams[c]

\* No two members publish under the same id.
Apart ==
    \A c, d \in Clients :
        /\ c # d
        /\ pc[c] \notin {"out", "farewell"}
        /\ pc[d] \notin {"out", "farewell"}
        => Ids(c, Kinds) \cap Ids(d, Kinds) = {}

\* The flag is cleared only for what ZLM no longer records.
SaveOffStopped ==
    \A c \in Clients : pc[c] = "saveOff" => Ids(c, arg[c]) \cap recorded = {}

\* The inductive invariant of the handlers.
HandlerInv == TypeOK /\ LeavingOnlyOut /\ HandlerKind /\ Apart /\ SaveOffStopped

\* What the read loop assumes while it waits for ZLM stays true
\* (client.go:747-771).
LEMMA HandlersAreSound == Spec => []HandlerInv
<1>1. Init => LeavingOnlyOut /\ HandlerKind /\ Apart /\ SaveOffStopped
  BY DEF Init, LeavingOnlyOut, HandlerKind, Apart, SaveOffStopped
<1>2. /\ TypeOK /\ LeavingOnlyOut /\ HandlerKind /\ Apart /\ SaveOffStopped
      /\ [Next]_vars
      => (LeavingOnlyOut /\ HandlerKind /\ Apart /\ SaveOffStopped)'
  <2> SUFFICES ASSUME TypeOK, LeavingOnlyOut, HandlerKind, Apart,
                      SaveOffStopped, [Next]_vars
               PROVE  (LeavingOnlyOut /\ HandlerKind /\ Apart /\ SaveOffStopped)'
    OBVIOUS
  <2> DEFINE Goal == LeavingOnlyOut /\ HandlerKind /\ Apart /\ SaveOffStopped
  <2> USE DEF TypeOK, PCs, LeavingOnlyOut, HandlerKind, Apart, SaveOffStopped
  <2>1. ASSUME NEW c \in Clients, Join(c) PROVE Goal'
    BY <2>1 DEF Join
  <2>2. ASSUME NEW c \in Clients, NEW k \in Kinds, WebRTCOffer(c, k) PROVE Goal'
    BY <2>2 DEF WebRTCOffer
  <2>3. ASSUME NEW c \in Clients, ExchangeSDP(c) PROVE Goal'
    BY ZenonT(40), <2>3 DEF ExchangeSDP, GiveUp
  <2>4. ASSUME NEW c \in Clients, RegisterStream(c) PROVE Goal'
    BY <2>4 DEF RegisterStream
  <2>5. ASSUME NEW c \in Clients, NEW k \in Kinds, StreamStopped(c, k) PROVE Goal'
    BY <2>5 DEF StreamStopped
  <2>6. ASSUME NEW s \in Streams, CloseStream(s) PROVE Goal'
    BY <2>6 DEF CloseStream, Drop, Fail
  <2>7. ASSUME NEW c \in Clients, NEW k \in Kinds, NEW start \in BOOLEAN,
               RecordControl(c, k, start)
        PROVE  Goal'
    BY <2>7 DEF RecordControl
  <2>8. ASSUME NEW c \in Clients, StartRecord(c) PROVE Goal'
    <3>1. LeavingOnlyOut' /\ HandlerKind' /\ Apart'
      BY <2>8 DEF StartRecord, GiveUp
    <3>2. ASSUME NEW d \in Clients, pc'[d] = "saveOff"
          PROVE  Ids(d, arg'[d]) \cap recorded' = {}
      <4>1. /\ d # c /\ pc[d] = "saveOff" /\ pc[c] = "start" /\ arg'[d] = arg[d]
            /\ recorded' \subseteq recorded \cup Ids(c, arg[c])
        BY <2>8, <3>2 DEF StartRecord, GiveUp
      <4>2. /\ Ids(d, arg[d]) \subseteq Ids(d, Kinds)
            /\ Ids(c, arg[c]) \subseteq Ids(c, Kinds)
        BY IdsMonotonic
      <4>3. Ids(c, Kinds) \cap Ids(d, Kinds) = {}
        BY <4>1
      <4>4. Ids(d, arg[d]) \cap recorded = {}
        BY <4>1
      <4> HIDE DEF TypeOK, LeavingOnlyOut, HandlerKind, Apart, SaveOffStopped
      <4> QED
        BY <4>1, <4>2, <4>3, <4>4
    <3> QED
      BY <3>1, <3>2
  <2>9. ASSUME NEW c \in Clients, StopRecord(c) PROVE Goal'
    BY ZenonT(40), <2>9 DEF StopRecord, GiveUp
  <2>10. ASSUME NEW c \in Clients, SaveRecording(c) PROVE Goal'
    BY <2>10 DEF SaveRecording
  <2>11. ASSUME NEW c \in Clients, RemoveClient(c) PROVE Goal'
    BY <2>11 DEF RemoveClient
  <2>12. ASSUME NEW c \in Clients, NEW s \in Streams, LeaveStopRecord(c, s)
         PROVE  Goal'
    <3>1. pc[c] = "out"
      BY <2>12 DEF LeaveStopRecord, Rest
    <3>2. /\ \A d \in Clients : d # c => leaving'[d] = leaving[d]
          /\ recorded' \subseteq recorded
          /\ UNCHANGED <<pc, arg, streams>>
      BY <2>12 DEF LeaveStopRecord
    <3> QED
      BY <3>1, <3>2
  <2>13. ASSUME NEW c \in Clients, NEW s \in Streams, LeaveCloseStream(c, s)
         PROVE  Goal'
    <3>1. pc[c] = "out"
      BY <2>13 DEF LeaveCloseStream, Rest
    <3>2. /\ \A d \in Clients : d # c => leaving'[d] = leaving[d]
          /\ recorded' \subseteq recorded
          /\ UNCHANGED <<pc, arg, streams>>
      BY <2>13 DEF LeaveCloseStream, Drop, Fail
    <3> QED
      BY <3>1, <3>2
  <2>14. ASSUME NEW c \in Clients, StartClose(c) PROVE Goal'
    BY <2>14 DEF StartClose, GiveUp
  <2>15. ASSUME NEW c \in Clients, StopPanics(c) PROVE Goal'
    BY <2>15 DEF StopPanics
  <2>16. ASSUME NEW c \in Clients, StartLeaving(c) PROVE Goal'
    BY <2>16 DEF StartLeaving
  <2>17. ASSUME NEW c \in Clients, FarewellPanics(c) PROVE Goal'
    BY <2>17 DEF FarewellPanics
  <2>18. CASE UNCHANGED vars
    BY <2>18 DEF vars
  <2> QED
    BY <2>1, <2>2, <2>3, <2>4, <2>5, <2>6, <2>7, <2>8, <2>9, <2>10, <2>11,
       <2>12, <2>13, <2>14, <2>15, <2>16, <2>17, <2>18
    DEF Next, Input, Handler, LeaveJob
<1> QED
  BY <1>1, <1>2, TypeCorrect, PTL DEF Spec, HandlerInv

-----------------------------------------------------------------------------
(***************************************************************************)
(* Streams and recordings                                                  *)
(***************************************************************************)

\* A departure has a set of recordings to stop and one of streams to close.
LEMMA LeavingRecords ==
  ASSUME TypeOK
  PROVE  \A d \in Clients :
            leaving[d] \in [stops : SUBSET Streams, closes : SUBSET Streams]
  BY DEF TypeOK

\* Once everybody is told, stream-stopped starts a call that closes the stream,
\* and no other call is forgotten (client.go:664-674).
LEMMA ClosingStarted ==
  ASSUME TypeOK, NEW c \in Clients, StartClose(c), NEW s \in Streams
  PROVE  /\ s \in Ids(c, arg[c]) => closing'[s] > 0
         /\ s \notin Ids(c, arg[c]) => closing'[s] = closing[s]
<1>1. closing \in [Streams -> 0..MaxCloses]
  BY DEF TypeOK
<1>2. closing'[s] = IF s \in Ids(c, arg[c]) THEN closing[s] + 1 ELSE closing[s]
  BY DEF StartClose
<1> QED
  BY <1>1, <1>2

\* No stream outlives its publication: every stream ZLM has is registered, or
\* going to be, or somebody is going to close it, or a call for it has failed, or a
\* panic has prevented its closing (client.go:659-674, room.go:285-327).
THEOREM StreamsAreAccountedFor == Spec => []NoLeakedStream
<1> USE DEF NoLeakedStream, Wanted, CloseDue, Forsaken, Ids
<1>1. Init => NoLeakedStream
  BY DEF Init
<1>2. HandlerInv /\ NoLeakedStream /\ [Next]_vars => NoLeakedStream'
  <2> SUFFICES ASSUME HandlerInv, NoLeakedStream, [Next]_vars
               PROVE  NoLeakedStream'
    OBVIOUS
  <2>t. /\ TypeOK /\ LeavingOnlyOut
        /\ DOMAIN pc = Clients /\ DOMAIN arg = Clients /\ DOMAIN streams = Clients
        /\ DOMAIN leaving = Clients /\ DOMAIN closing = Streams
        /\ live \subseteq Streams
    BY DEF HandlerInv, TypeOK
  <2>1. ASSUME NEW c \in Clients, Join(c) PROVE NoLeakedStream'
    <3>1. /\ \A d \in Clients : pc[d] \in {"register", "stopping"} => pc'[d] = pc[d]
          /\ UNCHANGED <<arg, streams, closing, leaving, live, failed, lost>>
      BY <2>1, <2>t DEF Join
    <3> QED
      BY ZenonT(40), <3>1
  <2>2. ASSUME NEW c \in Clients, NEW k \in Kinds, WebRTCOffer(c, k)
        PROVE  NoLeakedStream'
    <3>1. /\ \A d \in Clients : pc[d] \in {"register", "stopping"} =>
                pc'[d] = pc[d] /\ arg'[d] = arg[d]
          /\ UNCHANGED <<streams, closing, leaving, live, failed, lost>>
      BY <2>2, <2>t DEF WebRTCOffer
    <3> QED
      BY ZenonT(40), <3>1
  <2>3. ASSUME NEW c \in Clients, ExchangeSDP(c) PROVE NoLeakedStream'
    <3>1. /\ \A d \in Clients : pc[d] \in {"register", "stopping"} =>
                pc'[d] = pc[d] /\ arg'[d] = arg[d]
          /\ UNCHANGED <<streams, closing, leaving, failed, lost>>
      BY <2>3, <2>t DEF ExchangeSDP, GiveUp
    <3>2. \/ live' = live
          \/ /\ live' = live \cup Ids(c, arg[c])
             /\ pc'[c] = "register" /\ arg'[c] = arg[c]
      BY <2>3, <2>t DEF ExchangeSDP, GiveUp
    <3> QED
      BY <3>1, <3>2
  <2>4. ASSUME NEW c \in Clients, RegisterStream(c) PROVE NoLeakedStream'
    <3>1. /\ pc[c] = "register"
          /\ streams'[c] = streams[c] \cup arg[c]
          /\ \A d \in Clients \ {c} :
                /\ pc'[d] = pc[d] /\ arg'[d] = arg[d]
                /\ streams'[d] = streams[d]
          /\ UNCHANGED <<closing, leaving, live, failed, lost>>
      BY <2>4, <2>t DEF RegisterStream
    <3>2. ASSUME NEW s, Wanted(s) PROVE Wanted(s)'
      <4>1. PICK d \in Clients :
               s \in Ids(d, streams[d]) \/ (pc[d] = "register" /\ s \in Ids(d, arg[d]))
        BY <3>2
      <4>2. CASE d = c
        <5>1. s \in Ids(c, streams'[c])
          BY <3>1, <4>1, <4>2
        <5> QED
          BY <5>1
      <4>3. CASE d # c
        BY <3>1, <4>1, <4>3
      <4> QED
        BY <4>2, <4>3
    <3>3. ASSUME NEW s, CloseDue(s) PROVE CloseDue(s)'
      BY <3>1, <3>3
    <3>4. \A s : Forsaken(s) => Forsaken(s)'
      BY <3>1
    <3> HIDE DEF Wanted, CloseDue, Forsaken, Ids
    <3> QED
      BY <3>1, <3>2, <3>3, <3>4
  <2>5. ASSUME NEW c \in Clients, NEW k \in Kinds, StreamStopped(c, k)
        PROVE  NoLeakedStream'
    <3>1. /\ pc[c] = "joined" /\ pc'[c] = "stopping" /\ arg'[c] = {k}
          /\ streams'[c] = streams[c] \ {k}
          /\ \A d \in Clients \ {c} :
                /\ pc'[d] = pc[d] /\ arg'[d] = arg[d]
                /\ streams'[d] = streams[d]
          /\ UNCHANGED <<closing, leaving, live, failed, lost>>
      BY <2>5, <2>t DEF StreamStopped
    <3> SUFFICES ASSUME NEW s \in live
                 PROVE  Wanted(s)' \/ CloseDue(s)' \/ Forsaken(s)'
      BY <3>1
    <3>2. CASE s = streamID[c, k]
      BY <3>1, <3>2
    <3>3. CASE s # streamID[c, k]
      <4>1. ASSUME CloseDue(s) PROVE CloseDue(s)'
        BY <3>1, <4>1
      <4>2. ASSUME Wanted(s) PROVE Wanted(s)'
        BY <3>1, <3>3, <4>2
      <4>3. Forsaken(s) => Forsaken(s)'
        BY <3>1
      <4>4. Wanted(s) \/ CloseDue(s) \/ Forsaken(s)
        OBVIOUS
      <4> HIDE DEF Wanted, CloseDue, Forsaken
      <4> QED
        BY <4>1, <4>2, <4>3, <4>4
    <3> QED
      BY <3>2, <3>3
  <2>6. ASSUME NEW s \in Streams, CloseStream(s) PROVE NoLeakedStream'
    <3>1. /\ \A t \in Streams \ {s} : closing'[t] = closing[t]
          /\ live' \subseteq live
          /\ \A t \in Streams \ {s} : Forsaken(t) => Forsaken(t)'
          /\ s \in live' => s \in failed'
          /\ UNCHANGED <<pc, arg, streams, leaving>>
      BY <2>6, <2>t DEF CloseStream, Drop, Fail
    <3> QED
      BY <2>t, <3>1
  <2>7. ASSUME NEW c \in Clients, NEW k \in Kinds, NEW start \in BOOLEAN,
               RecordControl(c, k, start)
        PROVE  NoLeakedStream'
    <3>1. /\ \A d \in Clients : pc[d] \in {"register", "stopping"} =>
                pc'[d] = pc[d] /\ arg'[d] = arg[d]
          /\ UNCHANGED <<streams, closing, leaving, live, failed, lost>>
      BY <2>7, <2>t DEF RecordControl
    <3> QED
      BY ZenonT(40), <3>1
  <2>8. ASSUME NEW c \in Clients, StartRecord(c) PROVE NoLeakedStream'
    <3>1. /\ \A d \in Clients : pc[d] \in {"register", "stopping"} =>
                pc'[d] = pc[d] /\ arg'[d] = arg[d]
          /\ failed \subseteq failed'
          /\ UNCHANGED <<streams, closing, leaving, live, lost>>
      BY <2>8, <2>t DEF StartRecord, GiveUp
    <3> QED
      BY <3>1
  <2>9. ASSUME NEW c \in Clients, StopRecord(c) PROVE NoLeakedStream'
    <3>1. /\ \A d \in Clients : pc[d] \in {"register", "stopping"} =>
                pc'[d] = pc[d] /\ arg'[d] = arg[d]
          /\ failed \subseteq failed'
          /\ UNCHANGED <<streams, closing, leaving, live, lost>>
      BY <2>9, <2>t DEF StopRecord, GiveUp
    <3> QED
      BY ZenonT(40), <3>1
  <2>10. ASSUME NEW c \in Clients, SaveRecording(c) PROVE NoLeakedStream'
    <3>1. /\ \A d \in Clients : pc[d] \in {"register", "stopping"} =>
                pc'[d] = pc[d] /\ arg'[d] = arg[d]
          /\ UNCHANGED <<streams, closing, leaving, live, failed, lost>>
      BY <2>10, <2>t DEF SaveRecording
    <3> QED
      BY ZenonT(40), <3>1
  <2>11. ASSUME NEW c \in Clients, RemoveClient(c) PROVE NoLeakedStream'
    <3>1. /\ pc[c] \in {"joined", "broken"} /\ pc'[c] = "farewell"
          /\ \A d \in Clients \ {c} :
                /\ pc'[d] = pc[d] /\ leaving'[d] = leaving[d]
                /\ streams'[d] = streams[d]
          /\ UNCHANGED <<arg, closing, live, failed, lost>>
      BY <2>11, <2>t DEF RemoveClient
    <3>2. leaving[c] = Rest /\ Rest.closes = {}
      BY <2>t, <3>1 DEF LeavingOnlyOut, Rest
    <3>3. leaving'[c].closes = {streamID[c, k] : k \in streams[c]}
      BY <2>11, <2>t DEF RemoveClient
    <3>4. ASSUME NEW s, CloseDue(s) PROVE CloseDue(s)'
      BY <3>1, <3>2, <3>4
    <3>5. ASSUME NEW s, Wanted(s) PROVE Wanted(s)' \/ CloseDue(s)'
      <4>1. PICK d \in Clients :
               s \in Ids(d, streams[d]) \/ (pc[d] = "register" /\ s \in Ids(d, arg[d]))
        BY <3>5
      <4>2. CASE d = c
        <5>1. s \in Ids(c, streams[c])
          BY <3>1, <4>1, <4>2
        <5>2. s \in leaving'[c].closes
          BY <3>3, <5>1
        <5> QED
          BY <5>2
      <4>3. CASE d # c
        BY <3>1, <4>1, <4>3
      <4> QED
        BY <4>2, <4>3
    <3>6. \A s : Forsaken(s) => Forsaken(s)'
      BY <3>1
    <3> HIDE DEF Wanted, CloseDue, Forsaken
    <3> QED
      BY <3>1, <3>4, <3>5, <3>6
  <2>12. ASSUME NEW c \in Clients, NEW s \in Streams, LeaveStopRecord(c, s)
         PROVE  NoLeakedStream'
    <3>1. /\ \A d \in Clients : leaving'[d].closes = leaving[d].closes
          /\ UNCHANGED <<pc, arg, streams, closing, live, failed, lost>>
      BY <2>12, <2>t, LeavingRecords DEF LeaveStopRecord
    <3> QED
      BY <3>1
  <2>13. ASSUME NEW c \in Clients, NEW s \in Streams, LeaveCloseStream(c, s)
         PROVE  NoLeakedStream'
    <3>1. /\ \A d \in Clients : leaving[d].closes \ {s} \subseteq leaving'[d].closes
          /\ live' \subseteq live
          /\ \A t \in Streams \ {s} : Forsaken(t) => Forsaken(t)'
          /\ s \in live' => s \in failed'
          /\ UNCHANGED <<pc, arg, streams, closing>>
      BY <2>13, <2>t, LeavingRecords DEF LeaveCloseStream, Drop, Fail
    <3> QED
      BY <2>t, <3>1
  <2>14. ASSUME NEW c \in Clients, StartClose(c) PROVE NoLeakedStream'
    <3>1. /\ pc[c] = "stopping" /\ pc'[c] = "joined"
          /\ \A d \in Clients \ {c} : pc'[d] = pc[d] /\ arg'[d] = arg[d]
          /\ UNCHANGED <<streams, leaving, live, failed, lost>>
      BY <2>14, <2>t DEF StartClose, GiveUp
    <3> SUFFICES ASSUME NEW s \in live
                 PROVE  Wanted(s)' \/ CloseDue(s)' \/ Forsaken(s)'
      BY <3>1
    <3>2. /\ s \in Ids(c, arg[c]) => closing'[s] > 0
          /\ s \notin Ids(c, arg[c]) => closing'[s] = closing[s]
      BY <2>14, <2>t, ClosingStarted
    <3>3. ASSUME CloseDue(s) PROVE CloseDue(s)'
      <4>1. CASE closing[s] > 0
        BY <3>2, <4>1
      <4>2. CASE \E d \in Clients : s \in leaving[d].closes
        BY <3>1, <4>2
      <4>3. ASSUME NEW d \in Clients, pc[d] = "stopping", s \in Ids(d, arg[d])
            PROVE  CloseDue(s)'
        <5>1. CASE d = c
          BY <3>2, <4>3, <5>1
        <5>2. CASE d # c
          BY <3>1, <4>3, <5>2
        <5> QED
          BY <5>1, <5>2
      <4> QED
        BY <3>3, <4>1, <4>2, <4>3
    <3>4. ASSUME Wanted(s) PROVE Wanted(s)'
      BY <3>1, <3>4
    <3>5. Forsaken(s) => Forsaken(s)'
      BY <3>1
    <3>6. Wanted(s) \/ CloseDue(s) \/ Forsaken(s)
      BY <3>1
    <3> HIDE DEF Wanted, CloseDue, Forsaken
    <3> QED
      BY <3>3, <3>4, <3>5, <3>6
  <2>15. ASSUME NEW c \in Clients, StopPanics(c) PROVE NoLeakedStream'
    <3>1. /\ pc[c] = "stopping" /\ pc'[c] = "broken"
          /\ \A d \in Clients \ {c} : pc'[d] = pc[d] /\ arg'[d] = arg[d]
          /\ lost' = lost \cup Ids(c, arg[c])
          /\ UNCHANGED <<streams, closing, leaving, live, failed>>
      BY <2>15, <2>t DEF StopPanics
    <3>2. ASSUME NEW s, CloseDue(s) PROVE CloseDue(s)' \/ Forsaken(s)'
      BY <3>1, <3>2
    <3>3. ASSUME NEW s, Wanted(s) PROVE Wanted(s)'
      BY <3>1, <3>3
    <3>4. \A s : Forsaken(s) => Forsaken(s)'
      BY <3>1
    <3> HIDE DEF Wanted, CloseDue, Forsaken
    <3>5. ASSUME NEW s \in live PROVE Wanted(s) \/ CloseDue(s) \/ Forsaken(s)
      OBVIOUS
    <3> QED
      BY <3>1, <3>2, <3>3, <3>4, <3>5
  <2>16. ASSUME NEW c \in Clients, StartLeaving(c) PROVE NoLeakedStream'
    <3>1. /\ \A d \in Clients : pc[d] \in {"register", "stopping"} => pc'[d] = pc[d]
          /\ UNCHANGED <<arg, streams, closing, leaving, live, failed, lost>>
      BY <2>16, <2>t DEF StartLeaving
    <3> QED
      BY ZenonT(40), <3>1
  <2>17. ASSUME NEW c \in Clients, FarewellPanics(c) PROVE NoLeakedStream'
    <3>1. /\ \A d \in Clients : pc[d] \in {"register", "stopping"} => pc'[d] = pc[d]
          /\ \A d \in Clients \ {c} : leaving'[d] = leaving[d]
          /\ lost' = lost \cup leaving[c].closes
          /\ UNCHANGED <<arg, streams, closing, live, failed>>
      BY <2>17, <2>t DEF FarewellPanics
    <3>2. ASSUME NEW s, CloseDue(s) PROVE CloseDue(s)' \/ Forsaken(s)'
      BY <3>1, <3>2
    <3>3. ASSUME NEW s, Wanted(s) PROVE Wanted(s)'
      BY <3>1, <3>3
    <3>4. \A s : Forsaken(s) => Forsaken(s)'
      BY <3>1
    <3> HIDE DEF Wanted, CloseDue, Forsaken
    <3>5. ASSUME NEW s \in live PROVE Wanted(s) \/ CloseDue(s) \/ Forsaken(s)
      OBVIOUS
    <3> QED
      BY <3>1, <3>2, <3>3, <3>4, <3>5
  <2>18. CASE UNCHANGED vars
    BY <2>18 DEF vars
  <2> HIDE DEF NoLeakedStream, Wanted, CloseDue, Forsaken, Ids
  <2> QED
    BY <2>1, <2>2, <2>3, <2>4, <2>5, <2>6, <2>7, <2>8, <2>9, <2>10, <2>11,
       <2>12, <2>13, <2>14, <2>15, <2>16, <2>17, <2>18
    DEF Next, Input, Handler, LeaveJob
<1> QED
  BY <1>1, <1>2, HandlersAreSound, PTL DEF Spec

\* The flag the theorem below is about is on, or is being set.
Flagged(s) ==
    \E c \in Clients, k \in Kinds :
        /\ streamID[c, k] = s
        /\ k \in streams[c]
        /\ k \in recordings[c] \/ (pc[c] = "saveOn" /\ k \in arg[c])

\* Nothing is recorded in secret: every recording ZLM makes has its publisher's
\* flag, or is going to have it, or its stream is going to be closed, or a call
\* for it has failed, or a panic has prevented its closing (client.go:757-771,
\* room.go:285-327).
THEOREM RecordingsAreAccountedFor == Spec => []NoSecretRecording
<1> USE DEF NoSecretRecording, CloseDue, Forsaken, Flagged
<1>1. Init => NoSecretRecording
  BY DEF Init
<1>2. HandlerInv /\ NoSecretRecording /\ [Next]_vars => NoSecretRecording'
  <2> SUFFICES ASSUME HandlerInv, NoSecretRecording, [Next]_vars
               PROVE  NoSecretRecording'
    OBVIOUS
  <2>t. /\ TypeOK /\ LeavingOnlyOut /\ HandlerKind /\ SaveOffStopped
        /\ DOMAIN pc = Clients /\ DOMAIN arg = Clients /\ DOMAIN streams = Clients
        /\ DOMAIN recordings = Clients
        /\ DOMAIN leaving = Clients /\ DOMAIN closing = Streams
        /\ recorded \subseteq Streams
    BY DEF HandlerInv, TypeOK
  <2>1. ASSUME NEW c \in Clients, Join(c) PROVE NoSecretRecording'
    <3>1. /\ \A d \in Clients : pc[d] \in {"saveOn", "stopping"} => pc'[d] = pc[d]
          /\ UNCHANGED <<arg, streams, recordings, closing, leaving, recorded, failed, lost>>
      BY <2>1, <2>t DEF Join
    <3> QED
      BY <3>1
  <2>2. ASSUME NEW c \in Clients, NEW k \in Kinds, WebRTCOffer(c, k)
        PROVE  NoSecretRecording'
    <3>1. /\ \A d \in Clients : pc[d] \in {"saveOn", "stopping"} =>
                pc'[d] = pc[d] /\ arg'[d] = arg[d]
          /\ UNCHANGED <<streams, recordings, closing, leaving, recorded, failed, lost>>
      BY <2>2, <2>t DEF WebRTCOffer
    <3> QED
      BY <3>1
  <2>3. ASSUME NEW c \in Clients, ExchangeSDP(c) PROVE NoSecretRecording'
    <3>1. /\ \A d \in Clients : pc[d] \in {"saveOn", "stopping"} =>
                pc'[d] = pc[d] /\ arg'[d] = arg[d]
          /\ UNCHANGED <<streams, recordings, closing, leaving, recorded, failed, lost>>
      BY <2>3, <2>t DEF ExchangeSDP, GiveUp
    <3> QED
      BY <3>1
  <2>4. ASSUME NEW c \in Clients, RegisterStream(c) PROVE NoSecretRecording'
    <3>1. /\ \A d \in Clients : streams[d] \subseteq streams'[d]
          /\ \A d \in Clients : pc[d] \in {"saveOn", "stopping"} =>
                pc'[d] = pc[d] /\ arg'[d] = arg[d]
          /\ UNCHANGED <<recordings, closing, leaving, recorded, failed, lost>>
      BY <2>4, <2>t DEF RegisterStream
    <3> QED
      BY <3>1
  <2>5. ASSUME NEW c \in Clients, NEW k \in Kinds, StreamStopped(c, k)
        PROVE  NoSecretRecording'
    <3>1. /\ pc[c] = "joined" /\ pc'[c] = "stopping" /\ arg'[c] = {k}
          /\ streams'[c] = streams[c] \ {k}
          /\ \A d \in Clients \ {c} :
                /\ pc'[d] = pc[d] /\ arg'[d] = arg[d]
                /\ streams'[d] = streams[d]
          /\ UNCHANGED <<recordings, closing, leaving, recorded, failed, lost>>
      BY <2>5, <2>t DEF StreamStopped
    <3> SUFFICES ASSUME NEW s \in recorded
                 PROVE  Flagged(s)' \/ CloseDue(s)' \/ Forsaken(s)'
      BY <3>1
    <3>2. CASE s = streamID[c, k]
      BY <3>1, <3>2 DEF Ids
    <3>3. CASE s # streamID[c, k]
      <4>1. ASSUME CloseDue(s) PROVE CloseDue(s)'
        BY <3>1, <4>1
      <4>2. ASSUME Flagged(s) PROVE Flagged(s)'
        BY <3>1, <3>3, <4>2
      <4>3. Forsaken(s) => Forsaken(s)'
        BY <3>1
      <4>4. Flagged(s) \/ CloseDue(s) \/ Forsaken(s)
        OBVIOUS
      <4> HIDE DEF Flagged, CloseDue, Forsaken
      <4> QED
        BY <4>1, <4>2, <4>3, <4>4
    <3> QED
      BY <3>2, <3>3
  <2>6. ASSUME NEW s \in Streams, CloseStream(s) PROVE NoSecretRecording'
    <3>1. /\ \A t \in Streams \ {s} : closing'[t] = closing[t]
          /\ recorded' \subseteq recorded
          /\ \A t \in Streams \ {s} : Forsaken(t) => Forsaken(t)'
          /\ s \in recorded' => s \in failed'
          /\ UNCHANGED <<pc, arg, streams, recordings, leaving>>
      BY <2>6, <2>t DEF CloseStream, Drop, Fail
    <3> QED
      BY <2>t, <3>1
  <2>7. ASSUME NEW c \in Clients, NEW k \in Kinds, NEW start \in BOOLEAN,
               RecordControl(c, k, start)
        PROVE  NoSecretRecording'
    <3>1. /\ \A d \in Clients : pc[d] \in {"saveOn", "stopping"} =>
                pc'[d] = pc[d] /\ arg'[d] = arg[d]
          /\ UNCHANGED <<streams, recordings, closing, leaving, recorded, failed, lost>>
      BY <2>7, <2>t DEF RecordControl
    <3> QED
      BY <3>1
  <2>8. ASSUME NEW c \in Clients, StartRecord(c) PROVE NoSecretRecording'
    <3>1. /\ \A d \in Clients : pc[d] \in {"saveOn", "stopping"} =>
                pc'[d] = pc[d] /\ arg'[d] = arg[d]
          /\ arg[c] \subseteq streams[c]
          /\ failed \subseteq failed'
          /\ UNCHANGED <<streams, recordings, closing, leaving, lost>>
      BY <2>8, <2>t DEF StartRecord, GiveUp, HandlerKind
    <3>2. \/ recorded' = recorded
          \/ /\ recorded' = recorded \cup Ids(c, arg[c])
             /\ \/ pc'[c] = "saveOn" /\ arg'[c] = arg[c]
                \/ Ids(c, arg[c]) \subseteq failed'
      BY <2>8, <2>t DEF StartRecord, GiveUp
    <3>3. ASSUME NEW s, CloseDue(s) \/ Flagged(s) \/ Forsaken(s)
          PROVE  CloseDue(s)' \/ Flagged(s)' \/ Forsaken(s)'
      BY <3>1, <3>3
    <3>4. ASSUME NEW s \in Ids(c, arg[c]), pc'[c] = "saveOn", arg'[c] = arg[c]
          PROVE  Flagged(s)'
      <4>1. PICK k \in arg[c] : streamID[c, k] = s
        BY DEF Ids
      <4>2. k \in Kinds /\ k \in streams'[c]
        BY <2>t, <3>1 DEF TypeOK
      <4> QED
        BY <3>4, <4>1, <4>2
    <3> SUFFICES ASSUME NEW s \in recorded'
                 PROVE  CloseDue(s)' \/ Flagged(s)' \/ Forsaken(s)'
      OBVIOUS
    <3>5. CASE s \in recorded
      <4>1. CloseDue(s) \/ Flagged(s) \/ Forsaken(s)
        BY <3>5
      <4> QED
        BY <3>3, <4>1
    <3>6. CASE s \notin recorded
      <4> HIDE DEF CloseDue, Flagged
      <4> QED
        BY <3>2, <3>4, <3>6
    <3> QED
      BY <3>5, <3>6
  <2>9. ASSUME NEW c \in Clients, StopRecord(c) PROVE NoSecretRecording'
    <3>1. /\ \A d \in Clients : pc[d] \in {"saveOn", "stopping"} =>
                pc'[d] = pc[d] /\ arg'[d] = arg[d]
          /\ recorded' \subseteq recorded /\ failed \subseteq failed'
          /\ UNCHANGED <<streams, recordings, closing, leaving, lost>>
      BY <2>9, <2>t DEF StopRecord, GiveUp
    <3> QED
      BY <3>1
  <2>10. ASSUME NEW c \in Clients, SaveRecording(c) PROVE NoSecretRecording'
    <3>1. /\ \A d \in Clients \ {c} :
                /\ pc'[d] = pc[d] /\ arg'[d] = arg[d]
                /\ recordings'[d] = recordings[d]
          /\ UNCHANGED <<streams, closing, leaving, recorded, failed, lost>>
      BY <2>10, <2>t DEF SaveRecording
    <3>2. CASE pc[c] = "saveOn"
      <4>1. recordings'[c] = recordings[c] \cup arg[c]
        BY <2>10, <2>t, <3>2 DEF SaveRecording
      <4> QED
        BY <3>1, <3>2, <4>1
    <3>3. CASE pc[c] = "saveOff"
      <4>1. recordings'[c] = recordings[c] \ arg[c]
        BY <2>10, <2>t, <3>3 DEF SaveRecording
      <4>2. \A k \in arg[c] : streamID[c, k] \notin recorded
        BY <2>t, <3>3 DEF SaveOffStopped, Ids
      <4>3. ASSUME NEW s \in recorded, Flagged(s) PROVE Flagged(s)'
        <5>1. PICK d \in Clients, k \in Kinds :
                 /\ streamID[d, k] = s /\ k \in streams[d]
                 /\ k \in recordings[d] \/ (pc[d] = "saveOn" /\ k \in arg[d])
          BY <4>3
        <5>2. CASE d = c
          <6>1. k \notin arg[c]
            BY <4>2, <5>1, <5>2
          <6> QED
            BY <3>1, <3>3, <4>1, <5>1, <5>2, <6>1
        <5>3. CASE d # c
          BY <3>1, <5>1, <5>3
        <5> QED
          BY <5>2, <5>3
      <4>4. ASSUME NEW s, CloseDue(s) PROVE CloseDue(s)'
        BY <3>1, <3>3, <4>4
      <4>5. \A s : Forsaken(s) => Forsaken(s)'
        BY <3>1
      <4>6. recorded' = recorded
        BY <3>1
      <4> HIDE DEF Flagged, CloseDue, Forsaken
      <4>7. ASSUME NEW s \in recorded PROVE Flagged(s) \/ CloseDue(s) \/ Forsaken(s)
        BY DEF Flagged
      <4> QED
        BY <4>3, <4>4, <4>5, <4>6, <4>7 DEF Flagged
    <3> QED
      BY <2>10, <3>2, <3>3 DEF SaveRecording
  <2>11. ASSUME NEW c \in Clients, RemoveClient(c) PROVE NoSecretRecording'
    <3>1. /\ pc[c] \in {"joined", "broken"} /\ pc'[c] = "farewell"
          /\ \A d \in Clients \ {c} :
                /\ pc'[d] = pc[d] /\ leaving'[d] = leaving[d]
                /\ streams'[d] = streams[d] /\ recordings'[d] = recordings[d]
          /\ UNCHANGED <<arg, closing, recorded, failed, lost>>
      BY <2>11, <2>t DEF RemoveClient
    <3>2. leaving[c] = Rest /\ Rest.closes = {}
      BY <2>t, <3>1 DEF LeavingOnlyOut, Rest
    <3>3. leaving'[c].closes = {streamID[c, k] : k \in streams[c]}
      BY <2>11, <2>t DEF RemoveClient, Ids
    <3>4. ASSUME NEW s, CloseDue(s) PROVE CloseDue(s)'
      BY <3>1, <3>2, <3>4
    <3>5. ASSUME NEW s, Flagged(s) PROVE Flagged(s)' \/ CloseDue(s)'
      <4>1. PICK d \in Clients, k \in Kinds :
               /\ streamID[d, k] = s /\ k \in streams[d]
               /\ k \in recordings[d] \/ (pc[d] = "saveOn" /\ k \in arg[d])
        BY <3>5
      <4>2. CASE d = c
        BY <3>3, <4>1, <4>2
      <4>3. CASE d # c
        BY <3>1, <4>1, <4>3
      <4> QED
        BY <4>2, <4>3
    <3>6. \A s : Forsaken(s) => Forsaken(s)'
      BY <3>1
    <3> HIDE DEF Flagged, CloseDue, Forsaken
    <3> QED
      BY <3>1, <3>4, <3>5, <3>6 DEF Flagged
  <2>12. ASSUME NEW c \in Clients, NEW s \in Streams, LeaveStopRecord(c, s)
         PROVE  NoSecretRecording'
    <3>1. /\ \A d \in Clients : leaving'[d].closes = leaving[d].closes
          /\ recorded' \subseteq recorded
          /\ UNCHANGED <<pc, arg, streams, recordings, closing, failed, lost>>
      BY <2>12, <2>t, LeavingRecords DEF LeaveStopRecord
    <3> QED
      BY <3>1
  <2>13. ASSUME NEW c \in Clients, NEW s \in Streams, LeaveCloseStream(c, s)
         PROVE  NoSecretRecording'
    <3>1. /\ \A d \in Clients : leaving[d].closes \ {s} \subseteq leaving'[d].closes
          /\ recorded' \subseteq recorded
          /\ \A t \in Streams \ {s} : Forsaken(t) => Forsaken(t)'
          /\ s \in recorded' => s \in failed'
          /\ UNCHANGED <<pc, arg, streams, recordings, closing>>
      BY <2>13, <2>t, LeavingRecords DEF LeaveCloseStream, Drop, Fail
    <3> QED
      BY <2>t, <3>1
  <2>14. ASSUME NEW c \in Clients, StartClose(c) PROVE NoSecretRecording'
    <3>1. /\ pc[c] = "stopping" /\ pc'[c] = "joined"
          /\ \A d \in Clients \ {c} : pc'[d] = pc[d] /\ arg'[d] = arg[d]
          /\ UNCHANGED <<streams, recordings, leaving, recorded, failed, lost>>
      BY <2>14, <2>t DEF StartClose, GiveUp
    <3> SUFFICES ASSUME NEW s \in recorded
                 PROVE  Flagged(s)' \/ CloseDue(s)' \/ Forsaken(s)'
      BY <3>1
    <3>2. /\ s \in Ids(c, arg[c]) => closing'[s] > 0
          /\ s \notin Ids(c, arg[c]) => closing'[s] = closing[s]
      BY <2>14, <2>t, ClosingStarted
    <3>3. ASSUME CloseDue(s) PROVE CloseDue(s)'
      <4>1. CASE closing[s] > 0
        BY <3>2, <4>1
      <4>2. CASE \E d \in Clients : s \in leaving[d].closes
        BY <3>1, <4>2
      <4>3. ASSUME NEW d \in Clients, pc[d] = "stopping", s \in Ids(d, arg[d])
            PROVE  CloseDue(s)'
        <5>1. CASE d = c
          BY <3>2, <4>3, <5>1
        <5>2. CASE d # c
          BY <3>1, <4>3, <5>2
        <5> QED
          BY <5>1, <5>2
      <4> QED
        BY <3>3, <4>1, <4>2, <4>3
    <3>4. ASSUME Flagged(s) PROVE Flagged(s)'
      BY <3>1, <3>4
    <3>5. Forsaken(s) => Forsaken(s)'
      BY <3>1
    <3>6. Flagged(s) \/ CloseDue(s) \/ Forsaken(s)
      BY <3>1
    <3> HIDE DEF Flagged, CloseDue, Forsaken
    <3> QED
      BY <3>3, <3>4, <3>5, <3>6
  <2>15. ASSUME NEW c \in Clients, StopPanics(c) PROVE NoSecretRecording'
    <3>1. /\ pc[c] = "stopping" /\ pc'[c] = "broken"
          /\ \A d \in Clients \ {c} : pc'[d] = pc[d] /\ arg'[d] = arg[d]
          /\ lost' = lost \cup Ids(c, arg[c])
          /\ UNCHANGED <<streams, recordings, closing, leaving, recorded, failed>>
      BY <2>15, <2>t DEF StopPanics
    <3>2. ASSUME NEW s, CloseDue(s) PROVE CloseDue(s)' \/ Forsaken(s)'
      BY <3>1, <3>2
    <3>3. ASSUME NEW s, Flagged(s) PROVE Flagged(s)'
      BY <3>1, <3>3
    <3>4. \A s : Forsaken(s) => Forsaken(s)'
      BY <3>1
    <3> HIDE DEF Flagged, CloseDue, Forsaken
    <3>5. ASSUME NEW s \in recorded PROVE Flagged(s) \/ CloseDue(s) \/ Forsaken(s)
      BY DEF Flagged
    <3> QED
      BY <3>1, <3>2, <3>3, <3>4, <3>5 DEF Flagged
  <2>16. ASSUME NEW c \in Clients, StartLeaving(c) PROVE NoSecretRecording'
    <3>1. /\ \A d \in Clients : pc[d] \in {"saveOn", "stopping"} => pc'[d] = pc[d]
          /\ UNCHANGED <<arg, streams, recordings, closing, leaving, recorded, failed, lost>>
      BY <2>16, <2>t DEF StartLeaving
    <3> QED
      BY <3>1
  <2>17. ASSUME NEW c \in Clients, FarewellPanics(c) PROVE NoSecretRecording'
    <3>1. /\ \A d \in Clients : pc[d] \in {"saveOn", "stopping"} => pc'[d] = pc[d]
          /\ \A d \in Clients \ {c} : leaving'[d] = leaving[d]
          /\ lost' = lost \cup leaving[c].closes
          /\ UNCHANGED <<arg, streams, recordings, closing, recorded, failed>>
      BY <2>17, <2>t DEF FarewellPanics
    <3>2. ASSUME NEW s, CloseDue(s) PROVE CloseDue(s)' \/ Forsaken(s)'
      BY <3>1, <3>2
    <3>3. ASSUME NEW s, Flagged(s) PROVE Flagged(s)'
      BY <3>1, <3>3
    <3>4. \A s : Forsaken(s) => Forsaken(s)'
      BY <3>1
    <3> HIDE DEF Flagged, CloseDue, Forsaken
    <3>5. ASSUME NEW s \in recorded PROVE Flagged(s) \/ CloseDue(s) \/ Forsaken(s)
      BY DEF Flagged
    <3> QED
      BY <3>1, <3>2, <3>3, <3>4, <3>5 DEF Flagged
  <2>18. CASE UNCHANGED vars
    BY <2>18 DEF vars
  <2> HIDE DEF NoSecretRecording, CloseDue, Forsaken, Flagged
  <2> QED
    BY <2>1, <2>2, <2>3, <2>4, <2>5, <2>6, <2>7, <2>8, <2>9, <2>10, <2>11,
       <2>12, <2>13, <2>14, <2>15, <2>16, <2>17, <2>18
    DEF Next, Input, Handler, LeaveJob
<1> QED
  BY <1>1, <1>2, HandlersAreSound, PTL DEF Spec
=============================================================================
