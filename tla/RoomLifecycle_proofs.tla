----------------------- MODULE RoomLifecycle_proofs ------------------------
(***************************************************************************)
(* Proofs about RoomLifecycle, for every set of clients, observers, room   *)
(* ids, room objects and nicknames.                                        *)
(***************************************************************************)
EXTENDS RoomLifecycle, FiniteSetTheorems, TLAPS

USE RoomAssumption, PeopleAssumption DEF kickVars

-----------------------------------------------------------------------------
(***************************************************************************)
(* Type correctness                                                        *)
(***************************************************************************)

\* Every variable keeps its type and every goroutine that is not at rest has
\* the room it works on (Hub.rooms, Room.clients and Client.room never hold
\* anything else).
THEOREM TypeCorrect == Spec => []TypeOK
<1>1. Init => TypeOK
  BY DEF Init, TypeOK, People, ClientPC, ObserverPC, Profiles
<1>2. TypeOK /\ [Next]_vars => TypeOK'
  <2> SUFFICES ASSUME TypeOK, [Next]_vars PROVE TypeOK'
    OBVIOUS
  <2> USE DEF TypeOK, People, ClientPC, ObserverPC, Goto, removeRoomIfEmpty
  <2>1. ASSUME NEW c \in Clients, NEW i \in RoomIds, NEW p \in Requests,
               JoinGetRoom(c, i, p)
        PROVE  TypeOK'
    <3>1. /\ pc' = [pc EXCEPT ![c] = "add"]
          /\ profile' = [profile EXCEPT ![c] = p]
          /\ UNCHANGED <<members, room, conn, observers, evictee, evictRoom,
                         kickVars>>
      BY <2>1 DEF JoinGetRoom
    <3>2. PICK r \in Rooms : target' = [target EXCEPT ![c] = r]
                             /\ (table' = table \/ table' = [table EXCEPT ![i] = r])
      BY <2>1 DEF JoinGetRoom
    <3>3. /\ table' \in [RoomIds -> Rooms \cup {NoRoom}]
          /\ target' \in [People -> Rooms \cup {NoRoom}]
      BY <3>2
    <3>4. /\ pc' \in [People -> ClientPC \cup ObserverPC]
          /\ \A d \in Clients : pc'[d] \in ClientPC
          /\ \A o \in Observers : pc'[o] \in ObserverPC
      BY <3>1
    <3>5. \A q \in People : pc'[q] \notin {"idle", "gone"} => target'[q] \in Rooms
      BY <3>1, <3>2
    <3> QED
      BY <3>1, <3>3, <3>4, <3>5 DEF Profiles
  <2>2. ASSUME NEW c \in Clients, JoinAdd(c) PROVE TypeOK'
    BY SMTT(30), <2>2 DEF JoinAdd
  <2>3. ASSUME NEW c \in Clients, JoinDrop(c) PROVE TypeOK'
    BY <2>3 DEF JoinDrop, Profiles
  <2>4. ASSUME NEW c \in Clients, Disconnect(c) PROVE TypeOK'
    BY <2>4 DEF Disconnect
  <2>5. ASSUME NEW i \in RoomIds, NEW cs \in SUBSET Clients,
               NEW k \in Kicks, AdminPick(k, i, cs)
        PROVE  TypeOK'
    BY <2>5 DEF AdminPick
  <2>6. ASSUME NEW k \in Kicks, NEW c \in Clients, KickNotice(k, c) PROVE TypeOK'
    BY <2>6 DEF KickNotice
  <2>7. ASSUME NEW c \in Clients, Cleanup(c) PROVE TypeOK'
    BY <2>7 DEF Cleanup, CloseChannel, Announcers, Notifiers
  <2>8. ASSUME NEW c \in Clients, RemoveClient(c) PROVE TypeOK'
    BY <2>8 DEF RemoveClient, Profiles
  <2>9. ASSUME NEW c \in Clients, CheckActive(c) PROVE TypeOK'
    BY <2>9 DEF CheckActive
  <2>10. ASSUME NEW c \in Clients, CollectObservers(c) PROVE TypeOK'
    BY <2>10 DEF CollectObservers
  <2>11. ASSUME NEW c \in Clients, NEW o \in Observers, DismissOne(c, o)
         PROVE  TypeOK'
    <3>1. CASE room[o] = NoRoom
      BY <2>11, <3>1 DEF DismissOne
    <3>2. CASE room[o] # NoRoom
      BY <2>11, <3>2, SMTT(60) DEF DismissOne
    <3> QED
      BY <3>1, <3>2
  <2>12. ASSUME NEW c \in Clients, Evict(c) PROVE TypeOK'
    <3>1. members' \in [Rooms -> SUBSET People]
      BY <2>12 DEF Evict
    <3>2. /\ pc' \in [People -> ClientPC \cup ObserverPC]
          /\ \A d \in Clients : pc'[d] \in ClientPC
          /\ \A o \in Observers : pc'[o] \in ObserverPC
          /\ \A p \in People :
                pc'[p] \notin {"idle", "gone"} => target[p] \in Rooms
      BY SMTT(30), <2>12 DEF Evict
    <3>3. /\ evictee' \in [Clients -> Observers \cup {Nobody}]
          /\ evictRoom' \in [Clients -> Rooms \cup {NoRoom}]
      BY <2>12 DEF Evict
    <3> QED
      BY <2>12, <3>1, <3>2, <3>3 DEF Evict
  <2>13. ASSUME NEW c \in Clients, EvictSweep(c) PROVE TypeOK'
    BY <2>13 DEF EvictSweep
  <2>14. ASSUME NEW c \in Clients, DismissDone(c) PROVE TypeOK'
    BY <2>14 DEF DismissDone
  <2>15. ASSUME NEW p \in People, Sweep(p) PROVE TypeOK'
    BY <2>15 DEF Sweep
  <2>16. ASSUME NEW o \in Observers, NEW i \in RoomIds, ObserveCheck(o, i)
         PROVE  TypeOK'
    BY <2>16 DEF ObserveCheck
  <2>17. ASSUME NEW o \in Observers, ObserveGetRoom(o) PROVE TypeOK'
    BY <2>17 DEF ObserveGetRoom
  <2>18. ASSUME NEW o \in Observers, ObserveInsert(o) PROVE TypeOK'
    BY <2>18 DEF ObserveInsert
  <2>19. ASSUME NEW o \in Observers, ObserveBind(o) PROVE TypeOK'
    BY <2>19 DEF ObserveBind
  <2>20. ASSUME NEW o \in Observers, ObserveLeave(o) PROVE TypeOK'
    BY <2>20 DEF ObserveLeave
  <2>21. ASSUME NEW o \in Observers, RemoveObserver(o) PROVE TypeOK'
    BY SMTT(40), <2>21 DEF RemoveObserver
  <2>22. ASSUME NEW p \in People, Reconnect(p) PROVE TypeOK'
    BY <2>22 DEF Reconnect
  <2>24. ASSUME NEW c \in Clients, JoinBind(c) PROVE TypeOK'
    BY <2>24 DEF JoinBind
  <2>25. ASSUME NEW k \in Kicks, KickClose(k) PROVE TypeOK'
    BY <2>25 DEF KickClose
  <2>26. ASSUME NEW c \in Clients, CleanupFailed(c) PROVE TypeOK'
    BY <2>26 DEF CleanupFailed, CloseChannel, Announcers, Notifiers
  <2>27. ASSUME NEW c \in Clients, Farewell(c) PROVE TypeOK'
    BY <2>27 DEF Farewell
  <2>23. CASE UNCHANGED vars
    BY <2>23 DEF vars
  <2> QED
    BY <2>1, <2>2, <2>3, <2>4, <2>5, <2>6, <2>7, <2>8, <2>9, <2>10, <2>11,
       <2>12, <2>13, <2>14, <2>15, <2>16, <2>17, <2>18, <2>19, <2>20, <2>21,
       <2>22, <2>23, <2>24, <2>25, <2>26, <2>27
    DEF Next, ClientStep, ClientInput, ObserverStep, ObserverInput, Admin, KickStep
<1> QED
  BY <1>1, <1>2, PTL DEF Spec

-----------------------------------------------------------------------------
(***************************************************************************)
(* Business members                                                        *)
(***************************************************************************)

\* Where a member's goroutine is, and what its two pointers say.  The target
\* makes it inductive: removeClient works on target, not on c.room.
MemberHome ==
    \A c \in Clients, r \in Rooms :
        c \in members[r] =>
            \/ pc[c] = "joined" /\ room[c] = r
            \/ pc[c] = "remove" /\ room[c] = r /\ target[c] = r
            \/ pc[c] = "announce" /\ target[c] = r
            \/ /\ pc[c] \in {"failed", "stuck"} /\ target[c] = r
               /\ roomMode[r] # "solo"

\* A business member's goroutine is joining, joined or about to remove it, and
\* its pointers name the room it is in (client.go:450-456, room.go:206 and 274);
\* or its announcement panicked, in a room that is not private.
THEOREM MemberHomeInvariant == Spec => []MemberHome
<1>1. Init => MemberHome
  BY DEF Init, MemberHome
<1>2. TypeOK /\ MemberHome /\ [Next]_vars => MemberHome'
  <2> DEFINE Home(d, s) ==
               \/ pc[d] = "joined" /\ room[d] = s
               \/ pc[d] = "remove" /\ room[d] = s /\ target[d] = s
               \/ pc[d] = "announce" /\ target[d] = s
               \/ /\ pc[d] \in {"failed", "stuck"} /\ target[d] = s
                  /\ roomMode[s] # "solo"
  <2> SUFFICES ASSUME TypeOK, MemberHome, [Next]_vars,
                      NEW d \in Clients, NEW s \in Rooms, d \in members'[s]
               PROVE  Home(d, s)'
    BY DEF MemberHome
  <2> USE DEF TypeOK, MemberHome, People, Goto
  <2>1. ASSUME NEW c \in Clients, NEW i \in RoomIds, NEW p \in Requests, JoinGetRoom(c, i, p)
        PROVE  Home(d, s)'
    BY <2>1 DEF JoinGetRoom
  <2>2. ASSUME NEW c \in Clients, JoinAdd(c) PROVE Home(d, s)'
    BY <2>2 DEF JoinAdd
  <2>3. ASSUME NEW c \in Clients, JoinDrop(c) PROVE Home(d, s)'
    BY <2>3 DEF JoinDrop
  <2>4. ASSUME NEW c \in Clients, Disconnect(c) PROVE Home(d, s)'
    BY <2>4 DEF Disconnect
  <2>5. ASSUME NEW i \in RoomIds, NEW cs \in SUBSET Clients,
               NEW k \in Kicks, AdminPick(k, i, cs)
        PROVE  Home(d, s)'
    BY <2>5 DEF AdminPick
  <2>6. ASSUME NEW k \in Kicks, NEW c \in Clients, KickNotice(k, c) PROVE Home(d, s)'
    BY <2>6 DEF KickNotice
  <2>7. ASSUME NEW c \in Clients, Cleanup(c) PROVE Home(d, s)'
    BY <2>7 DEF Cleanup, CloseChannel, Announcers, Notifiers
  <2>8. ASSUME NEW c \in Clients, RemoveClient(c) PROVE Home(d, s)'
    BY <2>8 DEF RemoveClient
  <2>9. ASSUME NEW c \in Clients, CheckActive(c) PROVE Home(d, s)'
    BY <2>9 DEF CheckActive
  <2>10. ASSUME NEW c \in Clients, CollectObservers(c) PROVE Home(d, s)'
    BY <2>10 DEF CollectObservers
  <2>11. ASSUME NEW c \in Clients, NEW o \in Observers, DismissOne(c, o)
         PROVE  Home(d, s)'
    BY <2>11 DEF DismissOne
  <2>12. ASSUME NEW c \in Clients, Evict(c) PROVE Home(d, s)'
    BY <2>12 DEF Evict
  <2>13. ASSUME NEW c \in Clients, EvictSweep(c) PROVE Home(d, s)'
    BY <2>13 DEF EvictSweep
  <2>14. ASSUME NEW c \in Clients, DismissDone(c) PROVE Home(d, s)'
    BY <2>14 DEF DismissDone
  <2>15. ASSUME NEW q \in People, Sweep(q) PROVE Home(d, s)'
    BY <2>15 DEF Sweep
  <2>16. ASSUME NEW o \in Observers, NEW i \in RoomIds, ObserveCheck(o, i)
         PROVE  Home(d, s)'
    BY <2>16 DEF ObserveCheck
  <2>17. ASSUME NEW o \in Observers, ObserveGetRoom(o) PROVE Home(d, s)'
    BY <2>17 DEF ObserveGetRoom
  <2>18. ASSUME NEW o \in Observers, ObserveInsert(o) PROVE Home(d, s)'
    BY <2>18 DEF ObserveInsert
  <2>19. ASSUME NEW o \in Observers, ObserveBind(o) PROVE Home(d, s)'
    BY <2>19 DEF ObserveBind
  <2>20. ASSUME NEW o \in Observers, ObserveLeave(o) PROVE Home(d, s)'
    BY <2>20 DEF ObserveLeave
  <2>21. ASSUME NEW o \in Observers, RemoveObserver(o) PROVE Home(d, s)'
    BY <2>21 DEF RemoveObserver
  <2>22. ASSUME NEW q \in People, Reconnect(q) PROVE Home(d, s)'
    BY <2>22 DEF Reconnect
  <2>24. ASSUME NEW c \in Clients, JoinBind(c) PROVE Home(d, s)'
    BY <2>24 DEF JoinBind
  <2>25. ASSUME NEW k \in Kicks, KickClose(k) PROVE Home(d, s)'
    BY <2>25 DEF KickClose
  <2>26. ASSUME NEW c \in Clients, CleanupFailed(c) PROVE Home(d, s)'
    BY <2>26 DEF CleanupFailed, CloseChannel, Announcers, Notifiers
  <2>27. ASSUME NEW c \in Clients, Farewell(c) PROVE Home(d, s)'
    BY <2>27 DEF Farewell
  <2>23. CASE UNCHANGED vars
    BY <2>23 DEF vars
  <2> QED
    BY <2>1, <2>2, <2>3, <2>4, <2>5, <2>6, <2>7, <2>8, <2>9, <2>10, <2>11,
       <2>12, <2>13, <2>14, <2>15, <2>16, <2>17, <2>18, <2>19, <2>20, <2>21,
       <2>22, <2>23, <2>24, <2>25, <2>26, <2>27
    DEF Next, ClientStep, ClientInput, ObserverStep, ObserverInput, Admin, KickStep
<1> QED
  BY <1>1, <1>2, TypeCorrect, PTL DEF Spec

\* A business client is a member of the one room it is joining or its c.room
\* names, and of none once its cleanup has finished, unless its announcement
\* panicked, which cannot happen in a private room.
THEOREM MembersAreJoined == Spec => []NoGhostMember
<1>1. MemberHome => NoGhostMember
  BY DEF MemberHome, NoGhostMember
<1> QED
  BY <1>1, MemberHomeInvariant, PTL

-----------------------------------------------------------------------------
(***************************************************************************)
(* Listed rooms                                                            *)
(***************************************************************************)

\* An entry of the table is a room of that id.
TableNamed ==
    \A i \in RoomIds : table[i] # NoRoom => roomID[table[i]] = i

\* Hub.rooms holds a room under its own id only (hub.go:73-74).
THEOREM TableNamedInvariant == Spec => []TableNamed
<1>1. Init => TableNamed
  BY DEF Init, TableNamed
<1>2. TypeOK /\ TableNamed /\ [Next]_vars => TableNamed'
  <2> SUFFICES ASSUME TypeOK, TableNamed, [Next]_vars,
                      NEW j \in RoomIds, table'[j] # NoRoom
               PROVE  roomID[table'[j]] = j
    BY DEF TableNamed
  <2> USE DEF TypeOK, TableNamed, People, removeRoomIfEmpty
  <2>1. ASSUME NEW c \in Clients, NEW i \in RoomIds, NEW p \in Requests, JoinGetRoom(c, i, p)
        PROVE  roomID[table'[j]] = j
    BY <2>1 DEF JoinGetRoom
  <2>2. ASSUME NEW c \in Clients, JoinAdd(c) PROVE roomID[table'[j]] = j
    BY <2>2 DEF JoinAdd
  <2>3. ASSUME NEW c \in Clients, JoinDrop(c) PROVE roomID[table'[j]] = j
    BY <2>3 DEF JoinDrop
  <2>4. ASSUME NEW c \in Clients, Disconnect(c) PROVE roomID[table'[j]] = j
    BY <2>4 DEF Disconnect
  <2>5. ASSUME NEW i \in RoomIds, NEW cs \in SUBSET Clients,
               NEW k \in Kicks, AdminPick(k, i, cs)
        PROVE  roomID[table'[j]] = j
    BY <2>5 DEF AdminPick
  <2>6. ASSUME NEW k \in Kicks, NEW c \in Clients, KickNotice(k, c) PROVE roomID[table'[j]] = j
    BY <2>6 DEF KickNotice
  <2>7. ASSUME NEW c \in Clients, Cleanup(c) PROVE roomID[table'[j]] = j
    BY <2>7 DEF Cleanup, CloseChannel, Announcers, Notifiers
  <2>8. ASSUME NEW c \in Clients, RemoveClient(c) PROVE roomID[table'[j]] = j
    BY <2>8 DEF RemoveClient
  <2>9. ASSUME NEW c \in Clients, CheckActive(c) PROVE roomID[table'[j]] = j
    BY <2>9 DEF CheckActive
  <2>10. ASSUME NEW c \in Clients, CollectObservers(c)
         PROVE  roomID[table'[j]] = j
    BY <2>10 DEF CollectObservers
  <2>11. ASSUME NEW c \in Clients, NEW o \in Observers, DismissOne(c, o)
         PROVE  roomID[table'[j]] = j
    BY <2>11 DEF DismissOne
  <2>12. ASSUME NEW c \in Clients, Evict(c) PROVE roomID[table'[j]] = j
    BY <2>12 DEF Evict
  <2>13. ASSUME NEW c \in Clients, EvictSweep(c) PROVE roomID[table'[j]] = j
    BY <2>13 DEF EvictSweep
  <2>14. ASSUME NEW c \in Clients, DismissDone(c) PROVE roomID[table'[j]] = j
    BY <2>14 DEF DismissDone
  <2>15. ASSUME NEW q \in People, Sweep(q) PROVE roomID[table'[j]] = j
    BY <2>15 DEF Sweep
  <2>16. ASSUME NEW o \in Observers, NEW i \in RoomIds, ObserveCheck(o, i)
         PROVE  roomID[table'[j]] = j
    BY <2>16 DEF ObserveCheck
  <2>17. ASSUME NEW o \in Observers, ObserveGetRoom(o)
         PROVE  roomID[table'[j]] = j
    BY <2>17 DEF ObserveGetRoom
  <2>18. ASSUME NEW o \in Observers, ObserveInsert(o)
         PROVE  roomID[table'[j]] = j
    BY <2>18 DEF ObserveInsert
  <2>19. ASSUME NEW o \in Observers, ObserveBind(o)
         PROVE  roomID[table'[j]] = j
    BY <2>19 DEF ObserveBind
  <2>20. ASSUME NEW o \in Observers, ObserveLeave(o)
         PROVE  roomID[table'[j]] = j
    BY <2>20 DEF ObserveLeave
  <2>21. ASSUME NEW o \in Observers, RemoveObserver(o)
         PROVE  roomID[table'[j]] = j
    BY <2>21 DEF RemoveObserver
  <2>22. ASSUME NEW q \in People, Reconnect(q) PROVE roomID[table'[j]] = j
    BY <2>22 DEF Reconnect
  <2>24. ASSUME NEW c \in Clients, JoinBind(c) PROVE roomID[table'[j]] = j
    BY <2>24 DEF JoinBind
  <2>25. ASSUME NEW k \in Kicks, KickClose(k) PROVE roomID[table'[j]] = j
    BY <2>25 DEF KickClose
  <2>26. ASSUME NEW c \in Clients, CleanupFailed(c) PROVE roomID[table'[j]] = j
    BY <2>26 DEF CleanupFailed, CloseChannel, Announcers, Notifiers
  <2>27. ASSUME NEW c \in Clients, Farewell(c) PROVE roomID[table'[j]] = j
    BY <2>27 DEF Farewell
  <2>23. CASE UNCHANGED vars
    BY <2>23 DEF vars
  <2> QED
    BY <2>1, <2>2, <2>3, <2>4, <2>5, <2>6, <2>7, <2>8, <2>9, <2>10, <2>11,
       <2>12, <2>13, <2>14, <2>15, <2>16, <2>17, <2>18, <2>19, <2>20, <2>21,
       <2>22, <2>23, <2>24, <2>25, <2>26, <2>27
    DEF Next, ClientStep, ClientInput, ObserverStep, ObserverInput, Admin, KickStep
<1> QED
  BY <1>1, <1>2, TypeCorrect, PTL DEF Spec

\* A listed room is never abandoned: while it is empty, some goroutine is
\* still going to fill it or to drop it, on every path that can create or
\* empty a room.
THEOREM NoAbandonedRoom == Spec => []EmptyRoomHasSweeper
<1>1. Init => EmptyRoomHasSweeper
  BY DEF Init, EmptyRoomHasSweeper
<1>2. TypeOK /\ TypeOK' /\ TableNamed /\ EmptyRoomHasSweeper /\ [Next]_vars
      => EmptyRoomHasSweeper'
  <2> SUFFICES ASSUME TypeOK, TypeOK', TableNamed, EmptyRoomHasSweeper,
                      [Next]_vars, NEW j \in RoomIds, NEW s \in Rooms,
                      table'[j] = s, members'[s] = {}
               PROVE  WillSweep(s)'
    BY DEF EmptyRoomHasSweeper, TypeOK
  <2>0. table[j] = s /\ members[s] = {} => WillSweep(s)
    BY DEF EmptyRoomHasSweeper
  <2> USE DEF TypeOK, People, Goto, WillSweep, removeRoomIfEmpty
  <2>1. ASSUME NEW c \in Clients, NEW i \in RoomIds, NEW p \in Requests, JoinGetRoom(c, i, p)
        PROVE  WillSweep(s)'
    BY <2>0, <2>1 DEF JoinGetRoom
  <2>2. ASSUME NEW c \in Clients, JoinAdd(c) PROVE WillSweep(s)'
    <3>1. CASE Refused(c, target[c])
      BY <2>0, <2>2, <3>1 DEF JoinAdd
    <3>2. CASE ~Refused(c, target[c])
      <4>1. c \in members'[target[c]] /\ members' = [members EXCEPT
                                     ![target[c]] = members[target[c]] \cup {c}]
        BY <2>2, <3>2 DEF JoinAdd
      <4>2. s # target[c] /\ members[s] = {} /\ WillSweep(s)
        BY <2>0, <2>2, <4>1 DEF JoinAdd
      <4> QED
        BY <2>2, <3>2, <4>2 DEF JoinAdd
    <3> QED
      BY <3>1, <3>2
  <2>3. ASSUME NEW c \in Clients, JoinDrop(c) PROVE WillSweep(s)'
    BY <2>0, <2>3 DEF JoinDrop, TableNamed
  <2>4. ASSUME NEW c \in Clients, Disconnect(c) PROVE WillSweep(s)'
    BY <2>0, <2>4 DEF Disconnect
  <2>5. ASSUME NEW i \in RoomIds, NEW cs \in SUBSET Clients,
               NEW k \in Kicks, AdminPick(k, i, cs)
        PROVE  WillSweep(s)'
    BY <2>0, <2>5 DEF AdminPick
  <2>6. ASSUME NEW k \in Kicks, NEW c \in Clients, KickNotice(k, c) PROVE WillSweep(s)'
    BY <2>0, <2>6 DEF KickNotice
  <2>7. ASSUME NEW c \in Clients, Cleanup(c) PROVE WillSweep(s)'
    <3>1. members[s] = {} /\ WillSweep(s)
      BY <2>0, <2>7 DEF Cleanup
    <3>2. \A p \in People :
             /\ target[p] = s
             /\ pc[p] \in {"add", "drop", "farewell", "check", "collect",
                           "dismiss", "evict", "evictSweep", "sweep"}
             => pc'[p] = pc[p] /\ target'[p] = target[p]
      BY <3>1, <2>7 DEF Cleanup, CloseChannel, Announcers
    <3>3. \A d \in Clients : pc[d] = "evictSweep" => pc'[d] = "evictSweep"
      BY <2>7 DEF Cleanup, CloseChannel, Announcers
    <3> QED
      BY <3>1, <3>2, <3>3, <2>7 DEF Cleanup
  <2>8. ASSUME NEW c \in Clients, RemoveClient(c) PROVE WillSweep(s)'
    BY <2>0, <2>8 DEF RemoveClient
  <2>9. ASSUME NEW c \in Clients, CheckActive(c) PROVE WillSweep(s)'
    BY <2>0, <2>9 DEF CheckActive
  <2>10. ASSUME NEW c \in Clients, CollectObservers(c) PROVE WillSweep(s)'
    BY <2>0, <2>10 DEF CollectObservers
  <2>11. ASSUME NEW c \in Clients, NEW o \in Observers, DismissOne(c, o)
         PROVE  WillSweep(s)'
    BY SMTT(30), <2>0, <2>11 DEF DismissOne
  <2>12. ASSUME NEW c \in Clients, Evict(c) PROVE WillSweep(s)'
    <3>1. pc[c] = "evict" /\ (pc'[c] = "dismiss" \/ pc'[c] = "evictSweep")
      BY <2>12 DEF Evict
    <3>2. CASE members[s] = {}
      BY <2>0, <2>12, <3>1, <3>2 DEF Evict
    <3>3. CASE members[s] # {}
      <4>1. s = evictRoom[c] /\ evictee[c] \in members[s]
        BY <2>12, <3>3 DEF Evict
      <4> QED
        BY <2>12, <4>1 DEF Evict
    <3> QED
      BY <3>2, <3>3
  <2>13. ASSUME NEW c \in Clients, EvictSweep(c) PROVE WillSweep(s)'
    BY <2>0, <2>13 DEF EvictSweep, TableNamed
  <2>14. ASSUME NEW c \in Clients, DismissDone(c) PROVE WillSweep(s)'
    BY <2>0, <2>14 DEF DismissDone
  <2>15. ASSUME NEW q \in People, Sweep(q) PROVE WillSweep(s)'
    BY <2>0, <2>15 DEF Sweep, TableNamed
  <2>16. ASSUME NEW o \in Observers, NEW i \in RoomIds, ObserveCheck(o, i)
         PROVE  WillSweep(s)'
    BY <2>0, <2>16 DEF ObserveCheck
  <2>17. ASSUME NEW o \in Observers, ObserveGetRoom(o) PROVE WillSweep(s)'
    BY <2>0, <2>17 DEF ObserveGetRoom
  <2>18. ASSUME NEW o \in Observers, ObserveInsert(o) PROVE WillSweep(s)'
    BY <2>0, <2>18 DEF ObserveInsert
  <2>19. ASSUME NEW o \in Observers, ObserveBind(o) PROVE WillSweep(s)'
    BY <2>0, <2>19 DEF ObserveBind
  <2>20. ASSUME NEW o \in Observers, ObserveLeave(o) PROVE WillSweep(s)'
    BY <2>0, <2>20 DEF ObserveLeave
  <2>21. ASSUME NEW o \in Observers, RemoveObserver(o) PROVE WillSweep(s)'
    BY <2>0, <2>21 DEF RemoveObserver
  <2>22. ASSUME NEW q \in People, Reconnect(q) PROVE WillSweep(s)'
    BY <2>0, <2>22 DEF Reconnect
  <2>24. ASSUME NEW c \in Clients, JoinBind(c) PROVE WillSweep(s)'
    BY <2>0, <2>24 DEF JoinBind
  <2>25. ASSUME NEW k \in Kicks, KickClose(k) PROVE WillSweep(s)'
    BY <2>0, <2>25 DEF KickClose
  <2>26. ASSUME NEW c \in Clients, CleanupFailed(c) PROVE WillSweep(s)'
    <3>1. members[s] = {} /\ WillSweep(s)
      BY <2>0, <2>26 DEF CleanupFailed
    <3>2. \A p \in People :
             /\ target[p] = s
             /\ pc[p] \in {"add", "drop", "farewell", "check", "collect",
                           "dismiss", "evict", "evictSweep", "sweep"}
             => pc'[p] = pc[p] /\ target'[p] = target[p]
      BY <3>1, <2>26 DEF CleanupFailed, CloseChannel, Announcers
    <3>3. \A d \in Clients : pc[d] = "evictSweep" => pc'[d] = "evictSweep"
      BY <2>26 DEF CleanupFailed, CloseChannel, Announcers
    <3> QED
      BY <3>1, <3>2, <3>3, <2>26 DEF CleanupFailed
  <2>27. ASSUME NEW c \in Clients, Farewell(c) PROVE WillSweep(s)'
    BY <2>0, <2>27 DEF Farewell
  <2>23. CASE UNCHANGED vars
    BY <2>0, <2>23 DEF vars
  <2> QED
    BY <2>1, <2>2, <2>3, <2>4, <2>5, <2>6, <2>7, <2>8, <2>9, <2>10, <2>11,
       <2>12, <2>13, <2>14, <2>15, <2>16, <2>17, <2>18, <2>19, <2>20, <2>21,
       <2>22, <2>23, <2>24, <2>25, <2>26, <2>27
    DEF Next, ClientStep, ClientInput, ObserverStep, ObserverInput, Admin, KickStep
<1> QED
  BY <1>1, <1>2, TypeCorrect, TableNamedInvariant, PTL DEF Spec

-----------------------------------------------------------------------------
(***************************************************************************)
(* Admission                                                               *)
(***************************************************************************)

\* What Admission says of one room, with the finiteness its counts rest on.
Admitted(r) ==
    /\ IsFiniteSet(Business(r))
    /\ roomMode[r] = "call" => Cardinality(Business(r)) <= 2
    /\ roomMode[r] = "solo" => Cardinality(Pushers(r)) <= 1
    /\ \A c, d \in Business(r) :
          profile[c].nick = profile[d].nick => c = d
    /\ \A c \in Business(r) : profile[c].mode = roomMode[r]

AllAdmitted == \A r \in Rooms : Admitted(r)

\* Losing members, or keeping them, cannot spoil a room.
LEMMA FewerMembers ==
    ASSUME NEW r \in Rooms, Admitted(r),
           Business(r)' \subseteq Business(r),
           \A c \in Business(r)' : profile'[c] = profile[c]
    PROVE  Admitted(r)'
<1>1. /\ IsFiniteSet(Business(r)')
      /\ Cardinality(Business(r)') <= Cardinality(Business(r))
      /\ Cardinality(Business(r)) \in Nat /\ Cardinality(Business(r)') \in Nat
  BY FS_Subset, FS_CardinalityType DEF Admitted
<1>2. Pushers(r)' \subseteq Pushers(r) /\ Pushers(r) \subseteq Business(r)
  BY DEF Pushers
<1>3. /\ Cardinality(Pushers(r)') <= Cardinality(Pushers(r))
      /\ Cardinality(Pushers(r)) \in Nat /\ Cardinality(Pushers(r)') \in Nat
  BY <1>2, FS_Subset, FS_CardinalityType DEF Admitted
<1> QED
  BY <1>1, <1>3 DEF Admitted

\* addClient seats a client only where its checks leave the room sound.
LEMMA AcceptedMember ==
    ASSUME TypeOK, MemberHome, AllAdmitted,
           NEW c \in Clients, JoinAdd(c),
           NEW r \in Rooms, r = target[c], ~Refused(c, r)
    PROVE  /\ c \notin Business(r)
           /\ Business(r)' = Business(r) \cup {c}
           /\ Admitted(r)'
<1> DEFINE B == Business(r)
           P == Pushers(r)
<1>1. pc[c] = "add" /\ profile' = profile
  BY DEF JoinAdd
<1>2. Business(r)' = B \cup {c}
  BY <1>1 DEF JoinAdd, Business, TypeOK
<1>3. c \notin B
  BY <1>1 DEF MemberHome, Business
<1>4. Admitted(r)
  BY <1>1 DEF AllAdmitted
<1>5. /\ IsFiniteSet(B \cup {c})
      /\ Cardinality(B) \in Nat
      /\ Cardinality(B \cup {c}) = Cardinality(B) + 1
  BY <1>3, <1>4, FS_AddElement, FS_CardinalityType DEF Admitted
<1>6. roomMode[r] = "call" => Cardinality(Business(r)') <= 2
  BY <1>2, <1>5 DEF Refused
<1>7. roomMode[r] = "solo" => Cardinality(Pushers(r)') <= 1
  <2> SUFFICES ASSUME roomMode[r] = "solo" PROVE Cardinality(Pushers(r)') <= 1
    OBVIOUS
  <2>1. CASE profile[c].role = "push"
    <3>1. P = {}
      BY <2>1 DEF Refused
    <3>2. Pushers(r)' = {c}
      BY <1>1, <1>2, <2>1, <3>1 DEF Pushers
    <3>3. Cardinality({c}) = 1
      BY FS_Singleton
    <3> QED
      BY <3>2, <3>3
  <2>2. CASE profile[c].role # "push"
    <3>1. Pushers(r)' = P
      BY <1>1, <1>2, <2>2 DEF Pushers
    <3> QED
      BY <1>4, <3>1 DEF Admitted
  <2> QED
    BY <2>1, <2>2
<1>8. \A d, e \in Business(r)' : profile'[d].nick = profile'[e].nick => d = e
  BY <1>1, <1>2, <1>4 DEF Refused, Admitted
<1>9. \A d \in Business(r)' : profile'[d].mode = roomMode[r]
  BY <1>1, <1>2, <1>4 DEF Refused, Admitted
<1> QED
  BY <1>2, <1>3, <1>5, <1>6, <1>7, <1>8, <1>9 DEF Admitted

\* A step either seats one client that addClient accepts, or unseats one, or
\* leaves the business members and what they asked for alone.
SeatsOne(c) == JoinAdd(c) /\ ~Refused(c, target[c])

UnseatsOne(c) == RemoveClient(c) /\ c \in members[target[c]]

SeatsNobody ==
    \A r \in Rooms : /\ Business(r)' = Business(r)
                     /\ \A c \in Business(r) : profile'[c] = profile[c]

\* Every step of the hub seats one accepted client, unseats one, or seats and
\* unseats nobody.
LEMMA StepKinds ==
    ASSUME TypeOK, MemberHome, [Next]_vars
    PROVE  \/ \E c \in Clients : SeatsOne(c) \/ UnseatsOne(c)
           \/ SeatsNobody
<1> USE DEF TypeOK, MemberHome, People, Business, SeatsNobody, Goto
<1>1. ASSUME NEW c \in Clients, NEW i \in RoomIds, NEW p \in Requests, JoinGetRoom(c, i, p)
      PROVE  SeatsNobody
BY <1>1 DEF JoinGetRoom
<1>2. ASSUME NEW c \in Clients, JoinAdd(c), Refused(c, target[c])
      PROVE  SeatsNobody
BY <1>2 DEF JoinAdd
<1>3. ASSUME NEW c \in Clients, JoinDrop(c) PROVE SeatsNobody
BY <1>3 DEF JoinDrop
<1>4. ASSUME NEW c \in Clients, Disconnect(c) PROVE SeatsNobody
BY <1>4 DEF Disconnect
<1>5. ASSUME NEW i \in RoomIds, NEW cs \in SUBSET Clients,
               NEW k \in Kicks, AdminPick(k, i, cs)
      PROVE  SeatsNobody
BY <1>5 DEF AdminPick
<1>6. ASSUME NEW k \in Kicks, NEW c \in Clients, KickNotice(k, c) PROVE SeatsNobody
BY <1>6 DEF KickNotice
<1>7. ASSUME NEW c \in Clients, Cleanup(c) PROVE SeatsNobody
BY <1>7 DEF Cleanup, CloseChannel, Announcers, Notifiers
<1>8. ASSUME NEW c \in Clients, RemoveClient(c), c \notin members[target[c]]
      PROVE  SeatsNobody
BY <1>8 DEF RemoveClient
<1>9. ASSUME NEW c \in Clients, CheckActive(c) PROVE SeatsNobody
BY <1>9 DEF CheckActive
<1>10. ASSUME NEW c \in Clients, CollectObservers(c) PROVE SeatsNobody
BY <1>10 DEF CollectObservers
<1>11. ASSUME NEW c \in Clients, NEW o \in Observers, DismissOne(c, o)
       PROVE  SeatsNobody
BY <1>11 DEF DismissOne
<1>12. ASSUME NEW c \in Clients, Evict(c) PROVE SeatsNobody
BY <1>12, NobodyAssumption DEF Evict
<1>13. ASSUME NEW c \in Clients, EvictSweep(c) PROVE SeatsNobody
BY <1>13 DEF EvictSweep
<1>14. ASSUME NEW c \in Clients, DismissDone(c) PROVE SeatsNobody
BY <1>14 DEF DismissDone
<1>15. ASSUME NEW q \in People, Sweep(q) PROVE SeatsNobody
BY <1>15 DEF Sweep
<1>16. ASSUME NEW o \in Observers, NEW i \in RoomIds, ObserveCheck(o, i)
       PROVE  SeatsNobody
BY <1>16 DEF ObserveCheck
<1>17. ASSUME NEW o \in Observers, ObserveGetRoom(o) PROVE SeatsNobody
BY <1>17 DEF ObserveGetRoom
<1>18. ASSUME NEW o \in Observers, ObserveInsert(o) PROVE SeatsNobody
BY <1>18 DEF ObserveInsert
<1>19. ASSUME NEW o \in Observers, ObserveBind(o) PROVE SeatsNobody
BY <1>19 DEF ObserveBind
<1>20. ASSUME NEW o \in Observers, ObserveLeave(o) PROVE SeatsNobody
BY <1>20 DEF ObserveLeave
<1>21. ASSUME NEW o \in Observers, RemoveObserver(o) PROVE SeatsNobody
BY <1>21 DEF RemoveObserver
<1>22. ASSUME NEW q \in People, Reconnect(q) PROVE SeatsNobody
BY <1>22 DEF Reconnect
<1>24. ASSUME NEW c \in Clients, JoinBind(c) PROVE SeatsNobody
BY <1>24 DEF JoinBind
<1>25. ASSUME NEW k \in Kicks, KickClose(k) PROVE SeatsNobody
BY <1>25 DEF KickClose
<1>26. ASSUME NEW c \in Clients, CleanupFailed(c) PROVE SeatsNobody
BY <1>26 DEF CleanupFailed, CloseChannel, Announcers, Notifiers
<1>27. ASSUME NEW c \in Clients, Farewell(c) PROVE SeatsNobody
BY <1>27 DEF Farewell
<1>23. CASE UNCHANGED vars
BY <1>23 DEF vars
<1> QED
BY <1>1, <1>2, <1>3, <1>4, <1>5, <1>6, <1>7, <1>8, <1>9, <1>10, <1>11,
     <1>12, <1>13, <1>14, <1>15, <1>16, <1>17, <1>18, <1>19, <1>20, <1>21,
     <1>22, <1>23, <1>24, <1>25, <1>26, <1>27
  DEF SeatsOne, UnseatsOne, Next, ClientStep, ClientInput, ObserverStep, ObserverInput, Admin, KickStep

\* Every room stays admitted, with the finiteness of its membership.
THEOREM AllAdmittedInvariant == Spec => []AllAdmitted
<1>1. Init => AllAdmitted
  <2> SUFFICES ASSUME Init, NEW r \in Rooms PROVE Admitted(r)
    BY DEF AllAdmitted
  <2>1. Business(r) = {} /\ Pushers(r) = {}
    BY DEF Init, Business, Pushers
  <2> QED
    BY <2>1, FS_EmptySet DEF Admitted
<1>2. TypeOK /\ MemberHome /\ AllAdmitted /\ [Next]_vars => AllAdmitted'
  <2> SUFFICES ASSUME TypeOK, MemberHome, AllAdmitted, [Next]_vars,
                      NEW r \in Rooms
               PROVE  Admitted(r)'
    BY DEF AllAdmitted
  <2>0. Admitted(r)
    BY DEF AllAdmitted
  <2>1. ASSUME NEW c \in Clients, SeatsOne(c) PROVE Admitted(r)'
    <3>1. CASE r = target[c]
      BY <2>1, <3>1, AcceptedMember DEF SeatsOne
    <3>2. CASE r # target[c]
      <4>1. Business(r)' = Business(r) /\ profile' = profile
        BY <2>1, <3>2 DEF SeatsOne, JoinAdd, Business, TypeOK
      <4> QED
        BY <2>0, <4>1, FewerMembers
    <3> QED
      BY <3>1, <3>2
  <2>2. ASSUME NEW c \in Clients, UnseatsOne(c) PROVE Admitted(r)'
    <3>1. /\ Business(r)' \subseteq Business(r)
          /\ \A d \in Business(r)' : profile'[d] = profile[d]
      BY <2>2 DEF UnseatsOne, RemoveClient, Business, MemberHome, TypeOK
    <3> QED
      BY <2>0, <3>1, FewerMembers
  <2>3. CASE SeatsNobody
    BY <2>0, <2>3, FewerMembers DEF SeatsNobody
  <2> QED
    BY <2>1, <2>2, <2>3, StepKinds
<1> QED
  BY <1>1, <1>2, TypeCorrect, MemberHomeInvariant, PTL DEF Spec

\* No Room object admits what addClient refuses, whatever the order in which
\* joins, failed joins, departures and dismissals interleave.
THEOREM RoomsAdmitted == Spec => []Admission
<1>1. AllAdmitted => Admission
  BY DEF AllAdmitted, Admitted, Admission
<1> QED
  BY <1>1, AllAdmittedInvariant, PTL

-----------------------------------------------------------------------------
(***************************************************************************)
(* The rooms implement RoomMembership                                      *)
(***************************************************************************)

\* Two members of a set with at most one element are the same.
LEMMA AtMostOne ==
    ASSUME NEW S, IsFiniteSet(S), Cardinality(S) <= 1,
           NEW a \in S, NEW b \in S
    PROVE  a = b
<1> SUFFICES ASSUME a # b PROVE FALSE
  OBVIOUS
<1>1. /\ IsFiniteSet(S \ {a})
      /\ Cardinality(S \ {a}) = Cardinality(S) - 1
      /\ Cardinality(S) \in Nat
  BY FS_RemoveElement, FS_CardinalityType
<1>2. Cardinality(S \ {a}) = 0
  BY <1>1, FS_CardinalityType
<1>3. S \ {a} = {}
  BY <1>1, <1>2, FS_EmptySet
<1> QED
  BY <1>3

\* Of three members of a set with at most two elements, two are the same.
LEMMA AtMostTwo ==
    ASSUME NEW S, IsFiniteSet(S), Cardinality(S) <= 2,
           NEW a \in S, NEW b \in S, NEW c \in S
    PROVE  a = b \/ b = c \/ a = c
<1> SUFFICES ASSUME a # b, b # c, a # c PROVE FALSE
  OBVIOUS
<1>1. IsFiniteSet(S \ {c}) /\ Cardinality(S \ {c}) = Cardinality(S) - 1
  BY FS_RemoveElement
<1>2. Cardinality(S \ {c}) <= 1
  BY <1>1, FS_CardinalityType
<1> QED
  BY <1>1, <1>2, AtMostOne

\* Every step of the hub seats one client in a room that stays well formed,
\* unseats one, or leaves all seats alone: the concurrent rooms behave like
\* the sequential ones of RoomMembership.
THEOREM RoomsKeepMembership == Spec => KeepsMembership
<1>1. Init => Membership!Init
  BY DEF Init, Membership!Init, Seats, Who, Business
<1>2. TypeOK /\ MemberHome /\ AllAdmitted /\ AllAdmitted' /\ [Next]_vars
      => [Membership!Next]_(Membership!vars)
  <2> SUFFICES ASSUME TypeOK, MemberHome, AllAdmitted, AllAdmitted', [Next]_vars
               PROVE  Membership!Next \/ UNCHANGED <<Seats, Who>>
    BY DEF Membership!vars
  <2>1. ASSUME NEW c \in Clients, SeatsOne(c) PROVE Membership!Next
    <3>1. PICK r \in Rooms :
            /\ r = target[c] /\ profile' = profile /\ pc[c] = "add"
            /\ members' = [members EXCEPT ![r] = members[r] \cup {c}]
      BY <2>1 DEF SeatsOne, JoinAdd, TypeOK, People
    <3>2. \A s \in Rooms : c \notin members[s]
      BY <3>1 DEF MemberHome
    <3>3. \A s \in Rooms : c \notin Seats[s]
      BY <3>2 DEF Seats, Business
    <3>4. Seats' = [Seats EXCEPT ![r] = Seats[r] \cup {c}]
      <4>1. \A s \in Rooms : Business(s)' =
                               IF s = r THEN Business(s) \cup {c} ELSE Business(s)
        BY <3>1 DEF Business, TypeOK
      <4> QED
        BY <4>1 DEF Seats
    <3>5. profile[c] \in Requests
      BY <2>1, <3>1, RoomAssumption
      DEF SeatsOne, Refused, TypeOK, Profiles, Unset, Modes
    <3>6. Who' = [Who EXCEPT ![c] = profile[c]]
      BY <3>1 DEF Who, TypeOK
    <3>7. Admitted(r)'
      BY DEF AllAdmitted
    <3>8. Membership!WellFormed(r)'
      <4>1. /\ Seats'[r] = Business(r)'
            /\ \A d \in Business(r)' : Who'[d] = profile'[d]
        BY DEF Seats, Business, Who
      <4>2. roomMode[r] = "call" =>
               \A a, b, d \in Seats'[r] : a = b \/ b = d \/ a = d
        BY <3>7, <4>1, AtMostTwo DEF Admitted
      <4>3. roomMode[r] = "solo" =>
               \A d, e \in Seats'[r] :
                  Who'[d].role = "push" /\ Who'[e].role = "push" => d = e
        <5>1. IsFiniteSet(Pushers(r)')
          BY <3>7, FS_Subset DEF Admitted, Pushers
        <5> QED
          BY <3>7, <4>1, <5>1, AtMostOne DEF Admitted, Pushers
      <4>4. /\ \A d, e \in Seats'[r] : Who'[d].nick = Who'[e].nick => d = e
            /\ \A d \in Seats'[r] : Who'[d].mode = roomMode[r]
        BY <3>7, <4>1 DEF Admitted
      <4> QED
        BY <4>2, <4>3, <4>4 DEF Membership!WellFormed
    <3>9. Membership!Admit(c, r)
      BY <3>3, <3>4, <3>5, <3>6, <3>8 DEF Membership!Admit
    <3> QED
      BY <3>1, <3>9 DEF Membership!Next
  <2>2. ASSUME NEW c \in Clients, UnseatsOne(c) PROVE Membership!Next
    <3>1. PICK r \in Rooms :
            /\ r = target[c] /\ c \in members[r]
            /\ members' = [members EXCEPT ![r] = members[r] \ {c}]
            /\ profile' = [profile EXCEPT ![c] = Unset]
      BY <2>2 DEF UnseatsOne, RemoveClient, TypeOK, People
    <3>2. \A s \in Rooms : c \in members[s] => s = r
      BY <3>1 DEF MemberHome
    <3>3. c \in Seats[r]
      BY <3>1 DEF Seats, Business
    <3>4. Seats' = [Seats EXCEPT ![r] = Seats[r] \ {c}]
      BY <3>1 DEF Seats, Business, TypeOK
    <3>5. Who' = [Who EXCEPT ![c] = Unset]
      BY <3>1, <3>2 DEF Who, TypeOK
    <3>6. Membership!Depart(c, r)
      BY <3>3, <3>4, <3>5 DEF Membership!Depart
    <3> QED
      BY <3>1, <3>6 DEF Membership!Next
  <2>3. CASE SeatsNobody
    <3>1. Seats' = Seats
      BY <2>3 DEF SeatsNobody, Seats
    <3>2. \A c \in Clients : /\ (\E r \in Rooms : c \in members'[r])
                                <=> (\E r \in Rooms : c \in members[r])
                             /\ (\E r \in Rooms : c \in members[r])
                                => profile'[c] = profile[c]
      BY <2>3 DEF SeatsNobody, Business
    <3>3. Who' = Who
      BY <3>2 DEF Who
    <3> QED
      BY <3>1, <3>3
  <2> QED
    BY <2>1, <2>2, <2>3, StepKinds
<1>3. Spec => []AllAdmitted
  BY AllAdmittedInvariant
<1> QED
  BY <1>1, <1>2, <1>3, TypeCorrect, MemberHomeInvariant, PTL
  DEF Spec, KeepsMembership, Membership!Spec

-----------------------------------------------------------------------------
(***************************************************************************)
(* Observers                                                               *)
(***************************************************************************)

\* Some goroutine is in LeaveRoom of o, past c.room = nil, about to delete it.
Evicting(o, r) ==
    \E c \in Clients : pc[c] = "evict" /\ evictee[c] = o /\ evictRoom[c] = r

\* c.room of an observer is nil or the room its goroutine inserted it in.
ObserverPointer ==
    \A o \in Observers :
        room[o] # NoRoom => /\ pc[o] \in {"rebind", "watching"}
                            /\ room[o] = target[o]

\* Where the goroutine of an observer that is in a room can be.
ObserverHome ==
    \A o \in Observers, r \in Rooms : o \in members[r] =>
        \/ pc[o] \in {"bind", "rebind", "remove"} /\ target[o] = r
        \/ pc[o] = "watching" /\ target[o] = r /\ room[o] = r
        \/ pc[o] = "watching" /\ target[o] = r /\ Evicting(o, r)
        \/ pc[o] = "gone" /\ Evicting(o, r)

\* c.room of an observer client is only ever set by the goroutine that joins it
\* (room.go:251, hub.go:106), and to the room that goroutine is joining.
THEOREM ObserverPointerInvariant == Spec => []ObserverPointer
<1>1. Init => ObserverPointer
  BY DEF Init, ObserverPointer, People
<1>2. TypeOK /\ ObserverPointer /\ [Next]_vars => ObserverPointer'
  <2> SUFFICES ASSUME TypeOK, ObserverPointer, [Next]_vars,
                      NEW w \in Observers, room'[w] # NoRoom
               PROVE  /\ pc'[w] \in {"rebind", "watching"}
                      /\ room'[w] = target'[w]
    BY DEF ObserverPointer
  <2> DEFINE Goal == /\ pc'[w] \in {"rebind", "watching"}
                     /\ room'[w] = target'[w]
  <2> USE DEF TypeOK, ObserverPointer, People, Goto
  <2>1. ASSUME NEW c \in Clients, NEW i \in RoomIds, NEW p \in Requests, JoinGetRoom(c, i, p)
        PROVE  Goal
    BY <2>1 DEF JoinGetRoom
  <2>2. ASSUME NEW c \in Clients, JoinAdd(c) PROVE Goal
    BY <2>2 DEF JoinAdd
  <2>3. ASSUME NEW c \in Clients, JoinDrop(c) PROVE Goal
    BY <2>3 DEF JoinDrop
  <2>4. ASSUME NEW c \in Clients, Disconnect(c) PROVE Goal
    BY <2>4 DEF Disconnect
  <2>5. ASSUME NEW i \in RoomIds, NEW cs \in SUBSET Clients,
               NEW k \in Kicks, AdminPick(k, i, cs)
        PROVE  Goal
    BY <2>5 DEF AdminPick
  <2>6. ASSUME NEW k \in Kicks, NEW c \in Clients, KickNotice(k, c) PROVE Goal
    BY <2>6 DEF KickNotice
  <2>7. ASSUME NEW c \in Clients, Cleanup(c) PROVE Goal
    BY <2>7 DEF Cleanup, CloseChannel, Announcers, Notifiers
  <2>8. ASSUME NEW c \in Clients, RemoveClient(c) PROVE Goal
    BY <2>8 DEF RemoveClient
  <2>9. ASSUME NEW c \in Clients, CheckActive(c) PROVE Goal
    BY <2>9 DEF CheckActive
  <2>10. ASSUME NEW c \in Clients, CollectObservers(c) PROVE Goal
    BY <2>10 DEF CollectObservers
  <2>11. ASSUME NEW c \in Clients, NEW o \in Observers, DismissOne(c, o)
         PROVE  Goal
    BY <2>11 DEF DismissOne
  <2>12. ASSUME NEW c \in Clients, Evict(c) PROVE Goal
    BY <2>12 DEF Evict
  <2>13. ASSUME NEW c \in Clients, EvictSweep(c) PROVE Goal
    BY <2>13 DEF EvictSweep
  <2>14. ASSUME NEW c \in Clients, DismissDone(c) PROVE Goal
    BY <2>14 DEF DismissDone
  <2>15. ASSUME NEW q \in People, Sweep(q) PROVE Goal
    BY <2>15 DEF Sweep
  <2>16. ASSUME NEW o \in Observers, NEW i \in RoomIds, ObserveCheck(o, i)
         PROVE  Goal
    BY <2>16 DEF ObserveCheck
  <2>17. ASSUME NEW o \in Observers, ObserveGetRoom(o) PROVE Goal
    BY <2>17 DEF ObserveGetRoom
  <2>18. ASSUME NEW o \in Observers, ObserveInsert(o) PROVE Goal
    BY <2>18 DEF ObserveInsert
  <2>19. ASSUME NEW o \in Observers, ObserveBind(o) PROVE Goal
    BY <2>19 DEF ObserveBind
  <2>20. ASSUME NEW o \in Observers, ObserveLeave(o) PROVE Goal
    BY <2>20 DEF ObserveLeave
  <2>21. ASSUME NEW o \in Observers, RemoveObserver(o) PROVE Goal
    BY <2>21 DEF RemoveObserver
  <2>22. ASSUME NEW q \in People, Reconnect(q) PROVE Goal
    BY <2>22 DEF Reconnect
  <2>24. ASSUME NEW c \in Clients, JoinBind(c) PROVE Goal
    BY <2>24 DEF JoinBind
  <2>25. ASSUME NEW k \in Kicks, KickClose(k) PROVE Goal
    BY <2>25 DEF KickClose
  <2>26. ASSUME NEW c \in Clients, CleanupFailed(c) PROVE Goal
    BY <2>26 DEF CleanupFailed, CloseChannel, Announcers, Notifiers
  <2>27. ASSUME NEW c \in Clients, Farewell(c) PROVE Goal
    BY <2>27 DEF Farewell
  <2>23. CASE UNCHANGED vars
    BY <2>23 DEF vars
  <2> QED
    BY <2>1, <2>2, <2>3, <2>4, <2>5, <2>6, <2>7, <2>8, <2>9, <2>10, <2>11,
       <2>12, <2>13, <2>14, <2>15, <2>16, <2>17, <2>18, <2>19, <2>20, <2>21,
       <2>22, <2>23, <2>24, <2>25, <2>26, <2>27
    DEF Next, ClientStep, ClientInput, ObserverStep, ObserverInput, Admin, KickStep
<1> QED
  BY <1>1, <1>2, TypeCorrect, PTL DEF Spec

\* An observer in a room is being joined, watching or leaving there, or some
\* business client's goroutine has it in hand to remove it (room.go:362-377).
THEOREM ObserverHomeInvariant == Spec => []ObserverHome
<1>1. Init => ObserverHome
  BY DEF Init, ObserverHome
<1>2. TypeOK /\ ObserverPointer /\ ObserverHome /\ [Next]_vars => ObserverHome'
  <2> DEFINE AtHome(o, r) ==
               \/ pc[o] \in {"bind", "rebind", "remove"} /\ target[o] = r
               \/ pc[o] = "watching" /\ target[o] = r /\ room[o] = r
               \/ pc[o] = "watching" /\ target[o] = r /\ Evicting(o, r)
               \/ pc[o] = "gone" /\ Evicting(o, r)
  <2> SUFFICES ASSUME TypeOK, ObserverPointer, ObserverHome, [Next]_vars,
                      NEW w \in Observers, NEW s \in Rooms, w \in members'[s]
               PROVE  AtHome(w, s)'
    BY DEF ObserverHome
  <2>0. w \in members[s] => AtHome(w, s)
    BY DEF ObserverHome
  <2> USE DEF TypeOK, People, Goto, Evicting
  <2>1. ASSUME NEW c \in Clients, NEW i \in RoomIds, NEW p \in Requests, JoinGetRoom(c, i, p)
        PROVE  AtHome(w, s)'
    BY <2>0, <2>1 DEF JoinGetRoom
  <2>2. ASSUME NEW c \in Clients, JoinAdd(c) PROVE AtHome(w, s)'
    BY SMTT(30), <2>0, <2>2 DEF JoinAdd
  <2>3. ASSUME NEW c \in Clients, JoinDrop(c) PROVE AtHome(w, s)'
    BY <2>0, <2>3 DEF JoinDrop
  <2>4. ASSUME NEW c \in Clients, Disconnect(c) PROVE AtHome(w, s)'
    BY <2>0, <2>4 DEF Disconnect
  <2>5. ASSUME NEW i \in RoomIds, NEW cs \in SUBSET Clients,
               NEW k \in Kicks, AdminPick(k, i, cs)
        PROVE  AtHome(w, s)'
    BY <2>0, <2>5 DEF AdminPick
  <2>6. ASSUME NEW k \in Kicks, NEW c \in Clients, KickNotice(k, c) PROVE AtHome(w, s)'
    BY <2>0, <2>6 DEF KickNotice
  <2>7. ASSUME NEW c \in Clients, Cleanup(c) PROVE AtHome(w, s)'
    BY SMTT(40), <2>0, <2>7 DEF Cleanup, CloseChannel, Announcers, Notifiers
  <2>8. ASSUME NEW c \in Clients, RemoveClient(c) PROVE AtHome(w, s)'
    BY <2>0, <2>8 DEF RemoveClient
  <2>9. ASSUME NEW c \in Clients, CheckActive(c) PROVE AtHome(w, s)'
    BY <2>0, <2>9 DEF CheckActive
  <2>10. ASSUME NEW c \in Clients, CollectObservers(c) PROVE AtHome(w, s)'
    BY <2>0, <2>10 DEF CollectObservers
  <2>11. ASSUME NEW c \in Clients, NEW o \in Observers, DismissOne(c, o)
         PROVE  AtHome(w, s)'
    BY SMTT(60), <2>0, <2>11 DEF DismissOne, ObserverPointer
  <2>12. ASSUME NEW c \in Clients, Evict(c) PROVE AtHome(w, s)'
    BY <2>0, <2>12 DEF Evict
  <2>13. ASSUME NEW c \in Clients, EvictSweep(c) PROVE AtHome(w, s)'
    BY <2>0, <2>13 DEF EvictSweep
  <2>14. ASSUME NEW c \in Clients, DismissDone(c) PROVE AtHome(w, s)'
    BY <2>0, <2>14 DEF DismissDone
  <2>15. ASSUME NEW q \in People, Sweep(q) PROVE AtHome(w, s)'
    BY <2>0, <2>15 DEF Sweep
  <2>16. ASSUME NEW o \in Observers, NEW i \in RoomIds, ObserveCheck(o, i)
         PROVE  AtHome(w, s)'
    BY <2>0, <2>16 DEF ObserveCheck
  <2>17. ASSUME NEW o \in Observers, ObserveGetRoom(o) PROVE AtHome(w, s)'
    BY <2>0, <2>17 DEF ObserveGetRoom
  <2>18. ASSUME NEW o \in Observers, ObserveInsert(o) PROVE AtHome(w, s)'
    BY <2>0, <2>18 DEF ObserveInsert
  <2>19. ASSUME NEW o \in Observers, ObserveBind(o) PROVE AtHome(w, s)'
    BY <2>0, <2>19 DEF ObserveBind, ObserverPointer
  <2>20. ASSUME NEW o \in Observers, ObserveLeave(o) PROVE AtHome(w, s)'
    BY <2>0, <2>20 DEF ObserveLeave, ObserverPointer
  <2>21. ASSUME NEW o \in Observers, RemoveObserver(o) PROVE AtHome(w, s)'
    BY <2>0, <2>21 DEF RemoveObserver
  <2>22. ASSUME NEW q \in People, Reconnect(q) PROVE AtHome(w, s)'
    BY <2>0, <2>22 DEF Reconnect
  <2>24. ASSUME NEW c \in Clients, JoinBind(c) PROVE AtHome(w, s)'
    BY <2>0, <2>24 DEF JoinBind
  <2>25. ASSUME NEW k \in Kicks, KickClose(k) PROVE AtHome(w, s)'
    BY <2>0, <2>25 DEF KickClose
  <2>26. ASSUME NEW c \in Clients, CleanupFailed(c) PROVE AtHome(w, s)'
    BY SMTT(40), <2>0, <2>26 DEF CleanupFailed, CloseChannel, Announcers, Notifiers
  <2>27. ASSUME NEW c \in Clients, Farewell(c) PROVE AtHome(w, s)'
    BY <2>0, <2>27 DEF Farewell
  <2>23. CASE UNCHANGED vars
    BY <2>0, <2>23 DEF vars
  <2> QED
    BY <2>1, <2>2, <2>3, <2>4, <2>5, <2>6, <2>7, <2>8, <2>9, <2>10, <2>11,
       <2>12, <2>13, <2>14, <2>15, <2>16, <2>17, <2>18, <2>19, <2>20, <2>21,
       <2>22, <2>23, <2>24, <2>25, <2>26, <2>27
    DEF Next, ClientStep, ClientInput, ObserverStep, ObserverInput, Admin, KickStep
<1> QED
  BY <1>1, <1>2, TypeCorrect, ObserverPointerInvariant, PTL DEF Spec

\* An observer whose leave has finished stays in a room only for as long as
\* the goroutine that dismisses it is about to remove it.
THEOREM ObserversLeave == Spec => []NoGhostObserver
<1>1. ObserverHome => NoGhostObserver
  BY DEF ObserverHome, NoGhostObserver, Evicting
<1> QED
  BY <1>1, ObserverHomeInvariant, PTL
=============================================================================
