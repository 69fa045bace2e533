-------------------------- MODULE MCRoomLifecycle --------------------------
(***************************************************************************)
(* Instances of RoomLifecycle for TLC.  The Room objects come in groups of *)
(* one room id and one mode; the objects of a group are interchangeable.   *)
(***************************************************************************)
EXTENDS RoomLifecycle, TLC

CONSTANTS i1,             \* a room id
          k1, k2, k3,     \* calls
          s1, s2, s3      \* solo rooms

Calls == {k1, k2, k3}
Solos == {s1, s2, s3}

MCRoomID == [r \in Rooms |-> i1]
MCRoomMode == [r \in Rooms |-> IF r \in Calls THEN "call" ELSE "solo"]

Symmetric == Permutations(Clients) \cup Permutations(Nicks)
             \cup Permutations(Calls \cap Rooms) \cup Permutations(Solos \cap Rooms)
=============================================================================
