--------------------------- MODULE RoomMembership --------------------------
(***************************************************************************)
(* What a Room promises its business members, with no tables, locks or     *)
(* goroutines: people sit down one at a time in a room that stays well     *)
(* formed, sit in one room at most, and stand up one at a time.  The rules *)
(* are stated on the outcome, not as the refusals of addClient.            *)
(***************************************************************************)
CONSTANTS Clients, Rooms, roomMode, Requests, Unset

VARIABLES
    seats,   \* who sits in each room
    who      \* what the seated asked for

vars == <<seats, who>>

WellFormed(r) ==
    /\ roomMode[r] = "call" =>
          \A a, b, c \in seats[r] : a = b \/ b = c \/ a = c
    /\ roomMode[r] = "solo" =>
          \A c, d \in seats[r] :
              who[c].role = "push" /\ who[d].role = "push" => c = d
    /\ \A c, d \in seats[r] : who[c].nick = who[d].nick => c = d
    /\ \A c \in seats[r] : who[c].mode = roomMode[r]

Init ==
    /\ seats = [r \in Rooms |-> {}]
    /\ who = [c \in Clients |-> Unset]

Admit(c, r) ==
    /\ \A s \in Rooms : c \notin seats[s]
    /\ seats' = [seats EXCEPT ![r] = @ \cup {c}]
    /\ \E q \in Requests : who' = [who EXCEPT ![c] = q]
    /\ WellFormed(r)'

Depart(c, r) ==
    /\ c \in seats[r]
    /\ seats' = [seats EXCEPT ![r] = @ \ {c}]
    /\ who' = [who EXCEPT ![c] = Unset]

Next ==
    \E c \in Clients, r \in Rooms : Admit(c, r) \/ Depart(c, r)

Spec == Init /\ [][Next]_vars
=============================================================================
