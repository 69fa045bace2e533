------------------------- MODULE MCStreamLifecycle -------------------------
(***************************************************************************)
(* Instances of StreamLifecycle for TLC.  Everybody names a kind alike, as *)
(* a solo publisher does whose predecessor has just left; where only one   *)
(* client takes part the names are those of a meeting.                     *)
(***************************************************************************)
EXTENDS StreamLifecycle

CONSTANTS s1, s2, cam, screen

MCStreamID == [p \in Clients \X Kinds |-> IF p[2] = cam THEN s1 ELSE s2]
=============================================================================
