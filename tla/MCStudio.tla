------------------------------ MODULE MCStudio ------------------------------
(* Small instances of the parts of the Z0Studio API with their pages.  The  *)
(* parts share no table but users, which rooms and the community only read, *)
(* so a behaviour runs one of them.                                         *)
EXTENDS StudioAccounts, StudioRoomPages, StudioCommunity, TLC

CONSTANTS Parts     \* which of them a run checks

VARIABLES part

studioVars == <<part, accountVars, roomVars, communityVars>>

\* What a run does not check has one initial state.
Init ==
    /\ part \in Parts /\ AccountsInit /\ CommunityInit /\ RoomsInit
    /\ part # "rooms" => \A r \in Rooms : rooms[r] = "none"
    /\ part # "community" => database

Next ==
    /\ UNCHANGED part
    /\ \/ part = "accounts" /\ AccountsNext /\ UNCHANGED <<roomVars, communityVars>>
       \/ part = "rooms" /\ RoomsNext /\ UNCHANGED <<accountVars, communityVars>>
       \/ part = "community" /\ CommunityNext /\ UNCHANGED <<accountVars, roomVars>>

Spec == Init /\ [][Next]_studioVars

\* The tabs of a browser are alike.
TabSymmetry == Permutations(Places)

=============================================================================
