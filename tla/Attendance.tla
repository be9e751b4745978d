------------------------------ MODULE Attendance ------------------------------
(***************************************************************************)
(* What the roster half of prototype-minimal owes a group that passes one  *)
(* list around: who goes to which game changes when a new list is pasted,  *)
(* and when the signed-in user presses a game's card, who then goes where  *)
(* he did not, or no longer where he did.  Nothing else about it changes:  *)
(* not for anybody else, not by signing in or out, not by showing the list *)
(* again.  Roster.tla implements it.                                       *)
(***************************************************************************)
CONSTANTS
    Paper,      \* the lists that may be pasted
    Read(_)     \* who goes to each of the games of a list

VARIABLES
    paper,      \* the list pasted last
    me,         \* the signed-in user
    going       \* who goes, by game

vars == <<paper, me, going>>

Init == paper \in Paper /\ going = Read(paper)

Paste ==
    /\ paper' \in Paper
    /\ going' = Read(paper')
    /\ UNCHANGED me

Flip(i) ==
    /\ going' = [going EXCEPT ![i] = IF me \in @ THEN @ \ {me} ELSE @ \cup {me}]
    /\ UNCHANGED <<paper, me>>

SwitchUser == UNCHANGED <<paper, going>>

Next == Paste \/ SwitchUser \/ \E i \in DOMAIN going : Flip(i)

Spec == Init /\ [][Next]_vars
=============================================================================
