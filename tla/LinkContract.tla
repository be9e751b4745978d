---------------------------- MODULE LinkContract ----------------------------
(***************************************************************************)
(* What a Connector may count on from its PeerLink: which signals it       *)
(* hears, in which order.  A description is announced once, an open        *)
(* channel once and only after that, the end at most once and last; and    *)
(* the link does not gather for ever.                                      *)
(***************************************************************************)
EXTENDS Sequences

VARIABLE heard  \* the signals of one link that reached the Connector

Init == heard = <<>>

LocalReady ==
    /\ heard = <<>>
    /\ heard' = <<"localReady">>

Opened ==
    /\ heard = <<"localReady">>
    /\ heard' = <<"localReady", "opened">>

Closed ==
    /\ heard \in {<<>>, <<"localReady">>, <<"localReady", "opened">>}
    /\ heard' = Append(heard, "closed")

Next == LocalReady \/ Opened \/ Closed

Spec == Init /\ [][Next]_heard

EndsGathering == heard = <<>> /\ Next

Fairness == WF_heard(EndsGathering)
=============================================================================
