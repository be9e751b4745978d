------------------------------- MODULE MCPages -------------------------------
(***************************************************************************)
(* The prototypes' pages for TLC, side by side: which page is open is      *)
(* chosen at the start, and the others stay as they begin.  The scanner    *)
(* comes twice: calls of start() overlap where nobody types, and people    *)
(* type where they do not.                                                 *)
(***************************************************************************)
EXTENDS Roster, QrScanner, MqttChat, Signing, OsmDownload, OsmView, ShellCache
CONSTANTS ann, bob, a

VARIABLE open

\* Texts for the roster, made of date lines, other lines, free slots and slots
\* with a name as typed or with the suffix.
D == [kind |-> "date", slot |-> Free]
O == [kind |-> "other", slot |-> Free]
E == [kind |-> "player", slot |-> Free]
P(n) == [kind |-> "player", slot |-> [name |-> n, app |-> FALSE]]
A(n) == [kind |-> "player", slot |-> [name |-> n, app |-> TRUE]]
Papers ==
    {<<>>, <<O, D, P(ann), E, O, D, P(bob), A(ann), O>>,
     <<P(bob), D, D, P(ann), P(ann)>>, <<D, A(bob), O, P(ann), O, D, O>>}

\* Somewhere, and at the pole.
Places == {11, Limit}
Steps == {-1, 1}

pageVars == <<open, rosterVars, qrVars, mqttVars, signingVars, osmVars, viewVars, shellVars>>

Init ==
    /\ open \in {"minimal", "qr camera", "qr text", "mqtt", "certificate", "OSM", "OSM map", "sw"}
    /\ RosterInit /\ MqttInit /\ OsmInit /\ ViewInit
    /\ IF open = "qr text" THEN QrInit ELSE QrInit /\ content = Empty
    /\ IF open = "certificate" THEN SigningInit ELSE SigningInit /\ focuses /\ algo = a
    /\ IF open = "sw" THEN ShellInit ELSE ShellInit /\ online /\ worker = MinimalWorker

Next ==
    /\ UNCHANGED open
    /\ \/ /\ open = "minimal" /\ RosterNext
          /\ UNCHANGED <<qrVars, mqttVars, signingVars, osmVars, viewVars, shellVars>>
       \/ /\ \/ open = "qr camera" /\ QrNext /\ ~typing'
             \/ open = "qr text" /\ QrNext /\ ~overlapped'
          /\ UNCHANGED <<rosterVars, mqttVars, signingVars, osmVars, viewVars, shellVars>>
       \/ /\ open = "mqtt" /\ MqttNext
          /\ UNCHANGED <<rosterVars, qrVars, signingVars, osmVars, viewVars, shellVars>>
       \/ /\ open = "certificate" /\ SigningNext
          /\ UNCHANGED <<rosterVars, qrVars, mqttVars, osmVars, viewVars, shellVars>>
       \/ /\ open = "OSM" /\ OsmNext
          /\ UNCHANGED <<rosterVars, qrVars, mqttVars, signingVars, viewVars, shellVars>>
       \/ /\ open = "OSM map" /\ ViewNext
          /\ UNCHANGED <<rosterVars, qrVars, mqttVars, signingVars, osmVars, shellVars>>
       \/ /\ open = "sw" /\ ShellNext
          /\ UNCHANGED <<rosterVars, qrVars, mqttVars, signingVars, osmVars, viewVars>>

Spec == Init /\ [][Next]_pageVars
=============================================================================
