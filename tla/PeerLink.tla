------------------------------ MODULE PeerLink ------------------------------
(***************************************************************************)
(* prototype-webrtc-stun/src/peerlink.cpp: one WebRTC peer connection, from *)
(* gathering to its end.  libdatachannel calls back on threads of its own; *)
(* every callback is queued to the Qt thread, where the timers and the     *)
(* Connector's calls run too, so callbacks arrive late and in the order of *)
(* the queue.                                                              *)
(*                                                                         *)
(* Candidates are told apart by type only.  A mutant is a plausible bug in *)
(* the definition after it; no action uses one.                            *)
(***************************************************************************)
EXTENDS Integers, Sequences

CONSTANT MaxQueue   \* bound: callbacks queued to the Qt thread at a time

ASSUME QueueAssumption == MaxQueue \in Nat \ {0}

VARIABLES
    pl,     \* the member variables
    rtc,    \* the peer connection and its channel, inside libdatachannel
    queue,  \* callbacks queued to the Qt thread
    heard   \* signals that reached the Connector

vars == <<pl, rtc, queue, heard>>

CandidateType == {"host", "srflx"}

Signal == {"localReady", "opened", "closed"}

Link == [started    : BOOLEAN,
         offers     : BOOLEAN,                    \* createOffer, not acceptOffer
         localSdp   : BOOLEAN,                    \* m_localSdp is there
         carried    : SUBSET CandidateType,       \* candidates in m_localSdp
         wantFinish : BOOLEAN,
         ready      : BOOLEAN,
         closed     : BOOLEAN,
         open       : BOOLEAN,
         hasSrflx   : BOOLEAN,
         candidates : SUBSET CandidateType,
         graceTimer : BOOLEAN,
         gatherTimer: BOOLEAN,
         channel    : BOOLEAN,                    \* m_dc, with its callbacks
         announced  : {"nothing", "lan", "public"},   \* payload of localReady:
         sent       : SUBSET CandidateType,           \* address kind, candidates
         emits      : Seq(Signal)]                    \* by the running handler

Rtc == [described : BOOLEAN,    \* the local description has been called back
        carries   : SUBSET CandidateType,   \* with these candidates in it
        gathered  : BOOLEAN,
        remote    : BOOLEAN,    \* has the remote description
        channel   : {"none", "new", "open", "closed"},
        ended     : BOOLEAN]    \* failed or closed

Event == {"description", "gathered", "channel", "opened", "ended"} \cup CandidateType

NewLink(offers) ==
    [started |-> FALSE, offers |-> offers, localSdp |-> FALSE, carried |-> {},
     wantFinish |-> FALSE, ready |-> FALSE, closed |-> FALSE, open |-> FALSE,
     hasSrflx |-> FALSE, candidates |-> {}, graceTimer |-> FALSE, gatherTimer |-> FALSE,
     channel |-> FALSE, announced |-> "nothing", sent |-> {}, emits |-> <<>>]

----------------------------------------------------------------------------
\* The methods, as functions of the member variables.

Emit(l, signal) == [l EXCEPT !.emits = Append(@, signal)]

\* Mutant: the description is trusted to carry the candidates itself.
FinishGatheringBare(l) ==
    IF l.ready \/ l.closed THEN l
    ELSE IF ~l.localSdp THEN [l EXCEPT !.wantFinish = TRUE]
    ELSE Emit([l EXCEPT !.ready = TRUE, !.graceTimer = FALSE, !.gatherTimer = FALSE,
                        !.announced = IF l.hasSrflx THEN "public" ELSE "lan",
                        !.sent = l.carried],
              "localReady")

\* The candidates called back so far are written into the description, which
\* may carry some already.
FinishGathering(l) ==
    IF l.ready \/ l.closed THEN l
    ELSE IF ~l.localSdp THEN [l EXCEPT !.wantFinish = TRUE]
    ELSE Emit([l EXCEPT !.ready = TRUE, !.graceTimer = FALSE, !.gatherTimer = FALSE,
                        !.announced = IF l.hasSrflx THEN "public" ELSE "lan",
                        !.sent = l.carried \cup l.candidates],
              "localReady")

Fail(l) ==
    IF l.closed THEN l
    ELSE Emit([l EXCEPT !.closed = TRUE, !.open = FALSE, !.graceTimer = FALSE,
                        !.gatherTimer = FALSE],
              "closed")

\* Mutant: an end of gathering that came before the description is forgotten.
OnLocalDescriptionForgets(l, carries) == [l EXCEPT !.localSdp = TRUE, !.carried = carries]

OnLocalDescription(l, carries) ==
    LET d == [l EXCEPT !.localSdp = TRUE, !.carried = carries]
    IN  IF d.wantFinish THEN FinishGathering(d) ELSE d

AddLocalCandidate(l, type) ==
    LET d == [l EXCEPT !.candidates = @ \cup {type}]
    IN  IF l.ready THEN l
        ELSE IF type = "srflx" /\ ~l.hasSrflx
        THEN [d EXCEPT !.hasSrflx = TRUE, !.graceTimer = TRUE] ELSE d

\* Mutant: the callback does not look whether attachChannel was first.
OnOpenTwice(l) == IF l.closed THEN l ELSE Emit([l EXCEPT !.open = TRUE], "opened")

\* The queued onOpen callback.
OnOpen(l) ==
    IF l.open \/ l.closed THEN l ELSE Emit([l EXCEPT !.open = TRUE], "opened")

\* Mutant: a channel that is open already is not noticed.
AttachChannelUnopened(l, isOpen) == [l EXCEPT !.channel = TRUE]

\* Only the answering side can find the channel open.
AttachChannel(l, isOpen) ==
    LET d == [l EXCEPT !.channel = TRUE]
    IN  IF isOpen /\ ~l.open THEN Emit([d EXCEPT !.open = TRUE], "opened") ELSE d

----------------------------------------------------------------------------
\* A handler ends.  The Connector hears what it emitted, unless it has dropped
\* the link: it does so when it hears closed.
Becomes(k) ==
    /\ pl' = [k EXCEPT !.emits = <<>>]
    /\ heard' = IF pl.closed THEN heard ELSE heard \o k.emits

Init ==
    /\ \E offers \in BOOLEAN : pl = NewLink(offers)
    /\ rtc = [described |-> FALSE, carries |-> {}, gathered |-> FALSE,
              remote |-> FALSE, channel |-> "none", ended |-> FALSE]
    /\ queue = <<>>
    /\ heard = <<>>

\* Called by Connector::startLink right after the constructor.
CreateOffer ==
    /\ ~pl.started /\ pl.offers
    /\ Becomes([AttachChannel(pl, FALSE) EXCEPT !.started = TRUE, !.gatherTimer = TRUE])
    /\ rtc' = [rtc EXCEPT !.channel = "new"]
    /\ UNCHANGED queue

\* With held candidates or not; libdatachannel may refuse the offer.
AcceptOffer ==
    LET l == [pl EXCEPT !.started = TRUE, !.gatherTimer = TRUE] IN
    /\ ~pl.started /\ ~pl.offers
    /\ \/ Becomes(l) /\ rtc' = [rtc EXCEPT !.remote = TRUE]
       \/ Becomes(Fail(l)) /\ UNCHANGED rtc
    /\ UNCHANGED queue

\* Called by Connector::onAnswer, once.
SetAnswer ==
    /\ pl.offers /\ pl.ready /\ ~pl.closed /\ ~rtc.remote
    /\ \/ Becomes(pl) /\ rtc' = [rtc EXCEPT !.remote = TRUE]
       \/ Becomes(Fail(pl)) /\ UNCHANGED rtc
    /\ UNCHANGED queue

\* A held candidate that libdatachannel refuses, or a send that fails.
CallFails ==
    /\ ~pl.closed
    /\ pl.open \/ (~pl.offers /\ pl.ready)
    /\ Becomes(Fail(pl))
    /\ UNCHANGED <<rtc, queue>>

GraceTimeout ==
    /\ pl.graceTimer
    /\ Becomes(FinishGathering([pl EXCEPT !.graceTimer = FALSE]))
    /\ UNCHANGED <<rtc, queue>>

GatherTimeout ==
    /\ pl.gatherTimer
    /\ Becomes(FinishGathering([pl EXCEPT !.gatherTimer = FALSE]))
    /\ UNCHANGED <<rtc, queue>>

\* The next queued callback.
After(event) ==
    CASE event = "description" -> OnLocalDescription(pl, rtc.carries)
      [] event = "gathered"    -> FinishGathering(pl)
      [] event = "opened"      -> OnOpen(pl)
      [] event = "ended"       -> Fail(pl)
      [] event = "channel"     -> AttachChannel(pl, rtc.channel = "open")
      [] event \in CandidateType -> AddLocalCandidate(pl, event)

HandleNext ==
    /\ queue # <<>>
    /\ Becomes(After(Head(queue)))
    /\ queue' = Tail(queue)
    /\ UNCHANGED rtc

\* The channel opens after attachChannel has set onOpen and before it asks
\* isOpen: both report it.
AttachWhileOpening ==
    /\ queue # <<>> /\ Head(queue) = "channel" /\ rtc.channel = "new"
    /\ Becomes(AttachChannel(pl, TRUE))
    /\ queue' = Append(Tail(queue), "opened")
    /\ rtc' = [rtc EXCEPT !.channel = "open"]

----------------------------------------------------------------------------
\* libdatachannel, on its own threads.

Queued(event) == Len(queue) < MaxQueue /\ queue' = Append(queue, event)

\* Candidates in the description have callbacks of their own, before or after it.
Describe ==
    /\ pl.started /\ (pl.offers \/ rtc.remote) /\ ~rtc.described
    /\ Queued("description")
    /\ \E carries \in SUBSET CandidateType :
          rtc' = [rtc EXCEPT !.described = TRUE, !.carries = carries]
    /\ UNCHANGED <<pl, heard>>

FindCandidate(type) ==
    /\ pl.started /\ ~rtc.gathered /\ ~rtc.ended
    /\ Queued(type)
    /\ UNCHANGED <<pl, rtc, heard>>

GatheringComplete ==
    /\ pl.started /\ ~rtc.gathered /\ ~rtc.ended
    /\ Queued("gathered")
    /\ rtc' = [rtc EXCEPT !.gathered = TRUE]
    /\ UNCHANGED <<pl, heard>>

\* The far end has our description only after localReady.
Negotiated == pl.ready /\ rtc.remote /\ ~rtc.ended

ChannelArrives ==
    /\ Negotiated /\ rtc.channel = "none"
    /\ Queued("channel")
    /\ rtc' = [rtc EXCEPT !.channel = "new"]
    /\ UNCHANGED <<pl, heard>>

\* Without onOpen set, nobody is called.
ChannelOpens ==
    /\ Negotiated /\ rtc.channel = "new"
    /\ IF pl.channel THEN Queued("opened") ELSE UNCHANGED queue
    /\ rtc' = [rtc EXCEPT !.channel = "open"]
    /\ UNCHANGED <<pl, heard>>

\* ICE or DTLS fails, or the channel closes with its callbacks set.
Ends ==
    /\ pl.started /\ ~rtc.ended
    /\ Queued("ended")
    /\ rtc' = [rtc EXCEPT !.ended = TRUE,
                          !.channel = IF @ = "none" THEN @ ELSE "closed"]
    /\ UNCHANGED <<pl, heard>>

Next ==
    \/ CreateOffer \/ AcceptOffer \/ SetAnswer \/ CallFails
    \/ GraceTimeout \/ GatherTimeout
    \/ HandleNext \/ AttachWhileOpening
    \/ Describe \/ (\E type \in CandidateType : FindCandidate(type))
    \/ GatheringComplete \/ ChannelArrives \/ ChannelOpens \/ Ends

Spec == Init /\ [][Next]_vars

\* The Connector starts the link, timers fire, the Qt event loop runs, and the
\* local description is called back.
Fairness ==
    /\ WF_vars(CreateOffer \/ AcceptOffer)
    /\ WF_vars(GatherTimeout)
    /\ WF_vars(HandleNext \/ AttachWhileOpening)
    /\ SF_vars(Describe)

FairSpec == Spec /\ Fairness

----------------------------------------------------------------------------
\* Properties.

TypeOK ==
    /\ pl \in Link
    /\ rtc \in Rtc
    /\ queue \in Seq(Event)
    /\ heard \in Seq(Signal)

Contract == INSTANCE LinkContract

\* What Connector.tla takes for granted of a link holds of PeerLink: localReady
\* once, whatever order description, candidates, timers and the end of gathering
\* come in; opened once, after it; nothing after closed.
KeepsContract == Contract!Spec

\* The same, for what must happen: gathering ends, in localReady or closed, even
\* when it stops before the description is there.
GatheringEnds == Contract!Fairness

\* A description announced with a public address has a public candidate in it.
\* One announced without may have one only if the description carried it ahead
\* of its callback: no order of callbacks and timers loses or adds another.
HonestAddress ==
    pl.ready => /\ pl.announced = "public" => "srflx" \in pl.sent
                /\ "srflx" \in pl.sent =>
                       pl.announced = "public" \/ "srflx" \in pl.carried \ pl.candidates

\* An open channel is noticed, also one that was open before the answering side
\* got to set its callbacks.
ChannelNoticed ==
    rtc.channel = "open" ~> \E i \in DOMAIN heard : heard[i] \in {"opened", "closed"}
=============================================================================
