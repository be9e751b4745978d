------------------------------- MODULE Session -------------------------------
(***************************************************************************)
(* prototype-tor-qt/src/snowflake/session.cpp: one KCP stream to the       *)
(* Snowflake bridge, carried by one proxy (a Peer) after another.  This    *)
(* module is about the peers: one is negotiated, carries the stream, is    *)
(* lost and replaced, until tor or the bridge closes the stream.           *)
(*                                                                         *)
(* Session and Peers live on one Qt thread, so a handler is one step; but  *)
(* a send may find the channel broken and drop the peer in the middle of   *)
(* the handler that sends.  libdatachannel opens and breaks channels on    *)
(* threads of its own and its callbacks are queued.                        *)
(*                                                                         *)
(* Of KCP only sequence numbers are kept: segments sent, and how far the   *)
(* bridge has acknowledged them.  A mutant is a plausible bug in the       *)
(* definition after it; no action uses one.                                *)
(***************************************************************************)
EXTENDS Integers, Sequences

CONSTANTS
    Peer,           \* Peer objects; one is used again after it was deleted
    NoPeer,         \* a null pointer
    Browser,        \* built for the browser, with a relay URL for the bridge
    MaxSegments,    \* bound: KCP segments sent
    MaxInbox        \* bound: messages of the bridge buffered in one channel

ASSUME PeerAssumption == NoPeer \notin Peer
ASSUME BrowserAssumption == Browser \in BOOLEAN
ASSUME BoundsAssumption == MaxSegments \in Nat /\ MaxInbox \in Nat

VARIABLES
    ses,    \* the Session's members, and its Peers
    inbox,  \* inbox[p]: acknowledgements buffered in p's channel
    bridge, \* segments the bridge has received without a gap
    probed, \* history: the peer that the running probe was sent to, and its NOP
    failed  \* history: kinds of the latest attempts, all failed in a row

vars == <<ses, inbox, bridge, probed, failed>>

MaybePeer == Peer \cup {NoPeer}
Kind == {"WebRtc", "WebSocket"}

\* kWebRtcAttemptsBeforeWebSocket; m_webRtcFailures is only compared with it
\* and counted up to it.
WebRtcAttempts == 2

PeerObject == [kind     : Kind,
               exists   : {"no", "yes", "deleteLater"},
               channel  : {"new", "failed", "up", "broken"},  \* in libdatachannel
               opened   : BOOLEAN,                            \* markOpen was called
               closed   : BOOLEAN,
               asked    : BOOLEAN,                            \* broker request under way
               answered : BOOLEAN]

Members == [peer           : [Peer -> PeerObject],
            started        : BOOLEAN,
            pending        : MaybePeer,
            current        : MaybePeer,
            webRtcFailures : 0 .. WebRtcAttempts,
            pendingTimeout : BOOLEAN,                         \* armed
            retry          : {"off", "later", "now"},
            probe          : BOOLEAN,                         \* armed
            probeSeq       : Nat,                             \* 0 unless a probe runs
            gotAnswer      : BOOLEAN,
            natType        : {"unrestricted", "unknown"},
            streamClosed   : BOOLEAN,
            sndNxt         : Nat,
            sndUna         : Nat]

NoObject == [kind |-> "WebRtc", exists |-> "no", channel |-> "new", opened |-> FALSE,
             closed |-> FALSE, asked |-> FALSE, answered |-> FALSE]

NoProbe == [peer |-> NoPeer, nop |-> 0]

IsOpen(o) == o.opened /\ ~o.closed

Min2(n) == IF n < WebRtcAttempts THEN n ELSE WebRtcAttempts

----------------------------------------------------------------------------
\* The methods, as functions of the members.

StopProbe(s) == [s EXCEPT !.probe = FALSE, !.probeSeq = 0]

RetryPeerLater(s, delay) == IF s.streamClosed THEN s ELSE [s EXCEPT !.retry = delay]

PendingIsWebSocket(s) == s.peer[s.pending].kind = "WebSocket"

\* Mutant: failed WebSockets count as well.
FailedAttemptAlways(s) == Min2(s.webRtcFailures + 1)

\* m_webRtcFailures after an attempt that failed.
FailedAttempt(s) == IF PendingIsWebSocket(s) THEN 0 ELSE Min2(s.webRtcFailures + 1)

\* Mutant: nobody asks for the next peer when the current one is lost.
CurrentLostForGood(s) == [StopProbe(s) EXCEPT !.current = NoPeer]

CurrentLost(s) == RetryPeerLater([StopProbe(s) EXCEPT !.current = NoPeer], "now")

AttemptFailed(s) ==
    RetryPeerLater([s EXCEPT !.pending = NoPeer, !.pendingTimeout = FALSE,
                             !.webRtcFailures = FailedAttempt(s),
                             !.natType = IF s.gotAnswer THEN "unknown" ELSE @], "later")

\* A dropped peer is disconnected: its later signals are not heard, and nobody
\* looks at its channel again.
DropPeer(s, p) ==
    LET d == [s EXCEPT !.peer[p].exists = "deleteLater", !.peer[p].channel = "new"] IN
    IF p = s.pending THEN AttemptFailed(d)
    ELSE IF p = s.current THEN CurrentLost(d) ELSE d

\* Peer::fail
Fail(s, p) ==
    IF s.peer[p].closed THEN s ELSE DropPeer([s EXCEPT !.peer[p].closed = TRUE], p)

\* The current peer sends: a WebRTC channel that broke throws, and fails the
\* peer before its queued closed signal does.
Send(s) ==
    IF /\ s.current # NoPeer
       /\ s.peer[s.current].kind = "WebRtc" /\ s.peer[s.current].channel = "broken"
    THEN Fail(s, s.current) ELSE s

\* Mutant: a stream that was closed from the other side still looks for peers.
StreamNeedsPeerAlways(s) == s.pending = NoPeer /\ s.current = NoPeer

StreamNeedsPeer(s) == s.pending = NoPeer /\ s.current = NoPeer /\ ~s.streamClosed

NextKind(s) ==
    IF Browser /\ s.webRtcFailures >= WebRtcAttempts THEN "WebSocket" ELSE "WebRtc"

\* Mutant: the answer of the last attempt is not forgotten.
NewAttemptKeepsAnswer(s, p) ==
    [s EXCEPT !.peer[p] = [NoObject EXCEPT !.kind = NextKind(s), !.exists = "yes"],
              !.pending = p, !.pendingTimeout = TRUE]

NewAttempt(s, p) ==
    [s EXCEPT !.peer[p] = [NoObject EXCEPT !.kind = NextKind(s), !.exists = "yes"],
              !.pending = p, !.pendingTimeout = TRUE, !.gotAnswer = FALSE]

\* requestPeer(); p is the Peer object that new returns.
RequestPeer(s, p) == IF StreamNeedsPeer(s) THEN NewAttempt(s, p) ELSE s

\* The token, the client id and the queued packets go out at once.
OnPeerOpened(s, p) ==
    IF p # s.pending THEN s
    ELSE Send([s EXCEPT !.pending = NoPeer, !.pendingTimeout = FALSE, !.current = p,
                        !.webRtcFailures = IF PendingIsWebSocket(s) THEN @ ELSE 0])

\* Mutant: the probe counts as answered by what was sent before it.
ProbeEarly(s) ==
    LET d == Send([s EXCEPT !.sndNxt = @ + 1])
    IN  [d EXCEPT !.probe = TRUE, !.probeSeq = s.sndNxt]

\* checkPeer() with a current peer: NOP, flush, and the timer starts.
Probe(s) ==
    LET d == Send([s EXCEPT !.sndNxt = @ + 1])
    IN  [d EXCEPT !.probe = TRUE, !.probeSeq = d.sndNxt]

CheckPeer(s) ==
    IF s.streamClosed THEN s
    ELSE IF s.current # NoPeer THEN Probe(s)
    ELSE IF s.pending = NoPeer /\ s.retry # "off" THEN [s EXCEPT !.retry = "now"]
    ELSE s

\* A message of the current peer: acknowledgements, perhaps a FIN frame of the
\* bridge, perhaps followed by an encoding error.
OnPeerMessage(s, una, fin, error) ==
    LET read  == [s EXCEPT !.sndUna = IF una > @ THEN una ELSE @]
        alive == IF s.probe /\ read.sndUna >= s.probeSeq THEN StopProbe(read) ELSE read
        kept  == IF error THEN DropPeer(alive, s.current) ELSE alive
    IN  [kept EXCEPT !.streamClosed = @ \/ fin]

CloseFromTor(s) == [s EXCEPT !.streamClosed = TRUE, !.retry = "off"]

----------------------------------------------------------------------------
\* Actions.

Init ==
    /\ ses = [peer |-> [p \in Peer |-> NoObject], started |-> FALSE,
              pending |-> NoPeer, current |-> NoPeer, webRtcFailures |-> 0,
              pendingTimeout |-> FALSE, retry |-> "off", probe |-> FALSE, probeSeq |-> 0,
              gotAnswer |-> FALSE, natType |-> "unrestricted", streamClosed |-> FALSE,
              sndNxt |-> 0, sndUna |-> 0]
    /\ inbox = [p \in Peer |-> <<>>]
    /\ bridge = 0
    /\ probed = NoProbe
    /\ failed = <<>>

\* The attempts that failed since a peer last opened; two are enough to see
\* what the next one may be.
Last2(q) == IF Len(q) > 2 THEN Tail(q) ELSE q

Attempts(s) ==
    IF ses.pending = NoPeer \/ s.pending = ses.pending THEN failed
    ELSE IF s.peer[ses.pending].opened THEN <<>>
    ELSE Last2(Append(failed, ses.peer[ses.pending].kind))

Becomes(s) ==
    /\ ses' = s
    /\ failed' = Attempts(s)
    /\ probed' = IF s.probe THEN probed ELSE NoProbe

\* A single-shot timer of 0 ms after the constructor: SYN, then the first peer.
Start ==
    /\ ~ses.started
    /\ \E p \in Peer :
         Becomes(RequestPeer([ses EXCEPT !.started = TRUE, !.sndNxt = @ + 1], p))
    /\ UNCHANGED <<inbox, bridge>>

RetryTimeout ==
    /\ ses.retry # "off"
    /\ \E p \in Peer :
         /\ ses.peer[p].exists = "no"
         /\ Becomes(RequestPeer([ses EXCEPT !.retry = "off"], p))
    /\ UNCHANGED <<inbox, bridge>>

\* The application returns to the foreground.
Foreground ==
    /\ ses.sndNxt < MaxSegments
    /\ ses' = CheckPeer(ses)
    /\ failed' = Attempts(ses')
    /\ probed' = IF ses.current = NoPeer \/ ses.streamClosed THEN probed
                 ELSE [peer |-> ses.current, nop |-> ses.sndNxt + 1]
    /\ UNCHANGED <<inbox, bridge>>

\* onOffer: gathering is complete, the broker is asked.
OfferReady(p) ==
    /\ ses.pending = p /\ ses.peer[p].kind = "WebRtc"
    /\ ~ses.peer[p].asked /\ ~ses.peer[p].answered /\ ~ses.peer[p].closed
    /\ Becomes([ses EXCEPT !.peer[p].asked = TRUE])
    /\ UNCHANGED <<inbox, bridge>>

\* The broker answers, or fails to; the description may be refused.  A peer
\* that is not pending any more is left alone.
BrokerReplies(p) ==
    LET s == [ses EXCEPT !.peer[p].asked = FALSE]
        t == [s EXCEPT !.gotAnswer = TRUE, !.peer[p].answered = TRUE]
    IN
    /\ ses.peer[p].asked
    /\ IF p # ses.pending THEN Becomes(s)
       ELSE Becomes(DropPeer(s, p)) \/ Becomes(t) \/ Becomes(Fail(t, p))
    /\ UNCHANGED <<inbox, bridge>>

PendingTimeout ==
    /\ ses.pendingTimeout
    /\ Becomes(DropPeer(ses, ses.pending))
    /\ UNCHANGED <<inbox, bridge>>

\* The queued open and closed signals of a peer that is listened to.
Opened(p) ==
    LET o == ses.peer[p] IN
    /\ o.exists = "yes" /\ o.channel \in {"up", "broken"} /\ ~o.opened /\ ~o.closed
    /\ Becomes(OnPeerOpened([ses EXCEPT !.peer[p].opened = TRUE], p))
    /\ UNCHANGED <<inbox, bridge>>

Closed(p) ==
    LET o == ses.peer[p] IN
    /\ o.exists = "yes" /\ ~o.closed
    /\ o.channel = "failed" \/ (o.channel = "broken" /\ o.opened)
    /\ Becomes(Fail(ses, p))
    /\ UNCHANGED <<inbox, bridge>>

ProbeTimeout ==
    /\ ses.probe
    /\ LET s == StopProbe(ses) IN
       Becomes(IF s.current = NoPeer THEN s ELSE DropPeer(s, s.current))
    /\ UNCHANGED <<inbox, bridge>>

\* tick(): KCP may send again what was sent, a keep-alive may go out, and a
\* peer that was silent for too long is dropped.
Flush(s) ==
    \/ Becomes(s)
    \/ Becomes(Send(s))
    \/ s.sndNxt < MaxSegments /\ Becomes(Send([s EXCEPT !.sndNxt = @ + 1]))

Tick ==
    /\ ses.started
    /\ Flush(ses)
    /\ UNCHANGED <<inbox, bridge>>

Silence(p) ==
    /\ ses.current = p
    /\ Becomes(DropPeer(ses, p))
    /\ UNCHANGED <<inbox, bridge>>

Receive(p, fin, error) ==
    /\ ses.current = p /\ IsOpen(ses.peer[p]) /\ inbox[p] # <<>>
    /\ Becomes(OnPeerMessage(ses, Head(inbox[p]), fin, error))
    /\ inbox' = [inbox EXCEPT ![p] = Tail(@)]
    /\ UNCHANGED bridge

\* tor's socket is disconnected: by tor, after the bridge's FIN, or because of
\* a smux protocol error.
TorDisconnects ==
    /\ Becomes(CloseFromTor(ses))
    /\ UNCHANGED <<inbox, bridge>>

Delete(p) ==
    /\ ses.peer[p].exists = "deleteLater"
    /\ Becomes([ses EXCEPT !.peer[p] = NoObject])
    /\ inbox' = [inbox EXCEPT ![p] = <<>>]
    /\ UNCHANGED bridge

----------------------------------------------------------------------------
\* libdatachannel, the proxy and the bridge.

ChannelUp(p) ==
    LET o == ses.peer[p] IN
    /\ o.exists = "yes" /\ o.channel = "new" /\ (o.kind = "WebSocket" \/ o.answered)
    /\ Becomes([ses EXCEPT !.peer[p].channel = "up"])
    /\ UNCHANGED <<inbox, bridge>>

ChannelDown(p) ==
    LET o == ses.peer[p] IN
    /\ o.exists = "yes" /\ o.channel \in {"new", "up"}
    /\ Becomes([ses EXCEPT !.peer[p].channel = IF @ = "new" THEN "failed" ELSE "broken"])
    /\ UNCHANGED <<inbox, bridge>>

\* The bridge gets some of what was sent through p, and acknowledges it.
BridgeReceives(p) ==
    /\ ses.current = p /\ ses.peer[p].channel = "up" /\ Len(inbox[p]) < MaxInbox
    /\ \E una \in bridge .. ses.sndNxt :
         /\ bridge' = una
         /\ inbox' = [inbox EXCEPT ![p] = Append(@, una)]
    /\ UNCHANGED <<ses, probed, failed>>

Next ==
    \/ Start \/ RetryTimeout \/ Foreground \/ PendingTimeout \/ ProbeTimeout \/ Tick
    \/ TorDisconnects
    \/ \E p \in Peer :
         \/ OfferReady(p) \/ BrokerReplies(p) \/ Opened(p) \/ Closed(p) \/ Silence(p)
         \/ \E fin, error \in BOOLEAN : Receive(p, fin, error)
         \/ Delete(p) \/ ChannelUp(p) \/ ChannelDown(p) \/ BridgeReceives(p)

Spec == Init /\ [][Next]_vars

\* Timers fire, dropped peers are deleted, queued closed signals arrive.
\* Proxies, broker, bridge, tor and the user owe nothing.
Fairness ==
    /\ WF_vars(Start)
    /\ WF_vars(RetryTimeout)
    /\ WF_vars(PendingTimeout)
    /\ WF_vars(\E p \in Peer : Opened(p) \/ Closed(p))
    /\ WF_vars(\E p \in Peer : Delete(p))

FairSpec == Spec /\ Fairness

----------------------------------------------------------------------------
\* Properties.

TypeOK ==
    /\ ses \in Members
    /\ inbox \in [Peer -> Seq(Nat)]
    /\ bridge \in Nat
    /\ probed \in [peer : MaybePeer, nop : Nat]
    /\ failed \in Seq(Kind)

\* A running stream always has exactly one of: a peer that carries it, one that
\* is negotiated under an armed timeout, a retry timer.  None is stuck without a
\* peer, and no handler, also one that lost its peer half way, starts two.
OnePeerOnTheWay ==
    LET s == ses IN
    /\ s.started /\ ~s.streamClosed =>
         \/ s.current # NoPeer /\ s.pending = NoPeer /\ s.retry = "off"
         \/ s.current = NoPeer /\ s.pending # NoPeer /\ s.retry = "off"
         \/ s.current = NoPeer /\ s.pending = NoPeer /\ s.retry # "off"
    /\ s.pendingTimeout <=> s.pending # NoPeer

\* session.h: in the browser, after two WebRTC proxies in a row failed the next
\* attempt is a WebSocket, and when that fails WebRTC is tried again.
Alternates ==
    [][(ses'.pending # NoPeer /\ ses'.pending # ses.pending) =>
         LET kind == ses'.peer[ses'.pending].kind IN
         /\ failed = <<"WebRtc", "WebRtc">> => (kind = "WebSocket" <=> Browser)
         /\ (failed # <<>> /\ failed[Len(failed)] = "WebSocket") => kind = "WebRtc"]_vars

\* The broker is told that the NAT is unknown only after a proxy was found and
\* did not connect, not after any other failure.
NatHonest ==
    [][ses'.natType # ses.natType =>
         ses.pending # NoPeer /\ ses'.peer[ses.pending].answered]_vars

\* Once the stream is closed from either side nobody is asked for a new peer,
\* although a retry timer may still run.
NoPeerAfterClose ==
    [][ses.streamClosed => ses'.pending \in {ses.pending, NoPeer}]_vars

\* A probe is answered only by a bridge that has received its NOP: bytes that
\* were buffered while the program was suspended prove nothing.
AliveIsProved ==
    [][(ses.probe /\ ~ses'.probe /\ ses'.current # NoPeer) => bridge >= probed.nop]_vars

Works(p) == p # NoPeer /\ ses.peer[p].channel # "broken"

\* The stream never stays without a peer that works: every attempt ends, every
\* peer whose channel broke is let go, and another attempt is made.
KeepsLooking ==
    /\ []<>(ses.pending = NoPeer)
    /\ []<>(ses.pending # NoPeer \/ Works(ses.current) \/ ses.streamClosed)

\* session.cpp: a proxy is dropped as dead when it did not answer a probe within
\* the time in which "a live proxy answers".  That proxy should then be the one
\* that was probed.  (It need not be: the peer that checkPeer finds broken is
\* dropped while the NOP is sent, the timer is started all the same, and its
\* successor is dropped when it fires.)
OnlyProbedDropped ==
    [][(ses.probe /\ ~ses'.probe /\ ses'.current # ses.current) => ses.current = probed.peer]_vars
=============================================================================
