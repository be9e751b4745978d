---------------------------- MODULE SessionProofs ----------------------------
(***************************************************************************)
(* Proofs about Session.tla, for any number of Peer objects, segments and  *)
(* buffered messages: the members are well typed, a running stream has     *)
(* exactly one peer on the way and a closed one asks for none, the two     *)
(* kinds of peer alternate, the NAT is judged by attempts that were        *)
(* answered, and a probe is answered only by a bridge that received its    *)
(* NOP.                                                                    *)
(***************************************************************************)
EXTENDS Session, TLAPS

\* OnePeerOnTheWay of a record of members, with what holds before Start.
Way(s) ==
    /\ ~s.started => s.current = NoPeer /\ s.pending = NoPeer /\ s.retry = "off"
    /\ s.started /\ ~s.streamClosed =>
         \/ s.current # NoPeer /\ s.pending = NoPeer /\ s.retry = "off"
         \/ s.current = NoPeer /\ s.pending # NoPeer /\ s.retry = "off"
         \/ s.current = NoPeer /\ s.pending = NoPeer /\ s.retry # "off"
    /\ s.pendingTimeout <=> s.pending # NoPeer

Good(s) == s \in Members /\ Way(s)

IInv == TypeOK /\ Way(ses)

----------------------------------------------------------------------------
\* The methods keep the members good.

\* A change that Way does not look at.
LEMMA SameWay ==
    ASSUME NEW s, Good(s), NEW t \in Members,
           t.started = s.started, t.pending = s.pending, t.current = s.current,
           t.retry = s.retry, t.streamClosed = s.streamClosed,
           t.pendingTimeout = s.pendingTimeout
    PROVE  Good(t)
BY DEF Good, Way

\* Another Peer object, the rest of the members as they were.
LEMMA ObjectGood ==
    ASSUME NEW s, Good(s), NEW p \in Peer, NEW o \in PeerObject
    PROVE  Good([s EXCEPT !.peer[p] = o]) /\ [s EXCEPT !.peer[p] = o].started = s.started
<1> DEFINE f == [s.peer EXCEPT ![p] = o]
           d == [s EXCEPT !.peer = f]
<1>1. f \in [Peer -> PeerObject]
  BY DEF Good, Members
<1> HIDE DEF f
<1>2. /\ d \in Members /\ d.started = s.started /\ d.pending = s.pending
      /\ d.current = s.current /\ d.retry = s.retry
      /\ d.streamClosed = s.streamClosed /\ d.pendingTimeout = s.pendingTimeout
  BY <1>1 DEF Good, Members
<1>3. Good(d)
  BY <1>2, SameWay
<1> QED
  BY <1>2, <1>3 DEF f

LEMMA FailedAttemptType ==
    ASSUME NEW s \in Members
    PROVE  FailedAttempt(s) \in 0 .. WebRtcAttempts
BY DEF Members, FailedAttempt, Min2, WebRtcAttempts

LEMMA ObjectType ==
    ASSUME NEW s, Good(s), NEW p \in Peer
    PROVE  s.peer[p] \in PeerObject
BY DEF Good, Members

LEMMA RetryPeerLaterFields ==
    ASSUME NEW s \in Members, NEW delay \in {"later", "now"}
    PROVE  LET r == RetryPeerLater(s, delay) IN
           /\ r \in Members /\ r.started = s.started /\ r.pending = s.pending
           /\ r.current = s.current /\ r.streamClosed = s.streamClosed
           /\ r.pendingTimeout = s.pendingTimeout
           /\ ~s.streamClosed => r.retry = delay
BY DEF RetryPeerLater, Members

LEMMA DropPeerGood ==
    ASSUME NEW s, Good(s), NEW p \in Peer
    PROVE  Good(DropPeer(s, p)) /\ DropPeer(s, p).started = s.started
<1> DEFINE d == [s EXCEPT !.peer[p].exists = "deleteLater", !.peer[p].channel = "new"]
<1>1. /\ Good(d) /\ d \in Members /\ d.started = s.started /\ d.pending = s.pending
      /\ d.current = s.current /\ d.streamClosed = s.streamClosed /\ d.retry = s.retry
  <2> DEFINE o == [s.peer[p] EXCEPT !.exists = "deleteLater", !.channel = "new"]
  <2>0. s.peer[p] \in PeerObject
    BY ObjectType
  <2>1. o \in PeerObject
    BY <2>0 DEF PeerObject
  <2>2. d = [s EXCEPT !.peer[p] = o]
    BY DEF Good, Members, PeerObject
  <2> HIDE DEF d, o
  <2>3. Good(d) /\ d.started = s.started
    BY <2>1, <2>2, ObjectGood
  <2> QED
    BY <2>2, <2>3 DEF Good, Members
<1>2. Good(d)
  BY <1>1
<1>3. DropPeer(s, p) = IF p = s.pending THEN AttemptFailed(d)
                       ELSE IF p = s.current THEN CurrentLost(d) ELSE d
  BY DEF DropPeer
<1> HIDE DEF d
<1>4. p # NoPeer
  BY PeerAssumption
<1>5. CASE p = s.pending
  <2> DEFINE e == [d EXCEPT !.pending = NoPeer, !.pendingTimeout = FALSE,
                            !.webRtcFailures = FailedAttempt(d),
                            !.natType = IF d.gotAnswer THEN "unknown" ELSE @]
  <2>0. s.started
    BY <1>4, <1>5 DEF Good, Way
  <2>1. /\ e \in Members /\ e.started /\ e.pending = NoPeer /\ ~e.pendingTimeout
        /\ e.current = d.current /\ e.streamClosed = d.streamClosed /\ e.retry = d.retry
    BY <1>1, <2>0, FailedAttemptType DEF Members, MaybePeer
  <2>2. AttemptFailed(d) = RetryPeerLater(e, "later")
    BY DEF AttemptFailed
  <2>3. ~s.streamClosed => s.current = NoPeer
    BY <1>4, <1>5 DEF Good, Way
  <2> HIDE DEF e
  <2> DEFINE r == RetryPeerLater(e, "later")
  <2>4. /\ r \in Members /\ r.started /\ r.pending = e.pending /\ r.current = e.current
        /\ r.streamClosed = e.streamClosed /\ r.pendingTimeout = e.pendingTimeout
        /\ ~e.streamClosed => r.retry = "later"
    BY <2>1, RetryPeerLaterFields
  <2> HIDE DEF r
  <2>5. DropPeer(s, p) = r
    BY <1>3, <1>5, <1>1, <2>2 DEF r
  <2>6. Good(r) /\ r.started
    BY <1>1, <2>1, <2>3, <2>4 DEF Good, Way
  <2> QED
    BY <2>5, <2>6, <2>0
<1>6. CASE p # s.pending /\ p = s.current
  <2> DEFINE e == [StopProbe(d) EXCEPT !.current = NoPeer]
  <2>0. s.started
    BY <1>4, <1>6 DEF Good, Way
  <2>1. /\ e \in Members /\ e.started /\ e.current = NoPeer /\ e.pending = d.pending
        /\ e.pendingTimeout = d.pendingTimeout
        /\ e.streamClosed = d.streamClosed /\ e.retry = d.retry
    BY <1>1, <2>0 DEF Members, MaybePeer, StopProbe
  <2>2. CurrentLost(d) = RetryPeerLater(e, "now")
    BY DEF CurrentLost
  <2>3. ~s.streamClosed => s.pending = NoPeer
    BY <1>4, <1>6 DEF Good, Way
  <2> HIDE DEF e
  <2> DEFINE r == RetryPeerLater(e, "now")
  <2>4. /\ r \in Members /\ r.started /\ r.pending = e.pending /\ r.current = e.current
        /\ r.streamClosed = e.streamClosed /\ r.pendingTimeout = e.pendingTimeout
        /\ ~e.streamClosed => r.retry = "now"
    BY <2>1, RetryPeerLaterFields
  <2>5. d.pendingTimeout <=> d.pending # NoPeer
    BY <1>2 DEF Good, Way
  <2> HIDE DEF r
  <2>6. DropPeer(s, p) = r
    BY <1>3, <1>6, <1>1, <2>2 DEF r
  <2>7. Good(r) /\ r.started
    BY <1>1, <2>1, <2>3, <2>4, <2>5 DEF Good, Way
  <2> QED
    BY <2>6, <2>7, <2>0
<1>7. CASE p # s.pending /\ p # s.current
  BY <1>1, <1>2, <1>3, <1>7
<1> QED
  BY <1>5, <1>6, <1>7

LEMMA FailGood ==
    ASSUME NEW s, Good(s), NEW p \in Peer
    PROVE  Good(Fail(s, p)) /\ Fail(s, p).started = s.started
<1> DEFINE d == [s EXCEPT !.peer[p].closed = TRUE]
<1>1. Good(d) /\ d.started = s.started
  <2> DEFINE o == [s.peer[p] EXCEPT !.closed = TRUE]
  <2>0. s.peer[p] \in PeerObject
    BY ObjectType
  <2>1. o \in PeerObject
    BY <2>0 DEF PeerObject
  <2>2. d = [s EXCEPT !.peer[p] = o]
    BY DEF Good, Members, PeerObject
  <2> HIDE DEF d, o
  <2> QED
    BY <2>1, <2>2, ObjectGood
<1> HIDE DEF d
<1>2. Good(DropPeer(d, p)) /\ DropPeer(d, p).started = s.started
  BY <1>1, DropPeerGood
<1> QED
  BY <1>2 DEF Fail, d

LEMMA SendGood ==
    ASSUME NEW s, Good(s)
    PROVE  Good(Send(s)) /\ Send(s).started = s.started
<1>1. CASE s.current = NoPeer
  BY <1>1 DEF Send
<1>2. CASE s.current # NoPeer
  <2>1. s.current \in Peer
    BY <1>2 DEF Good, Members, MaybePeer
  <2>2. Good(Fail(s, s.current)) /\ Fail(s, s.current).started = s.started
    BY <2>1, FailGood
  <2> QED
    BY <2>1, <2>2 DEF Send
<1> QED
  BY <1>1, <1>2

LEMMA SegmentGood ==
    ASSUME NEW s, Good(s)
    PROVE  Good([s EXCEPT !.sndNxt = @ + 1])
<1> DEFINE n == [s EXCEPT !.sndNxt = @ + 1]
<1>1. /\ n \in Members /\ n.started = s.started /\ n.pending = s.pending
      /\ n.current = s.current /\ n.retry = s.retry
      /\ n.streamClosed = s.streamClosed /\ n.pendingTimeout = s.pendingTimeout
  BY DEF Good, Members
<1> HIDE DEF n
<1>2. Good(n)
  BY <1>1, SameWay
<1> QED
  BY <1>2 DEF n

LEMMA StartedFields ==
    ASSUME NEW s \in Members
    PROVE  LET d == [s EXCEPT !.started = TRUE, !.sndNxt = @ + 1] IN
           /\ d \in Members /\ d.started /\ d.retry = s.retry /\ d.current = s.current
           /\ d.pending = s.pending /\ d.pendingTimeout = s.pendingTimeout
<1> DEFINE d == [s EXCEPT !.started = TRUE, !.sndNxt = @ + 1]
           n == s.sndNxt + 1
           e == [s EXCEPT !.started = TRUE, !.sndNxt = n]
<1>1. n \in Nat
  BY DEF Members
<1>2. d = e
  OBVIOUS
<1> HIDE DEF d, n
<1>3. /\ e \in Members /\ e.started /\ e.retry = s.retry /\ e.current = s.current
      /\ e.pending = s.pending /\ e.pendingTimeout = s.pendingTimeout
  BY <1>1 DEF Members
<1> QED
  BY <1>2, <1>3 DEF d

LEMMA RequestPeerGood ==
    ASSUME NEW s \in Members, NEW p \in Peer, s.started,
           s.retry = "off" \/ s.streamClosed,
           ~s.streamClosed => ~(s.current # NoPeer /\ s.pending # NoPeer),
           s.pendingTimeout <=> s.pending # NoPeer
    PROVE  Good(RequestPeer(s, p))
<1> DEFINE o == [NoObject EXCEPT !.kind = NextKind(s), !.exists = "yes"]
           f == [s.peer EXCEPT ![p] = o]
           d == [s EXCEPT !.peer = f, !.pending = p, !.pendingTimeout = TRUE, !.gotAnswer = FALSE]
<1>1. NextKind(s) \in Kind
  BY DEF NextKind, Kind
<1>2. o \in PeerObject
  BY <1>1 DEF NoObject, PeerObject
<1>3. f \in [Peer -> PeerObject]
  BY <1>2 DEF Members
<1>4. NewAttempt(s, p) = d
  BY DEF NewAttempt
<1> HIDE DEF o, f
<1>5. /\ d \in Members /\ d.started /\ d.pending = p /\ d.pendingTimeout
      /\ d.current = s.current /\ d.retry = s.retry /\ d.streamClosed = s.streamClosed
  BY <1>3 DEF Members, MaybePeer
<1> HIDE DEF d
<1>6. CASE StreamNeedsPeer(s)
  BY <1>4, <1>5, <1>6, PeerAssumption DEF RequestPeer, StreamNeedsPeer, Good, Way
<1>7. CASE ~StreamNeedsPeer(s)
  BY <1>7 DEF RequestPeer, StreamNeedsPeer, Good, Way, Members
<1> QED
  BY <1>6, <1>7

LEMMA OnPeerOpenedGood ==
    ASSUME NEW s, Good(s), NEW p \in Peer
    PROVE  Good(OnPeerOpened(s, p))
<1> DEFINE n == IF PendingIsWebSocket(s) THEN s.webRtcFailures ELSE 0
           d == [s EXCEPT !.pending = NoPeer, !.pendingTimeout = FALSE, !.current = p,
                          !.webRtcFailures = n]
<1>0. n \in 0 .. WebRtcAttempts
  BY DEF Good, Members, WebRtcAttempts
<1>1. CASE p # s.pending
  BY <1>1 DEF OnPeerOpened
<1>2. CASE p = s.pending
  <2>1. /\ d \in Members /\ d.started = s.started /\ d.pending = NoPeer /\ ~d.pendingTimeout
        /\ d.current = p /\ d.retry = s.retry /\ d.streamClosed = s.streamClosed
    <3> HIDE DEF n
    <3> QED
      BY <1>0 DEF Good, Members, MaybePeer
  <2>2. OnPeerOpened(s, p) = Send(d)
    BY <1>2 DEF OnPeerOpened
  <2> HIDE DEF d
  <2>3. Good(d)
    BY <1>2, <2>1, PeerAssumption DEF Good, Way
  <2> QED
    BY <2>2, <2>3, SendGood
<1> QED
  BY <1>1, <1>2

LEMMA CheckPeerGood ==
    ASSUME NEW s, Good(s)
    PROVE  Good(CheckPeer(s))
<1>1. Good(Probe(s))
  <2> DEFINE n == [s EXCEPT !.sndNxt = @ + 1]
             d == Send(n)
  <2>1. Good(n)
    BY SegmentGood
  <2> HIDE DEF n
  <2>2. Good(d)
    BY <2>1, SendGood
  <2> HIDE DEF d
  <2> DEFINE e == [d EXCEPT !.probe = TRUE, !.probeSeq = d.sndNxt]
  <2>3. Probe(s) = e
    BY DEF Probe, d, n
  <2>4. /\ e \in Members /\ e.started = d.started /\ e.pending = d.pending
        /\ e.current = d.current /\ e.retry = d.retry
        /\ e.streamClosed = d.streamClosed /\ e.pendingTimeout = d.pendingTimeout
    BY <2>2 DEF Good, Members
  <2> HIDE DEF e
  <2> QED
    BY <2>2, <2>3, <2>4, SameWay
<1>2. CASE s.pending = NoPeer /\ s.current = NoPeer /\ s.retry # "off" /\ ~s.streamClosed
  BY <1>2 DEF CheckPeer, Good, Way, Members
<1> QED
  BY <1>1, <1>2 DEF CheckPeer

LEMMA OnPeerMessageGood ==
    ASSUME NEW s, Good(s), s.current \in Peer, NEW una \in Nat, NEW fin \in BOOLEAN,
           NEW error \in BOOLEAN
    PROVE  Good(OnPeerMessage(s, una, fin, error))
<1> DEFINE read  == [s EXCEPT !.sndUna = IF una > @ THEN una ELSE @]
           alive == IF s.probe /\ read.sndUna >= s.probeSeq THEN StopProbe(read) ELSE read
           kept  == IF error THEN DropPeer(alive, s.current) ELSE alive
<1>0. s.started
  BY PeerAssumption DEF Good, Way
<1>1. Good(read) /\ read.started
  <2>1. /\ read \in Members /\ read.started = s.started /\ read.pending = s.pending
        /\ read.current = s.current /\ read.retry = s.retry
        /\ read.streamClosed = s.streamClosed /\ read.pendingTimeout = s.pendingTimeout
    BY DEF Good, Members
  <2> HIDE DEF read
  <2> QED
    BY <1>0, <2>1, SameWay
<1> HIDE DEF read
<1>2. Good(StopProbe(read)) /\ StopProbe(read).started
  <2> DEFINE t == StopProbe(read)
  <2>1. /\ t \in Members /\ t.started = read.started /\ t.pending = read.pending
        /\ t.current = read.current /\ t.retry = read.retry
        /\ t.streamClosed = read.streamClosed /\ t.pendingTimeout = read.pendingTimeout
    BY <1>1 DEF Good, Members, StopProbe
  <2> HIDE DEF t
  <2>2. Good(t)
    BY <1>1, <2>1, SameWay
  <2> QED
    BY <1>1, <2>1, <2>2 DEF t
<1>3. Good(alive) /\ alive.started
  BY <1>1, <1>2
<1> HIDE DEF alive
<1>4. Good(kept) /\ kept.started
  BY <1>3, DropPeerGood
<1> HIDE DEF kept
<1>5. Good([kept EXCEPT !.streamClosed = @ \/ fin])
  BY <1>4 DEF Good, Way, Members
<1> QED
  BY <1>5 DEF OnPeerMessage, kept, alive, read

LEMMA CloseFromTorGood ==
    ASSUME NEW s, Good(s)
    PROVE  Good(CloseFromTor(s))
BY DEF CloseFromTor, Good, Way, Members

----------------------------------------------------------------------------
\* The actions.

LEMMA InitIInv == Init => IInv
<1> SUFFICES ASSUME Init PROVE IInv
  OBVIOUS
<1>1. NoObject \in PeerObject
  BY DEF NoObject, PeerObject, Kind
<1>2. [p \in Peer |-> NoObject] \in [Peer -> PeerObject]
  BY <1>1
<1>3. ses \in Members
  BY <1>2 DEF Init, Members, MaybePeer, WebRtcAttempts
<1>4. /\ inbox \in [Peer -> Seq(Nat)] /\ bridge \in Nat
      /\ probed \in [peer : MaybePeer, nop : Nat] /\ failed \in Seq(Kind)
  BY DEF Init, NoProbe, MaybePeer
<1>5. Way(ses)
  BY DEF Init, Way
<1> QED
  BY <1>3, <1>4, <1>5 DEF IInv, TypeOK

LEMMA AttemptsType ==
    ASSUME TypeOK, NEW s
    PROVE  Attempts(s) \in Seq(Kind)
<1>1. CASE ses.pending = NoPeer
  BY <1>1 DEF Attempts, TypeOK
<1>2. CASE ses.pending # NoPeer
  <2>1. ses.peer[ses.pending].kind \in Kind
    <3>1. ses.peer[ses.pending] \in PeerObject
      BY <1>2 DEF TypeOK, Members, MaybePeer
    <3> QED
      BY <3>1 DEF PeerObject
  <2>2. Append(failed, ses.peer[ses.pending].kind) \in Seq(Kind)
    BY <2>1 DEF TypeOK
  <2>3. ASSUME NEW q \in Seq(Kind) PROVE Last2(q) \in Seq(Kind)
    BY DEF Last2
  <2>4. <<>> \in Seq(Kind) /\ failed \in Seq(Kind)
    BY DEF TypeOK
  <2> QED
    BY <2>2, <2>3, <2>4 DEF Attempts
<1> QED
  BY <1>1, <1>2

\* What every handler comes down to.
LEMMA BecomesIInv ==
    ASSUME IInv, NEW s, Good(s), Becomes(s), bridge' \in Nat, inbox' \in [Peer -> Seq(Nat)]
    PROVE  IInv'
<1>1. failed' \in Seq(Kind)
  BY AttemptsType DEF IInv, Becomes
<1>2. probed' \in [peer : MaybePeer, nop : Nat]
  BY DEF IInv, TypeOK, Becomes, NoProbe, MaybePeer
<1> QED
  BY <1>1, <1>2 DEF IInv, TypeOK, Good, Becomes

\* Timers, tor and the user.
LEMMA TimerIInv ==
    ASSUME IInv, Start \/ RetryTimeout \/ Foreground \/ PendingTimeout \/ ProbeTimeout
                 \/ Tick \/ TorDisconnects
    PROVE  IInv'
<1>1. Good(ses) /\ bridge \in Nat /\ inbox \in [Peer -> Seq(Nat)]
  BY DEF IInv, TypeOK, Good
<1>2. CASE Start
  <2> DEFINE d == [ses EXCEPT !.started = TRUE, !.sndNxt = @ + 1]
  <2>1. PICK p \in Peer : Becomes(RequestPeer(d, p))
    BY <1>2 DEF Start
  <2>2. /\ d \in Members /\ d.started /\ d.retry = ses.retry /\ d.current = ses.current
        /\ d.pending = ses.pending /\ d.pendingTimeout = ses.pendingTimeout
    BY <1>1, StartedFields DEF Good
  <2> HIDE DEF d
  <2>3. d.retry = "off" /\ d.current = NoPeer /\ d.pending = NoPeer /\ ~d.pendingTimeout
    BY <1>1, <1>2, <2>2 DEF Start, Good, Way
  <2>4. Good(RequestPeer(d, p))
    BY <2>2, <2>3, RequestPeerGood
  <2> QED
    BY <1>1, <1>2, <2>1, <2>4, BecomesIInv DEF Start
<1>3. CASE RetryTimeout
  <2> DEFINE d == [ses EXCEPT !.retry = "off"]
  <2>1. PICK p \in Peer : Becomes(RequestPeer(d, p))
    BY <1>3 DEF RetryTimeout
  <2>2. /\ d \in Members /\ d.started /\ d.retry = "off" /\ d.current = ses.current
        /\ d.pending = ses.pending /\ d.streamClosed = ses.streamClosed
        /\ d.pendingTimeout = ses.pendingTimeout
    BY <1>1, <1>3 DEF RetryTimeout, Good, Way, Members
  <2> HIDE DEF d
  <2>3. Good(RequestPeer(d, p))
    BY <1>1, <2>2, RequestPeerGood DEF Good, Way
  <2> QED
    BY <1>1, <1>3, <2>1, <2>3, BecomesIInv DEF RetryTimeout
<1>4. CASE Foreground
  <2>1. Good(CheckPeer(ses))
    BY <1>1, CheckPeerGood
  <2>2. failed' \in Seq(Kind)
    BY <1>4, AttemptsType DEF Foreground, IInv
  <2>3. probed' \in [peer : MaybePeer, nop : Nat]
    BY <1>1, <1>4 DEF Foreground, IInv, TypeOK, Members
  <2> QED
    BY <1>1, <1>4, <2>1, <2>2, <2>3 DEF Foreground, IInv, TypeOK, Good
<1>5. CASE PendingTimeout
  <2>1. ses.pending \in Peer /\ ses.started
    BY <1>1, <1>5 DEF PendingTimeout, Good, Way, Members, MaybePeer
  <2> QED
    BY <1>1, <1>5, <2>1, DropPeerGood, BecomesIInv DEF PendingTimeout
<1>6. CASE ProbeTimeout
  <2> DEFINE s == StopProbe(ses)
  <2>1. /\ s \in Members /\ s.started = ses.started /\ s.pending = ses.pending
        /\ s.current = ses.current /\ s.retry = ses.retry
        /\ s.streamClosed = ses.streamClosed /\ s.pendingTimeout = ses.pendingTimeout
    BY <1>1 DEF Good, Members, StopProbe
  <2> HIDE DEF s
  <2>2. Good(s)
    BY <1>1, <2>1, SameWay
  <2>3. s.current # NoPeer => Good(DropPeer(s, s.current))
    BY <2>2, DropPeerGood DEF Good, Way, Members, MaybePeer
  <2>4. Becomes(IF s.current = NoPeer THEN s ELSE DropPeer(s, s.current)) /\ UNCHANGED <<inbox, bridge>>
    BY <1>6 DEF ProbeTimeout, s
  <2> QED
    BY <1>1, <2>2, <2>3, <2>4, BecomesIInv
<1>7. CASE Tick
  <2> DEFINE n == [ses EXCEPT !.sndNxt = @ + 1]
  <2>2. Becomes(ses) \/ Becomes(Send(ses)) \/ Becomes(Send(n))
    BY <1>7 DEF Tick, Flush
  <2>3. Good(n)
    BY <1>1, SegmentGood
  <2> HIDE DEF n
  <2> QED
    BY <1>1, <1>7, <2>2, <2>3, SendGood, BecomesIInv DEF Tick
<1>8. CASE TorDisconnects
  BY <1>1, <1>8, CloseFromTorGood, BecomesIInv DEF TorDisconnects
<1> QED
  BY <1>2, <1>3, <1>4, <1>5, <1>6, <1>7, <1>8

\* The signals of a peer, the broker and the bridge.
LEMMA PeerIInv ==
    ASSUME IInv, NEW p \in Peer,
           \/ OfferReady(p) \/ BrokerReplies(p) \/ Opened(p) \/ Closed(p) \/ Silence(p)
           \/ (\E fin, error \in BOOLEAN : Receive(p, fin, error))
           \/ Delete(p) \/ ChannelUp(p) \/ ChannelDown(p) \/ BridgeReceives(p)
    PROVE  IInv'
<1>1. Good(ses) /\ bridge \in Nat /\ inbox \in [Peer -> Seq(Nat)]
  BY DEF IInv, TypeOK, Good
<1>2. ses.peer[p] \in PeerObject
  BY <1>1, ObjectType
<1>3. p # NoPeer
  BY PeerAssumption
<1>4. ASSUME NEW o \in PeerObject PROVE Good([ses EXCEPT !.peer[p] = o])
  BY <1>1, ObjectGood
<1>5. ASSUME NEW o \in PeerObject, NEW s, s = [ses EXCEPT !.peer[p] = o], Becomes(s),
             UNCHANGED bridge, inbox' \in [Peer -> Seq(Nat)]
      PROVE  IInv'
  BY <1>1, <1>4, <1>5, BecomesIInv
<1>6. CASE OfferReady(p)
  <2> DEFINE o == [ses.peer[p] EXCEPT !.asked = TRUE]
  <2>1. o \in PeerObject
    BY <1>2 DEF PeerObject
  <2>2. [ses EXCEPT !.peer[p].asked = TRUE] = [ses EXCEPT !.peer[p] = o]
    OBVIOUS
  <2> HIDE DEF o
  <2> QED
    BY <1>1, <1>5, <1>6, <2>1, <2>2 DEF OfferReady
<1>7. CASE BrokerReplies(p)
  <2> DEFINE o == [ses.peer[p] EXCEPT !.asked = FALSE]
             s == [ses EXCEPT !.peer[p].asked = FALSE]
             t == [s EXCEPT !.gotAnswer = TRUE, !.peer[p].answered = TRUE]
  <2>1. o \in PeerObject /\ s = [ses EXCEPT !.peer[p] = o]
    BY <1>2 DEF PeerObject
  <2>2. Good(s)
    BY <1>4, <2>1
  <2>3. Good(t)
    <3> HIDE DEF s
    <3> DEFINE q == [s.peer[p] EXCEPT !.answered = TRUE]
               u == [s EXCEPT !.peer[p] = q]
               v == [u EXCEPT !.gotAnswer = TRUE]
    <3>1. s.peer[p] \in PeerObject
      BY <2>2, ObjectType
    <3>2. q \in PeerObject
      BY <3>1 DEF PeerObject
    <3>3. t = v
      BY <2>2 DEF Good, Members
    <3> HIDE DEF q
    <3>4. Good(u)
      BY <2>2, <3>2, ObjectGood
    <3> HIDE DEF u
    <3>5. /\ v \in Members /\ v.started = u.started /\ v.pending = u.pending
          /\ v.current = u.current /\ v.retry = u.retry
          /\ v.streamClosed = u.streamClosed /\ v.pendingTimeout = u.pendingTimeout
      BY <3>4 DEF Good, Members
    <3> HIDE DEF v
    <3>6. Good(v)
      BY <3>4, <3>5, SameWay
    <3> QED
      BY <3>3, <3>6
  <2>4. /\ Becomes(s) \/ Becomes(DropPeer(s, p)) \/ Becomes(t) \/ Becomes(Fail(t, p))
        /\ UNCHANGED <<inbox, bridge>>
    BY <1>7 DEF BrokerReplies
  <2> HIDE DEF s, t
  <2> QED
    BY <1>1, <2>2, <2>3, <2>4, DropPeerGood, FailGood, BecomesIInv
<1>8. CASE Opened(p)
  <2> DEFINE o == [ses.peer[p] EXCEPT !.opened = TRUE]
             s == [ses EXCEPT !.peer[p].opened = TRUE]
  <2>1. o \in PeerObject /\ s = [ses EXCEPT !.peer[p] = o]
    BY <1>2 DEF PeerObject
  <2>2. Good(s)
    BY <1>4, <2>1
  <2>3. Becomes(OnPeerOpened(s, p)) /\ UNCHANGED <<inbox, bridge>>
    BY <1>8 DEF Opened
  <2> HIDE DEF s
  <2> QED
    BY <1>1, <2>2, <2>3, OnPeerOpenedGood, BecomesIInv
<1>9. CASE Closed(p)
  BY <1>1, <1>9, FailGood, BecomesIInv DEF Closed
<1>10. CASE Silence(p)
  BY <1>1, <1>10, DropPeerGood, BecomesIInv DEF Silence
<1>11. CASE \E fin, error \in BOOLEAN : Receive(p, fin, error)
  <2>1. PICK fin \in BOOLEAN, error \in BOOLEAN : Receive(p, fin, error)
    BY <1>11
  <2>2. /\ ses.current = p /\ inbox[p] # <<>> /\ UNCHANGED bridge
        /\ Becomes(OnPeerMessage(ses, Head(inbox[p]), fin, error))
        /\ inbox' = [inbox EXCEPT ![p] = Tail(@)]
    BY <2>1 DEF Receive
  <2>3. inbox[p] \in Seq(Nat)
    BY <1>1
  <2>4. Head(inbox[p]) \in Nat /\ Tail(inbox[p]) \in Seq(Nat)
    BY <2>2, <2>3
  <2>5. Good(OnPeerMessage(ses, Head(inbox[p]), fin, error))
    BY <1>1, <2>2, <2>4, OnPeerMessageGood
  <2>6. inbox' \in [Peer -> Seq(Nat)]
    BY <1>1, <2>2, <2>4
  <2> QED
    BY <1>1, <2>2, <2>5, <2>6, BecomesIInv
<1>12. CASE Delete(p)
  <2>1. NoObject \in PeerObject
    BY DEF NoObject, PeerObject, Kind
  <2>2. inbox' \in [Peer -> Seq(Nat)]
    BY <1>1, <1>12 DEF Delete
  <2> QED
    BY <1>5, <1>12, <2>1, <2>2 DEF Delete
<1>13. CASE ChannelUp(p)
  <2> DEFINE o == [ses.peer[p] EXCEPT !.channel = "up"]
  <2>1. o \in PeerObject
    BY <1>2 DEF PeerObject
  <2>2. [ses EXCEPT !.peer[p].channel = "up"] = [ses EXCEPT !.peer[p] = o]
    OBVIOUS
  <2> HIDE DEF o
  <2> QED
    BY <1>1, <1>5, <1>13, <2>1, <2>2 DEF ChannelUp
<1>14. CASE ChannelDown(p)
  <2> DEFINE o == [ses.peer[p] EXCEPT !.channel = IF @ = "new" THEN "failed" ELSE "broken"]
  <2>1. o \in PeerObject
    BY <1>2 DEF PeerObject
  <2>2. [ses EXCEPT !.peer[p].channel = IF @ = "new" THEN "failed" ELSE "broken"]
          = [ses EXCEPT !.peer[p] = o]
    OBVIOUS
  <2> HIDE DEF o
  <2> QED
    BY <1>1, <1>5, <1>14, <2>1, <2>2 DEF ChannelDown
<1>15. CASE BridgeReceives(p)
  <2>1. PICK una \in bridge .. ses.sndNxt :
          bridge' = una /\ inbox' = [inbox EXCEPT ![p] = Append(@, una)]
    BY <1>15 DEF BridgeReceives
  <2>2. una \in Nat
    BY <1>1 DEF Good, Members
  <2>3. inbox' \in [Peer -> Seq(Nat)]
    BY <1>1, <2>1, <2>2
  <2> QED
    BY <1>15, <2>1, <2>2, <2>3 DEF BridgeReceives, IInv, TypeOK
<1> QED
  BY <1>6, <1>7, <1>8, <1>9, <1>10, <1>11, <1>12, <1>13, <1>14, <1>15

LEMMA StepIInv == IInv /\ [Next]_vars => IInv'
<1> SUFFICES ASSUME IInv, [Next]_vars PROVE IInv'
  OBVIOUS
<1>1. CASE UNCHANGED vars
  BY <1>1 DEF vars, IInv, TypeOK, Way
<1>2. CASE Next
  BY <1>2, TimerIInv, PeerIInv DEF Next
<1> QED
  BY <1>1, <1>2

\* Every reachable state is well typed, for any number of Peer objects,
\* segments and buffered messages.
THEOREM TypeCorrect == Spec => []TypeOK
<1>1. IInv => TypeOK
  BY DEF IInv
<1> QED
  BY <1>1, InitIInv, StepIInv, PTL DEF Spec

\* A running stream always has one current peer, or one pending under an armed
\* timeout, or a retry timer, whatever fails in the middle of a handler.
THEOREM OnePeerOnTheWayHolds == Spec => []OnePeerOnTheWay
<1>1. IInv => OnePeerOnTheWay
  BY DEF IInv, Way, OnePeerOnTheWay
<1> QED
  BY <1>1, InitIInv, StepIInv, PTL DEF Spec

----------------------------------------------------------------------------
\* What the action properties rest on: the pending peer is a live object that
\* has not opened and is never the current one, and the broker's answer that
\* gotAnswer remembers is its own.
Objects(s) ==
    s.pending # NoPeer =>
        /\ s.current = NoPeer
        /\ s.peer[s.pending].exists = "yes"
        /\ ~s.peer[s.pending].opened
        /\ s.gotAnswer => s.peer[s.pending].answered

\* m_webRtcFailures knows how the last attempts failed.
Counted ==
    /\ Len(failed) <= 2
    /\ failed # <<>> =>
          IF failed[Len(failed)] = "WebSocket" THEN ses.webRtcFailures = 0
                                               ELSE ses.webRtcFailures >= 1
    /\ failed = <<"WebRtc", "WebRtc">> => ses.webRtcFailures >= 2

\* Nothing is acknowledged that the bridge has not received, and the running
\* probe waits for its own NOP.
Acked ==
    /\ ses.sndUna <= bridge
    /\ \A p \in Peer : \A i \in 1 .. Len(inbox[p]) : inbox[p][i] <= bridge
    /\ ses.probe => probed.nop = ses.probeSeq

SInv == Objects(ses) /\ Counted /\ Acked

----------------------------------------------------------------------------
\* What the methods do to the members that the action properties look at.

\* One attempt ends, begins or goes on, as far as the next attempt can tell.
GoesOn(s, t) ==
    /\ t.pending = s.pending /\ t.webRtcFailures = s.webRtcFailures
    /\ t.natType = s.natType

Loses(s, t) ==
    /\ s.pending # NoPeer /\ t.pending = NoPeer
    /\ t.webRtcFailures = FailedAttempt(s)
    /\ t.peer[s.pending].kind = s.peer[s.pending].kind
    /\ ~t.peer[s.pending].opened
    /\ t.natType = s.natType \/ t.peer[s.pending].answered

Opens(s, t) ==
    /\ s.pending # NoPeer /\ t.pending = NoPeer
    /\ t.peer[s.pending].opened /\ t.natType = s.natType

Begins(s, t) ==
    /\ s.pending = NoPeer /\ ~s.streamClosed /\ t.pending # NoPeer
    /\ t.peer[t.pending].kind = NextKind(s)
    /\ t.webRtcFailures = s.webRtcFailures /\ t.natType = s.natType

Evolves(s, t) == GoesOn(s, t) \/ Loses(s, t) \/ Opens(s, t) \/ Begins(s, t)

\* No probe starts, and one that ends leaves no current peer.
Watches(s, t) ==
    /\ t.probe => s.probe /\ t.probeSeq = s.probeSeq
    /\ s.probe /\ ~t.probe => t.current = NoPeer

Moves(s, t) == Objects(t) /\ Evolves(s, t) /\ t.sndUna = s.sndUna /\ Watches(s, t)

\* Members that begin, end and watch an attempt in the same way.
Akin(s, t) ==
    /\ t.pending = s.pending /\ t.webRtcFailures = s.webRtcFailures
    /\ t.natType = s.natType /\ t.streamClosed = s.streamClosed
    /\ t.sndUna = s.sndUna /\ t.probe = s.probe /\ t.probeSeq = s.probeSeq
    /\ s.pending # NoPeer => t.peer[s.pending].kind = s.peer[s.pending].kind

\* Members that the action properties cannot tell apart.
Alike(s, t) ==
    /\ t.pending = s.pending /\ t.current = s.current
    /\ t.webRtcFailures = s.webRtcFailures
    /\ t.natType = s.natType /\ t.gotAnswer = s.gotAnswer
    /\ t.sndUna = s.sndUna /\ t.probe = s.probe /\ t.probeSeq = s.probeSeq
    /\ s.pending # NoPeer =>
         /\ t.peer[s.pending].kind = s.peer[s.pending].kind
         /\ t.peer[s.pending].exists = s.peer[s.pending].exists
         /\ t.peer[s.pending].opened = s.peer[s.pending].opened
         /\ t.peer[s.pending].answered = s.peer[s.pending].answered

LEMMA AlikeMoves ==
    ASSUME NEW s, Objects(s), NEW t, Alike(s, t)
    PROVE  Objects(t) /\ Moves(s, t)
BY DEF Objects, Moves, Evolves, GoesOn, Watches, Alike

LEMMA AlikeAkin ==
    ASSUME NEW s, NEW t, Alike(s, t), t.streamClosed = s.streamClosed
    PROVE  Akin(s, t)
BY DEF Alike, Akin

LEMMA MovesFromAkin ==
    ASSUME NEW s, NEW d, Akin(s, d), NEW t, Moves(d, t)
    PROVE  Moves(s, t)
<1>1. s.pending # NoPeer => FailedAttempt(d) = FailedAttempt(s)
  BY DEF Akin, FailedAttempt, PendingIsWebSocket
<1>2. NextKind(d) = NextKind(s)
  BY DEF Akin, NextKind
<1> QED
  BY <1>1, <1>2 DEF Akin, Moves, Evolves, GoesOn, Loses, Opens, Begins, Watches

\* A peer is dropped: the attempt failed, or the current peer is lost, or
\* nothing happens.
Dropped(s, t, p) ==
    /\ t.streamClosed = s.streamClosed /\ t.gotAnswer = s.gotAnswer
    /\ t.sndNxt = s.sndNxt /\ t.sndUna = s.sndUna
    /\ \A q \in Peer : /\ t.peer[q].kind = s.peer[q].kind
                       /\ t.peer[q].opened = s.peer[q].opened
                       /\ t.peer[q].answered = s.peer[q].answered
                       /\ q # p => t.peer[q].exists = s.peer[q].exists
    /\ p = s.pending =>
         /\ t.pending = NoPeer /\ t.current = s.current
         /\ t.webRtcFailures = FailedAttempt(s)
         /\ t.natType = s.natType \/ s.gotAnswer
         /\ t.probe = s.probe /\ t.probeSeq = s.probeSeq
    /\ p # s.pending =>
         /\ t.pending = s.pending /\ t.webRtcFailures = s.webRtcFailures
         /\ t.natType = s.natType
         /\ p = s.current => t.current = NoPeer /\ ~t.probe
         /\ p # s.current => /\ t.current = s.current
                             /\ t.probe = s.probe /\ t.probeSeq = s.probeSeq

\* Another object for p, which Dropped does not tell from the old one.
LEMMA ObjectFields ==
    ASSUME NEW s \in Members, NEW p \in Peer, NEW o \in PeerObject,
           o.kind = s.peer[p].kind, o.opened = s.peer[p].opened,
           o.answered = s.peer[p].answered
    PROVE  LET d == [s EXCEPT !.peer[p] = o] IN
           /\ d \in Members
           /\ d.streamClosed = s.streamClosed /\ d.gotAnswer = s.gotAnswer
           /\ d.sndNxt = s.sndNxt /\ d.sndUna = s.sndUna
           /\ d.pending = s.pending /\ d.current = s.current
           /\ d.webRtcFailures = s.webRtcFailures /\ d.natType = s.natType
           /\ d.probe = s.probe /\ d.probeSeq = s.probeSeq
           /\ d.peer[p] = o
           /\ \A q \in Peer : /\ d.peer[q].kind = s.peer[q].kind
                              /\ d.peer[q].opened = s.peer[q].opened
                              /\ d.peer[q].answered = s.peer[q].answered
                              /\ q # p => d.peer[q] = s.peer[q]
<1> DEFINE f == [s.peer EXCEPT ![p] = o]
           d == [s EXCEPT !.peer = f]
<1>1. /\ f \in [Peer -> PeerObject] /\ f[p] = o
      /\ \A q \in Peer : q # p => f[q] = s.peer[q]
  BY DEF Members
<1>2. \A q \in Peer : /\ f[q].kind = s.peer[q].kind /\ f[q].opened = s.peer[q].opened
                      /\ f[q].answered = s.peer[q].answered
  BY <1>1
<1> HIDE DEF f
<1>3. /\ d \in Members /\ d.peer = f
      /\ d.streamClosed = s.streamClosed /\ d.gotAnswer = s.gotAnswer
      /\ d.sndNxt = s.sndNxt /\ d.sndUna = s.sndUna
      /\ d.pending = s.pending /\ d.current = s.current
      /\ d.webRtcFailures = s.webRtcFailures /\ d.natType = s.natType
      /\ d.probe = s.probe /\ d.probeSeq = s.probeSeq
  BY <1>1 DEF Members
<1>4. d = [s EXCEPT !.peer[p] = o]
  BY DEF f
<1> HIDE DEF d
<1> QED
  BY <1>1, <1>2, <1>3, <1>4

LEMMA DropPeerDropped ==
    ASSUME NEW s \in Members, NEW p \in Peer
    PROVE  Dropped(s, DropPeer(s, p), p)
<1> DEFINE o == [s.peer[p] EXCEPT !.exists = "deleteLater", !.channel = "new"]
           d == [s EXCEPT !.peer[p] = o]
<1>1. /\ o \in PeerObject /\ o.kind = s.peer[p].kind /\ o.opened = s.peer[p].opened
      /\ o.answered = s.peer[p].answered
  <2>1. s.peer[p] \in PeerObject
    BY DEF Members
  <2> QED
    BY <2>1 DEF PeerObject
<1>2. DropPeer(s, p) = IF p = s.pending THEN AttemptFailed(d)
                       ELSE IF p = s.current THEN CurrentLost(d) ELSE d
  <2>1. [s EXCEPT !.peer[p].exists = "deleteLater", !.peer[p].channel = "new"] = d
    BY DEF Members, PeerObject
  <2> QED
    BY <2>1 DEF DropPeer
<1> HIDE DEF o
<1>3. /\ d \in Members
      /\ d.streamClosed = s.streamClosed /\ d.gotAnswer = s.gotAnswer
      /\ d.sndNxt = s.sndNxt /\ d.sndUna = s.sndUna
      /\ d.pending = s.pending /\ d.current = s.current
      /\ d.webRtcFailures = s.webRtcFailures /\ d.natType = s.natType
      /\ d.probe = s.probe /\ d.probeSeq = s.probeSeq
      /\ \A q \in Peer : /\ d.peer[q].kind = s.peer[q].kind
                         /\ d.peer[q].opened = s.peer[q].opened
                         /\ d.peer[q].answered = s.peer[q].answered
                         /\ q # p => d.peer[q] = s.peer[q]
  BY <1>1, ObjectFields
<1> HIDE DEF d
<1>4. CASE p = s.pending
  <2>1. FailedAttempt(d) = FailedAttempt(s)
    BY <1>3, <1>4 DEF FailedAttempt, PendingIsWebSocket
  <2>2. DropPeer(s, p) = AttemptFailed(d)
    BY <1>2, <1>4
  <2> DEFINE e == [d EXCEPT !.pending = NoPeer, !.pendingTimeout = FALSE,
                            !.webRtcFailures = FailedAttempt(d),
                            !.natType = IF d.gotAnswer THEN "unknown" ELSE @]
             t == RetryPeerLater(e, "later")
  <2>3. /\ e.peer = d.peer /\ e.streamClosed = d.streamClosed /\ e.gotAnswer = d.gotAnswer
        /\ e.sndNxt = d.sndNxt /\ e.sndUna = d.sndUna
        /\ e.pending = NoPeer /\ e.current = d.current
        /\ e.webRtcFailures = FailedAttempt(d) /\ (e.natType = d.natType \/ d.gotAnswer)
        /\ e.probe = d.probe /\ e.probeSeq = d.probeSeq /\ e \in Members
    BY <1>3, FailedAttemptType DEF Members, MaybePeer
  <2> HIDE DEF e
  <2>4. /\ t.peer = e.peer /\ t.streamClosed = e.streamClosed /\ t.gotAnswer = e.gotAnswer
        /\ t.sndNxt = e.sndNxt /\ t.sndUna = e.sndUna
        /\ t.pending = e.pending /\ t.current = e.current
        /\ t.webRtcFailures = e.webRtcFailures /\ t.natType = e.natType
        /\ t.probe = e.probe /\ t.probeSeq = e.probeSeq
    BY <2>3 DEF RetryPeerLater, Members
  <2>5. DropPeer(s, p) = t
    BY <2>2 DEF AttemptFailed, e
  <2> HIDE DEF t
  <2> QED
    BY <1>3, <1>4, <2>1, <2>3, <2>4, <2>5 DEF Dropped
<1>5. CASE p # s.pending /\ p = s.current
  <2> DEFINE e == [StopProbe(d) EXCEPT !.current = NoPeer]
             t == RetryPeerLater(e, "now")
  <2>1. /\ e.peer = d.peer /\ e.streamClosed = d.streamClosed /\ e.gotAnswer = d.gotAnswer
        /\ e.sndNxt = d.sndNxt /\ e.sndUna = d.sndUna
        /\ e.pending = d.pending /\ e.current = NoPeer
        /\ e.webRtcFailures = d.webRtcFailures /\ e.natType = d.natType
        /\ ~e.probe /\ e \in Members
    BY <1>3 DEF Members, MaybePeer, StopProbe
  <2> HIDE DEF e
  <2>2. /\ t.peer = e.peer /\ t.streamClosed = e.streamClosed /\ t.gotAnswer = e.gotAnswer
        /\ t.sndNxt = e.sndNxt /\ t.sndUna = e.sndUna
        /\ t.pending = e.pending /\ t.current = e.current
        /\ t.webRtcFailures = e.webRtcFailures /\ t.natType = e.natType
        /\ t.probe = e.probe
    BY <2>1 DEF RetryPeerLater, Members
  <2>3. DropPeer(s, p) = t
    BY <1>2, <1>5 DEF CurrentLost, e
  <2> HIDE DEF t
  <2> QED
    BY <1>3, <1>5, <2>1, <2>2, <2>3 DEF Dropped
<1>6. CASE p # s.pending /\ p # s.current
  <2>1. DropPeer(s, p) = d
    BY <1>2, <1>6
  <2> QED
    BY <1>3, <1>6, <2>1 DEF Dropped
<1> QED
  BY <1>4, <1>5, <1>6

LEMMA FailDropped ==
    ASSUME NEW s \in Members, NEW p \in Peer
    PROVE  Fail(s, p) = s \/ Dropped(s, Fail(s, p), p)
<1> DEFINE o == [s.peer[p] EXCEPT !.closed = TRUE]
           d == [s EXCEPT !.peer[p] = o]
<1>1. /\ o \in PeerObject /\ o.kind = s.peer[p].kind /\ o.opened = s.peer[p].opened
      /\ o.answered = s.peer[p].answered /\ o.exists = s.peer[p].exists
  <2>1. s.peer[p] \in PeerObject
    BY DEF Members
  <2> QED
    BY <2>1 DEF PeerObject
<1>2. Fail(s, p) = s \/ Fail(s, p) = DropPeer(d, p)
  <2>1. [s EXCEPT !.peer[p].closed = TRUE] = d
    BY DEF Members, PeerObject
  <2> QED
    BY <2>1 DEF Fail
<1> HIDE DEF o
<1>3. /\ d \in Members
      /\ d.streamClosed = s.streamClosed /\ d.gotAnswer = s.gotAnswer
      /\ d.sndNxt = s.sndNxt /\ d.sndUna = s.sndUna
      /\ d.pending = s.pending /\ d.current = s.current
      /\ d.webRtcFailures = s.webRtcFailures /\ d.natType = s.natType
      /\ d.probe = s.probe /\ d.probeSeq = s.probeSeq
      /\ \A q \in Peer : /\ d.peer[q].kind = s.peer[q].kind
                         /\ d.peer[q].opened = s.peer[q].opened
                         /\ d.peer[q].answered = s.peer[q].answered
                         /\ q # p => d.peer[q] = s.peer[q]
  BY <1>1, ObjectFields
<1> HIDE DEF d
<1>4. p = s.pending => FailedAttempt(d) = FailedAttempt(s)
  BY <1>3 DEF FailedAttempt, PendingIsWebSocket
<1>5. Dropped(d, DropPeer(d, p), p)
  BY <1>3, DropPeerDropped
<1>6. Dropped(s, DropPeer(d, p), p)
  BY <1>3, <1>4, <1>5 DEF Dropped
<1> QED
  BY <1>2, <1>6

LEMMA SendDropped ==
    ASSUME NEW s \in Members
    PROVE  Send(s) = s \/ (s.current \in Peer /\ Dropped(s, Send(s), s.current))
<1>1. s.current # NoPeer => s.current \in Peer
  BY DEF Members, MaybePeer
<1>2. s.current \in Peer =>
        Fail(s, s.current) = s \/ Dropped(s, Fail(s, s.current), s.current)
  BY FailDropped
<1>3. Send(s) = s \/ (s.current # NoPeer /\ Send(s) = Fail(s, s.current))
  BY DEF Send
<1> QED
  BY <1>1, <1>2, <1>3

LEMMA DroppedMoves ==
    ASSUME NEW s \in Members, Objects(s), NEW p \in Peer, NEW t, Dropped(s, t, p)
    PROVE  Objects(t) /\ Moves(s, t)
<1>1. s.pending # NoPeer => s.pending \in Peer
  BY DEF Members, MaybePeer
<1>2. CASE p = s.pending
  <2>1. Objects(t)
    BY <1>2 DEF Objects, Dropped
  <2>2. Loses(s, t)
    BY <1>2, PeerAssumption DEF Objects, Dropped, Loses
  <2> QED
    BY <1>2, <2>1, <2>2 DEF Moves, Evolves, Watches, Dropped
<1>3. CASE p # s.pending
  <2>1. Objects(t)
    BY <1>1, <1>3 DEF Objects, Dropped
  <2>2. GoesOn(s, t)
    BY <1>3 DEF Dropped, GoesOn
  <2>3. Watches(s, t)
    BY <1>3 DEF Dropped, Watches
  <2> QED
    BY <2>1, <2>2, <2>3 DEF Moves, Evolves, Dropped
<1> QED
  BY <1>2, <1>3

LEMMA SendMoves ==
    ASSUME NEW s \in Members, Objects(s)
    PROVE  Objects(Send(s)) /\ Moves(s, Send(s))
<1>1. Alike(s, s)
  BY DEF Alike
<1> QED
  BY <1>1, SendDropped, DroppedMoves, AlikeMoves

\* A KCP segment more, and the current peer sends.
LEMMA SegmentMoves ==
    ASSUME NEW s, Good(s), Objects(s)
    PROVE  LET d == Send([s EXCEPT !.sndNxt = @ + 1]) IN
           Objects(d) /\ Moves(s, d) /\ d.sndNxt = s.sndNxt + 1 /\ d \in Members
<1> DEFINE n == [s EXCEPT !.sndNxt = @ + 1]
<1>1. Good(n) /\ n \in Members
  BY SegmentGood DEF Good
<1>2. Alike(s, n) /\ n.streamClosed = s.streamClosed /\ n.sndNxt = s.sndNxt + 1
  BY DEF Alike, Good, Members
<1> HIDE DEF n
<1>3. Objects(n) /\ Akin(s, n)
  BY <1>2, AlikeMoves, AlikeAkin
<1>4. Objects(Send(n)) /\ Moves(s, Send(n))
  BY <1>1, <1>3, SendMoves, MovesFromAkin
<1>5. Send(n).sndNxt = n.sndNxt
  BY <1>1, SendDropped DEF Dropped
<1>6. Send(n) \in Members
  BY <1>1, SendGood DEF Good
<1> QED
  BY <1>2, <1>4, <1>5, <1>6 DEF n

LEMMA RequestPeerMoves ==
    ASSUME NEW s \in Members, Objects(s), NEW p \in Peer
    PROVE  Moves(s, RequestPeer(s, p))
<1>1. CASE ~StreamNeedsPeer(s)
  <2>1. Alike(s, s)
    BY DEF Alike
  <2> QED
    BY <1>1, <2>1, AlikeMoves DEF RequestPeer
<1>2. CASE StreamNeedsPeer(s)
  <2> DEFINE o == [NoObject EXCEPT !.kind = NextKind(s), !.exists = "yes"]
             f == [s.peer EXCEPT ![p] = o]
             d == [s EXCEPT !.peer = f, !.pending = p, !.pendingTimeout = TRUE,
                            !.gotAnswer = FALSE]
  <2>1. o.kind = NextKind(s) /\ o.exists = "yes" /\ ~o.opened
    BY DEF NoObject
  <2>2. f[p] = o
    BY DEF Members
  <2>3. RequestPeer(s, p) = d
    BY <1>2 DEF RequestPeer, NewAttempt
  <2> HIDE DEF o, f
  <2>4. /\ d.pending = p /\ d.current = s.current /\ d.peer = f
        /\ d.webRtcFailures = s.webRtcFailures /\ d.natType = s.natType
        /\ d.sndUna = s.sndUna /\ d.probe = s.probe /\ d.probeSeq = s.probeSeq
    BY DEF Members
  <2>5. ~d.gotAnswer
    BY DEF Members
  <2> HIDE DEF d
  <2>6. Objects(d)
    BY <1>2, <2>1, <2>2, <2>4, <2>5 DEF Objects, StreamNeedsPeer
  <2>7. Begins(s, d)
    BY <1>2, <2>1, <2>2, <2>4, PeerAssumption DEF Begins, StreamNeedsPeer
  <2> QED
    BY <2>3, <2>4, <2>6, <2>7 DEF Moves, Evolves, Watches
<1> QED
  BY <1>1, <1>2

\* A change of one Peer object that the properties do not look at.
LEMMA ObjectAlike ==
    ASSUME NEW s \in Members, NEW p \in Peer, NEW o \in PeerObject,
           p = s.pending => /\ o.kind = s.peer[p].kind /\ o.opened = s.peer[p].opened
                            /\ o.answered = s.peer[p].answered
                            /\ o.exists = s.peer[p].exists
    PROVE  LET d == [s EXCEPT !.peer[p] = o] IN
           /\ d \in Members /\ d.peer[p] = o
           /\ Alike(s, d) /\ d.streamClosed = s.streamClosed
<1> DEFINE f == [s.peer EXCEPT ![p] = o]
           d == [s EXCEPT !.peer = f]
<1>0. s.pending # NoPeer => s.pending \in Peer
  BY DEF Members, MaybePeer
<1>1. f \in [Peer -> PeerObject] /\ f[p] = o /\ \A q \in Peer : q # p => f[q] = s.peer[q]
  BY DEF Members
<1> HIDE DEF f
<1>2. /\ d \in Members /\ d.peer = f
      /\ d.streamClosed = s.streamClosed /\ d.gotAnswer = s.gotAnswer
      /\ d.sndUna = s.sndUna /\ d.pending = s.pending /\ d.current = s.current
      /\ d.webRtcFailures = s.webRtcFailures /\ d.natType = s.natType
      /\ d.probe = s.probe /\ d.probeSeq = s.probeSeq
  BY <1>1 DEF Members
<1>3. d = [s EXCEPT !.peer[p] = o]
  BY DEF f
<1> HIDE DEF d
<1>4. Alike(s, d)
  BY <1>0, <1>1, <1>2 DEF Alike
<1> QED
  BY <1>1, <1>2, <1>3, <1>4

----------------------------------------------------------------------------
\* The handlers.

\* A handler that becomes s, which the properties follow by Moves.
Handles == Becomes(ses') /\ Moves(ses, ses') /\ bridge' = bridge

LEMMA TimerMoves ==
    ASSUME IInv, Objects(ses),
           Start \/ RetryTimeout \/ PendingTimeout \/ ProbeTimeout \/ Tick \/ TorDisconnects
    PROVE  Handles /\ inbox' = inbox
<1>1. Good(ses) /\ ses \in Members
  BY DEF IInv, TypeOK, Good
<1>2. ASSUME NEW s, Becomes(s), Moves(ses, s), UNCHANGED <<inbox, bridge>>
      PROVE  Handles /\ inbox' = inbox
  BY <1>2 DEF Handles, Becomes
<1>3. CASE Start
  <2> DEFINE d == [ses EXCEPT !.started = TRUE, !.sndNxt = @ + 1]
  <2>1. PICK p \in Peer : Becomes(RequestPeer(d, p))
    BY <1>3 DEF Start
  <2>2. d \in Members
    BY <1>1, StartedFields
  <2>3. Alike(ses, d) /\ d.streamClosed = ses.streamClosed
    BY <1>1 DEF Alike, Members
  <2> HIDE DEF d
  <2>4. Moves(ses, RequestPeer(d, p))
    BY <2>2, <2>3, AlikeMoves, AlikeAkin, MovesFromAkin, RequestPeerMoves
  <2> QED
    BY <1>2, <1>3, <2>1, <2>4 DEF Start
<1>4. CASE RetryTimeout
  <2> DEFINE d == [ses EXCEPT !.retry = "off"]
  <2>1. PICK p \in Peer : Becomes(RequestPeer(d, p))
    BY <1>4 DEF RetryTimeout
  <2>2. d \in Members
    BY <1>1 DEF Members
  <2>3. Alike(ses, d) /\ d.streamClosed = ses.streamClosed
    BY <1>1 DEF Alike, Members
  <2> HIDE DEF d
  <2>4. Moves(ses, RequestPeer(d, p))
    BY <2>2, <2>3, AlikeMoves, AlikeAkin, MovesFromAkin, RequestPeerMoves
  <2> QED
    BY <1>2, <1>4, <2>1, <2>4 DEF RetryTimeout
<1>5. CASE PendingTimeout
  <2>1. ses.pending \in Peer
    BY <1>1, <1>5 DEF Good, Way, Members, MaybePeer, PendingTimeout
  <2>2. Moves(ses, DropPeer(ses, ses.pending))
    BY <1>1, <2>1, DropPeerDropped, DroppedMoves
  <2> QED
    BY <1>2, <1>5, <2>2 DEF PendingTimeout
<1>6. CASE ProbeTimeout
  <2> DEFINE s == StopProbe(ses)
  <2>1. /\ s \in Members /\ s.peer = ses.peer
        /\ s.streamClosed = ses.streamClosed /\ s.gotAnswer = ses.gotAnswer
        /\ s.sndUna = ses.sndUna /\ s.pending = ses.pending /\ s.current = ses.current
        /\ s.webRtcFailures = ses.webRtcFailures /\ s.natType = ses.natType
        /\ ~s.probe
    BY <1>1 DEF Members, StopProbe
  <2>2. Becomes(IF s.current = NoPeer THEN s ELSE DropPeer(s, s.current))
    BY <1>6 DEF ProbeTimeout
  <2> HIDE DEF s
  <2>3. Objects(s)
    BY <2>1 DEF Objects
  <2>4. CASE s.current = NoPeer
    <3>1. Moves(ses, s)
      BY <2>1, <2>3, <2>4 DEF Moves, Evolves, GoesOn, Watches
    <3> QED
      BY <1>2, <1>6, <2>2, <2>4, <3>1 DEF ProbeTimeout
  <2>5. CASE s.current # NoPeer
    <3> DEFINE t == DropPeer(s, s.current)
    <3>1. s.current \in Peer /\ s.pending = NoPeer
      BY <2>1, <2>3, <2>5 DEF Members, MaybePeer, Objects
    <3>2. Dropped(s, t, s.current)
      BY <2>1, <3>1, DropPeerDropped
    <3> HIDE DEF t
    <3>3. /\ t.pending = NoPeer /\ t.current = NoPeer /\ ~t.probe
          /\ t.webRtcFailures = s.webRtcFailures /\ t.natType = s.natType
          /\ t.sndUna = s.sndUna
      BY <2>5, <3>1, <3>2 DEF Dropped
    <3>4. Moves(ses, t)
      BY <2>1, <3>1, <3>3 DEF Moves, Objects, Evolves, GoesOn, Watches
    <3> QED
      BY <1>2, <1>6, <2>2, <2>5, <3>4 DEF ProbeTimeout, t
  <2> QED
    BY <2>4, <2>5
<1>7. CASE Tick
  <2>1. Alike(ses, ses)
    BY DEF Alike
  <2>2. Moves(ses, ses) /\ Moves(ses, Send(ses))
    BY <1>1, <2>1, AlikeMoves, SendMoves
  <2>3. Moves(ses, Send([ses EXCEPT !.sndNxt = @ + 1]))
    BY <1>1, SegmentMoves
  <2> QED
    BY <1>2, <1>7, <2>2, <2>3 DEF Tick, Flush
<1>8. CASE TorDisconnects
  <2> DEFINE d == CloseFromTor(ses)
  <2>1. Alike(ses, d)
    BY <1>1 DEF CloseFromTor, Alike, Members
  <2> HIDE DEF d
  <2>2. Moves(ses, d)
    BY <2>1, AlikeMoves
  <2> QED
    BY <1>2, <1>8, <2>2 DEF TorDisconnects, d
<1> QED
  BY <1>3, <1>4, <1>5, <1>6, <1>7, <1>8

LEMMA OpenedMoves ==
    ASSUME IInv, Objects(ses), NEW p \in Peer, Opened(p)
    PROVE  Handles
<1>1. Good(ses) /\ ses \in Members
  BY DEF IInv, TypeOK, Good
<1> DEFINE o == [ses.peer[p] EXCEPT !.opened = TRUE]
           s == [ses EXCEPT !.peer[p] = o]
<1>2. ses.peer[p] \in PeerObject
  BY <1>1 DEF Members
<1>3. /\ o \in PeerObject /\ o.opened /\ o.kind = ses.peer[p].kind
      /\ o.answered = ses.peer[p].answered /\ o.exists = ses.peer[p].exists
  BY <1>2 DEF PeerObject
<1>4. Becomes(OnPeerOpened(s, p)) /\ bridge' = bridge
  <2>1. [ses EXCEPT !.peer[p].opened = TRUE] = s
    OBVIOUS
  <2> QED
    BY <2>1 DEF Opened
<1> HIDE DEF o
<1>5. CASE p # ses.pending
  <2>1. /\ Alike(ses, s) /\ s.pending = ses.pending
    BY <1>1, <1>3, <1>5, ObjectAlike DEF Alike
  <2> HIDE DEF s
  <2>2. OnPeerOpened(s, p) = s
    BY <1>5, <2>1 DEF OnPeerOpened
  <2> QED
    BY <1>4, <2>1, <2>2, AlikeMoves DEF Handles, Becomes
<1>6. CASE p = ses.pending
  <2> DEFINE f == [ses.peer EXCEPT ![p] = o]
             n == IF PendingIsWebSocket(s) THEN s.webRtcFailures ELSE 0
             d == [s EXCEPT !.pending = NoPeer, !.pendingTimeout = FALSE, !.current = p,
                            !.webRtcFailures = n]
  <2>1. f \in [Peer -> PeerObject] /\ f[p].opened
    BY <1>1, <1>3 DEF Members
  <2>2. s = [ses EXCEPT !.peer = f]
    OBVIOUS
  <2> HIDE DEF f, s
  <2>3. /\ s \in Members /\ s.peer = f /\ s.natType = ses.natType
        /\ s.pending = ses.pending
        /\ s.sndUna = ses.sndUna /\ s.probe = ses.probe /\ s.probeSeq = ses.probeSeq
    BY <1>1, <2>1, <2>2 DEF Members
  <2>4. n \in 0 .. WebRtcAttempts
    BY <2>3 DEF Members, WebRtcAttempts
  <2>5. OnPeerOpened(s, p) = Send(d)
    BY <1>6, <2>3 DEF OnPeerOpened
  <2> HIDE DEF n
  <2>6. /\ d \in Members /\ d.peer = f /\ d.natType = ses.natType
        /\ d.pending = NoPeer /\ d.current = p
        /\ d.sndUna = ses.sndUna /\ d.probe = ses.probe /\ d.probeSeq = ses.probeSeq
    BY <2>3, <2>4 DEF Members, MaybePeer
  <2> HIDE DEF d
  <2> DEFINE t == Send(d)
  <2>7. t = d \/ Dropped(d, t, p)
    BY <2>6, SendDropped
  <2> HIDE DEF t
  <2>8. /\ t.pending = NoPeer /\ t.natType = ses.natType /\ t.sndUna = ses.sndUna
        /\ t.peer[p].opened
        /\ \/ t.probe = ses.probe /\ t.probeSeq = ses.probeSeq
           \/ ~t.probe /\ t.current = NoPeer
    BY <2>1, <2>6, <2>7, PeerAssumption DEF Dropped
  <2>9. Moves(ses, t)
    BY <1>6, <2>8, PeerAssumption DEF Moves, Objects, Evolves, Opens, Watches
  <2> QED
    BY <1>4, <2>5, <2>9 DEF Handles, Becomes, t
<1> QED
  BY <1>5, <1>6

LEMMA BrokerMoves ==
    ASSUME IInv, Objects(ses), NEW p \in Peer, BrokerReplies(p)
    PROVE  Handles
<1>1. Good(ses) /\ ses \in Members
  BY DEF IInv, TypeOK, Good
<1>2. ses.peer[p] \in PeerObject
  BY <1>1 DEF Members
<1> DEFINE o == [ses.peer[p] EXCEPT !.asked = FALSE]
           s == [ses EXCEPT !.peer[p] = o]
           a == [o EXCEPT !.answered = TRUE]
           f == [ses.peer EXCEPT ![p] = a]
           t == [ses EXCEPT !.gotAnswer = TRUE, !.peer = f]
<1>3. /\ o \in PeerObject /\ o.opened = ses.peer[p].opened /\ o.kind = ses.peer[p].kind
      /\ o.answered = ses.peer[p].answered /\ o.exists = ses.peer[p].exists
  BY <1>2 DEF PeerObject
<1>4. /\ a \in PeerObject /\ a.opened = ses.peer[p].opened /\ a.kind = ses.peer[p].kind
      /\ a.answered /\ a.exists = ses.peer[p].exists
  BY <1>2 DEF PeerObject
<1>5. [s EXCEPT !.gotAnswer = TRUE, !.peer[p].answered = TRUE] = t
  BY <1>1, <1>2 DEF Members, PeerObject
<1>6. /\ bridge' = bridge
      /\ \/ p # ses.pending /\ Becomes(s)
         \/ p = ses.pending /\ (Becomes(DropPeer(s, p)) \/ Becomes(t) \/ Becomes(Fail(t, p)))
  <2>1. [ses EXCEPT !.peer[p].asked = FALSE] = s
    OBVIOUS
  <2> QED
    BY <1>5, <2>1 DEF BrokerReplies
<1> HIDE DEF o
<1>7. s \in Members /\ Alike(ses, s) /\ s.streamClosed = ses.streamClosed
  BY <1>1, <1>3, ObjectAlike
<1> HIDE DEF s, a
<1>8. CASE Becomes(s)
  BY <1>6, <1>7, <1>8, AlikeMoves DEF Handles, Becomes
<1>9. CASE Becomes(DropPeer(s, p))
  <2>1. Objects(s) /\ Akin(ses, s)
    BY <1>7, AlikeMoves, AlikeAkin
  <2>2. Moves(ses, DropPeer(s, p))
    BY <1>7, <2>1, DropPeerDropped, DroppedMoves, MovesFromAkin
  <2> QED
    BY <1>6, <1>9, <2>2 DEF Handles, Becomes
<1>10. CASE p = ses.pending /\ (Becomes(t) \/ Becomes(Fail(t, p)))
  <2>1. f \in [Peer -> PeerObject] /\ f[p] = a
    BY <1>1, <1>4 DEF Members
  <2> HIDE DEF f
  <2>2. /\ t \in Members /\ t.peer = f /\ t.streamClosed = ses.streamClosed
        /\ t.sndUna = ses.sndUna /\ t.pending = ses.pending /\ t.current = ses.current
        /\ t.webRtcFailures = ses.webRtcFailures /\ t.natType = ses.natType
        /\ t.probe = ses.probe /\ t.probeSeq = ses.probeSeq
    BY <1>1, <2>1 DEF Members
  <2> HIDE DEF t
  <2>3. Objects(t)
    BY <1>4, <1>10, <2>1, <2>2 DEF Objects
  <2>4. Akin(ses, t)
    BY <1>4, <1>10, <2>1, <2>2 DEF Akin
  <2>5. Moves(ses, t)
    BY <2>2, <2>3 DEF Moves, Evolves, GoesOn, Watches
  <2>6. Moves(ses, Fail(t, p))
    BY <2>2, <2>3, <2>4, <2>5, FailDropped, DroppedMoves, MovesFromAkin
  <2> QED
    BY <1>6, <1>10, <2>5, <2>6 DEF Handles, Becomes
<1> QED
  BY <1>6, <1>8, <1>9, <1>10

\* The other handlers of one peer, but for Receive.
LEMMA PeerMoves ==
    ASSUME IInv, Objects(ses), NEW p \in Peer,
           OfferReady(p) \/ Closed(p) \/ Silence(p) \/ Delete(p) \/ ChannelUp(p)
           \/ ChannelDown(p)
    PROVE  Handles
<1>1. Good(ses) /\ ses \in Members
  BY DEF IInv, TypeOK, Good
<1>2. ses.peer[p] \in PeerObject
  BY <1>1 DEF Members
<1>3. ASSUME NEW o \in PeerObject, Becomes([ses EXCEPT !.peer[p] = o]), bridge' = bridge,
             p = ses.pending => /\ o.kind = ses.peer[p].kind
                                /\ o.opened = ses.peer[p].opened
                                /\ o.answered = ses.peer[p].answered
                                /\ o.exists = ses.peer[p].exists
      PROVE  Handles
  <2> DEFINE d == [ses EXCEPT !.peer[p] = o]
  <2>1. Alike(ses, d)
    BY <1>1, <1>3, ObjectAlike
  <2> HIDE DEF d
  <2>2. Moves(ses, d)
    BY <2>1, AlikeMoves
  <2> QED
    BY <1>3, <2>2 DEF Handles, Becomes, d
<1>4. CASE OfferReady(p)
  <2> DEFINE o == [ses.peer[p] EXCEPT !.asked = TRUE]
  <2>1. /\ o \in PeerObject /\ o.opened = ses.peer[p].opened /\ o.kind = ses.peer[p].kind
        /\ o.answered = ses.peer[p].answered /\ o.exists = ses.peer[p].exists
    BY <1>2 DEF PeerObject
  <2>2. [ses EXCEPT !.peer[p].asked = TRUE] = [ses EXCEPT !.peer[p] = o]
    OBVIOUS
  <2> HIDE DEF o
  <2> QED
    BY <1>3, <1>4, <2>1, <2>2 DEF OfferReady
<1>5. CASE Closed(p)
  <2>1. Alike(ses, ses)
    BY DEF Alike
  <2>2. Moves(ses, Fail(ses, p))
    BY <1>1, <2>1, FailDropped, DroppedMoves, AlikeMoves
  <2> QED
    BY <1>5, <2>2 DEF Closed, Handles, Becomes
<1>6. CASE Silence(p)
  <2>1. Moves(ses, DropPeer(ses, p))
    BY <1>1, DropPeerDropped, DroppedMoves
  <2> QED
    BY <1>6, <2>1 DEF Silence, Handles, Becomes
<1>7. CASE Delete(p)
  <2>1. NoObject \in PeerObject
    BY DEF NoObject, PeerObject, Kind
  <2>2. p # ses.pending
    BY <1>7, PeerAssumption DEF Delete, Objects
  <2> QED
    BY <1>3, <1>7, <2>1, <2>2 DEF Delete
<1>8. CASE ChannelUp(p)
  <2> DEFINE o == [ses.peer[p] EXCEPT !.channel = "up"]
  <2>1. /\ o \in PeerObject /\ o.opened = ses.peer[p].opened /\ o.kind = ses.peer[p].kind
        /\ o.answered = ses.peer[p].answered /\ o.exists = ses.peer[p].exists
    BY <1>2 DEF PeerObject
  <2>2. [ses EXCEPT !.peer[p].channel = "up"] = [ses EXCEPT !.peer[p] = o]
    OBVIOUS
  <2> HIDE DEF o
  <2> QED
    BY <1>3, <1>8, <2>1, <2>2 DEF ChannelUp
<1>9. CASE ChannelDown(p)
  <2> DEFINE o == [ses.peer[p] EXCEPT !.channel = IF @ = "new" THEN "failed" ELSE "broken"]
  <2>1. /\ o \in PeerObject /\ o.opened = ses.peer[p].opened /\ o.kind = ses.peer[p].kind
        /\ o.answered = ses.peer[p].answered /\ o.exists = ses.peer[p].exists
    BY <1>2 DEF PeerObject
  <2>2. [ses EXCEPT !.peer[p].channel = IF @ = "new" THEN "failed" ELSE "broken"]
          = [ses EXCEPT !.peer[p] = o]
    OBVIOUS
  <2> HIDE DEF o
  <2> QED
    BY <1>3, <1>9, <2>1, <2>2 DEF ChannelDown
<1> QED
  BY <1>4, <1>5, <1>6, <1>7, <1>8, <1>9

----------------------------------------------------------------------------
\* The properties, step by step.

\* The step formulas of the four action properties.
Safe ==
    /\ ses.streamClosed => ses'.pending \in {ses.pending, NoPeer}
    /\ ses'.natType # ses.natType => ses.pending # NoPeer /\ ses'.peer[ses.pending].answered
    /\ (ses'.pending # NoPeer /\ ses'.pending # ses.pending) =>
         LET kind == ses'.peer[ses'.pending].kind IN
         /\ failed = <<"WebRtc", "WebRtc">> => (kind = "WebSocket" <=> Browser)
         /\ (failed # <<>> /\ failed[Len(failed)] = "WebSocket") => kind = "WebRtc"

Alive == (ses.probe /\ ~ses'.probe /\ ses'.current # NoPeer) => bridge >= probed.nop

LEMMA EvolvesSafe ==
    ASSUME TypeOK, Counted, Evolves(ses, ses')
    PROVE  Safe
<1>1. CASE GoesOn(ses, ses') \/ Loses(ses, ses') \/ Opens(ses, ses')
  BY <1>1 DEF GoesOn, Loses, Opens, Safe
<1>2. CASE Begins(ses, ses')
  <2> DEFINE kind == ses'.peer[ses'.pending].kind
  <2>1. kind = NextKind(ses) /\ ~ses.streamClosed /\ ses'.natType = ses.natType
    BY <1>2 DEF Begins
  <2>2. failed = <<"WebRtc", "WebRtc">> => (kind = "WebSocket" <=> Browser)
    <3> SUFFICES ASSUME failed = <<"WebRtc", "WebRtc">>
                 PROVE  kind = "WebSocket" <=> Browser
      OBVIOUS
    <3>1. ses.webRtcFailures >= WebRtcAttempts
      BY DEF Counted, WebRtcAttempts
    <3> QED
      BY <2>1, <3>1 DEF NextKind
  <2>3. (failed # <<>> /\ failed[Len(failed)] = "WebSocket") => kind = "WebRtc"
    <3> SUFFICES ASSUME failed # <<>>, failed[Len(failed)] = "WebSocket"
                 PROVE  kind = "WebRtc"
      OBVIOUS
    <3>1. ~(ses.webRtcFailures >= WebRtcAttempts)
      BY DEF Counted, WebRtcAttempts
    <3> QED
      BY <2>1, <3>1 DEF NextKind
  <2> QED
    BY <2>1, <2>2, <2>3 DEF Safe
<1> QED
  BY <1>1, <1>2 DEF Evolves

LEMMA EvolvesCounted ==
    ASSUME TypeOK, Counted, Evolves(ses, ses'), failed' = Attempts(ses'),
           ses.pending = NoPeer \/ ses.pending \in Peer
    PROVE  Counted'
<1>1. failed \in Seq(Kind) /\ ses.webRtcFailures \in 0 .. 2
  BY DEF TypeOK, Members, WebRtcAttempts
<1>2. CASE GoesOn(ses, ses') \/ Begins(ses, ses')
  <2>1. failed' = failed /\ ses'.webRtcFailures = ses.webRtcFailures
    BY <1>2 DEF GoesOn, Begins, Attempts
  <2> QED
    BY <2>1 DEF Counted
<1>3. CASE Opens(ses, ses')
  <2>1. failed' = <<>>
    BY <1>3 DEF Opens, Attempts
  <2> QED
    BY <2>1 DEF Counted
<1>4. CASE Loses(ses, ses')
  <2> DEFINE k == ses.peer[ses.pending].kind
             q == Append(failed, k)
  <2>1. k \in Kind
    <3>1. ses.pending \in Peer
      BY <1>4 DEF Loses
    <3>2. ses.peer[ses.pending] \in PeerObject
      BY <3>1 DEF TypeOK, Members
    <3> QED
      BY <3>2 DEF PeerObject
  <2>2. failed' = Last2(q)
    BY <1>4 DEF Loses, Attempts
  <2>3. ses'.webRtcFailures = IF k = "WebSocket" THEN 0 ELSE Min2(ses.webRtcFailures + 1)
    BY <1>4 DEF Loses, FailedAttempt, PendingIsWebSocket
  <2> HIDE DEF k
  <2>4. /\ q \in Seq(Kind) /\ Len(q) = Len(failed) + 1 /\ q[Len(q)] = k
        /\ \A i \in 1 .. Len(failed) : q[i] = failed[i]
    BY <1>1, <2>1
  <2>5. Len(failed) \in 0 .. 2
    <3>1. Len(failed) \in Nat
      BY <1>1
    <3>2. Len(failed) <= 2
      BY DEF Counted
    <3>3. ASSUME NEW n \in Nat, n <= 2 PROVE n \in 0 .. 2
      BY <3>3
    <3> QED
      BY <3>1, <3>2, <3>3
  <2> HIDE DEF q
  <2>6. Len(failed') \in 1 .. 2 /\ failed'[Len(failed')] = k
    BY <2>2, <2>4, <2>5 DEF Last2
  <2>7. Len(failed') = 2 => failed # <<>> /\ failed'[1] = failed[Len(failed)]
    BY <1>1, <2>2, <2>4, <2>5 DEF Last2
  <2>8. Len(failed') <= 2
    BY <2>6
  <2>9. IF failed'[Len(failed')] = "WebSocket" THEN ses'.webRtcFailures = 0
                                               ELSE ses'.webRtcFailures >= 1
    BY <1>1, <2>3, <2>6 DEF Min2, WebRtcAttempts
  <2>10. failed' = <<"WebRtc", "WebRtc">> => ses'.webRtcFailures >= 2
    <3> SUFFICES ASSUME failed' = <<"WebRtc", "WebRtc">>
                 PROVE  ses'.webRtcFailures >= 2
      OBVIOUS
    <3>1. Len(failed') = 2 /\ failed'[1] = "WebRtc" /\ failed'[2] = "WebRtc"
      OBVIOUS
    <3>2. ses.webRtcFailures >= 1
      BY <2>7, <3>1 DEF Counted
    <3>3. k = "WebRtc"
      BY <2>6, <3>1
    <3> QED
      BY <1>1, <2>3, <3>2, <3>3 DEF Min2, WebRtcAttempts
  <2> QED
    BY <2>8, <2>9, <2>10 DEF Counted
<1> QED
  BY <1>2, <1>3, <1>4 DEF Evolves

\* A handler during which the bridge receives nothing.
LEMMA HandlesSafe ==
    ASSUME IInv, SInv, Handles,
           \A p \in Peer : inbox'[p] = inbox[p] \/ inbox'[p] = <<>>
    PROVE  SInv' /\ Safe /\ Alive
<1>1. Evolves(ses, ses') /\ Objects(ses') /\ failed' = Attempts(ses') /\ TypeOK /\ Counted
  BY DEF Handles, Moves, Becomes, SInv, IInv
<1>2. ses.pending = NoPeer \/ ses.pending \in Peer
  BY DEF IInv, TypeOK, Members, MaybePeer
<1>3. Counted' /\ Safe
  BY <1>1, <1>2, EvolvesCounted, EvolvesSafe
<1>4. Alive
  BY DEF Handles, Moves, Watches, Alive
<1>5. Acked'
  <2>1. ses'.sndUna <= bridge'
    BY DEF Handles, Moves, SInv, Acked
  <2>2. ASSUME NEW p \in Peer, NEW i \in 1 .. Len(inbox'[p])
        PROVE  inbox'[p][i] <= bridge'
    <3>1. inbox'[p] = inbox[p] /\ bridge' = bridge
      BY <2>2 DEF Handles
    <3> QED
      BY <2>2, <3>1 DEF SInv, Acked
  <2>3. ses'.probe => probed'.nop = ses'.probeSeq
    BY DEF Handles, Becomes, Moves, Watches, SInv, Acked
  <2> QED
    BY <2>1, <2>2, <2>3 DEF Acked
<1>6. Objects(ses)'
  BY <1>1 DEF Objects
<1> QED
  BY <1>3, <1>4, <1>5, <1>6 DEF SInv

\* The application returns to the foreground: the probe that starts waits for
\* the NOP it has just sent.
LEMMA ForegroundSafe ==
    ASSUME IInv, SInv, Foreground
    PROVE  SInv' /\ Safe /\ Alive
<1>1. /\ Good(ses) /\ ses \in Members /\ TypeOK /\ Objects(ses) /\ Counted
      /\ ses.pending = NoPeer \/ ses.pending \in Peer
  BY DEF IInv, SInv, TypeOK, Good, Members, MaybePeer
<1>2. ASSUME Objects(ses'), Evolves(ses, ses'), ses'.sndUna = ses.sndUna,
             ses'.probe => probed'.nop = ses'.probeSeq, ses.probe => ses'.probe
      PROVE  SInv' /\ Safe /\ Alive
  <2>1. failed' = Attempts(ses') /\ inbox' = inbox /\ bridge' = bridge
    BY DEF Foreground
  <2>2. Counted' /\ Safe
    BY <1>1, <1>2, <2>1, EvolvesCounted, EvolvesSafe
  <2>3. Acked'
    BY <1>2, <2>1 DEF SInv, Acked
  <2>4. Objects(ses)'
    BY <1>2 DEF Objects
  <2> QED
    BY <1>2, <2>2, <2>3, <2>4 DEF SInv, Alive
<1>3. CASE ses.current # NoPeer /\ ~ses.streamClosed
  <2> DEFINE d == Send([ses EXCEPT !.sndNxt = @ + 1])
             e == [d EXCEPT !.probe = TRUE, !.probeSeq = d.sndNxt]
  <2>1. Objects(d) /\ Moves(ses, d) /\ d.sndNxt = ses.sndNxt + 1 /\ d \in Members
    BY <1>1, SegmentMoves
  <2>2. ses' = e
    BY <1>3 DEF Foreground, CheckPeer, Probe
  <2> HIDE DEF d
  <2>3. /\ e.pending = d.pending /\ e.current = d.current /\ e.peer = d.peer
        /\ e.webRtcFailures = d.webRtcFailures /\ e.natType = d.natType
        /\ e.sndUna = d.sndUna /\ e.probeSeq = d.sndNxt
    BY <2>1 DEF Members
  <2>4. e.probe
    BY <2>1 DEF Members
  <2>5. e.pending # NoPeer /\ e.gotAnswer => d.gotAnswer
    BY <2>1 DEF Members
  <2> HIDE DEF e
  <2>6. Objects(e)
    BY <2>1, <2>3, <2>5 DEF Objects
  <2>7. Evolves(ses, e)
    BY <2>1, <2>3 DEF Moves, Evolves, GoesOn, Loses, Opens, Begins
  <2>8. probed'.nop = ses.sndNxt + 1
    BY <1>3 DEF Foreground
  <2> QED
    BY <1>2, <2>1, <2>2, <2>3, <2>4, <2>6, <2>7, <2>8 DEF Moves
<1>4. CASE ses.current = NoPeer \/ ses.streamClosed
  <2>1. Alike(ses, ses') /\ probed' = probed
    BY <1>1, <1>4 DEF Foreground, CheckPeer, Alike, Members
  <2>2. Objects(ses') /\ Moves(ses, ses')
    BY <1>1, <2>1, AlikeMoves
  <2> QED
    BY <1>2, <2>1, <2>2 DEF Moves, Alike, SInv, Acked
<1> QED
  BY <1>3, <1>4

\* Acknowledgements arrive: what they acknowledge the bridge has received.
LEMMA ReceiveSafe ==
    ASSUME IInv, SInv, NEW p \in Peer, NEW fin \in BOOLEAN, NEW error \in BOOLEAN,
           Receive(p, fin, error)
    PROVE  SInv' /\ Safe /\ Alive
<1> DEFINE una   == Head(inbox[p])
           read  == [ses EXCEPT !.sndUna = IF una > @ THEN una ELSE @]
           alive == IF ses.probe /\ read.sndUna >= ses.probeSeq
                    THEN StopProbe(read) ELSE read
           kept  == IF error THEN DropPeer(alive, ses.current) ELSE alive
           done  == [kept EXCEPT !.streamClosed = @ \/ fin]
<1>1. /\ ses \in Members /\ TypeOK /\ Counted /\ Acked
      /\ ses.current = p /\ ses.pending = NoPeer
  BY PeerAssumption DEF IInv, SInv, TypeOK, Objects, Receive
<1>2. inbox[p] \in Seq(Nat) /\ inbox[p] # <<>> /\ bridge \in Nat
  BY DEF IInv, TypeOK, Receive
<1>3. una \in Nat /\ una <= bridge
  <2>1. Len(inbox[p]) >= 1 /\ una = inbox[p][1] /\ una \in Nat
    BY <1>2
  <2> QED
    BY <1>1, <1>2, <2>1 DEF Acked
<1>4. Becomes(done) /\ bridge' = bridge /\ inbox' = [inbox EXCEPT ![p] = Tail(@)]
  BY DEF Receive, OnPeerMessage
<1> HIDE DEF una
<1>5. /\ read \in Members /\ read.pending = NoPeer /\ read.current = p
      /\ read.webRtcFailures = ses.webRtcFailures /\ read.natType = ses.natType
      /\ read.probe = ses.probe /\ read.probeSeq = ses.probeSeq
      /\ read.sndUna <= bridge
  BY <1>1, <1>2, <1>3 DEF Members, Acked
<1> HIDE DEF read
<1>6. /\ alive \in Members /\ alive.pending = NoPeer /\ alive.current = p
      /\ alive.webRtcFailures = ses.webRtcFailures /\ alive.natType = ses.natType
      /\ alive.sndUna <= bridge
      /\ alive.probe => ses.probe /\ alive.probeSeq = ses.probeSeq
      /\ ses.probe /\ ~alive.probe => read.sndUna >= ses.probeSeq
  <2>1. CASE ses.probe /\ read.sndUna >= ses.probeSeq
    <3>1. alive = StopProbe(read)
      BY <2>1
    <3> HIDE DEF alive
    <3> QED
      BY <1>5, <2>1, <3>1 DEF StopProbe, Members
  <2>2. CASE ~(ses.probe /\ read.sndUna >= ses.probeSeq)
    <3>1. alive = read
      BY <2>2
    <3> HIDE DEF alive
    <3> QED
      BY <1>5, <2>2, <3>1
  <2> QED
    BY <2>1, <2>2
<1> HIDE DEF alive
<1>7. /\ kept \in Members /\ kept.pending = NoPeer
      /\ kept.webRtcFailures = ses.webRtcFailures /\ kept.natType = ses.natType
      /\ kept.sndUna <= bridge
      /\ kept.probe => ses.probe /\ kept.probeSeq = ses.probeSeq
      /\ ses.probe /\ ~kept.probe => kept.current = NoPeer \/ read.sndUna >= ses.probeSeq
  <2>1. CASE ~error
    BY <1>6, <2>1
  <2>2. CASE error
    <3> DEFINE t == DropPeer(alive, p)
    <3>1. kept = t
      BY <1>1, <2>2
    <3>2. Dropped(alive, t, p)
      BY <1>6, DropPeerDropped
    <3>3. t \in Members
      <4>1. Good(alive)
        <5> DEFINE r == StopProbe(read)
        <5>1. Good(ses)
          BY <1>1 DEF IInv, Good
        <5>2. Good(read)
          BY <1>5, <5>1, SameWay DEF read, Members
        <5>3. Good(r)
          <6>1. /\ r \in Members /\ r.started = read.started /\ r.pending = read.pending
                /\ r.current = read.current /\ r.retry = read.retry
                /\ r.streamClosed = read.streamClosed
                /\ r.pendingTimeout = read.pendingTimeout
            BY <1>5 DEF StopProbe, Members
          <6> HIDE DEF r
          <6> QED
            BY <5>2, <6>1, SameWay
        <5> QED
          BY <5>2, <5>3 DEF alive
      <4> QED
        BY <4>1, DropPeerGood DEF Good
    <3> HIDE DEF t
    <3> QED
      BY <1>6, <3>1, <3>2, <3>3, PeerAssumption DEF Dropped
  <2> QED
    BY <2>1, <2>2
<1> HIDE DEF kept
<1>8. /\ done.pending = NoPeer /\ done.current = kept.current
      /\ done.webRtcFailures = ses.webRtcFailures /\ done.natType = ses.natType
      /\ done.sndUna <= bridge /\ done.probe = kept.probe /\ done.probeSeq = kept.probeSeq
  BY <1>7 DEF Members
<1> HIDE DEF done
<1>9. ses' = done /\ failed' = Attempts(ses') /\ (ses'.probe => probed' = probed)
  BY <1>4 DEF Becomes
<1>10. Evolves(ses, ses')
  BY <1>1, <1>8, <1>9 DEF Evolves, GoesOn
<1>11. Counted' /\ Safe
  BY <1>1, <1>9, <1>10, EvolvesCounted, EvolvesSafe
<1>12. Objects(ses)'
  BY <1>8, <1>9 DEF Objects
<1>13. Acked'
  <2>1. ses'.sndUna <= bridge'
    BY <1>4, <1>8, <1>9
  <2>2. ASSUME NEW q \in Peer, NEW i \in 1 .. Len(inbox'[q])
        PROVE  inbox'[q][i] <= bridge'
    <3>1. CASE q # p
      <4>1. inbox'[q] = inbox[q]
        BY <1>1, <1>4, <3>1 DEF TypeOK
      <4> QED
        BY <1>1, <1>4, <2>2, <4>1 DEF Acked
    <3>2. CASE q = p
      <4>1. inbox'[p] = Tail(inbox[p])
        BY <1>1, <1>4 DEF TypeOK
      <4>2. i + 1 \in 1 .. Len(inbox[p]) /\ Tail(inbox[p])[i] = inbox[p][i + 1]
        BY <1>2, <2>2, <3>2, <4>1
      <4> QED
        BY <1>1, <1>4, <3>2, <4>1, <4>2 DEF Acked
    <3> QED
      BY <3>1, <3>2
  <2>3. ses'.probe => probed'.nop = ses'.probeSeq
    BY <1>1, <1>7, <1>8, <1>9 DEF Acked
  <2> QED
    BY <2>1, <2>2, <2>3 DEF Acked
<1>14. Alive
  <2> SUFFICES ASSUME ses.probe, ~ses'.probe, ses'.current # NoPeer
               PROVE  bridge >= probed.nop
    BY DEF Alive
  <2>1. read.sndUna >= ses.probeSeq /\ probed.nop = ses.probeSeq
    BY <1>1, <1>7, <1>8, <1>9 DEF Acked
  <2>2. read.sndUna \in Nat /\ ses.probeSeq \in Nat
    BY <1>1, <1>5 DEF Members
  <2> QED
    BY <1>2, <1>5, <2>1, <2>2
<1> QED
  BY <1>11, <1>12, <1>13, <1>14 DEF SInv

\* The bridge receives segments, and its acknowledgement is under way.
LEMMA BridgeSafe ==
    ASSUME IInv, SInv, NEW p \in Peer, BridgeReceives(p)
    PROVE  SInv' /\ Safe /\ Alive
<1>1. ses' = ses /\ probed' = probed /\ failed' = failed
  BY DEF BridgeReceives
<1>2. PICK una \in bridge .. ses.sndNxt :
        bridge' = una /\ inbox' = [inbox EXCEPT ![p] = Append(@, una)]
  BY DEF BridgeReceives
<1>3. /\ bridge \in Nat /\ ses.sndUna \in Nat /\ ses.sndNxt \in Nat
      /\ inbox \in [Peer -> Seq(Nat)]
  BY DEF IInv, TypeOK, Members
<1>4. una \in Nat /\ una >= bridge
  BY <1>2, <1>3
<1>5. Acked'
  <2>1. ses'.sndUna <= bridge'
    BY <1>1, <1>2, <1>3, <1>4 DEF SInv, Acked
  <2>2. ASSUME NEW q \in Peer, NEW i \in 1 .. Len(inbox'[q])
        PROVE  inbox'[q][i] <= bridge'
    <3>1. CASE q # p
      <4>1. inbox'[q] = inbox[q]
        BY <1>2, <1>3, <3>1
      <4>2. inbox[q][i] \in Nat /\ inbox[q][i] <= bridge
        BY <1>3, <2>2, <4>1 DEF SInv, Acked
      <4> QED
        BY <1>2, <1>3, <1>4, <4>1, <4>2
    <3>2. CASE q = p
      <4>1. inbox'[p] = Append(inbox[p], una)
        BY <1>2, <1>3
      <4>2. CASE i \in 1 .. Len(inbox[p])
        <5>1. inbox[p][i] \in Nat /\ inbox[p][i] <= bridge
          BY <1>3, <4>2 DEF SInv, Acked
        <5>2. inbox'[p][i] = inbox[p][i]
          BY <1>3, <1>4, <4>1, <4>2
        <5> QED
          BY <1>2, <1>3, <1>4, <3>2, <5>1, <5>2
      <4>3. CASE i \notin 1 .. Len(inbox[p])
        <5>1. i = Len(inbox[p]) + 1
          BY <1>3, <1>4, <2>2, <3>2, <4>1, <4>3
        <5>2. inbox'[p][i] = una
          BY <1>3, <1>4, <4>1, <5>1
        <5> QED
          BY <1>2, <1>4, <3>2, <5>2
      <4> QED
        BY <4>2, <4>3
    <3> QED
      BY <3>1, <3>2
  <2> QED
    BY <1>1, <2>1, <2>2 DEF SInv, Acked
<1>6. Objects(ses)' /\ Counted'
  BY <1>1 DEF SInv, Objects, Counted
<1> QED
  BY <1>1, <1>5, <1>6 DEF SInv, Safe, Alive

LEMMA StepSafe ==
    ASSUME IInv, SInv, [Next]_vars
    PROVE  SInv' /\ Safe /\ Alive
<1>1. CASE UNCHANGED vars
  BY <1>1 DEF vars, SInv, Objects, Counted, Acked, Safe, Alive
<1>2. Objects(ses)
  BY DEF SInv
<1>3. ASSUME Handles, \A p \in Peer : inbox'[p] = inbox[p] \/ inbox'[p] = <<>>
      PROVE  SInv' /\ Safe /\ Alive
  BY <1>3, HandlesSafe
<1>4. CASE Start \/ RetryTimeout \/ PendingTimeout \/ ProbeTimeout \/ Tick \/ TorDisconnects
  BY <1>2, <1>3, <1>4, TimerMoves
<1>5. CASE Foreground
  BY <1>5, ForegroundSafe
<1>6. ASSUME NEW p \in Peer,
             OfferReady(p) \/ BrokerReplies(p) \/ Opened(p) \/ Closed(p) \/ Silence(p)
             \/ ChannelUp(p) \/ ChannelDown(p)
      PROVE  SInv' /\ Safe /\ Alive
  <2>1. inbox' = inbox
    BY <1>6 DEF OfferReady, BrokerReplies, Opened, Closed, Silence, ChannelUp, ChannelDown
  <2>2. Handles
    BY <1>2, <1>6, PeerMoves, OpenedMoves, BrokerMoves
  <2> QED
    BY <1>3, <2>1, <2>2
<1>7. ASSUME NEW p \in Peer, Delete(p)
      PROVE  SInv' /\ Safe /\ Alive
  <2>1. \A q \in Peer : inbox'[q] = inbox[q] \/ inbox'[q] = <<>>
    BY <1>7 DEF Delete, IInv, TypeOK
  <2> QED
    BY <1>2, <1>3, <1>7, <2>1, PeerMoves
<1> QED
  BY <1>1, <1>4, <1>5, <1>6, <1>7, ReceiveSafe, BridgeSafe DEF Next

LEMMA InitSInv == Init => SInv
BY DEF Init, SInv, Objects, Counted, Acked

\* Once the stream is closed from either side no handler asks for a new peer,
\* whichever timer still runs and whichever peer is lost.
THEOREM NoPeerAfterCloseHolds == Spec => NoPeerAfterClose
<1>1. IInv /\ SInv /\ [Next]_vars => [ses.streamClosed => ses'.pending \in {ses.pending, NoPeer}]_vars
  BY StepSafe DEF Safe
<1> QED
  BY <1>1, InitIInv, StepIInv, InitSInv, StepSafe, PTL DEF Spec, NoPeerAfterClose

\* The NAT is called unknown only when the peer that failed had an answer of its
\* own, although gotAnswer is a member of the Session and not of the Peer.
THEOREM NatHonestHolds == Spec => NatHonest
<1>1. IInv /\ SInv /\ [Next]_vars =>
        [ses'.natType # ses.natType =>
           ses.pending # NoPeer /\ ses'.peer[ses.pending].answered]_vars
  BY StepSafe DEF Safe
<1> QED
  BY <1>1, InitIInv, StepIInv, InitSInv, StepSafe, PTL DEF Spec, NatHonest

\* After two WebRTC proxies that failed in a row the browser tries a WebSocket,
\* and after a WebSocket that failed WebRTC.
THEOREM AlternatesHolds == Spec => Alternates
<1>1. IInv /\ SInv /\ [Next]_vars =>
        [(ses'.pending # NoPeer /\ ses'.pending # ses.pending) =>
           LET kind == ses'.peer[ses'.pending].kind IN
           /\ failed = <<"WebRtc", "WebRtc">> => (kind = "WebSocket" <=> Browser)
           /\ (failed # <<>> /\ failed[Len(failed)] = "WebSocket") => kind = "WebRtc"]_vars
  BY StepSafe DEF Safe
<1> QED
  BY <1>1, InitIInv, StepIInv, InitSInv, StepSafe, PTL DEF Spec, Alternates

\* A probe that ends with the peer kept was answered by a bridge that has
\* received its NOP, however many messages were buffered before it.
THEOREM AliveIsProvedHolds == Spec => AliveIsProved
<1>1. IInv /\ SInv /\ [Next]_vars =>
        [(ses.probe /\ ~ses'.probe /\ ses'.current # NoPeer) => bridge >= probed.nop]_vars
  BY StepSafe DEF Alive
<1> QED
  BY <1>1, InitIInv, StepIInv, InitSInv, StepSafe, PTL DEF Spec, AliveIsProved
=============================================================================
