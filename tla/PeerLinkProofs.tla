--------------------------- MODULE PeerLinkProofs ---------------------------
(***************************************************************************)
(* Proofs about PeerLink.tla: PeerLink keeps the contract that the         *)
(* Connector counts on, and the flag 'has server address' is that of the   *)
(* running negotiation, whatever the length of the callback queue.         *)
(***************************************************************************)
EXTENDS PeerLink, SequenceTheorems, TLAPS

\* What the Connector has heard of a link that has not failed follows from its
\* flags, and a channel opens only after the description went out.
Said(l) ==
    IF ~l.ready THEN <<>>
    ELSE IF ~l.open THEN <<"localReady">> ELSE <<"localReady", "opened">>

InStep ==
    /\ pl.emits = <<>>
    /\ pl.open => pl.ready
    /\ ~pl.closed => heard = Said(pl)

OpensLate ==
    \/ rtc.channel = "open"
    \/ \E i \in DOMAIN queue : queue[i] \in {"channel", "opened"}
    => pl.ready

IInv == TypeOK /\ InStep /\ OpensLate

----------------------------------------------------------------------------
\* What a method may do to a link that is between handlers.

\* One signal of the contract, or none.
Keeps(l, k) ==
    /\ k \in Link
    /\ k.open => k.ready
    /\ l.ready => k.ready
    /\ l.closed => k.closed
    /\ ~l.closed =>
         \/ k.emits = <<>> /\ k.ready = l.ready /\ k.open = l.open /\ ~k.closed
         \/ k.emits = <<"localReady">> /\ ~l.ready /\ k.ready /\ k.open = l.open /\ ~k.closed
         \/ k.emits = <<"opened">> /\ l.ready /\ k.ready /\ ~l.open /\ k.open /\ ~k.closed
         \/ k.emits = <<"closed">> /\ k.ready = l.ready /\ k.closed

\* A link between handlers.
Quiet(l) == l \in Link /\ l.emits = <<>> /\ (l.open => l.ready)

LEMMA EmitOne ==
    ASSUME NEW l \in Link, l.emits = <<>>, NEW signal \in Signal
    PROVE  Emit(l, signal) \in Link /\ Emit(l, signal) = [l EXCEPT !.emits = <<signal>>]
<1>1. Append(l.emits, signal) = <<signal>>
  OBVIOUS
<1>2. <<signal>> \in Seq(Signal)
  OBVIOUS
<1> QED
  BY <1>1, <1>2 DEF Emit, Link

\* Setting fields the contract does not look at.
LEMMA PlainKeeps ==
    ASSUME NEW l, Quiet(l), NEW k \in Link, k.emits = <<>>,
           k.ready = l.ready, k.open = l.open, k.closed = l.closed
    PROVE  Keeps(l, k)
BY DEF Quiet, Keeps

LEMMA FinishKeeps ==
    ASSUME NEW l, Quiet(l)
    PROVE  Keeps(l, FinishGathering(l))
<1> DEFINE d == [l EXCEPT !.ready = TRUE, !.graceTimer = FALSE, !.gatherTimer = FALSE,
                          !.announced = IF l.hasSrflx THEN "public" ELSE "lan",
                          !.sent = l.carried \cup l.candidates]
<1>1. d \in Link /\ d.emits = <<>> /\ d.ready /\ d.open = l.open /\ d.closed = l.closed
  BY DEF Quiet, Link
<1>2. /\ Emit(d, "localReady") \in Link
      /\ Emit(d, "localReady") = [d EXCEPT !.emits = <<"localReady">>]
  BY <1>1, EmitOne DEF Signal
<1> HIDE DEF d
<1>3. CASE ~l.ready /\ ~l.closed /\ l.localSdp
  <2>1. FinishGathering(l) = Emit(d, "localReady")
    BY <1>3 DEF FinishGathering, d
  <2> QED
    BY <1>1, <1>2, <1>3, <2>1 DEF Keeps, Link
<1>4. CASE l.ready \/ l.closed \/ ~l.localSdp
  <2>1. FinishGathering(l) \in {l, [l EXCEPT !.wantFinish = TRUE]}
    BY <1>4 DEF FinishGathering
  <2>2. Keeps(l, l) /\ Keeps(l, [l EXCEPT !.wantFinish = TRUE])
    BY DEF Quiet, Keeps, Link
  <2> QED
    BY <2>1, <2>2
<1> QED
  BY <1>3, <1>4

LEMMA FailKeeps ==
    ASSUME NEW l, Quiet(l)
    PROVE  Keeps(l, Fail(l))
<1> DEFINE d == [l EXCEPT !.closed = TRUE, !.open = FALSE, !.graceTimer = FALSE,
                          !.gatherTimer = FALSE]
<1>1. d \in Link /\ d.emits = <<>> /\ d.ready = l.ready /\ ~d.open /\ d.closed
  BY DEF Quiet, Link
<1>2. Emit(d, "closed") \in Link /\ Emit(d, "closed") = [d EXCEPT !.emits = <<"closed">>]
  BY <1>1, EmitOne DEF Signal
<1>3. Fail(l) = IF l.closed THEN l ELSE Emit(d, "closed")
  BY DEF Fail
<1> HIDE DEF d
<1> QED
  BY <1>1, <1>2, <1>3 DEF Quiet, Keeps, Link

LEMMA DescriptionKeeps ==
    ASSUME NEW l, Quiet(l), NEW carries \in SUBSET CandidateType
    PROVE  Keeps(l, OnLocalDescription(l, carries))
<1> DEFINE d == [l EXCEPT !.localSdp = TRUE, !.carried = carries]
<1>1. /\ Quiet(d) /\ Keeps(l, d)
      /\ d.ready = l.ready /\ d.open = l.open /\ d.closed = l.closed
  BY DEF Quiet, Keeps, Link
<1>2. Keeps(d, FinishGathering(d))
  BY <1>1, FinishKeeps
<1>3. OnLocalDescription(l, carries) = IF d.wantFinish THEN FinishGathering(d) ELSE d
  BY DEF OnLocalDescription
<1> HIDE DEF d
<1>4. Keeps(l, FinishGathering(d))
  BY <1>1, <1>2 DEF Keeps
<1> QED
  BY <1>1, <1>3, <1>4

LEMMA CandidateKeeps ==
    ASSUME NEW l, Quiet(l), NEW type \in CandidateType
    PROVE  Keeps(l, AddLocalCandidate(l, type))
<1> DEFINE d == [l EXCEPT !.candidates = @ \cup {type}]
           e == [d EXCEPT !.hasSrflx = TRUE, !.graceTimer = TRUE]
<1>1. Keeps(l, l)
  BY DEF Quiet, Keeps
<1>2. d \in Link /\ Keeps(l, d)
  BY DEF Quiet, Keeps, Link
<1>3. Keeps(l, e)
  BY <1>2 DEF Quiet, Keeps, Link
<1>4. AddLocalCandidate(l, type) \in {l, d, e}
  BY DEF AddLocalCandidate
<1> QED
  BY <1>1, <1>2, <1>3, <1>4

LEMMA OpenKeeps ==
    ASSUME NEW l, Quiet(l), l.ready
    PROVE  Keeps(l, OnOpen(l))
<1> DEFINE d == [l EXCEPT !.open = TRUE]
<1>1. d \in Link /\ d.emits = <<>> /\ d.ready = l.ready /\ d.open /\ d.closed = l.closed
  BY DEF Quiet, Link
<1>2. Emit(d, "opened") \in Link /\ Emit(d, "opened") = [d EXCEPT !.emits = <<"opened">>]
  BY <1>1, EmitOne DEF Signal
<1>3. OnOpen(l) = IF l.open \/ l.closed THEN l ELSE Emit(d, "opened")
  BY DEF OnOpen
<1> HIDE DEF d
<1> QED
  BY <1>1, <1>2, <1>3 DEF Quiet, Keeps, Link

LEMMA AttachKeeps ==
    ASSUME NEW l, Quiet(l), NEW isOpen \in BOOLEAN, isOpen => l.ready
    PROVE  Keeps(l, AttachChannel(l, isOpen))
<1> DEFINE d == [l EXCEPT !.channel = TRUE]
           e == [d EXCEPT !.open = TRUE]
<1>1. /\ d \in Link /\ d.emits = <<>>
      /\ d.ready = l.ready /\ d.open = l.open /\ d.closed = l.closed
  BY DEF Quiet, Link
<1>2. /\ e \in Link /\ e.emits = <<>>
      /\ e.ready = l.ready /\ e.open /\ e.closed = l.closed
  BY DEF Quiet, Link
<1>3. Emit(e, "opened") \in Link /\ Emit(e, "opened") = [e EXCEPT !.emits = <<"opened">>]
  BY <1>2, EmitOne DEF Signal
<1>4. AttachChannel(l, isOpen) = IF isOpen /\ ~l.open THEN Emit(e, "opened") ELSE d
  BY DEF AttachChannel
<1> HIDE DEF d, e
<1> QED
  BY <1>1, <1>2, <1>3, <1>4 DEF Quiet, Keeps, Link

----------------------------------------------------------------------------
\* A handler that keeps to this keeps the contract.
LEMMA BecomesKeeps ==
    ASSUME TypeOK, InStep, NEW k, Keeps(pl, k), Becomes(k)
    PROVE  /\ pl' \in Link /\ heard' \in Seq(Signal)
           /\ InStep' /\ (pl.ready => pl'.ready)
           /\ [Contract!Next]_heard
<1>1. /\ pl' \in Link /\ pl'.emits = <<>>
      /\ pl'.ready = k.ready /\ pl'.open = k.open /\ pl'.closed = k.closed
  <2>1. k \in Link
    BY DEF Keeps
  <2>2. pl' = [k EXCEPT !.emits = <<>>] /\ <<>> \in Seq(Signal)
    BY DEF Becomes
  <2> QED
    BY <2>1, <2>2 DEF Link
<1>2. (pl'.open => pl'.ready) /\ (pl.ready => pl'.ready)
  BY <1>1 DEF Keeps
<1>3. CASE pl.closed
  <2>1. heard' = heard /\ pl'.closed
    BY <1>1, <1>3 DEF Becomes, Keeps
  <2> QED
    BY <1>1, <1>2, <2>1 DEF InStep, TypeOK
<1>4. CASE ~pl.closed
  <2>1. heard = Said(pl) /\ heard' = heard \o k.emits
    BY <1>4 DEF InStep, Becomes
  <2>2. pl.open => pl.ready
    BY DEF InStep
  <2>3. CASE k.emits = <<>> /\ k.ready = pl.ready /\ k.open = pl.open /\ ~k.closed
    <3>1. heard' = heard
      BY <2>1, <2>3 DEF TypeOK
    <3> QED
      BY <1>1, <1>2, <2>1, <2>3, <3>1 DEF InStep, Said, TypeOK
  <2>4. CASE /\ k.emits = <<"localReady">>
             /\ ~pl.ready /\ k.ready /\ k.open = pl.open /\ ~k.closed
    <3>1. heard = <<>>
      BY <2>1, <2>4 DEF Said
    <3>2. heard' = <<"localReady">>
      BY <2>1, <2>4, <3>1
    <3>3. Said(pl)' = <<"localReady">>
      BY <1>1, <2>2, <2>4 DEF Said
    <3> QED
      BY <1>1, <1>2, <3>1, <3>2, <3>3
         DEF InStep, Signal, Contract!Next, Contract!LocalReady
  <2>5. CASE /\ k.emits = <<"opened">>
             /\ pl.ready /\ k.ready /\ ~pl.open /\ k.open /\ ~k.closed
    <3>1. heard = <<"localReady">>
      BY <2>1, <2>5 DEF Said
    <3>2. heard' = <<"localReady", "opened">>
      <4>1. heard' = <<"localReady">> \o <<"opened">>
        BY <2>1, <2>5, <3>1
      <4>2. /\ heard' \in Seq(Signal) /\ Len(heard') = 2
            /\ heard'[1] = "localReady" /\ heard'[2] = "opened"
        BY <4>1 DEF Signal
      <4>3. /\ <<"localReady", "opened">> \in Seq(Signal)
            /\ Len(<<"localReady", "opened">>) = 2
        BY DEF Signal
      <4>4. \A i \in 1..2 : heard'[i] = <<"localReady", "opened">>[i]
        BY <4>2
      <4> QED
        BY <4>2, <4>3, <4>4, SeqEqual
    <3>3. Said(pl)' = <<"localReady", "opened">>
      BY <1>1, <2>5 DEF Said
    <3> QED
      BY <1>1, <1>2, <3>1, <3>2, <3>3
         DEF InStep, Signal, Contract!Next, Contract!Opened
  <2>6. CASE k.emits = <<"closed">> /\ k.ready = pl.ready /\ k.closed
    <3>1. heard \in {<<>>, <<"localReady">>, <<"localReady", "opened">>}
      BY <2>1 DEF Said
    <3>2. heard' = Append(heard, "closed") /\ heard' \in Seq(Signal)
      BY <2>1, <2>6 DEF TypeOK, Signal
    <3> QED
      BY <1>1, <1>2, <2>6, <3>1, <3>2
         DEF InStep, Contract!Next, Contract!Closed
  <2> QED
    BY <1>4, <2>3, <2>4, <2>5, <2>6 DEF Keeps
<1> QED
  BY <1>3, <1>4

----------------------------------------------------------------------------
LEMMA InitIInv == Init => IInv
BY DEF Init, IInv, TypeOK, InStep, OpensLate, Said, NewLink, Link, Rtc, Signal

\* What every handler comes down to.
LEMMA HandlerIInv ==
    ASSUME IInv, NEW k, Keeps(pl, k), Becomes(k), rtc' \in Rtc, queue' \in Seq(Event),
           OpensLate'
    PROVE  IInv' /\ [Contract!Next]_heard
BY BecomesKeeps DEF IInv, TypeOK

\* The events that wait after one more is queued, and after the first is taken.
LEMMA QueuedEvents ==
    ASSUME TypeOK, NEW e \in Event, queue' = Append(queue, e)
    PROVE  /\ queue' \in Seq(Event)
           /\ \A i \in DOMAIN queue' : queue'[i] = e \/ \E j \in DOMAIN queue : queue'[i] = queue[j]
BY DEF TypeOK

LEMMA HandledEvents ==
    ASSUME TypeOK, queue # <<>>
    PROVE  /\ Head(queue) = queue[1] /\ 1 \in DOMAIN queue
           /\ Head(queue) \in Event
           /\ Tail(queue) \in Seq(Event)
           /\ \A i \in DOMAIN Tail(queue) : \E j \in DOMAIN queue : Tail(queue)[i] = queue[j]
<1>1. \A i \in DOMAIN Tail(queue) : i + 1 \in DOMAIN queue /\ Tail(queue)[i] = queue[i + 1]
  BY DEF TypeOK
<1> QED
  BY <1>1 DEF TypeOK

----------------------------------------------------------------------------
\* The Connector's calls and the timers: nothing is queued.
LEMMA CallIInv ==
    ASSUME IInv, CreateOffer \/ AcceptOffer \/ SetAnswer \/ CallFails \/ GraceTimeout \/ GatherTimeout
    PROVE  IInv' /\ [Contract!Next]_heard
<1> USE DEF IInv
<1>1. Quiet(pl) /\ rtc \in Rtc /\ queue \in Seq(Event)
  BY DEF TypeOK, InStep, Quiet
<1>2. ASSUME NEW k, Keeps(pl, k), Becomes(k), rtc' \in Rtc,
             rtc'.channel = "open" => rtc.channel = "open", UNCHANGED queue
      PROVE  IInv' /\ [Contract!Next]_heard
  <2>1. OpensLate'
    BY <1>2, BecomesKeeps DEF OpensLate
  <2> QED
    BY <1>1, <1>2, <2>1, HandlerIInv
<1>3. CASE CreateOffer
  <2> DEFINE a == AttachChannel(pl, FALSE)
             k == [a EXCEPT !.started = TRUE, !.gatherTimer = TRUE]
  <2>1. Keeps(pl, a)
    BY <1>1, AttachKeeps
  <2>2. Keeps(pl, k)
    BY <2>1 DEF Keeps, Link
  <2>3. Becomes(k) /\ rtc' \in Rtc /\ rtc'.channel # "open" /\ UNCHANGED queue
    BY <1>1, <1>3 DEF CreateOffer, Rtc
  <2> QED
    BY <1>2, <2>2, <2>3
<1>4. CASE AcceptOffer
  <2> DEFINE l == [pl EXCEPT !.started = TRUE, !.gatherTimer = TRUE]
  <2>1. /\ Quiet(l) /\ Keeps(pl, l)
        /\ l.ready = pl.ready /\ l.open = pl.open /\ l.closed = pl.closed
    BY <1>1 DEF Quiet, Keeps, Link
  <2>2. Keeps(l, Fail(l))
    BY <2>1, FailKeeps
  <2>3. \/ Becomes(l) /\ rtc' = [rtc EXCEPT !.remote = TRUE]
        \/ Becomes(Fail(l)) /\ UNCHANGED rtc
    BY <1>4 DEF AcceptOffer
  <2>4. UNCHANGED queue /\ rtc' \in Rtc /\ rtc'.channel = rtc.channel
    BY <1>1, <1>4, <2>3 DEF AcceptOffer, Rtc
  <2> HIDE DEF l
  <2>5. Keeps(pl, Fail(l))
    BY <2>1, <2>2 DEF Keeps
  <2> QED
    BY <1>2, <2>1, <2>3, <2>4, <2>5
<1>5. CASE SetAnswer
  <2>1. Keeps(pl, pl) /\ Keeps(pl, Fail(pl))
    BY <1>1, FailKeeps, PlainKeeps DEF Quiet
  <2>2. Becomes(pl) \/ Becomes(Fail(pl))
    BY <1>5 DEF SetAnswer
  <2>3. UNCHANGED queue /\ rtc' \in Rtc /\ rtc'.channel = rtc.channel
    BY <1>1, <1>5 DEF SetAnswer, Rtc
  <2> QED
    BY <1>2, <2>1, <2>2, <2>3
<1>6. CASE CallFails
  <2>1. Keeps(pl, Fail(pl))
    BY <1>1, FailKeeps
  <2> QED
    BY <1>1, <1>2, <1>6, <2>1 DEF CallFails
<1>7. ASSUME NEW d \in Link, Quiet(d), UNCHANGED <<rtc, queue>>,
             d.ready = pl.ready, d.open = pl.open, d.closed = pl.closed,
             Becomes(FinishGathering(d))
      PROVE  IInv' /\ [Contract!Next]_heard
  <2>1. Keeps(d, FinishGathering(d))
    BY <1>7, FinishKeeps
  <2>2. Keeps(pl, FinishGathering(d))
    BY <1>7, <2>1 DEF Keeps
  <2> QED
    BY <1>1, <1>2, <1>7, <2>2
<1>8. CASE GraceTimeout
  <2> DEFINE d == [pl EXCEPT !.graceTimer = FALSE]
  <2>1. d \in Link /\ Quiet(d) /\ d.ready = pl.ready /\ d.open = pl.open /\ d.closed = pl.closed
    BY <1>1 DEF Quiet, Link
  <2>2. Becomes(FinishGathering(d)) /\ UNCHANGED <<rtc, queue>>
    BY <1>8 DEF GraceTimeout
  <2> HIDE DEF d
  <2> QED
    BY <1>7, <2>1, <2>2
<1>9. CASE GatherTimeout
  <2> DEFINE d == [pl EXCEPT !.gatherTimer = FALSE]
  <2>1. d \in Link /\ Quiet(d) /\ d.ready = pl.ready /\ d.open = pl.open /\ d.closed = pl.closed
    BY <1>1 DEF Quiet, Link
  <2>2. Becomes(FinishGathering(d)) /\ UNCHANGED <<rtc, queue>>
    BY <1>9 DEF GatherTimeout
  <2> HIDE DEF d
  <2> QED
    BY <1>7, <2>1, <2>2
<1> QED
  BY <1>3, <1>4, <1>5, <1>6, <1>8, <1>9

\* What a queued callback does keeps the contract.
LEMMA AfterKeeps ==
    ASSUME IInv, queue # <<>>
    PROVE  Keeps(pl, After(Head(queue)))
<1> DEFINE e == Head(queue)
<1>1. /\ Quiet(pl) /\ (rtc.channel = "open") \in BOOLEAN
      /\ rtc.carries \in SUBSET CandidateType
  BY DEF IInv, TypeOK, InStep, Quiet, Rtc
<1>2. /\ e \in Event /\ (e = "opened" => pl.ready)
      /\ rtc.channel = "open" => pl.ready
  BY HandledEvents DEF IInv, OpensLate
<1> HIDE DEF e
<1>3. CASE e = "description"
  BY <1>1, <1>3, DescriptionKeeps DEF After, CandidateType, e
<1>4. CASE e = "gathered"
  BY <1>1, <1>4, FinishKeeps DEF After, CandidateType, e
<1>5. CASE e = "opened"
  BY <1>1, <1>2, <1>5, OpenKeeps DEF After, CandidateType, e
<1>6. CASE e = "ended"
  BY <1>1, <1>6, FailKeeps DEF After, CandidateType, e
<1>7. CASE e = "channel"
  BY <1>1, <1>2, <1>7, AttachKeeps DEF After, CandidateType, e
<1>8. CASE e \in CandidateType
  BY <1>1, <1>8, CandidateKeeps DEF After, CandidateType, e
<1> QED
  BY <1>2, <1>3, <1>4, <1>5, <1>6, <1>7, <1>8 DEF Event, e

LEMMA HandleNextIInv ==
    ASSUME IInv, HandleNext
    PROVE  IInv' /\ [Contract!Next]_heard
<1>1. queue # <<>> /\ queue' = Tail(queue) /\ rtc' = rtc /\ Becomes(After(Head(queue)))
  BY DEF HandleNext
<1>2. Keeps(pl, After(Head(queue)))
  BY <1>1, AfterKeeps
<1>3. pl.ready => pl'.ready
  BY <1>1, <1>2, BecomesKeeps DEF IInv
<1>4. queue' \in Seq(Event) /\ OpensLate'
  BY <1>1, <1>3, HandledEvents DEF IInv, OpensLate
<1> QED
  BY <1>1, <1>2, <1>4, HandlerIInv DEF IInv, TypeOK

LEMMA AttachWhileOpeningIInv ==
    ASSUME IInv, AttachWhileOpening
    PROVE  IInv' /\ [Contract!Next]_heard
<1>1. /\ pl.ready
      /\ queue # <<>> /\ queue' = Append(Tail(queue), "opened")
      /\ rtc' = [rtc EXCEPT !.channel = "open"] /\ Becomes(AttachChannel(pl, TRUE))
  BY HandledEvents DEF AttachWhileOpening, IInv, OpensLate
<1>2. Keeps(pl, AttachChannel(pl, TRUE))
  BY <1>1, AttachKeeps DEF IInv, TypeOK, InStep, Quiet
<1>3. pl'.ready
  BY <1>1, <1>2, BecomesKeeps DEF IInv
<1>4. queue' \in Seq(Event) /\ OpensLate'
  BY <1>1, <1>3, HandledEvents DEF IInv, OpensLate, TypeOK, Event
<1>5. rtc' \in Rtc
  BY <1>1 DEF IInv, TypeOK, Rtc
<1> QED
  BY <1>1, <1>2, <1>4, <1>5, HandlerIInv

\* libdatachannel's threads touch neither the flags nor what was heard.
LEMMA RtcIInv ==
    ASSUME IInv,
           \/ Describe \/ (\E type \in CandidateType : FindCandidate(type))
           \/ GatheringComplete \/ ChannelArrives \/ ChannelOpens \/ Ends
    PROVE  IInv' /\ [Contract!Next]_heard
<1> USE DEF IInv
<1>1. ASSUME UNCHANGED <<pl, heard>>, rtc' \in Rtc, rtc'.channel = "open" => pl.ready \/ rtc.channel = "open",
             \/ UNCHANGED queue
             \/ \E e \in Event : queue' = Append(queue, e) /\ (e \in {"channel", "opened"} => pl.ready)
      PROVE  IInv' /\ [Contract!Next]_heard
  <2>1. CASE UNCHANGED queue
    BY <1>1, <2>1 DEF TypeOK, InStep, Said, OpensLate
  <2>2. CASE \E e \in Event : queue' = Append(queue, e) /\ (e \in {"channel", "opened"} => pl.ready)
    <3>1. PICK e \in Event : queue' = Append(queue, e) /\ (e \in {"channel", "opened"} => pl.ready)
      BY <2>2
    <3>2. queue' \in Seq(Event) /\ OpensLate'
      BY <1>1, <3>1, QueuedEvents DEF OpensLate
    <3> QED
      BY <1>1, <3>2 DEF TypeOK, InStep, Said
  <2> QED
    BY <1>1, <2>1, <2>2
<1>2. rtc \in Rtc
  BY DEF TypeOK
<1>3. CASE Describe
  <2>1. rtc' \in Rtc /\ rtc'.channel = rtc.channel
    BY <1>2, <1>3 DEF Describe, Rtc
  <2>2. \E e \in Event : queue' = Append(queue, e) /\ e \notin {"channel", "opened"}
    BY <1>3 DEF Describe, Queued, Event
  <2> QED
    BY <1>1, <1>3, <2>1, <2>2 DEF Describe
<1>4. CASE \E type \in CandidateType : FindCandidate(type)
  <2>1. \E e \in Event : queue' = Append(queue, e) /\ e \notin {"channel", "opened"}
    BY <1>4 DEF FindCandidate, Queued, Event, CandidateType
  <2>2. UNCHANGED <<pl, rtc, heard>>
    BY <1>4 DEF FindCandidate
  <2> QED
    BY <1>1, <1>2, <2>1, <2>2
<1>5. CASE GatheringComplete
  BY <1>1, <1>2, <1>5 DEF GatheringComplete, Queued, Event, Rtc
<1>6. CASE ChannelArrives
  BY <1>1, <1>2, <1>6 DEF ChannelArrives, Negotiated, Queued, Event, Rtc
<1>7. CASE ChannelOpens
  BY <1>1, <1>2, <1>7 DEF ChannelOpens, Negotiated, Queued, Event, Rtc
<1>8. CASE Ends
  BY <1>1, <1>2, <1>8 DEF Ends, Queued, Event, Rtc
<1> QED
  BY <1>3, <1>4, <1>5, <1>6, <1>7, <1>8

LEMMA StepIInv == IInv /\ [Next]_vars => IInv' /\ [Contract!Next]_heard
<1> SUFFICES ASSUME IInv, [Next]_vars PROVE IInv' /\ [Contract!Next]_heard
  OBVIOUS
<1>1. CASE UNCHANGED vars
  BY <1>1 DEF vars, IInv, TypeOK, InStep, Said, OpensLate
<1>2. CASE Next
  BY <1>2, CallIInv, HandleNextIInv, AttachWhileOpeningIInv, RtcIInv DEF Next
<1> QED
  BY <1>1, <1>2

\* Every reachable state of a link is well typed, for any length of the queue.
THEOREM TypeCorrect == Spec => []TypeOK
<1>1. IInv => TypeOK
  BY DEF IInv
<1> QED
  BY <1>1, InitIInv, StepIInv, PTL DEF Spec

\* PeerLink implements LinkContract, what Connector.tla takes for granted of a
\* link: each handler is one signal of the contract or none.
THEOREM ContractKept == Spec => KeepsContract
<1>1. Init => Contract!Init
  BY DEF Init, Contract!Init
<1> QED
  BY <1>1, InitIInv, StepIInv, PTL DEF Spec, KeepsContract, Contract!Spec

----------------------------------------------------------------------------
\* HonestAddress.

\* m_hasSrflx says whether a public candidate was counted, and what goes out is
\* told by it and holds what was counted and what the description carried.
Honest(l) ==
    /\ l.hasSrflx <=> "srflx" \in l.candidates
    /\ l.ready => /\ l.localSdp
                  /\ l.announced = "public" <=> l.hasSrflx
                  /\ l.sent = l.carried \cup l.candidates

\* What every method but OnLocalDescription makes of an honest link.
Tells(l, k) == Honest(k) /\ k.localSdp = l.localSdp

\* The description is called back once, and is not there before that.
DescribedOnce ==
    /\ ~rtc.described => ~pl.localSdp
    /\ \A i \in DOMAIN queue : queue[i] = "description" =>
          /\ rtc.described /\ ~pl.localSdp
          /\ \A j \in DOMAIN queue : queue[j] = "description" => j = i

\* Setting fields that Honest does not look at.
LEMMA PlainTells ==
    ASSUME NEW l \in Link, Honest(l), NEW k,
           k.hasSrflx = l.hasSrflx, k.candidates = l.candidates, k.ready = l.ready,
           k.announced = l.announced, k.localSdp = l.localSdp, k.carried = l.carried,
           k.sent = l.sent
    PROVE  Tells(l, k)
BY DEF Tells, Honest

\* The description takes hasSrflx and the candidates along at the moment it
\* becomes ready.
LEMMA FinishTells ==
    ASSUME NEW l \in Link, Honest(l)
    PROVE  Tells(l, FinishGathering(l))
<1> DEFINE d == [l EXCEPT !.ready = TRUE, !.graceTimer = FALSE, !.gatherTimer = FALSE,
                          !.announced = IF l.hasSrflx THEN "public" ELSE "lan",
                          !.sent = l.carried \cup l.candidates]
<1>1. l.localSdp => d \in Link /\ Tells(l, d)
  BY DEF Link, Honest, Tells
<1> HIDE DEF d
<1>2. l.localSdp => Tells(l, Emit(d, "localReady"))
  BY <1>1, PlainTells DEF Emit, Link, Tells
<1>3. Tells(l, l) /\ Tells(l, [l EXCEPT !.wantFinish = TRUE])
  BY PlainTells DEF Link
<1> QED
  BY <1>2, <1>3 DEF FinishGathering, d

LEMMA FailTells ==
    ASSUME NEW l \in Link, Honest(l)
    PROVE  Tells(l, Fail(l))
<1> DEFINE d == [l EXCEPT !.closed = TRUE, !.open = FALSE, !.graceTimer = FALSE,
                          !.gatherTimer = FALSE]
<1>1. d \in Link /\ Tells(l, d) /\ Tells(l, l)
  BY DEF Link, Tells, Honest
<1> HIDE DEF d
<1>2. Tells(l, Emit(d, "closed"))
  BY <1>1, PlainTells DEF Emit, Link, Tells
<1> QED
  BY <1>1, <1>2 DEF Fail, d

\* A candidate that comes once the description is ready is not counted, and an
\* earlier one counts in both.
LEMMA CandidateTells ==
    ASSUME NEW l \in Link, Honest(l), NEW type \in CandidateType
    PROVE  Tells(l, AddLocalCandidate(l, type))
<1> DEFINE d == [l EXCEPT !.candidates = @ \cup {type}]
           e == [d EXCEPT !.hasSrflx = TRUE, !.graceTimer = TRUE]
<1>1. CASE l.ready
  BY <1>1 DEF AddLocalCandidate, Tells
<1>2. CASE ~l.ready /\ type = "srflx" /\ ~l.hasSrflx
  BY <1>2 DEF AddLocalCandidate, Tells, Honest, Link
<1>3. CASE ~l.ready /\ ~(type = "srflx" /\ ~l.hasSrflx)
  BY <1>3 DEF AddLocalCandidate, Tells, Honest, Link, CandidateType
<1> QED
  BY <1>1, <1>2, <1>3

\* The first description comes to a link that has nothing to send.
LEMMA DescriptionTells ==
    ASSUME NEW l \in Link, Honest(l), ~l.localSdp, NEW carries \in SUBSET CandidateType
    PROVE  Honest(OnLocalDescription(l, carries))
<1> DEFINE d == [l EXCEPT !.localSdp = TRUE, !.carried = carries]
<1>1. d \in Link /\ Honest(d)
  BY DEF Link, Honest
<1> HIDE DEF d
<1> QED
  BY <1>1, FinishTells DEF OnLocalDescription, Tells, d

\* Every callback.
LEMMA AfterTells ==
    ASSUME pl \in Link, Honest(pl), NEW e \in Event, e # "description"
    PROVE  Tells(pl, After(e))
<1>1. Tells(pl, OnOpen(pl))
  BY DEF OnOpen, Emit, Link, Tells, Honest
<1>2. \A isOpen : Tells(pl, AttachChannel(pl, isOpen))
  BY DEF AttachChannel, Emit, Link, Tells, Honest
<1> QED
  BY <1>1, <1>2, FinishTells, FailTells, CandidateTells
     DEF After, Event, CandidateType

LEMMA BecomesTells ==
    ASSUME NEW k, Honest(k), Becomes(k), pl' \in Link
    PROVE  Honest(pl)' /\ pl'.localSdp = k.localSdp
<1>1. pl' = [k EXCEPT !.emits = <<>>]
  BY DEF Becomes
<1>2. /\ pl'.hasSrflx = k.hasSrflx /\ pl'.candidates = k.candidates
      /\ pl'.ready = k.ready /\ pl'.announced = k.announced
      /\ pl'.localSdp = k.localSdp /\ pl'.carried = k.carried /\ pl'.sent = k.sent
  BY <1>1
<1> QED
  BY <1>2 DEF Honest

\* Handlers that leave the queue alone.
LEMMA CallTells ==
    ASSUME IInv, IInv', Honest(pl),
           CreateOffer \/ AcceptOffer \/ SetAnswer \/ CallFails \/ GraceTimeout \/ GatherTimeout
    PROVE  Honest(pl)' /\ pl'.localSdp = pl.localSdp
<1>1. pl \in Link /\ pl' \in Link /\ Tells(pl, Fail(pl)) /\ Tells(pl, pl)
  BY FailTells DEF IInv, TypeOK, Tells
<1>2. CASE CreateOffer
  <2> DEFINE k == [AttachChannel(pl, FALSE) EXCEPT !.started = TRUE, !.gatherTimer = TRUE]
  <2>1. Tells(pl, k)
    BY <1>1 DEF AttachChannel, Link, Tells, Honest
  <2>2. Becomes(k)
    BY <1>2 DEF CreateOffer
  <2> HIDE DEF k
  <2> QED
    BY <1>1, <2>1, <2>2, BecomesTells DEF Tells
<1>3. CASE AcceptOffer
  <2> DEFINE l == [pl EXCEPT !.started = TRUE, !.gatherTimer = TRUE]
  <2>1. l \in Link /\ Tells(pl, l)
    BY <1>1 DEF Link, Tells, Honest
  <2>2. Becomes(l) \/ Becomes(Fail(l))
    BY <1>3 DEF AcceptOffer
  <2> HIDE DEF l
  <2> QED
    BY <1>1, <2>1, <2>2, FailTells, BecomesTells DEF Tells
<1>4. CASE SetAnswer \/ CallFails
  BY <1>1, <1>4, BecomesTells DEF SetAnswer, CallFails, Tells
<1>5. CASE GraceTimeout
  <2> DEFINE l == [pl EXCEPT !.graceTimer = FALSE]
  <2>1. l \in Link /\ Tells(pl, l)
    BY <1>1 DEF Link, Tells, Honest
  <2>2. Becomes(FinishGathering(l))
    BY <1>5 DEF GraceTimeout
  <2> HIDE DEF l
  <2> QED
    BY <1>1, <2>1, <2>2, FinishTells, BecomesTells DEF Tells
<1>6. CASE GatherTimeout
  <2> DEFINE l == [pl EXCEPT !.gatherTimer = FALSE]
  <2>1. l \in Link /\ Tells(pl, l)
    BY <1>1 DEF Link, Tells, Honest
  <2>2. Becomes(FinishGathering(l))
    BY <1>6 DEF GatherTimeout
  <2> HIDE DEF l
  <2> QED
    BY <1>1, <2>1, <2>2, FinishTells, BecomesTells DEF Tells
<1> QED
  BY <1>2, <1>3, <1>4, <1>5, <1>6

LEMMA StepHonest ==
    ASSUME IInv, IInv', Honest(pl), DescribedOnce, [Next]_vars
    PROVE  Honest(pl)' /\ DescribedOnce'
<1>1. pl \in Link /\ pl' \in Link /\ rtc \in Rtc /\ rtc' \in Rtc
  BY DEF IInv, TypeOK
<1>2. CASE UNCHANGED vars
  BY <1>2 DEF Honest, DescribedOnce, vars
<1>3. CASE CreateOffer \/ AcceptOffer \/ SetAnswer \/ CallFails \/ GraceTimeout \/ GatherTimeout
  <2>1. Honest(pl)' /\ pl'.localSdp = pl.localSdp
    BY <1>3, CallTells
  <2>2. UNCHANGED queue /\ rtc'.described = rtc.described
    BY <1>1, <1>3 DEF CreateOffer, AcceptOffer, SetAnswer, CallFails, GraceTimeout, GatherTimeout, Rtc
  <2> QED
    BY <2>1, <2>2 DEF DescribedOnce
<1>4. CASE HandleNext /\ Head(queue) = "description"
  <2>1. /\ queue # <<>> /\ queue' = Tail(queue) /\ rtc' = rtc
        /\ Becomes(OnLocalDescription(pl, rtc.carries))
    BY <1>4 DEF HandleNext, After, CandidateType
  <2>2. queue[1] = "description" /\ 1 \in DOMAIN queue
    BY <1>4, <2>1, HandledEvents DEF IInv
  <2>3. rtc.described /\ ~pl.localSdp
    BY <2>2 DEF DescribedOnce
  <2>4. Honest(pl)'
    <3>1. rtc.carries \in SUBSET CandidateType
      BY <1>1 DEF Rtc
    <3>2. Honest(OnLocalDescription(pl, rtc.carries))
      BY <1>1, <2>3, <3>1, DescriptionTells
    <3> QED
      BY <1>1, <2>1, <3>2, BecomesTells
  <2>5. \A i \in DOMAIN Tail(queue) : i + 1 \in DOMAIN queue /\ Tail(queue)[i] = queue[i + 1] /\ i + 1 # 1
    BY <2>1 DEF IInv, TypeOK
  <2>6. \A i \in DOMAIN queue' : queue'[i] # "description"
    BY <2>1, <2>2, <2>5 DEF DescribedOnce
  <2> QED
    BY <2>1, <2>3, <2>4, <2>6 DEF DescribedOnce
<1>5. ASSUME Honest(pl)', pl'.localSdp = pl.localSdp, queue # <<>>, rtc'.described = rtc.described,
             \/ queue' = Tail(queue)
             \/ \E e \in Event \ {"description"} : queue' = Append(Tail(queue), e)
      PROVE  Honest(pl)' /\ DescribedOnce'
  <2>1. /\ Tail(queue) \in Seq(Event)
        /\ \A i \in DOMAIN Tail(queue) : i \in Int /\ i + 1 \in DOMAIN queue /\ Tail(queue)[i] = queue[i + 1]
    BY <1>5 DEF IInv, TypeOK
  <2>2. \A i \in DOMAIN queue' : queue'[i] = "description" =>
             i \in Int /\ i + 1 \in DOMAIN queue /\ queue[i + 1] = "description"
    <3>1. CASE queue' = Tail(queue)
      BY <2>1, <3>1
    <3>2. CASE \E e \in Event \ {"description"} : queue' = Append(Tail(queue), e)
      <4>1. PICK e \in Event \ {"description"} : queue' = Append(Tail(queue), e)
        BY <3>2
      <4>2. \A i \in DOMAIN queue' : (i \in DOMAIN Tail(queue) /\ queue'[i] = Tail(queue)[i]) \/ queue'[i] = e
        BY <2>1, <4>1
      <4> QED
        BY <2>1, <4>1, <4>2
    <3> QED
      BY <1>5, <3>1, <3>2
  <2>3. \A i, j \in DOMAIN queue' : queue'[i] = "description" /\ queue'[j] = "description" => j = i
    <3> SUFFICES ASSUME NEW i \in DOMAIN queue', NEW j \in DOMAIN queue',
                        queue'[i] = "description", queue'[j] = "description"
                 PROVE  j = i
      OBVIOUS
    <3>1. i \in Int /\ j \in Int /\ j + 1 = i + 1
      BY <2>2 DEF DescribedOnce
    <3> QED
      BY <3>1
  <2>4. \A i \in DOMAIN queue' : queue'[i] = "description" => rtc.described /\ ~pl.localSdp
    BY <2>2 DEF DescribedOnce
  <2> QED
    BY <1>5, <2>3, <2>4 DEF DescribedOnce
<1>6. CASE HandleNext /\ Head(queue) # "description"
  <2>1. /\ queue # <<>> /\ queue' = Tail(queue) /\ rtc' = rtc
        /\ Becomes(After(Head(queue))) /\ Head(queue) \in Event
    BY <1>6, HandledEvents DEF HandleNext, IInv
  <2>2. Tells(pl, After(Head(queue)))
    BY <1>1, <1>6, <2>1, AfterTells
  <2>3. Honest(pl)' /\ pl'.localSdp = pl.localSdp
    BY <1>1, <2>1, <2>2, BecomesTells DEF Tells
  <2> QED
    BY <1>5, <2>1, <2>3
<1>7. CASE AttachWhileOpening
  <2>1. Becomes(AttachChannel(pl, TRUE)) /\ Tells(pl, AttachChannel(pl, TRUE))
    BY <1>1, <1>7 DEF AttachWhileOpening, AttachChannel, Emit, Link, Tells, Honest
  <2>2. Honest(pl)' /\ pl'.localSdp = pl.localSdp
    BY <1>1, <2>1, BecomesTells DEF Tells
  <2>3. /\ queue # <<>> /\ rtc'.described = rtc.described
        /\ \E e \in Event \ {"description"} : queue' = Append(Tail(queue), e)
    BY <1>1, <1>7 DEF AttachWhileOpening, Event, Rtc
  <2> QED
    BY <1>5, <2>2, <2>3
<1>8. CASE Describe
  <2>1. /\ ~rtc.described /\ rtc'.described /\ queue' = Append(queue, "description")
        /\ UNCHANGED pl
    BY <1>1, <1>8 DEF Describe, Queued, Rtc
  <2>2. ~pl.localSdp /\ \A i \in DOMAIN queue : queue[i] # "description"
    BY <2>1 DEF DescribedOnce
  <2>3. \A i \in DOMAIN queue' : queue'[i] = "description" => i = Len(queue) + 1
    BY <2>1, <2>2 DEF IInv, TypeOK, Event
  <2> QED
    BY <2>1, <2>2, <2>3 DEF DescribedOnce, Honest
<1>9. ASSUME UNCHANGED pl, rtc'.described = rtc.described,
             \/ UNCHANGED queue
             \/ \E e \in Event \ {"description"} : queue' = Append(queue, e)
      PROVE  Honest(pl)' /\ DescribedOnce'
  <2>1. Honest(pl)'
    BY <1>9 DEF Honest
  <2>2. \A i \in DOMAIN queue' : queue'[i] = "description" =>
             i \in DOMAIN queue /\ queue[i] = "description"
    <3>1. CASE \E e \in Event \ {"description"} : queue' = Append(queue, e)
      <4>1. PICK e \in Event \ {"description"} : queue' = Append(queue, e)
        BY <3>1
      <4>2. \A i \in DOMAIN queue' : (i \in DOMAIN queue /\ queue'[i] = queue[i]) \/ queue'[i] = e
        BY <4>1 DEF IInv, TypeOK
      <4> QED
        BY <4>1, <4>2
    <3> QED
      BY <1>9, <3>1
  <2> QED
    BY <1>9, <2>1, <2>2 DEF DescribedOnce
<1>10. CASE \/ (\E type \in CandidateType : FindCandidate(type))
            \/ GatheringComplete \/ ChannelArrives \/ ChannelOpens \/ Ends
  <2>1. UNCHANGED pl /\ rtc'.described = rtc.described
    BY <1>1, <1>10 DEF FindCandidate, GatheringComplete, ChannelArrives, ChannelOpens, Ends, Rtc
  <2>2. \/ UNCHANGED queue
        \/ \E e \in Event \ {"description"} : queue' = Append(queue, e)
    BY <1>10 DEF FindCandidate, GatheringComplete, ChannelArrives, ChannelOpens, Ends,
                 Queued, Event, CandidateType
  <2> QED
    BY <1>9, <2>1, <2>2
<1> QED
  BY <1>2, <1>3, <1>4, <1>6, <1>7, <1>8, <1>10 DEF Next

\* A description announced with a public address has one in it, and one announced
\* without has one only if libdatachannel wrote it there ahead of its callback,
\* whatever order candidates, timers, the description and the end of gathering come
\* in (peerlink.cpp, addLocalCandidate and finishGathering).
THEOREM HonestAddressHolds == Spec => []HonestAddress
<1>1. Init => Honest(pl) /\ DescribedOnce
  BY DEF Init, NewLink, Honest, DescribedOnce
<1>2. TypeOK /\ Honest(pl) => HonestAddress
  BY DEF Honest, HonestAddress, TypeOK, Link
<1> QED
  BY <1>1, <1>2, TypeCorrect, InitIInv, StepIInv, StepHonest, PTL DEF Spec
=============================================================================
