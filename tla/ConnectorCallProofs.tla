------------------------- MODULE ConnectorCallProofs -------------------------
(***************************************************************************)
(* Proofs about Connector that relate the two ends of a call. What a       *)
(* handler makes of a Connector is put in three cases: it goes on with its *)
(* call, starts an attempt under a fresh sid, or stops. Only publishing a  *)
(* description, taking an offer and taking an answer need more than that.  *)
(* The last part says what a description under way tells of the link its   *)
(* sender still has.                                                       *)
(***************************************************************************)
EXTENDS ConnectorProofs

GoesOn(c, d) ==
    /\ d.name = c.name /\ d.peer = c.peer /\ d.sid = c.sid /\ d.role = c.role
    /\ d.server = c.server /\ d.hold = c.hold /\ d.remoteOffer = c.remoteOffer
    /\ c.link.phase # "gathering" =>
         /\ d.link.phase # "gathering"
         /\ d.link.sid = c.link.sid /\ d.link.tries = c.link.tries

\* What the link knows of the other end stays, unless it is replaced.
Remembers(c, d) ==
    \/ d.link.remote = c.link.remote
    \/ /\ c.link.phase = "gathering"
       /\ c.role = "Answerer" => d.link.remote \in {{}, c.remoteOffer}

Fresh(c, d, sid) == d.name = c.name /\ d.role = "Caller" /\ d.sid = sid

Stopped(c, d) == d.name = c.name /\ d.sid = NoSid /\ d.link.phase = "none"

Evolves(c, d, sid) == GoesOn(c, d) \/ Fresh(c, d, sid) \/ Stopped(c, d)

Follows(c, d, sid) ==
    (GoesOn(c, d) /\ Remembers(c, d)) \/ Fresh(c, d, sid) \/ Stopped(c, d)

LEMMA FollowsEvolves == \A c, d, sid : Follows(c, d, sid) => Evolves(c, d, sid)
BY DEF Follows, Evolves

LEMMA StaysFollows == \A c, sid : Follows(c, c, sid)
BY DEF Follows, GoesOn, Remembers

LEMMA StopFollows ==
    ASSUME NEW c \in Conn, NEW sid
    PROVE  Follows(c, Stop(c), sid)
BY DEF Stop, Disarm, Conn, NoLink, Follows, Stopped

LEMMA AttemptFailedFollows ==
    ASSUME NEW c \in Conn, NEW sid
    PROVE  Follows(c, AttemptFailed(c, sid), sid)
<1>1. CASE ~(c.state = "Connecting" /\ c.role = "Caller")
  BY <1>1, StaysFollows DEF AttemptFailed
<1>2. CASE c.state = "Connecting" /\ c.role = "Caller"
  <2> DEFINE d == [Disarm(c) EXCEPT !.nextServer   = (c.server + 1) % NServers,
                                    !.attemptsLeft = c.attemptsLeft - 1]
  <2>1. AttemptFailed(c, sid) = IF d.attemptsLeft > 0 THEN StartAttempt(d, sid) ELSE Stop(d)
    BY <1>2 DEF AttemptFailed, NextAttempt
  <2>2. Fresh(c, StartAttempt(d, sid), sid)
    BY DEF StartAttempt, StartLink, StartLinkGiven, Disarm, Conn, Fresh
  <2>3. Stopped(c, Stop(d))
    BY DEF Stop, Disarm, Conn, NoLink, Stopped
  <2> QED BY <2>1, <2>2, <2>3 DEF Follows
<1> QED BY <1>1, <1>2

\* A link that takes the place of one that gathers, with or without the probe.
LEMMA RelinkFollows ==
    ASSUME NEW c \in Conn, c.link.phase = "gathering", NEW b \in BOOLEAN, NEW t \in Nat
    PROVE  LET d == StartLinkGiven([c EXCEPT !.probing = b, !.stunTries = t]) IN
           GoesOn(c, d) /\ Remembers(c, d)
<1> DEFINE e == [c EXCEPT !.probing = b, !.stunTries = t]
           d == [e EXCEPT !.link = NewLink(e)]
<1>1. /\ e \in Conn /\ e.name = c.name /\ e.peer = c.peer /\ e.sid = c.sid
      /\ e.role = c.role /\ e.server = c.server /\ e.hold = c.hold
      /\ e.remoteOffer = c.remoteOffer
  BY DEF Conn
<1> HIDE DEF e
<1>2. /\ d.name = e.name /\ d.peer = e.peer /\ d.sid = e.sid
      /\ d.role = e.role /\ d.server = e.server /\ d.hold = e.hold
      /\ d.remoteOffer = e.remoteOffer /\ d.link = NewLink(e)
  BY <1>1 DEF Conn
<1>3. NewLink(e).remote \in {{}, e.remoteOffer}
  BY DEF NewLink
<1> HIDE DEF d
<1>4. GoesOn(c, d) /\ Remembers(c, d)
  BY <1>1, <1>2, <1>3 DEF GoesOn, Remembers
<1> QED BY <1>4 DEF StartLinkGiven, d, e

LEMMA StartLinkFollows ==
    ASSUME NEW c \in Conn, c.link.phase = "gathering", NEW sid
    PROVE  Follows(c, StartLink(c), sid)
<1> DEFINE t == c.stunTries + 1
<1>1. t \in Nat /\ c.probing \in BOOLEAN
  BY DEF Conn
<1>2. [c EXCEPT !.stunTries = t] = [c EXCEPT !.probing = c.probing, !.stunTries = t]
  BY DEF Conn
<1> HIDE DEF t
<1>3. LET d == StartLinkGiven([c EXCEPT !.stunTries = t]) IN GoesOn(c, d) /\ Remembers(c, d)
  BY <1>1, <1>2, RelinkFollows
<1> QED BY <1>3 DEF StartLink, Follows, t

LEMMA OnClosedFollows ==
    ASSUME NEW c \in Conn, Coherent(c), NEW sid
    PROVE  Follows(c, OnClosed(c, sid), sid)
<1>1. CASE c.probing /\ c.stunTries < MaxStunTries
  <2>1. OnClosed(c, sid) = StartLink(c) /\ c.link.phase = "gathering"
    BY <1>1 DEF OnClosed, Coherent
  <2> QED BY <2>1, StartLinkFollows
<1>2. CASE ~(c.probing /\ c.stunTries < MaxStunTries)
  BY <1>2, AttemptFailedFollows, StopFollows DEF OnClosed
<1> QED BY <1>1, <1>2

\* A change of the phase or of the release of a link that gathers no more.
LEMMA LinkChangeGoesOn ==
    ASSUME NEW c \in Conn, NEW l, l.sid = c.link.sid, l.tries = c.link.tries,
           l.remote = c.link.remote, l.phase = "gathering" => c.link.phase = "gathering"
    PROVE  LET d == [c EXCEPT !.link = l] IN GoesOn(c, d) /\ Remembers(c, d)
BY DEF Conn, GoesOn, Remembers

LEMMA OnOpenedFollows ==
    ASSUME NEW c \in Conn, NEW sid
    PROVE  Follows(c, OnOpened(c), sid)
<1> DEFINE l == [c.link EXCEPT !.phase = "open"]
           s == IF c.role = "Caller" THEN c.server ELSE c.nextServer
           d == [c EXCEPT !.answerTimer = FALSE, !.openTimer = FALSE, !.nextServer = s,
                          !.state = "Connected", !.link = l]
<1>1. /\ l.sid = c.link.sid /\ l.tries = c.link.tries /\ l.remote = c.link.remote
      /\ l.phase = "open"
  BY DEF Conn, Link
<1>2. OnOpened(c) = d
  BY DEF OnOpened
<1> HIDE DEF l, s
<1>3. GoesOn(c, d) /\ Remembers(c, d)
  BY <1>1 DEF Conn, GoesOn, Remembers
<1> QED BY <1>2, <1>3 DEF Follows

LEMMA TimeReleaseGoesOn ==
    ASSUME NEW n \in Node, NEW c \in Conn, NEW p \in Post
    PROVE  LET d == TimeRelease(n, c, p) IN
           /\ d \in Conn /\ GoesOn(c, d) /\ Remembers(c, d)
           /\ d.link.phase = c.link.phase
<1> DEFINE l == [c.link EXCEPT !.held = "timed"]
           d == [c EXCEPT !.link = l]
<1>1. /\ l \in Link /\ l.sid = c.link.sid /\ l.tries = c.link.tries
      /\ l.remote = c.link.remote /\ l.phase = c.link.phase
  BY DEF Conn, Link
<1>2. TimeRelease(n, c, p) = c \/ TimeRelease(n, c, p) = d
  BY DEF TimeRelease
<1> HIDE DEF l
<1>3. d \in Conn /\ d.link = l
  BY <1>1 DEF Conn
<1>4. GoesOn(c, d) /\ Remembers(c, d)
  BY <1>1, LinkChangeGoesOn
<1> HIDE DEF d
<1>5. GoesOn(c, c) /\ Remembers(c, c)
  BY DEF GoesOn, Remembers
<1> QED BY <1>1, <1>2, <1>3, <1>4, <1>5

\* A change of timers only, and what follows it.
LEMMA FollowsOn ==
    ASSUME NEW c, NEW d, NEW e, NEW sid, GoesOn(c, d), Remembers(c, d),
           d.link.remote = c.link.remote, Follows(d, e, sid),
           d.link.phase = "gathering" => c.link.phase = "gathering"
    PROVE  Follows(c, e, sid)
BY DEF Follows, GoesOn, Remembers, Fresh, Stopped

LEMMA OnPostedFollows ==
    ASSUME NEW n \in Node, NEW c \in Conn, NEW p \in Post, NEW ok \in BOOLEAN, NEW sid
    PROVE  Follows(c, OnPosted(n, c, p, ok, sid), sid)
<1> DEFINE d == TimeRelease(n, c, p)
<1>1. /\ d \in Conn /\ GoesOn(c, d) /\ Remembers(c, d) /\ d.link.phase = c.link.phase
      /\ d.link.remote = c.link.remote
  <2>1. d.link.remote = c.link.remote
    BY DEF TimeRelease, Conn, Link
  <2> QED BY <2>1, TimeReleaseGoesOn
<1>2. Follows(d, AttemptFailed(d, sid), sid)
  BY <1>1, AttemptFailedFollows
<1> HIDE DEF d
<1>3. Follows(c, AttemptFailed(d, sid), sid)
  BY <1>1, <1>2, FollowsOn
<1>4. Follows(c, c, sid) /\ Follows(c, d, sid)
  BY <1>1, StaysFollows DEF Follows
<1> QED BY <1>3, <1>4 DEF OnPosted, d

\* An answer that is expected.
LEMMA AnswerGoesOn ==
    ASSUME NEW c \in Conn, NEW m \in Message, ExpectsAnswer(c, m), Coherent(c)
    PROVE  LET d == OnAnswer(c, m) IN
           GoesOn(c, d) /\ d.link.remote = m.sdp /\ c.link.phase # "gathering"
<1> DEFINE l == [c.link EXCEPT !.remote = m.sdp]
           d == [c EXCEPT !.waiting = FALSE, !.answerTimer = FALSE, !.openTimer = TRUE,
                          !.link = l]
<1>1. /\ l.sid = c.link.sid /\ l.tries = c.link.tries /\ l.remote = m.sdp
      /\ l.phase = c.link.phase
  BY DEF Conn, Link
<1>2. OnAnswer(c, m) = d
  BY DEF OnAnswer
<1>3. c.link.phase # "gathering"
  BY DEF ExpectsAnswer, Coherent
<1> HIDE DEF l
<1>4. GoesOn(c, d) /\ d.link = l
  BY <1>1, <1>3 DEF Conn, GoesOn
<1> QED BY <1>1, <1>2, <1>3, <1>4

----------------------------------------------------------------------------
\* A step of one node that needs no special care: it removes messages, or adds
\* some that are no offers.
LEMMA EvolvesCallInv ==
    ASSUME IInv, IInv', CallInv, NEW n \in Node, NEW d,
           Evolves(conn[n], d, sids + 1), Becomes(n, d),
           Offers' \subseteq Offers, \A o \in net' : o.sid <= sids
    PROVE  CallInv'
<1> USE DEF NoSid
<1>1. conn' = [conn EXCEPT ![n] = d] /\ conn \in [Node -> Conn] /\ sids \in Nat
  BY DEF Becomes, IInv, TypeOK
<1>2. /\ conn'[n] = d /\ \A m \in Node : m # n => conn'[m] = conn[m]
      /\ \A m \in Node : conn[m] \in Conn /\ conn[m].sid \in Nat
      /\ d \in Conn /\ d.sid \in Nat
  BY <1>1 DEF IInv, TypeOK, Conn, Sid
<1>3. /\ \A m \in Node : conn[m].sid <= sids
      /\ \A o \in Offers : o.sid <= sids /\ o.sid \in Nat \ {0}
  BY DEF CallInv, SidsDrawn, Offers, IInv, TypeOK, Message, Sid
<1>4. /\ \A m, k \in Node : m # k => conn[m].name # conn[k].name
      /\ \A m, k \in Node : m # k => Paired(conn[m], conn[k]) /\ Unannounced(conn[m], conn[k])
      /\ \A o \in Offers, m \in Node : Announced(conn[m], o)
      /\ \A o, p \in Offers : o.sid = p.sid => o = p
  BY DEF CallInv, NamesDiffer
<1>5. SidsDrawn'
  <2>1. sids' \in Nat /\ sids <= sids' /\ d.sid <= sids'
    BY <1>1, <1>2, <1>3 DEF Becomes, Evolves, GoesOn, Fresh, Stopped
  <2>2. ASSUME NEW m \in Node PROVE conn'[m].sid <= sids'
    BY <1>1, <1>2, <1>3, <2>1
  <2>3. ASSUME NEW o \in net' PROVE o.sid <= sids'
    <3>1. o.sid \in Nat /\ o.sid <= sids
      BY DEF IInv, TypeOK, Message, Sid
    <3> QED BY <3>1, <2>1, <1>1
  <2> QED BY <2>2, <2>3 DEF SidsDrawn
<1>6. NamesDiffer'
  BY <1>2, <1>4 DEF NamesDiffer, Evolves, GoesOn, Fresh, Stopped
<1>7. ASSUME NEW m \in Node, m # n
      PROVE  /\ Paired(d, conn[m]) /\ Paired(conn[m], d)
             /\ Unannounced(d, conn[m]) /\ Unannounced(conn[m], d)
  <2>1. CASE GoesOn(conn[n], d)
    BY <2>1, <1>4, <1>7 DEF GoesOn, Paired, Unannounced
  <2>2. CASE Fresh(conn[n], d, sids + 1)
    BY <2>2, <1>1, <1>2, <1>3 DEF Fresh, Paired, Unannounced
  <2>3. CASE Stopped(conn[n], d)
    <3>1. Coherent(conn[m])
      BY DEF IInv, AllCoherent
    <3> QED BY <2>3, <3>1 DEF Stopped, Paired, Unannounced, Coherent, HasLink
  <2> QED BY <2>1, <2>2, <2>3 DEF Evolves
<1>8. \A m, k \in Node : m # k => (Paired(conn[m], conn[k]) /\ Unannounced(conn[m], conn[k]))'
  BY <1>2, <1>4, <1>7 DEF Paired, Unannounced
<1>9. ASSUME NEW o \in Offers PROVE Announced(d, o)
  <2>1. CASE GoesOn(conn[n], d)
    BY <2>1, <1>4 DEF GoesOn, Announced
  <2>2. CASE Fresh(conn[n], d, sids + 1)
    BY <2>2, <1>1, <1>3 DEF Fresh, Announced
  <2>3. CASE Stopped(conn[n], d)
    BY <2>3, <1>3 DEF Stopped, Announced
  <2> QED BY <2>1, <2>2, <2>3 DEF Evolves
<1>10. \A o \in Offers', m \in Node : Announced(conn'[m], o)
  BY <1>2, <1>4, <1>9
<1> QED BY <1>4, <1>5, <1>6, <1>8, <1>10 DEF CallInv, Announced

\* A node publishes its offer: it is the only one for its sid, and nobody has
\* taken it yet.
LEMMA PublishCallInv ==
    ASSUME IInv, IInv', CallInv, NEW n \in Node,
           PublishDescription(n), conn[n].link.phase = "gathering"
    PROVE  CallInv'
<1> DEFINE c == conn[n]
           caller == c.role = "Caller"
           d == [c EXCEPT !.waiting     = caller \/ c.waiting,
                          !.answerTimer = caller \/ c.answerTimer,
                          !.openTimer   = ~caller \/ c.openTimer,
                          !.link.phase  = "ready"]
           e == Envelope(c, IF caller THEN "offer" ELSE "answer", {SdpOf(n, c)}, caller /\ c.hold)
<1>1. c \in Conn /\ Coherent(c) /\ c.link.phase = "gathering" /\ c.sid # NoSid
  BY DEF IInv, TypeOK, AllCoherent, Coherent, HasLink
<1>2. Becomes(n, d) /\ net' = net \cup {e}
  BY DEF PublishDescription
<1>3. /\ d.name = c.name /\ d.peer = c.peer /\ d.sid = c.sid /\ d.role = c.role
      /\ d.server = c.server /\ d.hold = c.hold /\ d.link.phase = "ready"
      /\ d.remoteOffer = c.remoteOffer
  BY <1>1 DEF Conn, Link
<1>4. /\ e.sid = c.sid /\ e.type = (IF caller THEN "offer" ELSE "answer")
      /\ e.from = c.name /\ e.to = c.peer /\ e.server = c.server
      /\ e.hold = (caller /\ c.hold)
  BY DEF Envelope
<1>5. \A o \in net' : o.sid <= sids
  BY <1>2, <1>4 DEF CallInv, SidsDrawn
<1> HIDE DEF c, d, e
<1>6. CASE ~caller
  <2>1. Offers' \subseteq Offers
    BY <1>2, <1>4, <1>6 DEF Offers
  <2>2. Evolves(conn[n], d, sids + 1)
    BY <1>3, <1>6 DEF Evolves, GoesOn, c
  <2> QED BY <1>2, <1>5, <2>1, <2>2, EvolvesCallInv
<1>7. CASE caller
  <2>1. /\ conn' = [conn EXCEPT ![n] = d] /\ conn \in [Node -> Conn]
        /\ Offers' = Offers \cup {e} /\ sids \in Nat
    BY <1>2, <1>4, <1>7 DEF Becomes, IInv, TypeOK, Offers
  <2>2. conn'[n] = d /\ \A m \in Node : m # n => conn'[m] = conn[m]
    BY <2>1
  <2>3. /\ \A m, k \in Node : m # k => conn[m].name # conn[k].name
        /\ \A m, k \in Node : m # k => Paired(conn[m], conn[k]) /\ Unannounced(conn[m], conn[k])
        /\ \A o \in Offers, m \in Node : Announced(conn[m], o)
        /\ \A o, p \in Offers : o.sid = p.sid => o = p
    BY DEF CallInv, NamesDiffer
  <2>4. \A m \in Node : m # n => conn[m].sid # c.sid
    BY <1>1, <1>7, <2>3 DEF Unannounced, c
  <2>5. \A o \in Offers : o.sid # c.sid
    BY <1>1, <2>3 DEF Announced, c
  <2>6. SidsDrawn'
    <3>1. sids' = sids
      BY <1>2, <1>3, <2>1 DEF Becomes, CallInv, SidsDrawn, c
    <3> QED BY <1>3, <1>5, <2>2, <3>1 DEF CallInv, SidsDrawn, c
  <2>7. NamesDiffer'
    BY <1>3, <2>2, <2>3 DEF NamesDiffer, c
  <2>8. \A m, k \in Node : m # k => (Paired(conn[m], conn[k]) /\ Unannounced(conn[m], conn[k]))'
    BY <1>3, <2>2, <2>3, <2>4 DEF Paired, Unannounced, c
  <2>9. ASSUME NEW m \in Node, NEW o \in Offers' PROVE Announced(conn'[m], o)
    <3>1. CASE m = n
      <4>1. c.hold \in BOOLEAN
        BY <1>1 DEF Conn
      <4>2. e.hold = c.hold
        BY <1>4, <1>7, <4>1
      <4>3. conn'[m] = d
        BY <2>2, <3>1
      <4>4. o \in Offers => o.sid # d.sid
        BY <1>3, <2>5
      <4>5. Announced(d, e)
        BY <1>3, <1>4, <1>7, <4>2 DEF Announced
      <4> QED BY <2>1, <4>3, <4>4, <4>5 DEF Announced
    <3>2. CASE m # n
      BY <1>4, <2>1, <2>2, <2>3, <2>4, <3>2 DEF Announced
    <3> QED BY <3>1, <3>2
  <2>10. \A o, p \in Offers' : o.sid = p.sid => o = p
    BY <1>4, <2>1, <2>3, <2>5
  <2> QED BY <2>6, <2>7, <2>8, <2>9, <2>10 DEF CallInv, Announced
<1> QED BY <1>6, <1>7

\* A node takes an offer: the only one for its sid, of the only caller with it.
LEMMA TakeOfferCallInv ==
    ASSUME IInv, IInv', CallInv, NEW n \in Node, NEW o \in net, o.type = "offer",
           o.to = conn[n].name, o.from # conn[n].name,
           Becomes(n, TakeOffer(conn[n], o)), net' = net \ {o}
    PROVE  CallInv'
<1> DEFINE c == conn[n]
           d == TakeOffer(c, o)
<1>1. c \in Conn /\ o \in Message /\ o.sid # NoSid /\ o.sid \in Nat
  BY DEF IInv, TypeOK, Message, Sid
<1>2. /\ d.name = c.name /\ d.peer = o.from /\ d.sid = o.sid /\ d.role = "Answerer"
      /\ d.server = o.server /\ d.hold = o.hold
  BY <1>1 DEF TakeOffer, StartLink, StartLinkGiven, Disarm, Conn
<1>3. /\ conn' = [conn EXCEPT ![n] = d] /\ conn \in [Node -> Conn]
      /\ Offers' = Offers \ {o} /\ o \in Offers /\ sids \in Nat
  BY DEF Becomes, IInv, TypeOK, Offers
<1> HIDE DEF d
<1>4. conn'[n] = d /\ \A m \in Node : m # n => conn'[m] = conn[m]
  BY <1>3
<1>5. /\ \A m, k \in Node : m # k => conn[m].name # conn[k].name
      /\ \A m, k \in Node : m # k => Paired(conn[m], conn[k]) /\ Unannounced(conn[m], conn[k])
      /\ \A p \in Offers, m \in Node : Announced(conn[m], p)
      /\ \A p, q \in Offers : p.sid = q.sid => p = q
  BY DEF CallInv, NamesDiffer
<1>6. SidsDrawn'
  <2>1. o.sid <= sids
    BY DEF CallInv, SidsDrawn
  <2>2. sids' = sids
    BY <1>1, <1>2, <1>3, <2>1 DEF Becomes, d
  <2> QED BY <1>2, <1>4, <2>1, <2>2 DEF CallInv, SidsDrawn
<1>7. NamesDiffer'
  BY <1>2, <1>4, <1>5 DEF NamesDiffer
<1>8. ASSUME NEW m \in Node, m # n
      PROVE  /\ Paired(d, conn[m]) /\ Paired(conn[m], d)
             /\ Unannounced(d, conn[m]) /\ Unannounced(conn[m], d)
  <2>1. Announced(conn[m], o)
    BY <1>3, <1>5
  <2> QED BY <1>2, <2>1 DEF Announced, Paired, Unannounced
<1>9. \A m, k \in Node : m # k => (Paired(conn[m], conn[k]) /\ Unannounced(conn[m], conn[k]))'
  BY <1>4, <1>5, <1>8 DEF Paired, Unannounced
<1>10. \A p \in Offers', m \in Node : Announced(conn'[m], p)
  <2>1. \A p \in Offers' : p.sid # o.sid
    BY <1>3, <1>5
  <2> QED BY <1>2, <1>3, <1>4, <1>5, <2>1 DEF Announced
<1> QED BY <1>3, <1>5, <1>6, <1>7, <1>9, <1>10 DEF CallInv, Announced

----------------------------------------------------------------------------
\* The steps.

LEMMA InitCallInv == Init => CallInv
<1> SUFFICES ASSUME Init PROVE CallInv
  OBVIOUS
<1>1. /\ \A n \in Node : conn[n].sid = NoSid /\ conn[n].name = InitName[n]
                         /\ conn[n].link.phase = "none"
      /\ net = {} /\ sids = 0
  BY DEF Init, InitConn, NoLink
<1> QED
  BY <1>1, InitNameAssumption
  DEF CallInv, SidsDrawn, NamesDiffer, Offers, Paired, Unannounced, NoSid

LEMMA UserCallInv ==
    ASSUME IInv, IInv', CallInv, NEW n \in Node, User(n)
    PROVE  CallInv'
<1> DEFINE c == conn[n]
<1>1. c \in Conn /\ Coherent(c)
  BY DEF IInv, TypeOK, AllCoherent
<1>2. \A o \in net : o.sid <= sids
  BY DEF CallInv, SidsDrawn
<1>3. ASSUME net' = net \cup Bye(c)
      PROVE  Offers' \subseteq Offers /\ \A o \in net' : o.sid <= sids
  <2>1. \A o \in Bye(c) : o.type = "bye" /\ o.sid = c.sid
    BY DEF Bye, Envelope
  <2> QED BY <1>2, <1>3, <2>1 DEF Offers, CallInv, SidsDrawn
<1>4. ASSUME NEW peer \in Name, ConnectTo(n, peer) PROVE CallInv'
  <2> DEFINE d == StartAttempt([c EXCEPT !.peer = peer, !.attemptsLeft = NServers,
                                         !.state = "Connecting"], sids + 1)
  <2>1. Becomes(n, d) /\ net' = net
    BY <1>4 DEF ConnectTo
  <2>2. Fresh(c, d, sids + 1)
    BY <1>1 DEF StartAttempt, StartLink, StartLinkGiven, Conn, Fresh
  <2> QED BY <1>2, <2>1, <2>2, EvolvesCallInv DEF Evolves, Offers
<1>5. CASE DisconnectPeer(n)
  <2>1. Becomes(n, Stop(c)) /\ net' = net \cup Bye(c)
    BY <1>5 DEF DisconnectPeer
  <2> QED BY <1>1, <1>3, <2>1, StopFollows, FollowsEvolves, EvolvesCallInv
<1>6. ASSUME NEW name \in Name, SetNodeName(n, name) PROVE CallInv'
  <2> DEFINE d == IF c.state = "Idle" THEN c ELSE Stop(c)
             e == [d EXCEPT !.name = name]
  <2>1. d \in Conn /\ d.sid = NoSid /\ d.link.phase = "none"
    BY <1>1, StopCoherent DEF Stop, Disarm, Conn, NoLink, Coherent, HasLink
  <2>2. e.sid = NoSid /\ e.link.phase = "none" /\ e.name = name
    <3> HIDE DEF d
    <3> QED BY <2>1 DEF Conn
  <2>3. Becomes(n, e) /\ net' = net \cup Bye(c) /\ \A m \in Node : conn[m].name # name
    BY <1>6 DEF SetNodeName
  <2> HIDE DEF c, d, e
  <2>4. /\ conn' = [conn EXCEPT ![n] = e] /\ conn \in [Node -> Conn] /\ sids \in Nat
        /\ sids' = sids
    BY <2>2, <2>3 DEF Becomes, IInv, TypeOK, NoSid
  <2>5. conn'[n] = e /\ \A m \in Node : m # n => conn'[m] = conn[m]
    BY <2>4
  <2>6. SidsDrawn' /\ NamesDiffer'
    BY <1>3, <2>2, <2>3, <2>4, <2>5 DEF SidsDrawn, NamesDiffer, CallInv, NoSid
  <2>7. \A m \in Node : conn[m].link.phase = "gathering" => conn[m].sid # NoSid
    BY DEF IInv, AllCoherent, Coherent, HasLink
  <2>8. \A m, k \in Node : m # k => (Paired(conn[m], conn[k]) /\ Unannounced(conn[m], conn[k]))'
    BY <2>2, <2>5, <2>7 DEF CallInv, Paired, Unannounced
  <2>9. \A o \in Offers : o.sid # NoSid
    BY DEF Offers, IInv, TypeOK, Message
  <2>10. \A o \in Offers', m \in Node : Announced(conn'[m], o)
    BY <1>3, <2>2, <2>3, <2>5, <2>9 DEF CallInv, Announced
  <2> QED BY <1>3, <2>3, <2>6, <2>8, <2>10 DEF CallInv, Announced
<1> QED BY <1>4, <1>5, <1>6 DEF User

\* The handlers that need more than Follows.
TakesIt(n, m) ==
    /\ m.type = "offer" /\ m.to = conn[n].name /\ m.from # conn[n].name
    /\ Becomes(n, TakeOffer(conn[n], m)) /\ net' = net \ {m}

AnswersIt(n, m) ==
    /\ m.type = "answer" /\ ExpectsAnswer(conn[n], m)
    /\ Becomes(n, OnAnswer(conn[n], m)) /\ net' = net \ {m}

Publishes(n) == PublishDescription(n) /\ conn[n].link.phase = "gathering"

LEMMA HandlerFollows ==
    ASSUME IInv, NEW n \in Node, Handler(n)
    PROVE  \/ \E d : Becomes(n, d) /\ Follows(conn[n], d, sids + 1) /\ net' \subseteq net
           \/ Publishes(n)
           \/ \E m \in net : TakesIt(n, m) \/ AnswersIt(n, m)
<1> DEFINE c == conn[n]
           Quiet == \E d : Becomes(n, d) /\ Follows(c, d, sids + 1) /\ net' \subseteq net
           Special == Publishes(n) \/ \E m \in net : TakesIt(n, m) \/ AnswersIt(n, m)
<1> SUFFICES Quiet \/ Special
  OBVIOUS
<1>1. c \in Conn /\ Coherent(c)
  BY DEF IInv, TypeOK, AllCoherent
<1>2. ASSUME NEW d, Becomes(n, d), Follows(c, d, sids + 1), net' \subseteq net
      PROVE  Quiet
  BY <1>2
<1> HIDE DEF Quiet
<1>3. CASE OnLocalReady(n)
  <2>1. c.link.phase = "gathering"
    BY <1>3 DEF OnLocalReady
  <2>2. CASE RetryStun(n)
    BY <1>1, <1>2, <2>1, <2>2, StartLinkFollows DEF RetryStun
  <2>3. CASE StartRealLink(n)
    <3> DEFINE t == c.stunTries
    <3>1. t \in Nat /\ [c EXCEPT !.probing = FALSE] = [c EXCEPT !.probing = FALSE, !.stunTries = t]
      BY <1>1 DEF Conn
    <3> HIDE DEF t
    <3>2. Follows(c, StartLinkGiven([c EXCEPT !.probing = FALSE]), sids + 1)
      BY <1>1, <2>1, <3>1, RelinkFollows DEF Follows
    <3> QED BY <1>2, <2>3, <3>2 DEF StartRealLink
  <2>4. CASE PublishDescription(n)
    BY <2>1, <2>4 DEF Publishes
  <2> QED BY <1>3, <2>2, <2>3, <2>4 DEF OnLocalReady
<1>4. CASE PostEnds(n)
  <2>1. PICK p \in posts, ok \in BOOLEAN : Becomes(n, OnPosted(n, c, p, ok, sids + 1))
    BY <1>4 DEF PostEnds
  <2>2. p \in Post /\ net' = net
    BY <1>4 DEF IInv, TypeOK, PostEnds
  <2> QED BY <1>1, <1>2, <2>1, <2>2, OnPostedFollows
<1>5. CASE ReleaseRemoteCandidates(n)
  <2> DEFINE l == [c.link EXCEPT !.held = "no"]
  <2>1. Becomes(n, [c EXCEPT !.link = l]) /\ net' = net
    BY <1>5 DEF ReleaseRemoteCandidates
  <2>2. /\ l.sid = c.link.sid /\ l.tries = c.link.tries
        /\ l.remote = c.link.remote /\ l.phase = c.link.phase
    BY <1>1 DEF Conn, Link
  <2> HIDE DEF l
  <2>3. Follows(c, [c EXCEPT !.link = l], sids + 1)
    BY <1>1, <2>2, LinkChangeGoesOn DEF Follows
  <2> QED BY <1>2, <2>1, <2>3
<1>6. CASE Receive(n)
  <2>1. PICK m \in net :
           /\ m.to = c.name
           /\ Becomes(n, IF m.from = c.name THEN c ELSE OnSignal(c, m))
           /\ net' = net \ {m}
    BY <1>6 DEF Receive
  <2>2. m \in Message
    BY DEF IInv, TypeOK
  <2>3. Follows(c, c, sids + 1) /\ Follows(c, Stop(c), sids + 1)
    BY <1>1, StaysFollows, StopFollows
  <2>4. CASE m.from = c.name
    BY <1>2, <2>1, <2>3, <2>4
  <2>5. CASE m.from # c.name /\ m.type = "bye"
    <3>1. OnSignal(c, m) = c \/ OnSignal(c, m) = Stop(c)
      BY <2>5 DEF OnSignal, OnBye
    <3> QED BY <1>2, <2>1, <2>3, <2>5, <3>1
  <2>6. CASE m.from # c.name /\ m.type = "offer"
    <3>1. OnSignal(c, m) = IF IgnoresOffer(c, m) THEN c ELSE TakeOffer(c, m)
      BY <2>6 DEF OnSignal, OnOffer
    <3>2. CASE IgnoresOffer(c, m)
      BY <1>2, <2>1, <2>3, <2>6, <3>1, <3>2
    <3>3. CASE ~IgnoresOffer(c, m)
      BY <2>1, <2>6, <3>1, <3>3 DEF TakesIt
    <3> QED BY <3>2, <3>3
  <2>7. CASE m.from # c.name /\ m.type = "answer"
    <3>1. OnSignal(c, m) = OnAnswer(c, m)
      BY <2>7 DEF OnSignal
    <3>2. CASE ExpectsAnswer(c, m)
      BY <2>1, <2>7, <3>1, <3>2 DEF AnswersIt
    <3>3. CASE ~ExpectsAnswer(c, m)
      BY <1>2, <2>1, <2>3, <2>7, <3>1, <3>3 DEF OnAnswer
    <3> QED BY <3>2, <3>3
  <2> QED BY <2>2, <2>4, <2>5, <2>6, <2>7 DEF Message
<1>7. CASE AnswerTimeout(n)
  <2> DEFINE d == [c EXCEPT !.answerTimer = FALSE, !.waiting = FALSE]
  <2>1. d \in Conn /\ GoesOn(c, d) /\ d.link = c.link /\ Remembers(c, d)
    BY <1>1 DEF Conn, GoesOn, Remembers
  <2>2. Becomes(n, AttemptFailed(d, sids + 1)) /\ net' = net
    BY <1>7 DEF AnswerTimeout
  <2> HIDE DEF d
  <2>3. Follows(c, AttemptFailed(d, sids + 1), sids + 1)
    BY <2>1, AttemptFailedFollows, FollowsOn
  <2> QED BY <1>2, <2>2, <2>3
<1>8. CASE OpenTimeout(n)
  <2> DEFINE d == [c EXCEPT !.openTimer = FALSE]
             e == IF d.role = "Caller" THEN AttemptFailed(d, sids + 1) ELSE Stop(d)
  <2>1. d \in Conn /\ GoesOn(c, d) /\ d.link = c.link /\ Remembers(c, d)
    BY <1>1 DEF Conn, GoesOn, Remembers
  <2>2. Becomes(n, e) /\ net' = net
    BY <1>8 DEF OpenTimeout
  <2> HIDE DEF d
  <2>3. Follows(d, e, sids + 1)
    BY <2>1, AttemptFailedFollows, StopFollows
  <2> HIDE DEF e
  <2>4. Follows(c, e, sids + 1)
    BY <2>1, <2>3, FollowsOn
  <2> QED BY <1>2, <2>2, <2>4
<1>9. CASE LinkOpened(n)
  BY <1>1, <1>2, <1>9, OnOpenedFollows DEF LinkOpened
<1>10. CASE LinkClosed(n)
  BY <1>1, <1>2, <1>10, OnClosedFollows DEF LinkClosed
<1> QED
  BY <1>3, <1>4, <1>5, <1>6, <1>7, <1>8, <1>9, <1>10 DEF Handler

LEMMA HandlerCallInv ==
    ASSUME IInv, IInv', CallInv, NEW n \in Node, Handler(n)
    PROVE  CallInv'
<1>1. conn[n] \in Conn /\ Coherent(conn[n])
  BY DEF IInv, TypeOK, AllCoherent
<1>2. ASSUME NEW d, Becomes(n, d), Evolves(conn[n], d, sids + 1), net' \subseteq net
      PROVE  CallInv'
  <2>1. Offers' \subseteq Offers /\ \A o \in net' : o.sid <= sids
    BY <1>2 DEF Offers, CallInv, SidsDrawn
  <2> QED BY <1>2, <2>1, EvolvesCallInv
<1>3. ASSUME NEW m \in net, AnswersIt(n, m) PROVE CallInv'
  <2>1. m \in Message
    BY DEF IInv, TypeOK
  <2>2. Evolves(conn[n], OnAnswer(conn[n], m), sids + 1)
    BY <1>1, <1>3, <2>1, AnswerGoesOn DEF AnswersIt, Evolves
  <2> QED BY <1>2, <1>3, <2>2 DEF AnswersIt
<1>4. ASSUME NEW m \in net, TakesIt(n, m) PROVE CallInv'
  BY <1>4, TakeOfferCallInv DEF TakesIt
<1> QED
  BY <1>2, <1>3, <1>4, HandlerFollows, FollowsEvolves, PublishCallInv DEF Publishes

\* A channel that comes up leaves sids, roles, names and messages alone.
LEMMA ChannelUpCallInv ==
    ASSUME IInv, CallInv, NEW n \in Node, NEW m \in Node, ChannelUp(n, m)
    PROVE  CallInv'
<1>1. /\ \A k \in Node :
           /\ conn'[k].sid = conn[k].sid /\ conn'[k].name = conn[k].name
           /\ conn'[k].peer = conn[k].peer /\ conn'[k].role = conn[k].role
           /\ conn'[k].server = conn[k].server /\ conn'[k].hold = conn[k].hold
           /\ conn'[k].link.phase = "gathering" => conn[k].link.phase = "gathering"
      /\ net' = net /\ sids' = sids
  BY DEF ChannelUp, IInv, TypeOK, Conn, Link
<1>2. SidsDrawn' /\ NamesDiffer' /\ Offers' = Offers
  BY <1>1 DEF CallInv, SidsDrawn, NamesDiffer, Offers
<1>3. \A k, l \in Node : k # l => (Paired(conn[k], conn[l]) /\ Unannounced(conn[k], conn[l]))'
  BY <1>1 DEF CallInv, Paired, Unannounced
<1>4. \A o \in Offers', k \in Node : Announced(conn'[k], o)
  BY <1>1, <1>2 DEF CallInv, Announced
<1> QED BY <1>2, <1>3, <1>4 DEF CallInv, Announced

LEMMA StepCallInv == IInv /\ IInv' /\ CallInv /\ [Next]_vars => CallInv'
<1> SUFFICES ASSUME IInv, IInv', CallInv, [Next]_vars PROVE CallInv'
  OBVIOUS
<1>1. CASE UNCHANGED vars
  BY <1>1 DEF vars, CallInv, SidsDrawn, NamesDiffer, Offers, Paired, Unannounced, Announced
<1>2. CASE Next
  <2>1. PICK n \in Node : Handler(n) \/ User(n) \/ \E m \in Node : ChannelUp(n, m)
    BY <1>2 DEF Next
  <2> QED BY <2>1, HandlerCallInv, UserCallInv, ChannelUpCallInv
<1> QED BY <1>1, <1>2

\* Two nodes under one sid are the two ends of one call, whatever is delayed,
\* lost, retried or renamed in between (connector.cpp, startAttempt, onOffer
\* and stop).
THEOREM SameCallHolds == Spec => []SameCall
<1>1. CallInv => SameCall
  BY DEF CallInv, SameCall
<1> QED
  BY InitIInv, StepIInv, InitCallInv, StepCallInv, <1>1, PTL DEF Spec

----------------------------------------------------------------------------
\* What the two ends know of each other's link: the inductive part behind
\* NeverLocksOntoDiscarded.  An offer tells the caller's link, which from then
\* on stays, and an answer the answerer's; no answer is under way before the
\* offer was taken, and none is given by a link that still gathers.
Answers == {o \in net : o.type = "answer"}

Knows(n, c, m, d) ==
    (c.sid # NoSid /\ c.sid = d.sid /\ c.role = "Answerer") =>
        /\ c.remoteOffer = {SdpOf(m, d)}
        /\ c.link.remote = {} \/ c.link.remote = c.remoteOffer
        /\ d.link.remote # {} => d.link.remote = {SdpOf(n, c)} /\ c.link.phase # "gathering"

OfferTold(n, c, o) == o.sid = c.sid => o.sdp = {SdpOf(n, c)} /\ c.link.remote = {}

AnswerTold(n, c, a) ==
    a.sid = c.sid =>
        /\ c.link.phase # "gathering"
        /\ c.role = "Answerer" => a.sdp = {SdpOf(n, c)}

ToldInv ==
    /\ \A n, m \in Node : n # m => Knows(n, conn[n], m, conn[m])
    /\ \A n \in Node, o \in Offers : OfferTold(n, conn[n], o)
    /\ \A n \in Node, a \in Answers : AnswerTold(n, conn[n], a)
    /\ \A o \in Offers, a \in Answers : o.sid # a.sid

\* One node goes on, begins an attempt under a fresh sid or stops.
LEMMA FollowsTold ==
    ASSUME IInv, CallInv, ToldInv, NEW n \in Node, NEW d, conn' = [conn EXCEPT ![n] = d],
           \/ GoesOn(conn[n], d) /\ Remembers(conn[n], d)
           \/ d.sid = sids + 1 \/ d.sid = NoSid
    PROVE  /\ \A k, m \in Node : k # m => Knows(k, conn'[k], m, conn'[m])
           /\ \A k \in Node, o \in Offers : OfferTold(k, conn'[k], o)
           /\ \A k \in Node, a \in Answers : AnswerTold(k, conn'[k], a)
<1> DEFINE c == conn[n]
<1>1. conn'[n] = d /\ \A m \in Node : m # n => conn'[m] = conn[m]
  BY DEF IInv, TypeOK
<1>2. c \in Conn /\ sids \in Nat /\ \A m \in Node : conn[m].sid \in Nat /\ conn[m].sid <= sids
  BY DEF IInv, TypeOK, Conn, Sid, CallInv, SidsDrawn
<1>3. \A o \in net : o.sid \in Nat \ {0} /\ o.sid <= sids
  BY DEF IInv, TypeOK, Message, Sid, NoSid, CallInv, SidsDrawn
<1>4. c.role = "Caller" \/ c.role = "Answerer"
  BY <1>2 DEF Conn
<1> HIDE DEF c
<1>5. CASE GoesOn(c, d) /\ Remembers(c, d)
  <2>1. c.link.phase # "gathering" =>
          /\ d.link.phase # "gathering" /\ SdpOf(n, d) = SdpOf(n, c)
          /\ d.link.remote = c.link.remote
    BY <1>5 DEF GoesOn, Remembers, SdpOf
  <2>2. d.sid = c.sid /\ d.role = c.role /\ d.remoteOffer = c.remoteOffer
    BY <1>5 DEF GoesOn
  <2>3. ASSUME NEW m \in Node, m # n
        PROVE  Knows(n, d, m, conn[m]) /\ Knows(m, conn[m], n, d)
    <3>1. /\ Knows(n, c, m, conn[m]) /\ Knows(m, conn[m], n, c)
          /\ Paired(c, conn[m]) /\ Unannounced(c, conn[m])
      BY <2>3 DEF ToldInv, CallInv, c
    <3>2. Knows(n, d, m, conn[m])
      BY <1>5, <2>1, <2>2, <3>1 DEF Knows, Remembers
    <3>3. Knows(m, conn[m], n, d)
      BY <1>4, <2>1, <2>2, <3>1 DEF Knows, Paired, Unannounced
    <3> QED BY <3>2, <3>3
  <2>4. ASSUME NEW o \in Offers PROVE OfferTold(n, d, o)
    <3>1. OfferTold(n, c, o) /\ Announced(c, o)
      BY DEF ToldInv, CallInv, c
    <3> QED BY <2>1, <2>2, <3>1 DEF OfferTold, Announced
  <2>5. ASSUME NEW a \in Answers PROVE AnswerTold(n, d, a)
    <3>1. AnswerTold(n, c, a)
      BY DEF ToldInv, c
    <3> QED BY <2>1, <2>2, <3>1 DEF AnswerTold
  <2> QED BY <1>1, <2>3, <2>4, <2>5 DEF ToldInv
<1>6. CASE d.sid = sids + 1 \/ d.sid = NoSid
  <2>1. ASSUME NEW m \in Node, m # n
        PROVE  Knows(n, d, m, conn[m]) /\ Knows(m, conn[m], n, d)
    BY <1>2, <1>6 DEF Knows
  <2>2. ASSUME NEW o \in net PROVE o.sid # d.sid
    BY <1>2, <1>3, <1>6 DEF NoSid
  <2>3. \A o \in Offers : OfferTold(n, d, o)
    BY <2>2 DEF Offers, OfferTold
  <2>4. \A a \in Answers : AnswerTold(n, d, a)
    BY <2>2 DEF Answers, AnswerTold
  <2> QED BY <1>1, <2>1, <2>3, <2>4 DEF ToldInv
<1> QED BY <1>5, <1>6 DEF c

LEMMA QuietTold ==
    ASSUME IInv, CallInv, ToldInv, NEW n \in Node, NEW d, Becomes(n, d),
           \/ GoesOn(conn[n], d) /\ Remembers(conn[n], d)
           \/ d.sid = sids + 1 \/ d.sid = NoSid,
           Offers' \subseteq Offers, Answers' \subseteq Answers
    PROVE  ToldInv'
<1>1. conn' = [conn EXCEPT ![n] = d]
  BY DEF Becomes
<1>2. /\ \A k, m \in Node : k # m => Knows(k, conn'[k], m, conn'[m])
      /\ \A k \in Node, o \in Offers : OfferTold(k, conn'[k], o)
      /\ \A k \in Node, a \in Answers : AnswerTold(k, conn'[k], a)
  BY <1>1, FollowsTold
<1>3. \A o \in Offers', a \in Answers' : o.sid # a.sid
  BY DEF ToldInv
<1>4. /\ \A k \in Node, o \in Offers' : OfferTold(k, conn'[k], o)
      /\ \A k \in Node, a \in Answers' : AnswerTold(k, conn'[k], a)
  BY <1>2
<1> QED BY <1>2, <1>3, <1>4 DEF ToldInv, Knows, OfferTold, AnswerTold, SdpOf

\* The description that is published is that of a link which stays.
LEMMA PublishTold ==
    ASSUME IInv, CallInv, ToldInv, NEW n \in Node, Publishes(n)
    PROVE  ToldInv'
<1> DEFINE c == conn[n]
           caller == c.role = "Caller"
           l == [c.link EXCEPT !.phase = "ready"]
           d == [c EXCEPT !.waiting     = caller \/ c.waiting,
                          !.answerTimer = caller \/ c.answerTimer,
                          !.openTimer   = ~caller \/ c.openTimer,
                          !.link.phase  = "ready"]
           e == Envelope(c, IF caller THEN "offer" ELSE "answer", {SdpOf(n, c)}, caller /\ c.hold)
<1>1. c \in Conn /\ Coherent(c) /\ c.link.phase = "gathering" /\ c.sid # NoSid
  BY DEF Publishes, IInv, TypeOK, AllCoherent, Coherent, HasLink
<1>2. conn' = [conn EXCEPT ![n] = d] /\ net' = net \cup {e}
  BY DEF Publishes, PublishDescription, Becomes
<1>3. /\ d.name = c.name /\ d.peer = c.peer /\ d.sid = c.sid /\ d.role = c.role
      /\ d.server = c.server /\ d.hold = c.hold
      /\ d.remoteOffer = c.remoteOffer /\ d.link = l
  BY <1>1 DEF Conn
<1>4. /\ l.sid = c.link.sid /\ l.tries = c.link.tries /\ l.remote = c.link.remote
      /\ l.phase = "ready"
  BY <1>1 DEF Conn, Link
<1>5. /\ e.sid = c.sid /\ e.type = (IF caller THEN "offer" ELSE "answer")
      /\ e.sdp = {SdpOf(n, c)}
  BY DEF Envelope
<1>6. conn'[n] = d /\ \A m \in Node : m # n => conn'[m] = conn[m]
  BY <1>2 DEF IInv, TypeOK
<1> HIDE DEF c, d, e, l
<1>7. GoesOn(c, d) /\ Remembers(c, d) /\ SdpOf(n, d) = SdpOf(n, c)
  BY <1>1, <1>3, <1>4 DEF GoesOn, Remembers, SdpOf
<1>8. /\ \A k, m \in Node : k # m => Knows(k, conn'[k], m, conn'[m])
      /\ \A k \in Node, o \in Offers : OfferTold(k, conn'[k], o)
      /\ \A k \in Node, a \in Answers : AnswerTold(k, conn'[k], a)
  BY <1>2, <1>7, FollowsTold DEF c
<1>9. CASE caller
  <2>1. Offers' = Offers \cup {e} /\ Answers' = Answers
    BY <1>2, <1>5, <1>9 DEF Offers, Answers
  <2>2. ASSUME NEW k \in Node PROVE OfferTold(k, conn'[k], e)
    <3>1. CASE k = n
      <4>1. c.link.remote = {}
        BY <1>1, <1>9 DEF Coherent
      <4> QED BY <1>3, <1>4, <1>5, <1>6, <1>7, <3>1, <4>1 DEF OfferTold
    <3>2. CASE k # n
      <4>1. conn[k].sid # c.sid
        BY <1>1, <1>9, <3>2 DEF CallInv, Unannounced, c
      <4> QED BY <1>5, <1>6, <3>2, <4>1 DEF OfferTold
    <3> QED BY <3>1, <3>2
  <2>3. ASSUME NEW a \in Answers PROVE a.sid # e.sid
    <3>1. AnswerTold(n, c, a)
      BY DEF ToldInv, c
    <3> QED BY <1>1, <1>5, <3>1 DEF AnswerTold
  <2>4. \A o \in Offers', a \in Answers' : o.sid # a.sid
    BY <2>1, <2>3 DEF ToldInv
  <2>5. \A k \in Node, o \in Offers' : OfferTold(k, conn'[k], o)
    BY <1>8, <2>1, <2>2
  <2> QED BY <1>8, <2>1, <2>4, <2>5 DEF ToldInv, Knows, OfferTold, AnswerTold, SdpOf
<1>10. CASE ~caller
  <2>1. Offers' = Offers /\ Answers' = Answers \cup {e}
    BY <1>2, <1>5, <1>10 DEF Offers, Answers
  <2>2. ASSUME NEW k \in Node PROVE AnswerTold(k, conn'[k], e)
    <3>1. CASE k = n
      BY <1>3, <1>4, <1>5, <1>6, <1>7, <3>1 DEF AnswerTold
    <3>2. CASE k # n
      <4>1. Paired(conn[k], c) /\ Unannounced(conn[k], c)
        BY <3>2 DEF CallInv, c
      <4>2. conn[k].role \in {"Caller", "Answerer"} /\ c.role = "Answerer"
        BY <1>1, <1>10 DEF IInv, TypeOK, Conn
      <4> QED BY <1>1, <1>5, <1>6, <3>2, <4>1, <4>2 DEF AnswerTold, Paired, Unannounced
    <3> QED BY <3>1, <3>2
  <2>3. ASSUME NEW o \in Offers PROVE o.sid # e.sid
    <3>1. Announced(c, o)
      BY DEF CallInv, c
    <3> QED BY <1>5, <1>10, <3>1 DEF Announced
  <2>4. \A o \in Offers', a \in Answers' : o.sid # a.sid
    BY <2>1, <2>3 DEF ToldInv
  <2>5. \A k \in Node, a \in Answers' : AnswerTold(k, conn'[k], a)
    BY <1>8, <2>1, <2>2
  <2> QED BY <1>8, <2>1, <2>4, <2>5 DEF ToldInv, Knows, OfferTold, AnswerTold, SdpOf
<1> QED BY <1>9, <1>10

\* The offer that is taken tells the caller's link, and nobody has answered it.
LEMMA TakeOfferTold ==
    ASSUME IInv, CallInv, ToldInv, NEW n \in Node, NEW o \in net, TakesIt(n, o)
    PROVE  ToldInv'
<1> DEFINE c == conn[n]
           d == TakeOffer(c, o)
<1>1. c \in Conn /\ o \in Message /\ o.sid # NoSid /\ o \in Offers
  BY DEF IInv, TypeOK, Message, TakesIt, Offers
<1>2. /\ d.sid = o.sid /\ d.role = "Answerer" /\ d.remoteOffer = o.sdp
      /\ d.link.remote = {}
  <2>1. d.sid = o.sid /\ d.role = "Answerer" /\ d.remoteOffer = o.sdp
    BY <1>1 DEF TakeOffer, StartLink, StartLinkGiven, Disarm, Conn
  <2>2. d.link.remote = {}
    BY <1>1 DEF TakeOffer, StartLink, StartLinkGiven, NewLink, Disarm, Conn
  <2> QED BY <2>1, <2>2
<1>3. conn' = [conn EXCEPT ![n] = d] /\ conn \in [Node -> Conn]
  BY DEF TakesIt, Becomes, IInv, TypeOK
<1> HIDE DEF d
<1>4. conn'[n] = d /\ \A m \in Node : m # n => conn'[m] = conn[m]
  BY <1>3
<1>5. Offers' = Offers \ {o} /\ Answers' = Answers
  BY DEF TakesIt, Offers, Answers
<1>6. ASSUME NEW m \in Node, m # n
      PROVE  Knows(n, d, m, conn[m]) /\ Knows(m, conn[m], n, d)
  <2>1. Announced(conn[m], o) /\ OfferTold(m, conn[m], o)
    BY <1>1 DEF CallInv, ToldInv
  <2> QED BY <1>2, <2>1 DEF Announced, OfferTold, Knows
<1>7. \A k, m \in Node : k # m => Knows(k, conn'[k], m, conn'[m])
  BY <1>4, <1>6 DEF ToldInv
<1>8. ASSUME NEW k \in Node, NEW p \in Offers' PROVE OfferTold(k, conn'[k], p)
  <2>1. p \in Offers /\ p.sid # o.sid
    BY <1>1, <1>5 DEF CallInv
  <2> QED BY <1>2, <1>4, <2>1 DEF ToldInv, OfferTold
<1>9. ASSUME NEW k \in Node, NEW a \in Answers' PROVE AnswerTold(k, conn'[k], a)
  <2>1. a \in Answers /\ a.sid # o.sid
    BY <1>1, <1>5 DEF ToldInv
  <2> QED BY <1>2, <1>4, <2>1 DEF ToldInv, AnswerTold
<1>10. \A p \in Offers', a \in Answers' : p.sid # a.sid
  BY <1>5 DEF ToldInv
<1> QED BY <1>7, <1>8, <1>9, <1>10 DEF ToldInv, Knows, OfferTold, AnswerTold, SdpOf

\* The answer that is expected tells the answerer's link.
LEMMA AnswerToldStep ==
    ASSUME IInv, CallInv, ToldInv, NEW n \in Node, NEW a \in net, AnswersIt(n, a)
    PROVE  ToldInv'
<1> DEFINE c == conn[n]
           d == OnAnswer(c, a)
<1>1. /\ c \in Conn /\ Coherent(c) /\ a \in Message /\ a \in Answers
      /\ ExpectsAnswer(c, a) /\ a.sid = c.sid /\ c.role = "Caller"
  BY DEF IInv, TypeOK, AllCoherent, AnswersIt, Answers, ExpectsAnswer
<1>2. GoesOn(c, d) /\ d.link.remote = a.sdp /\ c.link.phase # "gathering"
  BY <1>1, AnswerGoesOn
<1>3. conn' = [conn EXCEPT ![n] = d] /\ conn \in [Node -> Conn]
  BY DEF AnswersIt, Becomes, IInv, TypeOK
<1> HIDE DEF d
<1>4. conn'[n] = d /\ \A m \in Node : m # n => conn'[m] = conn[m]
  BY <1>3
<1>5. Offers' = Offers /\ Answers' \subseteq Answers
  BY DEF AnswersIt, Offers, Answers
<1>6. /\ d.sid = c.sid /\ d.role = c.role /\ d.link.phase # "gathering"
      /\ SdpOf(n, d) = SdpOf(n, c)
  BY <1>2 DEF GoesOn, SdpOf
<1>7. ASSUME NEW m \in Node, m # n
      PROVE  Knows(n, d, m, conn[m]) /\ Knows(m, conn[m], n, d)
  <2>1. Knows(m, conn[m], n, c) /\ AnswerTold(m, conn[m], a)
    BY <1>1, <1>7 DEF ToldInv
  <2>2. Knows(n, d, m, conn[m])
    BY <1>1, <1>6 DEF Knows
  <2>3. Knows(m, conn[m], n, d)
    BY <1>1, <1>2, <1>6, <2>1 DEF Knows, AnswerTold
  <2> QED BY <2>2, <2>3
<1>8. \A k, m \in Node : k # m => Knows(k, conn'[k], m, conn'[m])
  BY <1>4, <1>7 DEF ToldInv
<1>9. ASSUME NEW k \in Node, NEW o \in Offers' PROVE OfferTold(k, conn'[k], o)
  <2>1. o \in Offers /\ o.sid # c.sid
    BY <1>1, <1>5 DEF ToldInv
  <2> QED BY <1>4, <1>6, <2>1 DEF ToldInv, OfferTold
<1>10. ASSUME NEW k \in Node, NEW b \in Answers' PROVE AnswerTold(k, conn'[k], b)
  <2>1. b \in Answers /\ AnswerTold(k, conn[k], b)
    BY <1>5 DEF ToldInv
  <2> QED BY <1>4, <1>6, <2>1 DEF AnswerTold
<1>11. \A o \in Offers', b \in Answers' : o.sid # b.sid
  BY <1>5 DEF ToldInv
<1> QED BY <1>8, <1>9, <1>10, <1>11 DEF ToldInv, Knows, OfferTold, AnswerTold, SdpOf

LEMMA HandlerTold ==
    ASSUME IInv, CallInv, ToldInv, NEW n \in Node, Handler(n)
    PROVE  ToldInv'
<1>1. ASSUME NEW d, Becomes(n, d), Follows(conn[n], d, sids + 1), net' \subseteq net
      PROVE  ToldInv'
  <2>1. Offers' \subseteq Offers /\ Answers' \subseteq Answers
    BY <1>1 DEF Offers, Answers
  <2> QED BY <1>1, <2>1, QuietTold DEF Follows, Fresh, Stopped
<1> QED BY <1>1, HandlerFollows, PublishTold, TakeOfferTold, AnswerToldStep

LEMMA UserTold ==
    ASSUME IInv, CallInv, ToldInv, NEW n \in Node, User(n)
    PROVE  ToldInv'
<1> DEFINE c == conn[n]
<1>1. c \in Conn /\ Coherent(c)
  BY DEF IInv, TypeOK, AllCoherent
<1>2. ASSUME net' = net \cup Bye(c)
      PROVE  Offers' \subseteq Offers /\ Answers' \subseteq Answers
  <2>1. \A o \in Bye(c) : o.type = "bye"
    BY DEF Bye, Envelope
  <2> QED BY <1>2, <2>1 DEF Offers, Answers
<1>3. ASSUME NEW peer \in Name, ConnectTo(n, peer) PROVE ToldInv'
  <2> DEFINE d == StartAttempt([c EXCEPT !.peer = peer, !.attemptsLeft = NServers,
                                         !.state = "Connecting"], sids + 1)
  <2>1. Becomes(n, d) /\ net' = net
    BY <1>3 DEF ConnectTo
  <2>2. d.sid = sids + 1
    BY <1>1 DEF StartAttempt, StartLink, StartLinkGiven, Conn
  <2>3. Offers' \subseteq Offers /\ Answers' \subseteq Answers
    BY <2>1 DEF Offers, Answers
  <2> HIDE DEF d
  <2> QED BY <2>1, <2>2, <2>3, QuietTold
<1>4. CASE DisconnectPeer(n)
  <2>1. Becomes(n, Stop(c)) /\ net' = net \cup Bye(c)
    BY <1>4 DEF DisconnectPeer
  <2>2. Stop(c).sid = NoSid
    BY <1>1 DEF Stop, Disarm, Conn
  <2> QED BY <1>2, <2>1, <2>2, QuietTold
<1>5. ASSUME NEW name \in Name, SetNodeName(n, name) PROVE ToldInv'
  <2> DEFINE d == IF c.state = "Idle" THEN c ELSE Stop(c)
             e == [d EXCEPT !.name = name]
  <2>1. d \in Conn /\ d.sid = NoSid
    BY <1>1, StopCoherent DEF Stop, Disarm, Conn, Coherent
  <2>2. e.sid = NoSid
    <3> HIDE DEF d
    <3> QED BY <2>1 DEF Conn
  <2>3. Becomes(n, e) /\ net' = net \cup Bye(c)
    BY <1>5 DEF SetNodeName
  <2> HIDE DEF e
  <2> QED BY <1>2, <2>2, <2>3, QuietTold
<1> QED BY <1>3, <1>4, <1>5 DEF User

\* A channel that comes up leaves the links and what they know as they were.
LEMMA ChannelUpTold ==
    ASSUME IInv, ToldInv, NEW n \in Node, NEW m \in Node, ChannelUp(n, m)
    PROVE  ToldInv'
<1>1. \A k \in Node :
        /\ conn'[k].sid = conn[k].sid /\ conn'[k].role = conn[k].role
        /\ conn'[k].remoteOffer = conn[k].remoteOffer
        /\ conn'[k].link.sid = conn[k].link.sid /\ conn'[k].link.tries = conn[k].link.tries
        /\ conn'[k].link.remote = conn[k].link.remote
        /\ conn'[k].link.phase = "gathering" => conn[k].link.phase = "gathering"
  BY DEF ChannelUp, IInv, TypeOK, Conn, Link
<1>2. \A k \in Node : SdpOf(k, conn'[k]) = SdpOf(k, conn[k])
  BY <1>1 DEF SdpOf
<1>3. Offers' = Offers /\ Answers' = Answers
  BY DEF ChannelUp, Offers, Answers
<1>4. \A k, l \in Node : k # l => Knows(k, conn'[k], l, conn'[l])
  BY <1>1, <1>2 DEF ToldInv, Knows
<1>5. \A k \in Node, o \in Offers : OfferTold(k, conn'[k], o)
  BY <1>1, <1>2 DEF ToldInv, OfferTold
<1>6. \A k \in Node, a \in Answers : AnswerTold(k, conn'[k], a)
  BY <1>1, <1>2 DEF ToldInv, AnswerTold
<1> QED BY <1>3, <1>4, <1>5, <1>6 DEF ToldInv, Knows, OfferTold, AnswerTold, SdpOf

LEMMA StepTold == IInv /\ CallInv /\ ToldInv /\ [Next]_vars => ToldInv'
<1> SUFFICES ASSUME IInv, CallInv, ToldInv, [Next]_vars PROVE ToldInv'
  OBVIOUS
<1>1. CASE UNCHANGED vars
  BY <1>1 DEF vars, ToldInv, Offers, Answers, Knows, OfferTold, AnswerTold, SdpOf
<1>2. CASE Next
  BY <1>2, HandlerTold, UserTold, ChannelUpTold DEF Next
<1> QED BY <1>1, <1>2

LEMMA InitTold == Init => ToldInv
BY DEF Init, InitConn, ToldInv, Offers, Answers, Knows, NoSid

\* A description that an end of a call has applied is always that of the link the
\* other end still has, for any number of retries, STUN servers and nodes: the
\* offer is made by a link the caller keeps, the answer by the link that comes
\* after the probe (connector.h on why the answerer probes first).
THEOREM NeverLocksOntoDiscardedHolds == Spec => []NeverLocksOntoDiscarded
<1>1. IInv /\ CallInv /\ ToldInv => NeverLocksOntoDiscarded
  <2> SUFFICES ASSUME IInv, CallInv, ToldInv, NEW n \in Node, NEW m \in Node, n # m,
                      conn[n].sid # NoSid, conn[n].sid = conn[m].sid,
                      conn[n].link.remote # {}
               PROVE  conn[n].link.remote = {SdpOf(m, conn[m])}
    BY DEF NeverLocksOntoDiscarded
  <2>1. /\ Paired(conn[n], conn[m]) /\ Knows(n, conn[n], m, conn[m])
        /\ Knows(m, conn[m], n, conn[n])
    BY DEF CallInv, ToldInv
  <2>2. conn[n].role \in {"Caller", "Answerer"} /\ conn[m].role \in {"Caller", "Answerer"}
    BY DEF IInv, TypeOK, Conn
  <2> QED BY <2>1, <2>2 DEF Paired, Knows
<1> QED
  BY InitIInv, StepIInv, InitCallInv, StepCallInv, InitTold, StepTold, <1>1, PTL DEF Spec
=============================================================================
