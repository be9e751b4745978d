--------------------------- MODULE ConnectorProofs ---------------------------
(***************************************************************************)
(* Proofs about Connector for any set of nodes, names, servers and bounds. *)
(* Each method of class Connector gets a lemma: from a coherent Connector  *)
(* it makes a coherent one. The step proofs cite those lemmas and never    *)
(* look into the methods. The second half follows one Connector through a  *)
(* call: the servers it tries in turn, and which of its links is the real  *)
(* one.                                                                    *)
(***************************************************************************)
EXTENDS Connector, TLAPS

LEMMA StopCoherent ==
    ASSUME NEW c \in Conn
    PROVE  Stop(c) \in Conn /\ Coherent(Stop(c))
<1> DEFINE d == Stop(c)
<1>1. d \in Conn
  BY DEF Stop, Disarm, Conn, NoLink, Link, NoSid, Sid
<1>2. /\ d.state = "Idle" /\ d.sid = NoSid
      /\ d.link.phase = "none" /\ d.link.remote = {}
      /\ ~d.waiting /\ ~d.probing /\ ~d.answerTimer /\ ~d.openTimer
  BY DEF Stop, Disarm, Conn, NoLink
<1> HIDE DEF d
<1>3. Coherent(d)
  BY <1>2 DEF Coherent, HasLink
<1> QED
  BY <1>1, <1>3 DEF d

\* startLink, for a call whose timers are off.
LEMMA StartLinkGivenCoherent ==
    ASSUME NEW c \in Conn, c.state = "Connecting", c.sid # NoSid, c.peer \in Name,
           c.role = "Caller" => c.attemptsLeft > 0 /\ ~c.probing,
           ~c.answerTimer, ~c.openTimer, ~c.waiting
    PROVE  StartLinkGiven(c) \in Conn /\ Coherent(StartLinkGiven(c))
BY DEF StartLinkGiven, NewLink, Conn, Coherent, HasLink, Link, NoSid, Sid

LEMMA StartLinkCoherent ==
    ASSUME NEW c \in Conn, c.state = "Connecting", c.sid # NoSid, c.peer \in Name,
           c.role = "Caller" => c.attemptsLeft > 0 /\ ~c.probing,
           ~c.answerTimer, ~c.openTimer, ~c.waiting
    PROVE  StartLink(c) \in Conn /\ Coherent(StartLink(c))
<1> DEFINE d == [c EXCEPT !.stunTries = c.stunTries + 1]
<1>1. /\ d \in Conn
      /\ d.state = "Connecting" /\ d.sid # NoSid /\ d.peer \in Name
      /\ d.role = "Caller" => d.attemptsLeft > 0 /\ ~d.probing
      /\ ~d.answerTimer /\ ~d.openTimer /\ ~d.waiting
  BY DEF Conn
<1>2. StartLink(c) = StartLinkGiven(d)
  BY DEF StartLink
<1> QED
  BY <1>1, <1>2, StartLinkGivenCoherent

LEMMA StartAttemptCoherent ==
    ASSUME NEW c \in Conn, NEW sid \in Nat \ {0},
           c.state = "Connecting", c.peer \in Name, c.attemptsLeft > 0,
           ~c.answerTimer, ~c.openTimer
    PROVE  StartAttempt(c, sid) \in Conn /\ Coherent(StartAttempt(c, sid))
<1> DEFINE d == [c EXCEPT !.role      = "Caller",
                          !.probing   = FALSE,
                          !.sid       = sid,
                          !.server    = c.nextServer % NServers,
                          !.stunTries = 0,
                          !.waiting   = FALSE,
                          !.hold      = (NServers - c.attemptsLeft) % 2 = 1]
<1>1. c.nextServer % NServers \in Server
  BY BoundsAssumption DEF Conn, Server
<1>2. d \in Conn /\ d.state = "Connecting" /\ d.sid # NoSid /\ d.peer \in Name
  BY <1>1 DEF Conn, Sid, NoSid
<1>3. d.attemptsLeft > 0 /\ ~d.probing /\ ~d.answerTimer /\ ~d.openTimer /\ ~d.waiting
  BY DEF Conn
<1>4. StartAttempt(c, sid) = StartLink(d)
  BY DEF StartAttempt
<1> QED
  BY <1>2, <1>3, <1>4, StartLinkCoherent

LEMMA DisarmType ==
    ASSUME NEW c \in Conn
    PROVE  /\ Disarm(c) \in Conn
           /\ ~Disarm(c).answerTimer /\ ~Disarm(c).openTimer
           /\ Disarm(c).state = c.state /\ Disarm(c).peer = c.peer
BY DEF Disarm, Conn, Link, NoLink, Sid, NoSid

\* attemptFailed is called with either timer already off; all it needs of the
\* call is that an attempt is left to give up.
LEMMA NextAttemptCoherent ==
    ASSUME NEW c \in Conn, NEW sid \in Nat \ {0},
           c.state = "Connecting", c.peer \in Name, c.attemptsLeft > 0
    PROVE  NextAttempt(c, sid) \in Conn /\ Coherent(NextAttempt(c, sid))
<1> DEFINE e == Disarm(c)
<1> DEFINE d == [e EXCEPT !.nextServer   = (c.server + 1) % NServers,
                                  !.attemptsLeft = c.attemptsLeft - 1]
<1>1. (c.server + 1) % NServers \in Server
  BY BoundsAssumption DEF Conn, Server
<1>2. c.attemptsLeft - 1 \in 0 .. NServers
  BY BoundsAssumption DEF Conn
<1>3. d \in Conn /\ d.state = "Connecting" /\ d.peer \in Name
        /\ ~d.answerTimer /\ ~d.openTimer
  <2>1. e \in Conn /\ ~e.answerTimer /\ ~e.openTimer
          /\ e.state = "Connecting" /\ e.peer \in Name
    BY DisarmType
  <2> HIDE DEF e
  <2> QED
    BY <1>1, <1>2, <2>1 DEF Conn
<1>4. d.attemptsLeft \in 0 .. NServers
  BY <1>3 DEF Conn
<1>5. CASE d.attemptsLeft > 0
  BY <1>3, <1>5, StartAttemptCoherent DEF NextAttempt
<1>6. CASE ~(d.attemptsLeft > 0)
  BY <1>3, <1>6, StopCoherent DEF NextAttempt
<1> QED
  BY <1>5, <1>6

LEMMA AttemptFailedCoherent ==
    ASSUME NEW c \in Conn, NEW sid \in Nat \ {0}, Coherent(c)
    PROVE  AttemptFailed(c, sid) \in Conn /\ Coherent(AttemptFailed(c, sid))
BY NextAttemptCoherent DEF AttemptFailed, Coherent

LEMMA OnClosedCoherent ==
    ASSUME NEW c \in Conn, NEW sid \in Nat \ {0}, Coherent(c)
    PROVE  OnClosed(c, sid) \in Conn /\ Coherent(OnClosed(c, sid))
<1>1. CASE c.probing /\ c.stunTries < MaxStunTries
  <2>1. /\ c.state = "Connecting" /\ c.sid # NoSid /\ c.peer \in Name
        /\ c.role # "Caller"
        /\ ~c.answerTimer /\ ~c.openTimer /\ ~c.waiting
    BY <1>1 DEF Coherent, Conn
  <2> QED
    BY <1>1, <2>1, StartLinkCoherent DEF OnClosed
<1>2. CASE ~(c.probing /\ c.stunTries < MaxStunTries)
  BY <1>2, AttemptFailedCoherent, StopCoherent DEF OnClosed
<1> QED
  BY <1>1, <1>2

LEMMA TakeOfferCoherent ==
    ASSUME NEW c \in Conn, NEW m \in Message
    PROVE  TakeOffer(c, m) \in Conn /\ Coherent(TakeOffer(c, m))
<1> DEFINE e == Disarm(c)
<1> DEFINE d == [e EXCEPT !.waiting     = FALSE,
                                  !.role        = "Answerer",
                                  !.peer        = m.from,
                                  !.sid         = m.sid,
                                  !.server      = m.server,
                                  !.remoteOffer = m.sdp,
                                  !.hold        = m.hold,
                                  !.probing     = TRUE,
                                  !.stunTries   = 0,
                                  !.state       = "Connecting"]
<1>1. /\ d \in Conn /\ d.state = "Connecting" /\ d.sid # NoSid /\ d.peer \in Name
      /\ d.role = "Answerer"
      /\ ~d.answerTimer /\ ~d.openTimer /\ ~d.waiting
  <2>1. e \in Conn /\ ~e.answerTimer /\ ~e.openTimer
    BY DisarmType
  <2> HIDE DEF e
  <2> QED
    BY <2>1 DEF Conn, Message, Sid
<1>2. TakeOffer(c, m) = StartLink(d)
  BY DEF TakeOffer
<1> QED
  BY <1>1, <1>2, StartLinkCoherent

LEMMA OnSignalCoherent ==
    ASSUME NEW c \in Conn, NEW m \in Message, Coherent(c)
    PROVE  OnSignal(c, m) \in Conn /\ Coherent(OnSignal(c, m))
<1>1. CASE m.type = "offer"
  BY <1>1, TakeOfferCoherent DEF OnSignal, OnOffer
<1>2. CASE m.type = "answer"
  <2>1. OnAnswer(c, m) \in Conn
    <3>1. [c.link EXCEPT !.remote = m.sdp] \in Link
      BY DEF Conn, Link, Message
    <3> QED
      BY <3>1 DEF OnAnswer, Conn
  <2>2. Coherent(OnAnswer(c, m))
    BY DEF OnAnswer, ExpectsAnswer, Coherent, Conn, Link, HasLink
  <2> QED
    BY <1>2, <2>1, <2>2 DEF OnSignal
<1>3. CASE m.type = "bye"
  BY <1>3, StopCoherent DEF OnSignal, OnBye
<1> QED
  BY <1>1, <1>2, <1>3 DEF Message

LEMMA OnOpenedCoherent ==
    ASSUME NEW c \in Conn, Coherent(c), c.link.phase = "up"
    PROVE  OnOpened(c) \in Conn /\ Coherent(OnOpened(c))
<1>1. [c.link EXCEPT !.phase = "open"] \in Link
  BY DEF Conn, Link
<1>2. OnOpened(c) \in Conn
  BY <1>1 DEF OnOpened, Conn
<1>3. Coherent(OnOpened(c))
  <2>1. c.state = "Connecting" /\ ~c.probing /\ ~c.waiting /\ c.sid # NoSid /\ c.peer \in Name
    BY DEF Coherent, Conn, HasLink
  <2>2. /\ OnOpened(c).state = "Connected" /\ OnOpened(c).link.phase = "open"
        /\ OnOpened(c).sid = c.sid /\ OnOpened(c).peer = c.peer
        /\ ~OnOpened(c).answerTimer /\ ~OnOpened(c).openTimer
        /\ OnOpened(c).probing = c.probing /\ OnOpened(c).waiting = c.waiting
    BY DEF OnOpened, Conn, Link
  <2> QED
    BY <2>1, <2>2 DEF Coherent, HasLink
<1> QED
  BY <1>2, <1>3

LEMMA OnPostedCoherent ==
    ASSUME NEW n, NEW c \in Conn, NEW p \in Post, NEW ok \in BOOLEAN,
           NEW sid \in Nat \ {0}, Coherent(c)
    PROVE  OnPosted(n, c, p, ok, sid) \in Conn /\ Coherent(OnPosted(n, c, p, ok, sid))
<1>1. TimeRelease(n, c, p) \in Conn /\ Coherent(TimeRelease(n, c, p))
  BY DEF TimeRelease, Coherent, Conn, Link, HasLink
<1> QED
  BY <1>1, AttemptFailedCoherent DEF OnPosted

----------------------------------------------------------------------------
\* The steps.

IInv == TypeOK /\ AllCoherent

\* A step that gives one node a coherent Connector keeps conn and sids right.
LEMMA BecomesCoherent ==
    ASSUME IInv, NEW n \in Node, NEW c \in Conn, Coherent(c), Becomes(n, c)
    PROVE  conn' \in [Node -> Conn] /\ sids' \in Nat /\ AllCoherent'
<1>1. conn' = [conn EXCEPT ![n] = c] /\ conn \in [Node -> Conn]
  BY DEF Becomes, IInv, TypeOK
<1>2. sids' \in Nat
  BY DEF Becomes, IInv, TypeOK, Conn, Sid
<1>3. \A m \in Node : Coherent(conn'[m])
  BY <1>1 DEF IInv, AllCoherent
<1> QED
  BY <1>1, <1>2, <1>3 DEF AllCoherent

LEMMA InitIInv == Init => IInv
<1> SUFFICES ASSUME Init PROVE IInv
  OBVIOUS
<1>1. \A n \in Node : InitConn(n) \in Conn /\ Coherent(InitConn(n))
  <2> SUFFICES ASSUME NEW n \in Node
               PROVE  InitConn(n) \in Conn /\ Coherent(InitConn(n))
    OBVIOUS
  <2>1. InitName[n] \in Name /\ 0 \in Server /\ 0 \in 0 .. NServers
    BY InitNameAssumption, BoundsAssumption DEF Server
  <2> QED
    BY <2>1 DEF InitConn, Conn, Coherent, HasLink, NoLink, Link, NoSid, NoName, Sid
<1>2. 0 \in Server
  BY BoundsAssumption DEF Server
<1> QED
  BY <1>1, <1>2, BoundsAssumption DEF Init, IInv, TypeOK, AllCoherent

\* What a node in a call puts on the wire is a well-formed message.
LEMMA EnvelopeType ==
    ASSUME NEW c \in Conn, Coherent(c), c.state # "Idle",
           NEW type \in {"offer", "answer", "bye"},
           NEW sdp \in SUBSET Sdp, NEW hold \in BOOLEAN
    PROVE  Envelope(c, type, sdp, hold) \in Message
BY DEF Envelope, Message, Conn, Coherent, Sid

LEMMA ByeType ==
    ASSUME NEW c \in Conn, Coherent(c)
    PROVE  Bye(c) \subseteq Message
BY EnvelopeType DEF Bye

LEMMA ConnectToIInv ==
    ASSUME IInv, NEW n \in Node, NEW peer \in Name, ConnectTo(n, peer)
    PROVE  IInv'
<1> DEFINE c == conn[n]
           d == [c EXCEPT !.peer = peer, !.attemptsLeft = NServers, !.state = "Connecting"]
<1>1. c \in Conn /\ Coherent(c) /\ c.state = "Idle"
  BY DEF ConnectTo, IInv, TypeOK, AllCoherent
<1>2. ~c.answerTimer /\ ~c.openTimer
  BY <1>1 DEF Coherent, Conn
<1>3. /\ d \in Conn /\ d.state = "Connecting" /\ d.peer \in Name /\ d.attemptsLeft > 0
      /\ ~d.answerTimer /\ ~d.openTimer
  <2>1. NServers \in 0 .. NServers /\ NServers > 0
    BY BoundsAssumption
  <2> HIDE DEF c
  <2> QED
    BY <1>1, <1>2, <2>1 DEF Conn
<1>4. sids + 1 \in Nat \ {0}
  BY DEF IInv, TypeOK
<1>5. StartAttempt(d, sids + 1) \in Conn /\ Coherent(StartAttempt(d, sids + 1))
  BY <1>3, <1>4, StartAttemptCoherent
<1>6. Becomes(n, StartAttempt(d, sids + 1))
  BY DEF ConnectTo
<1>7. conn' \in [Node -> Conn] /\ sids' \in Nat /\ AllCoherent'
  BY <1>5, <1>6, BecomesCoherent
<1>8. callStart' \in [Node -> Server] /\ presses' \in 0 .. MaxPresses
  BY <1>1, BoundsAssumption DEF ConnectTo, IInv, TypeOK, Conn
<1> QED
  BY <1>7, <1>8 DEF ConnectTo, IInv, TypeOK

LEMMA DisconnectPeerIInv ==
    ASSUME IInv, NEW n \in Node, DisconnectPeer(n)
    PROVE  IInv'
<1>1. conn[n] \in Conn /\ Coherent(conn[n])
  BY DEF IInv, TypeOK, AllCoherent
<1>2. conn' \in [Node -> Conn] /\ sids' \in Nat /\ AllCoherent'
  BY <1>1, StopCoherent, BecomesCoherent DEF DisconnectPeer
<1>3. net' \subseteq Message
  BY <1>1, ByeType DEF DisconnectPeer, IInv, TypeOK
<1> QED
  BY <1>2, <1>3 DEF DisconnectPeer, IInv, TypeOK

LEMMA SetNodeNameIInv ==
    ASSUME IInv, NEW n \in Node, NEW name \in Name, SetNodeName(n, name)
    PROVE  IInv'
<1> DEFINE c == conn[n]
           d == IF c.state = "Idle" THEN c ELSE Stop(c)
           e == [d EXCEPT !.name = name]
<1>1. c \in Conn /\ Coherent(c)
  BY DEF IInv, TypeOK, AllCoherent
<1>2. d \in Conn /\ Coherent(d)
  BY <1>1, StopCoherent
<1> HIDE DEF d
<1>3. e \in Conn
  BY <1>2 DEF Conn
<1>4. Coherent(e)
  BY <1>2 DEF Coherent, Conn, HasLink
<1>5. Becomes(n, e)
  BY DEF SetNodeName, d
<1>6. conn' \in [Node -> Conn] /\ sids' \in Nat /\ AllCoherent'
  BY <1>3, <1>4, <1>5, BecomesCoherent
<1>7. net' \subseteq Message
  BY <1>1, ByeType DEF SetNodeName, IInv, TypeOK
<1>8. presses' \in 0 .. MaxPresses
  BY BoundsAssumption DEF SetNodeName, IInv, TypeOK
<1> QED
  BY <1>6, <1>7, <1>8 DEF SetNodeName, IInv, TypeOK

\* While a link gathers, no timer runs and, for a caller, no answer came.
LEMMA GatheringFacts ==
    ASSUME NEW c \in Conn, Coherent(c), c.link.phase = "gathering"
    PROVE  /\ c.state = "Connecting" /\ c.sid # NoSid /\ c.peer \in Name
           /\ ~c.answerTimer /\ ~c.openTimer /\ ~c.waiting
           /\ c.role = "Caller" => c.attemptsLeft > 0 /\ ~c.probing /\ c.link.remote = {}
BY DEF Coherent, Conn, HasLink

LEMMA OnLocalReadyIInv ==
    ASSUME IInv, NEW n \in Node, OnLocalReady(n)
    PROVE  IInv'
<1> DEFINE c == conn[n]
<1>1. c \in Conn /\ Coherent(c) /\ c.link.phase = "gathering"
  BY DEF OnLocalReady, IInv, TypeOK, AllCoherent
<1> HIDE DEF c
<1>2. /\ c.state = "Connecting" /\ c.sid # NoSid /\ c.peer \in Name
      /\ ~c.answerTimer /\ ~c.openTimer /\ ~c.waiting
      /\ c.role = "Caller" => c.attemptsLeft > 0 /\ ~c.probing /\ c.link.remote = {}
  BY <1>1, GatheringFacts
<1>3. CASE RetryStun(n)
  <2>1. StartLink(c) \in Conn /\ Coherent(StartLink(c))
    BY <1>1, <1>2, StartLinkCoherent
  <2>2. conn' \in [Node -> Conn] /\ sids' \in Nat /\ AllCoherent'
    BY <1>3, <2>1, BecomesCoherent DEF RetryStun, c
  <2> QED
    BY <1>3, <2>2 DEF RetryStun, OnLocalReady, IInv, TypeOK
<1>4. CASE StartRealLink(n)
  <2> DEFINE d == [c EXCEPT !.probing = FALSE]
  <2>1. /\ d \in Conn /\ d.state = "Connecting" /\ d.sid # NoSid /\ d.peer \in Name
        /\ ~d.answerTimer /\ ~d.openTimer /\ ~d.waiting
        /\ d.role = "Caller" => d.attemptsLeft > 0 /\ ~d.probing
    BY <1>1, <1>2 DEF Conn
  <2>2. StartLinkGiven(d) \in Conn /\ Coherent(StartLinkGiven(d))
    BY <2>1, StartLinkGivenCoherent
  <2>3. conn' \in [Node -> Conn] /\ sids' \in Nat /\ AllCoherent'
    BY <1>4, <2>2, BecomesCoherent DEF StartRealLink, c
  <2> QED
    BY <1>4, <2>3 DEF StartRealLink, OnLocalReady, IInv, TypeOK
<1>5. CASE PublishDescription(n)
  <2> DEFINE caller == c.role = "Caller"
             sdp    == SdpOf(n, c)
             l      == [c.link EXCEPT !.phase = "ready"]
             d      == [c EXCEPT !.waiting     = caller \/ c.waiting,
                                 !.answerTimer = caller \/ c.answerTimer,
                                 !.openTimer   = ~caller \/ c.openTimer,
                                 !.link.phase  = "ready"]
  <2>1. l \in Link /\ l.phase = "ready" /\ l.remote = c.link.remote
    BY <1>1 DEF Conn, Link
  <2>2. d \in Conn
    BY <1>1, <2>1 DEF Conn
  <2>3. /\ d.state = c.state /\ d.sid = c.sid /\ d.peer = c.peer /\ d.role = c.role
        /\ d.attemptsLeft = c.attemptsLeft /\ d.probing = c.probing /\ d.link = l
        /\ d.waiting = caller /\ d.answerTimer = caller /\ d.openTimer = ~caller
    BY <1>1, <1>2 DEF Conn
  <2>4. ~c.probing
    BY <1>5 DEF PublishDescription, c
  <2>5. Coherent(d)
    <3> HIDE DEF d, l
    <3> QED
      BY <1>1, <1>2, <2>1, <2>3, <2>4 DEF Coherent, HasLink, Conn
  <2>6. Becomes(n, d)
    BY <1>5 DEF PublishDescription, c
  <2>7. conn' \in [Node -> Conn] /\ sids' \in Nat /\ AllCoherent'
    BY <2>2, <2>5, <2>6, BecomesCoherent
  <2>8. sdp \in Sdp
    BY <1>1 DEF SdpOf, Sdp, Conn, Link
  <2>9. net' \subseteq Message
    <3>1. (caller /\ c.hold) \in BOOLEAN
      BY <1>1 DEF Conn
    <3>2. Envelope(c, IF caller THEN "offer" ELSE "answer", {sdp}, caller /\ c.hold) \in Message
      BY <1>1, <1>2, <2>8, <3>1, EnvelopeType
    <3> QED
      BY <1>5, <3>2 DEF PublishDescription, IInv, TypeOK, c
  <2>10. posts' \subseteq Post
    <3>1. caller \in BOOLEAN /\ (~caller /\ c.hold) \in BOOLEAN
      BY <1>1 DEF Conn
    <3>2. c.sid \in Sid
      BY <1>1 DEF Conn
    <3>3. [node |-> n, sid |-> c.sid, caller |-> caller, hold |-> ~caller /\ c.hold,
           link |-> sdp] \in Post
      <4> HIDE DEF caller, sdp
      <4> QED
        BY <2>8, <3>1, <3>2 DEF Post
    <3> QED
      BY <1>5, <3>3 DEF PublishDescription, IInv, TypeOK, c
  <2> QED
    BY <1>5, <2>7, <2>9, <2>10 DEF OnLocalReady, IInv, TypeOK
<1> QED
  BY <1>3, <1>4, <1>5 DEF OnLocalReady

LEMMA HandlerIInv ==
    ASSUME IInv, NEW n \in Node, Handler(n)
    PROVE  IInv'
<1> DEFINE c == conn[n]
<1>1. c \in Conn /\ Coherent(c) /\ sids + 1 \in Nat \ {0}
  BY DEF IInv, TypeOK, AllCoherent
<1>2. ASSUME NEW d \in Conn, Coherent(d), Becomes(n, d),
             net' \subseteq net, posts' \subseteq posts, UNCHANGED <<callStart, presses>>
      PROVE  IInv'
  BY <1>2, BecomesCoherent DEF IInv, TypeOK
<1>3. CASE OnLocalReady(n)
  BY <1>3, OnLocalReadyIInv
<1>4. CASE PostEnds(n)
  <2>1. PICK p \in posts, ok \in BOOLEAN :
           Becomes(n, OnPosted(n, c, p, ok, sids + 1)) /\ posts' = posts \ {p}
    BY <1>4 DEF PostEnds
  <2>2. p \in Post
    BY DEF IInv, TypeOK
  <2> QED
    BY <1>1, <1>2, <1>4, <2>1, <2>2, OnPostedCoherent DEF PostEnds
<1>5. CASE ReleaseRemoteCandidates(n)
  <2> DEFINE d == [c EXCEPT !.link.held = "no"]
  <2>1. d \in Conn /\ Coherent(d)
    <3> HIDE DEF c
    <3>1. [c.link EXCEPT !.held = "no"] \in Link
      BY <1>1 DEF Conn, Link
    <3> QED
      BY <1>1, <3>1 DEF Coherent, Conn, Link, HasLink
  <2> QED
    BY <1>2, <1>5, <2>1 DEF ReleaseRemoteCandidates
<1>6. CASE Receive(n)
  <2>1. PICK m \in net :
           /\ Becomes(n, IF m.from = c.name THEN c ELSE OnSignal(c, m))
           /\ net' = net \ {m}
    BY <1>6 DEF Receive
  <2>2. m \in Message
    BY DEF IInv, TypeOK
  <2> QED
    BY <1>1, <1>2, <1>6, <2>1, <2>2, OnSignalCoherent DEF Receive
<1>7. CASE AnswerTimeout(n)
  <2> DEFINE d == [c EXCEPT !.answerTimer = FALSE, !.waiting = FALSE]
  <2>1. /\ d \in Conn /\ d.state = "Connecting" /\ d.role = "Caller"
        /\ d.peer \in Name /\ d.attemptsLeft > 0
    <3>1. c.answerTimer
      BY <1>7 DEF AnswerTimeout
    <3> HIDE DEF c
    <3> QED
      BY <1>1, <3>1 DEF Coherent, Conn
  <2>2. AttemptFailed(d, sids + 1) = NextAttempt(d, sids + 1)
    BY <2>1 DEF AttemptFailed
  <2>3. NextAttempt(d, sids + 1) \in Conn /\ Coherent(NextAttempt(d, sids + 1))
    BY <1>1, <2>1, NextAttemptCoherent
  <2> QED
    BY <1>2, <1>7, <2>2, <2>3 DEF AnswerTimeout
<1>8. CASE OpenTimeout(n)
  <2> DEFINE d == [c EXCEPT !.openTimer = FALSE]
  <2>1. /\ d \in Conn /\ d.state = "Connecting" /\ d.peer \in Name
        /\ d.role = "Caller" => d.attemptsLeft > 0
    <3>1. c.openTimer
      BY <1>8 DEF OpenTimeout
    <3> HIDE DEF c
    <3> QED
      BY <1>1, <3>1 DEF Coherent, Conn
  <2> DEFINE e == IF d.role = "Caller" THEN AttemptFailed(d, sids + 1) ELSE Stop(d)
  <2>2. e \in Conn /\ Coherent(e)
    BY <1>1, <2>1, NextAttemptCoherent, StopCoherent DEF AttemptFailed
  <2>3. Becomes(n, e)
    BY <1>8 DEF OpenTimeout
  <2> QED
    BY <1>2, <1>8, <2>2, <2>3 DEF OpenTimeout
<1>9. CASE LinkOpened(n)
  BY <1>1, <1>2, <1>9, OnOpenedCoherent DEF LinkOpened
<1>10. CASE LinkClosed(n)
  BY <1>1, <1>2, <1>10, OnClosedCoherent DEF LinkClosed
<1> QED
  BY <1>3, <1>4, <1>5, <1>6, <1>7, <1>8, <1>9, <1>10 DEF Handler

\* A matched caller has its answer, so its answer timer is off already.
LEMMA ChannelUpIInv ==
    ASSUME IInv, NEW n \in Node, NEW m \in Node, ChannelUp(n, m)
    PROVE  IInv'
<1> DEFINE Up(c) == [c EXCEPT !.link.phase = "up"]
<1>1. ASSUME NEW c \in Conn, Coherent(c), c.link.phase = "ready", c.link.remote # {}
      PROVE  Up(c) \in Conn /\ Coherent(Up(c))
  <2>1. [c.link EXCEPT !.phase = "up"] \in Link
    BY <1>1 DEF Conn, Link
  <2>2. Up(c) \in Conn
    BY <2>1 DEF Conn
  <2>3. Coherent(Up(c))
    BY <1>1, <2>1 DEF Coherent, Conn, Link, HasLink
  <2> QED
    BY <2>2, <2>3
<1>2. /\ conn[n] \in Conn /\ Coherent(conn[n]) /\ conn[m] \in Conn /\ Coherent(conn[m])
      /\ conn[n].link.phase = "ready" /\ conn[m].link.phase = "ready"
      /\ conn[n].link.remote # {} /\ conn[m].link.remote # {}
      /\ n # m
  BY DEF ChannelUp, Matched, IInv, TypeOK, AllCoherent
<1>3. conn' = [conn EXCEPT ![n] = Up(conn[n]), ![m] = Up(conn[m])]
  BY <1>2 DEF ChannelUp, IInv, TypeOK
<1>4. conn' \in [Node -> Conn] /\ AllCoherent'
  <2>1. Up(conn[n]) \in Conn /\ Coherent(Up(conn[n])) /\ Up(conn[m]) \in Conn /\ Coherent(Up(conn[m]))
    BY <1>1, <1>2
  <2> HIDE DEF Up
  <2> QED
    BY <1>2, <1>3, <2>1 DEF IInv, TypeOK, AllCoherent
<1> QED
  BY <1>4 DEF ChannelUp, IInv, TypeOK

LEMMA StepIInv == IInv /\ [Next]_vars => IInv'
<1> SUFFICES ASSUME IInv, [Next]_vars PROVE IInv'
  OBVIOUS
<1>1. CASE UNCHANGED vars
  BY <1>1 DEF vars, IInv, TypeOK, AllCoherent
<1>2. CASE Next
  <2>1. PICK n \in Node : Handler(n) \/ User(n) \/ \E m \in Node : ChannelUp(n, m)
    BY <1>2 DEF Next
  <2>2. CASE Handler(n)
    BY <2>2, HandlerIInv
  <2>3. CASE User(n)
    BY <2>3, ConnectToIInv, DisconnectPeerIInv, SetNodeNameIInv DEF User
  <2>4. CASE \E m \in Node : ChannelUp(n, m)
    BY <2>4, ChannelUpIInv
  <2> QED
    BY <2>1, <2>2, <2>3, <2>4
<1> QED
  BY <1>1, <1>2

\* Every variable keeps its type, whatever arrives, fails or times out: in
\* particular attemptsLeft never drops below 0 and the rotation stays in the
\* list of servers (connector.cpp, attemptFailed).
THEOREM TypeCorrect == Spec => []TypeOK
<1>1. IInv => TypeOK
  BY DEF IInv
<1> QED
  BY InitIInv, StepIInv, <1>1, PTL DEF Spec

\* A call that is being set up always has a gathering link or an armed timer:
\* no order of signals, timeouts and closed links strands it.
THEOREM NeverStuckHolds == Spec => []NeverStuck
<1>1. IInv => NeverStuck
  BY DEF IInv, AllCoherent, Coherent, NeverStuck, TypeOK, Conn
<1> QED
  BY InitIInv, StepIInv, <1>1, PTL DEF Spec

\* No timer, probe or link of a call survives the end of that call.
THEOREM NothingLeftOverHolds == Spec => []NothingLeftOver
<1>1. IInv => NothingLeftOver
  <2> SUFFICES ASSUME IInv, NEW n \in Node
               PROVE  LET c == conn[n] IN
                        /\ c.state # "Connecting" =>
                             ~c.answerTimer /\ ~c.openTimer /\ ~c.waiting /\ ~c.probing
                        /\ c.state = "Idle" <=> ~HasLink(c)
                        /\ c.state = "Connected" <=> c.link.phase = "open"
                        /\ c.answerTimer <=> c.waiting
                        /\ ~(c.answerTimer /\ c.openTimer)
    BY DEF NothingLeftOver
  <2>1. conn[n] \in Conn /\ Coherent(conn[n])
    BY DEF IInv, TypeOK, AllCoherent
  <2> QED
    BY <2>1 DEF Coherent, Conn
<1> QED
  BY InitIInv, StepIInv, <1>1, PTL DEF Spec

----------------------------------------------------------------------------
\* What a step of one node may do to its place in the list of servers and to
\* its link, as far as OnceAroundTheList and OneRealLink can tell.

SamePlace(c, d) ==
    /\ d.attemptsLeft = c.attemptsLeft
    /\ \/ d.nextServer = c.nextServer
       \/ c.state = "Connecting" /\ c.role = "Caller" /\ d.nextServer = c.server

SameCallAs(c, d) ==
    /\ SamePlace(c, d) /\ d.role = c.role /\ d.server = c.server /\ d.hold = c.hold
    /\ d.state = "Connecting" => c.state = "Connecting"

\* The call goes on with its link, or with another one.
Carries(c, d) ==
    /\ SameCallAs(c, d) /\ d.probing = c.probing
    /\ d.link.sid = c.link.sid /\ d.link.tries = c.link.tries
    /\ d.link.accepts = c.link.accepts

Relinks(c, d) ==
    /\ SameCallAs(c, d)
    /\ d.link.accepts => c.probing /\ ~d.probing

\* An offer is taken, the call ends, or its next attempt begins.
Takes(c, d) == SamePlace(c, d) /\ d.role = "Answerer" /\ ~d.link.accepts

Ends(c, d) == SamePlace(c, d) /\ d.state = "Idle" /\ ~d.link.accepts

Retries(c, d) ==
    /\ c.state = "Connecting" /\ c.role = "Caller"
    /\ d.attemptsLeft = c.attemptsLeft - 1
    /\ d.nextServer = (c.server + 1) % NServers
    /\ IF d.attemptsLeft > 0
       THEN /\ d.server = d.nextServer
            /\ d.hold <=> ((NServers - d.attemptsLeft) % 2 = 1)
       ELSE d.state = "Idle"
    /\ ~d.link.accepts

Turns(c, d) ==
    Carries(c, d) \/ Relinks(c, d) \/ Takes(c, d) \/ Ends(c, d) \/ Retries(c, d)

LEMMA StopEnds ==
    ASSUME NEW c \in Conn
    PROVE  Ends(c, Stop(c))
<1> DEFINE d == Stop(c)
<1>1. d.state = "Idle" /\ d.attemptsLeft = c.attemptsLeft /\ d.nextServer = c.nextServer
  BY DEF Stop, Disarm, Conn
<1>2. ~d.link.accepts
  BY DEF Stop, Disarm, Conn, NoLink
<1> QED
  BY <1>1, <1>2 DEF Ends, SamePlace

LEMMA StartAttemptFields ==
    ASSUME NEW c \in Conn, NEW sid \in Nat
    PROVE  LET d == StartAttempt(c, sid) IN
           /\ d.role = "Caller" /\ d.state = c.state /\ d.attemptsLeft = c.attemptsLeft
           /\ d.nextServer = c.nextServer /\ d.server = c.nextServer
           /\ d.hold <=> ((NServers - c.attemptsLeft) % 2 = 1)
           /\ ~d.link.accepts
<1> DEFINE h == ((NServers - c.attemptsLeft) % 2 = 1)
           e == [c EXCEPT !.role = "Caller", !.probing = FALSE, !.sid = sid,
                          !.server = c.nextServer % NServers, !.stunTries = 0,
                          !.waiting = FALSE, !.hold = h]
<1>1. c.nextServer % NServers = c.nextServer
  BY BoundsAssumption DEF Conn, Server
<1> HIDE DEF h
<1>2. /\ e.role = "Caller" /\ e.state = c.state /\ e.attemptsLeft = c.attemptsLeft
      /\ e.nextServer = c.nextServer /\ e.server = c.nextServer /\ e.hold = h
      /\ e.stunTries = 0 /\ DOMAIN e = DOMAIN c
  BY <1>1 DEF Conn
<1>3. StartAttempt(c, sid) = StartLink(e)
  BY DEF StartAttempt, h
<1>4. DOMAIN c = {"name", "peer", "sid", "role", "state", "server", "nextServer",
                  "attemptsLeft", "stunTries", "waiting", "probing", "hold",
                  "answerTimer", "openTimer", "remoteOffer", "link"}
  BY DEF Conn
<1> HIDE DEF e
<1>5. LET d == StartLink(e) IN
      /\ d.role = "Caller" /\ d.state = e.state /\ d.attemptsLeft = e.attemptsLeft
      /\ d.nextServer = e.nextServer /\ d.server = e.server /\ d.hold = e.hold
      /\ ~d.link.accepts
  BY <1>2, <1>4 DEF StartLink, StartLinkGiven, NewLink
<1> QED
  BY <1>2, <1>3, <1>5 DEF h

LEMMA NextAttemptRetries ==
    ASSUME NEW c \in Conn, NEW sid \in Nat, c.state = "Connecting", c.role = "Caller",
           c.attemptsLeft > 0
    PROVE  Retries(c, NextAttempt(c, sid))
<1> DEFINE e == Disarm(c)
           d == [e EXCEPT !.nextServer   = (c.server + 1) % NServers,
                          !.attemptsLeft = c.attemptsLeft - 1]
<1>1. (c.server + 1) % NServers \in Server /\ c.attemptsLeft - 1 \in 0 .. NServers
  BY BoundsAssumption DEF Conn, Server
<1>2. /\ d \in Conn /\ d.nextServer = (c.server + 1) % NServers
      /\ d.attemptsLeft = c.attemptsLeft - 1
  <2>1. e \in Conn
    BY DisarmType
  <2> HIDE DEF e
  <2> QED
    BY <1>1, <2>1 DEF Conn
<1>3. NextAttempt(c, sid) = IF d.attemptsLeft > 0 THEN StartAttempt(d, sid) ELSE Stop(d)
  BY DEF NextAttempt
<1> HIDE DEF d
<1>4. CASE d.attemptsLeft > 0
  BY <1>2, <1>3, <1>4, StartAttemptFields DEF Retries
<1>5. CASE ~(d.attemptsLeft > 0)
  <2>1. /\ Stop(d).attemptsLeft = d.attemptsLeft /\ Stop(d).nextServer = d.nextServer
        /\ Stop(d).state = "Idle"
    BY <1>2 DEF Stop, Disarm, Conn
  <2>2. ~Stop(d).link.accepts
    BY <1>2, StopEnds DEF Ends
  <2> QED
    BY <1>2, <1>3, <1>5, <2>1, <2>2 DEF Retries
<1> QED
  BY <1>4, <1>5

LEMMA AttemptFailedTurns ==
    ASSUME NEW c \in Conn, Coherent(c), NEW sid \in Nat
    PROVE  AttemptFailed(c, sid) = c \/ Retries(c, AttemptFailed(c, sid))
<1>1. CASE c.state = "Connecting" /\ c.role = "Caller"
  <2>1. c.attemptsLeft > 0
    BY <1>1 DEF Coherent
  <2> QED
    BY <1>1, <2>1, NextAttemptRetries DEF AttemptFailed
<1>2. CASE ~(c.state = "Connecting" /\ c.role = "Caller")
  BY <1>2 DEF AttemptFailed
<1> QED
  BY <1>1, <1>2

LEMMA StaysTurns == \A c : Carries(c, c)
BY DEF Carries, SameCallAs, SamePlace

\* Another link for the same call, after a probe or instead of one.
LEMMA StartLinkGivenRelinks ==
    ASSUME NEW c \in Conn, c.role = "Answerer" => c.probing, NEW b \in BOOLEAN,
           NEW t \in Nat
    PROVE  LET d == StartLinkGiven([c EXCEPT !.probing = b, !.stunTries = t]) IN
           Relinks(c, d)
<1> DEFINE e == [c EXCEPT !.probing = b, !.stunTries = t]
           d == [e EXCEPT !.link = NewLink(e)]
<1>1. /\ e \in Conn /\ e.attemptsLeft = c.attemptsLeft /\ e.nextServer = c.nextServer
      /\ e.role = c.role /\ e.server = c.server /\ e.hold = c.hold /\ e.state = c.state
      /\ e.probing = b
  BY DEF Conn
<1> HIDE DEF e
<1>2. /\ d.attemptsLeft = e.attemptsLeft /\ d.nextServer = e.nextServer
      /\ d.role = e.role /\ d.server = e.server /\ d.hold = e.hold /\ d.state = e.state
      /\ d.probing = e.probing /\ d.link = NewLink(e)
  BY <1>1 DEF Conn
<1>3. NewLink(e).accepts <=> ~(e.role = "Caller" \/ e.probing)
  BY DEF NewLink
<1>4. c.role = "Caller" \/ c.role = "Answerer"
  BY DEF Conn
<1> HIDE DEF d
<1>5. Relinks(c, d)
  BY <1>1, <1>2, <1>3, <1>4 DEF Relinks, SameCallAs, SamePlace
<1> QED
  BY <1>5 DEF StartLinkGiven, d, e

LEMMA StartLinkRelinks ==
    ASSUME NEW c \in Conn, c.role = "Answerer" => c.probing
    PROVE  Relinks(c, StartLink(c))
<1> DEFINE t == c.stunTries + 1
<1>1. t \in Nat /\ c.probing \in BOOLEAN
  BY DEF Conn
<1>2. [c EXCEPT !.stunTries = t] = [c EXCEPT !.probing = c.probing, !.stunTries = t]
  BY DEF Conn
<1> HIDE DEF t
<1>3. Relinks(c, StartLinkGiven([c EXCEPT !.stunTries = t]))
  BY <1>1, <1>2, StartLinkGivenRelinks
<1> QED
  BY <1>3 DEF StartLink, t

LEMMA OnClosedTurns ==
    ASSUME NEW c \in Conn, Coherent(c), NEW sid \in Nat
    PROVE  Turns(c, OnClosed(c, sid))
<1>1. CASE c.probing /\ c.stunTries < MaxStunTries
  BY <1>1, StartLinkRelinks DEF OnClosed, Turns
<1>2. CASE ~(c.probing /\ c.stunTries < MaxStunTries)
  BY <1>2, AttemptFailedTurns, StaysTurns, StopEnds DEF OnClosed, Turns
<1> QED
  BY <1>1, <1>2

LEMMA TakeOfferTakes ==
    ASSUME NEW c \in Conn, NEW m \in Message
    PROVE  Takes(c, TakeOffer(c, m))
<1> DEFINE d == [Disarm(c) EXCEPT !.waiting     = FALSE,
                                  !.role        = "Answerer",
                                  !.peer        = m.from,
                                  !.sid         = m.sid,
                                  !.server      = m.server,
                                  !.remoteOffer = m.sdp,
                                  !.hold        = m.hold,
                                  !.probing     = TRUE,
                                  !.stunTries   = 0,
                                  !.state       = "Connecting"]
<1>1. /\ d.attemptsLeft = c.attemptsLeft /\ d.nextServer = c.nextServer
      /\ d.role = "Answerer"
  BY DEF Disarm, Conn
<1>2. d \in Conn /\ d.probing
  <2> DEFINE e == Disarm(c)
  <2>1. e \in Conn
    BY DisarmType
  <2> HIDE DEF e
  <2>2. m.sid \in Sid /\ m.from \in Name /\ m.server \in Server /\ m.sdp \in SUBSET Sdp
        /\ m.hold \in BOOLEAN
    BY DEF Message, Sid
  <2> QED
    BY <2>1, <2>2 DEF Conn, e
<1>3. TakeOffer(c, m) = StartLink(d)
  BY DEF TakeOffer
<1> HIDE DEF d
<1>4. Relinks(d, StartLink(d)) /\ ~StartLink(d).link.accepts
  <2>1. Relinks(d, StartLink(d))
    BY <1>2, StartLinkRelinks
  <2>2. StartLink(d).link.accepts => ~StartLink(d).probing
    BY <2>1 DEF Relinks
  <2>3. StartLink(d).probing = d.probing
    BY <1>2 DEF StartLink, StartLinkGiven, Conn
  <2> QED
    BY <1>2, <2>1, <2>2, <2>3
<1> QED
  BY <1>1, <1>3, <1>4 DEF Relinks, SameCallAs, SamePlace, Takes

\* A change of timers, of the phase of the link or of what it knows of the
\* other end.
LEMMA LinkFields ==
    ASSUME NEW c \in Conn
    PROVE  /\ \A r \in SUBSET Sdp : [c.link EXCEPT !.remote = r] \in Link
           /\ \A h \in {"no", "held", "timed"} : [c.link EXCEPT !.held = h] \in Link
           /\ \A p \in {"ready", "up", "open"} : [c.link EXCEPT !.phase = p] \in Link
BY DEF Conn, Link

LEMMA OnSignalTurns ==
    ASSUME NEW c \in Conn, NEW m \in Message
    PROVE  Turns(c, OnSignal(c, m))
<1>1. CASE m.type = "offer"
  BY <1>1, TakeOfferTakes, StaysTurns DEF OnSignal, OnOffer, Turns
<1>2. CASE m.type = "answer"
  <2> DEFINE l == [c.link EXCEPT !.remote = m.sdp]
             d == [c EXCEPT !.waiting = FALSE, !.answerTimer = FALSE, !.openTimer = TRUE,
                            !.link = l]
  <2>1. l.sid = c.link.sid /\ l.tries = c.link.tries /\ l.accepts = c.link.accepts
    BY DEF Conn, Link
  <2> HIDE DEF l
  <2>2. /\ d.attemptsLeft = c.attemptsLeft /\ d.nextServer = c.nextServer
        /\ d.role = c.role /\ d.server = c.server /\ d.hold = c.hold /\ d.state = c.state
        /\ d.probing = c.probing /\ d.link = l
    BY DEF Conn
  <2>3. OnSignal(c, m) = c \/ OnSignal(c, m) = d
    BY <1>2 DEF OnSignal, OnAnswer, l
  <2> HIDE DEF d
  <2>4. Carries(c, d)
    BY <2>1, <2>2 DEF Carries, SameCallAs, SamePlace
  <2> QED
    BY <2>3, <2>4, StaysTurns DEF Turns
<1>3. CASE m.type = "bye"
  BY <1>3, StopEnds, StaysTurns DEF OnSignal, OnBye, Turns
<1> QED
  BY <1>1, <1>2, <1>3 DEF Message

LEMMA OnOpenedTurns ==
    ASSUME NEW c \in Conn, Coherent(c), c.link.phase = "up"
    PROVE  Turns(c, OnOpened(c))
<1> DEFINE l == [c.link EXCEPT !.phase = "open"]
           s == IF c.role = "Caller" THEN c.server ELSE c.nextServer
           d == [c EXCEPT !.answerTimer = FALSE, !.openTimer = FALSE, !.nextServer = s,
                          !.state = "Connected", !.link = l]
<1>1. l.sid = c.link.sid /\ l.tries = c.link.tries /\ l.accepts = c.link.accepts
  BY DEF Conn, Link
<1>2. OnOpened(c) = d
  BY DEF OnOpened
<1>3. c.state = "Connecting"
  BY DEF Coherent, Conn, HasLink
<1> HIDE DEF l, s
<1>4. /\ d.attemptsLeft = c.attemptsLeft /\ d.nextServer = s
      /\ d.role = c.role /\ d.server = c.server /\ d.hold = c.hold
      /\ d.probing = c.probing /\ d.link = l
  BY DEF Conn
<1> HIDE DEF d
<1>5. Carries(c, d)
  BY <1>1, <1>3, <1>4 DEF Carries, SameCallAs, SamePlace, s
<1> QED
  BY <1>2, <1>5 DEF Turns

LEMMA TimeReleaseCarries ==
    ASSUME NEW n, NEW c \in Conn, NEW p \in Post
    PROVE  LET d == TimeRelease(n, c, p) IN Carries(c, d) /\ d.state = c.state
<1> DEFINE l == [c.link EXCEPT !.held = "timed"]
           d == [c EXCEPT !.link = l]
<1>1. l.sid = c.link.sid /\ l.tries = c.link.tries /\ l.accepts = c.link.accepts
  BY DEF Conn, Link
<1>2. TimeRelease(n, c, p) = c \/ TimeRelease(n, c, p) = d
  BY DEF TimeRelease
<1> HIDE DEF l
<1>3. /\ d.attemptsLeft = c.attemptsLeft /\ d.nextServer = c.nextServer
      /\ d.role = c.role /\ d.server = c.server /\ d.hold = c.hold /\ d.state = c.state
      /\ d.probing = c.probing /\ d.link = l
  BY DEF Conn
<1> HIDE DEF d
<1>4. Carries(c, d)
  BY <1>1, <1>3 DEF Carries, SameCallAs, SamePlace
<1> QED
  BY <1>2, <1>3, <1>4, StaysTurns

LEMMA OnPostedTurns ==
    ASSUME NEW n, NEW c \in Conn, NEW p \in Post, NEW ok \in BOOLEAN, NEW sid \in Nat,
           Coherent(c)
    PROVE  Turns(c, OnPosted(n, c, p, ok, sid))
<1> DEFINE d == TimeRelease(n, c, p)
<1>1. d \in Conn /\ Coherent(d)
  BY DEF TimeRelease, Coherent, Conn, Link, HasLink
<1>2. Carries(c, d) /\ d.state = c.state
  BY TimeReleaseCarries
<1> HIDE DEF d
<1>3. AttemptFailed(d, sid) = d \/ Retries(d, AttemptFailed(d, sid))
  BY <1>1, AttemptFailedTurns
<1>4. Turns(c, AttemptFailed(d, sid))
  BY <1>2, <1>3 DEF Turns, Carries, SameCallAs, SamePlace, Retries
<1> QED
  BY <1>2, <1>4, StaysTurns DEF OnPosted, Turns, d

----------------------------------------------------------------------------
\* The place in the list and the link of every node, step by step.

\* OnceAroundTheList of one Connector, whose last call started with server start.
Around(c, start) ==
    LET tried == NServers - c.attemptsLeft IN
    /\ c.state = "Connecting" /\ c.role = "Caller" =>
        /\ c.attemptsLeft > 0
        /\ c.server = (start + tried) % NServers
        /\ c.nextServer = c.server
        /\ c.hold <=> (tried % 2 = 1)
    /\ c.attemptsLeft = 0 => c.nextServer = start

\* A probe never sees the offer.
Probes(c) == c.probing => ~c.link.accepts

Swaps(c, d) ==
    /\ c.link.accepts /\ d.link.accepts
    /\ d.link.sid # c.link.sid \/ d.link.tries # c.link.tries

Placed == \A n \in Node : Around(conn[n], callStart[n]) /\ Probes(conn[n])

LEMMA Rotation ==
    ASSUME NEW start \in Server, NEW k \in 0 .. NServers - 1
    PROVE  /\ (((start + k) % NServers) + 1) % NServers = (start + k + 1) % NServers
           /\ (start + NServers) % NServers = start
BY BoundsAssumption DEF Server

LEMMA TurnsAround ==
    ASSUME NEW c \in Conn, NEW start \in Server, Around(c, start), NEW d, Turns(c, d)
    PROVE  Around(d, start)
<1>1. CASE Carries(c, d) \/ Relinks(c, d) \/ Takes(c, d) \/ Ends(c, d)
  BY <1>1 DEF Carries, Relinks, Takes, Ends, SameCallAs, SamePlace, Around
<1>2. CASE Retries(c, d)
  <2> DEFINE k == NServers - c.attemptsLeft
  <2>1. /\ c.server = (start + k) % NServers /\ k \in 0 .. NServers - 1
        /\ d.attemptsLeft = c.attemptsLeft - 1 /\ NServers - d.attemptsLeft = k + 1
        /\ c.attemptsLeft \in 0 .. NServers /\ NServers \in Nat
    BY <1>2, BoundsAssumption DEF Retries, Around, Conn
  <2>2. d.nextServer = (start + k + 1) % NServers
    BY <1>2, <2>1, Rotation DEF Retries
  <2>3. CASE d.attemptsLeft > 0
    <3>1. start + (NServers - d.attemptsLeft) = start + k + 1
      BY <2>1 DEF Server
    <3>2. d.server = (start + (NServers - d.attemptsLeft)) % NServers
      BY <1>2, <2>2, <2>3, <3>1 DEF Retries
    <3>3. d.server = d.nextServer /\ (d.hold <=> ((NServers - d.attemptsLeft) % 2 = 1))
      BY <1>2, <2>3 DEF Retries
    <3>4. d.attemptsLeft # 0
      BY <2>3
    <3> QED
      BY <2>3, <3>2, <3>3, <3>4 DEF Around
  <2>4. CASE ~(d.attemptsLeft > 0)
    <3>1. k + 1 = NServers /\ start + k + 1 = start + NServers
      BY <2>1, <2>4 DEF Server
    <3>2. d.nextServer = start
      BY <2>1, <2>2, <3>1, Rotation
    <3>3. d.state = "Idle"
      BY <1>2, <2>4 DEF Retries
    <3> QED
      BY <3>2, <3>3 DEF Around
  <2> QED
    BY <2>3, <2>4
<1> QED
  BY <1>1, <1>2 DEF Turns

LEMMA TurnsLinks ==
    ASSUME NEW c, Probes(c), NEW d, Turns(c, d)
    PROVE  Probes(d) /\ ~Swaps(c, d)
BY DEF Turns, Carries, Relinks, Takes, Ends, Retries, Probes, Swaps

\* What any action makes of a node: a turn of the call, or a new call.
Calls(c, d, start) ==
    /\ start = c.nextServer /\ d.attemptsLeft = NServers
    /\ d.server = c.nextServer /\ d.nextServer = c.nextServer
    /\ ~d.hold /\ ~d.link.accepts

LEMMA CallsAround ==
    ASSUME NEW c \in Conn, NEW start, NEW d, Calls(c, d, start)
    PROVE  Around(d, start) /\ Probes(d) /\ ~Swaps(c, d)
<1>1. NServers - d.attemptsLeft = 0 /\ d.attemptsLeft > 0 /\ start \in Server
  BY BoundsAssumption DEF Calls, Conn
<1>2. d.server = (start + 0) % NServers
  BY <1>1, BoundsAssumption DEF Calls, Server
<1> QED
  BY <1>1, <1>2 DEF Calls, Around, Probes, Swaps

NodeMoves(n) ==
    \/ Turns(conn[n], conn'[n]) /\ callStart'[n] = callStart[n]
    \/ Calls(conn[n], conn'[n], callStart'[n])

LEMMA ConnectToMoves ==
    ASSUME IInv, NEW n \in Node, NEW peer \in Name, ConnectTo(n, peer)
    PROVE  Calls(conn[n], conn'[n], callStart'[n])
<1> DEFINE c == conn[n]
           e == [c EXCEPT !.peer = peer, !.attemptsLeft = NServers, !.state = "Connecting"]
           d == StartAttempt(e, sids + 1)
<1>1. c \in Conn /\ sids + 1 \in Nat
  BY DEF IInv, TypeOK
<1>2. conn'[n] = d /\ callStart'[n] = c.nextServer
  BY DEF ConnectTo, Becomes, IInv, TypeOK
<1> HIDE DEF c
<1>3. e \in Conn /\ e.nextServer = c.nextServer /\ e.attemptsLeft = NServers
  <2>1. NServers \in 0 .. NServers
    BY BoundsAssumption
  <2> QED
    BY <1>1, <2>1 DEF Conn
<1> HIDE DEF e
<1>4. /\ d.attemptsLeft = NServers /\ d.server = c.nextServer /\ d.nextServer = c.nextServer
      /\ ~d.link.accepts
  BY <1>1, <1>3, StartAttemptFields
<1>5. d.hold <=> (NServers - NServers) % 2 = 1
  BY <1>1, <1>3, StartAttemptFields
<1>6. (NServers - NServers) % 2 # 1
  BY BoundsAssumption
<1> QED
  BY <1>2, <1>4, <1>5, <1>6 DEF Calls, c

LEMMA UserMoves ==
    ASSUME IInv, NEW n \in Node, User(n)
    PROVE  NodeMoves(n)
<1> DEFINE c == conn[n]
<1>1. c \in Conn
  BY DEF IInv, TypeOK
<1>2. ASSUME NEW d, Becomes(n, d) PROVE conn'[n] = d
  BY <1>2 DEF Becomes, IInv, TypeOK
<1>3. CASE DisconnectPeer(n)
  BY <1>1, <1>2, <1>3, StopEnds DEF DisconnectPeer, NodeMoves, Turns
<1>4. ASSUME NEW name \in Name, SetNodeName(n, name) PROVE NodeMoves(n)
  <2> DEFINE d == IF c.state = "Idle" THEN c ELSE Stop(c)
             e == [d EXCEPT !.name = name]
  <2>1. Turns(c, d) /\ d \in Conn
    BY <1>1, StaysTurns, StopEnds, StopCoherent DEF Turns
  <2>2. conn'[n] = e /\ callStart' = callStart
    BY <1>2, <1>4 DEF SetNodeName
  <2> HIDE DEF d
  <2>3. /\ e.state = d.state /\ e.role = d.role /\ e.attemptsLeft = d.attemptsLeft
        /\ e.nextServer = d.nextServer /\ e.server = d.server /\ e.hold = d.hold
        /\ e.probing = d.probing /\ e.link = d.link
    BY <2>1 DEF Conn
  <2> HIDE DEF e
  <2>4. Turns(c, e)
    BY <2>1, <2>3
    DEF Turns, Carries, Relinks, Takes, Ends, Retries, SameCallAs, SamePlace
  <2> QED
    BY <2>2, <2>4 DEF NodeMoves
<1>5. ASSUME NEW name \in Name, ConnectTo(n, name) PROVE NodeMoves(n)
  BY <1>5, ConnectToMoves DEF NodeMoves
<1> QED
  BY <1>3, <1>4, <1>5 DEF User

LEMMA HandlerMoves ==
    ASSUME IInv, NEW n \in Node, Handler(n)
    PROVE  NodeMoves(n)
<1> DEFINE c == conn[n]
<1>1. c \in Conn /\ Coherent(c) /\ sids + 1 \in Nat
  BY DEF IInv, TypeOK, AllCoherent
<1>2. ASSUME NEW d, Becomes(n, d), Turns(c, d), callStart' = callStart
      PROVE  NodeMoves(n)
  BY <1>2 DEF Becomes, IInv, TypeOK, NodeMoves
<1>3. CASE OnLocalReady(n)
  <2>1. callStart' = callStart /\ c.link.phase = "gathering"
    BY <1>3 DEF OnLocalReady
  <2>2. CASE RetryStun(n)
    <3>1. c.role = "Answerer" => c.probing
      BY <2>2 DEF RetryStun
    <3> QED
      BY <1>1, <1>2, <2>1, <2>2, <3>1, StartLinkRelinks DEF RetryStun, Turns
  <2>3. CASE StartRealLink(n)
    <3> DEFINE t == c.stunTries
    <3>1. [c EXCEPT !.probing = FALSE] = [c EXCEPT !.probing = FALSE, !.stunTries = t]
      BY <1>1 DEF Conn
    <3>2. t \in Nat /\ c.probing
      BY <1>1, <2>3 DEF Conn, StartRealLink
    <3> HIDE DEF t
    <3>3. Relinks(c, StartLinkGiven([c EXCEPT !.probing = FALSE]))
      BY <1>1, <3>1, <3>2, StartLinkGivenRelinks
    <3> QED
      BY <1>2, <2>1, <2>3, <3>3 DEF StartRealLink, Turns
  <2>4. CASE PublishDescription(n)
    <3> DEFINE l == [c.link EXCEPT !.phase = "ready"]
               w == (c.role = "Caller" \/ c.waiting)
               a == (c.role = "Caller" \/ c.answerTimer)
               o == (~(c.role = "Caller") \/ c.openTimer)
               d == [c EXCEPT !.waiting = w, !.answerTimer = a, !.openTimer = o, !.link = l]
    <3>1. Becomes(n, d)
      BY <2>4 DEF PublishDescription
    <3>2. l.sid = c.link.sid /\ l.tries = c.link.tries /\ l.accepts = c.link.accepts
      BY <1>1 DEF Conn, Link
    <3> HIDE DEF l, w, a, o
    <3>3. /\ d.attemptsLeft = c.attemptsLeft /\ d.nextServer = c.nextServer
          /\ d.role = c.role /\ d.server = c.server /\ d.hold = c.hold
          /\ d.state = c.state /\ d.probing = c.probing /\ d.link = l
      BY <1>1 DEF Conn
    <3> HIDE DEF d
    <3>4. Carries(c, d)
      BY <3>2, <3>3 DEF Carries, SameCallAs, SamePlace
    <3> QED
      BY <1>2, <2>1, <3>1, <3>4 DEF Turns
  <2> QED
    BY <1>3, <2>2, <2>3, <2>4 DEF OnLocalReady
<1>4. CASE PostEnds(n)
  <2>1. PICK p \in posts, ok \in BOOLEAN : Becomes(n, OnPosted(n, c, p, ok, sids + 1))
    BY <1>4 DEF PostEnds
  <2>2. p \in Post /\ callStart' = callStart
    BY <1>4 DEF IInv, TypeOK, PostEnds
  <2> QED
    BY <1>1, <1>2, <2>1, <2>2, OnPostedTurns
<1>5. CASE ReleaseRemoteCandidates(n)
  <2> DEFINE l == [c.link EXCEPT !.held = "no"]
             d == [c EXCEPT !.link = l]
  <2>1. l.sid = c.link.sid /\ l.tries = c.link.tries /\ l.accepts = c.link.accepts
    BY <1>1 DEF Conn, Link
  <2>2. Becomes(n, d) /\ callStart' = callStart
    BY <1>5 DEF ReleaseRemoteCandidates
  <2> HIDE DEF l
  <2>3. /\ d.attemptsLeft = c.attemptsLeft /\ d.nextServer = c.nextServer
        /\ d.role = c.role /\ d.server = c.server /\ d.hold = c.hold
        /\ d.state = c.state /\ d.probing = c.probing /\ d.link = l
    BY <1>1 DEF Conn
  <2> HIDE DEF d
  <2>4. Carries(c, d)
    BY <2>1, <2>3 DEF Carries, SameCallAs, SamePlace
  <2> QED
    BY <1>2, <2>2, <2>4 DEF Turns
<1>6. CASE Receive(n)
  <2>1. PICK m \in net : Becomes(n, IF m.from = c.name THEN c ELSE OnSignal(c, m))
    BY <1>6 DEF Receive
  <2>2. m \in Message /\ callStart' = callStart
    BY <1>6 DEF IInv, TypeOK, Receive
  <2>3. Turns(c, IF m.from = c.name THEN c ELSE OnSignal(c, m))
    BY <1>1, <2>2, OnSignalTurns, StaysTurns DEF Turns
  <2> QED
    BY <1>2, <2>1, <2>2, <2>3
<1>7. CASE AnswerTimeout(n)
  <2> DEFINE d == [c EXCEPT !.answerTimer = FALSE, !.waiting = FALSE]
             e == AttemptFailed(d, sids + 1)
  <2>1. /\ d \in Conn /\ d.state = "Connecting" /\ d.role = "Caller" /\ d.attemptsLeft > 0
        /\ Carries(c, d) /\ c.state = "Connecting"
    <3>1. c.answerTimer
      BY <1>7 DEF AnswerTimeout
    <3> HIDE DEF c
    <3> QED
      BY <1>1, <3>1 DEF Coherent, Conn, Carries, SameCallAs, SamePlace
  <2>2. Becomes(n, e) /\ callStart' = callStart
    BY <1>7 DEF AnswerTimeout
  <2> HIDE DEF d
  <2>3. Retries(d, e)
    BY <1>1, <2>1, NextAttemptRetries DEF AttemptFailed
  <2> HIDE DEF e
  <2>4. Retries(c, e)
    BY <2>1, <2>3 DEF Retries, Carries, SameCallAs, SamePlace
  <2> QED
    BY <1>2, <2>2, <2>4 DEF Turns
<1>8. CASE OpenTimeout(n)
  <2> DEFINE d == [c EXCEPT !.openTimer = FALSE]
             e == IF d.role = "Caller" THEN AttemptFailed(d, sids + 1) ELSE Stop(d)
  <2>1. /\ d \in Conn /\ d.state = "Connecting" /\ (d.role = "Caller" => d.attemptsLeft > 0)
        /\ Carries(c, d) /\ c.state = "Connecting" /\ d.nextServer = c.nextServer
    <3>1. c.openTimer
      BY <1>8 DEF OpenTimeout
    <3> HIDE DEF c
    <3> QED
      BY <1>1, <3>1 DEF Coherent, Conn, Carries, SameCallAs, SamePlace
  <2>2. Becomes(n, e) /\ callStart' = callStart
    BY <1>8 DEF OpenTimeout
  <2> HIDE DEF d
  <2>3. CASE d.role = "Caller"
    <3>1. Retries(d, e)
      BY <1>1, <2>1, <2>3, NextAttemptRetries DEF AttemptFailed
    <3> HIDE DEF e
    <3>2. Retries(c, e)
      BY <2>1, <3>1 DEF Retries, Carries, SameCallAs, SamePlace
    <3> QED
      BY <1>2, <2>2, <3>2 DEF Turns
  <2>4. CASE d.role # "Caller"
    <3>1. Ends(d, e)
      BY <2>1, <2>4, StopEnds
    <3> HIDE DEF e
    <3>2. Ends(c, e)
      BY <2>1, <2>4, <3>1 DEF Ends, Carries, SameCallAs, SamePlace
    <3> QED
      BY <1>2, <2>2, <3>2 DEF Turns
  <2> QED
    BY <2>3, <2>4
<1>9. CASE LinkOpened(n)
  BY <1>1, <1>2, <1>9, OnOpenedTurns DEF LinkOpened
<1>10. CASE LinkClosed(n)
  BY <1>1, <1>2, <1>10, OnClosedTurns DEF LinkClosed
<1> QED
  BY <1>3, <1>4, <1>5, <1>6, <1>7, <1>8, <1>9, <1>10 DEF Handler

LEMMA ChannelUpMoves ==
    ASSUME IInv, NEW n \in Node, NEW m \in Node, ChannelUp(n, m), NEW k \in Node
    PROVE  NodeMoves(k)
<1>1. conn[k] \in Conn
  BY DEF IInv, TypeOK
<1>2. conn'[k] = conn[k] \/ conn'[k] = [conn[k] EXCEPT !.link.phase = "up"]
  BY DEF ChannelUp, IInv, TypeOK
<1>3. Carries(conn[k], [conn[k] EXCEPT !.link.phase = "up"])
  BY <1>1 DEF Carries, SameCallAs, SamePlace, Conn, Link
<1> QED
  BY <1>2, <1>3, StaysTurns DEF ChannelUp, NodeMoves, Turns

LEMMA StepMoves ==
    ASSUME IInv, [Next]_vars, NEW k \in Node
    PROVE  NodeMoves(k)
<1>1. CASE UNCHANGED vars
  BY <1>1, StaysTurns DEF vars, NodeMoves, Turns
<1>2. ASSUME NEW n \in Node, Handler(n) \/ User(n)
      PROVE  NodeMoves(k)
  <2>1. NodeMoves(n)
    BY <1>2, HandlerMoves, UserMoves
  <2>2. k # n => conn'[k] = conn[k] /\ callStart'[k] = callStart[k]
    BY <1>2 DEF Handler, User, OnLocalReady, RetryStun, StartRealLink, PublishDescription,
                PostEnds, ReleaseRemoteCandidates, Receive, AnswerTimeout, OpenTimeout,
                LinkOpened, LinkClosed, ConnectTo, SetNodeName, DisconnectPeer, Becomes,
                IInv, TypeOK
  <2> QED
    BY <2>1, <2>2, StaysTurns DEF NodeMoves, Turns
<1>3. CASE Next
  BY <1>2, <1>3, ChannelUpMoves DEF Next
<1> QED
  BY <1>1, <1>3

LEMMA StepPlaced ==
    ASSUME IInv, Placed, [Next]_vars
    PROVE  Placed' /\ \A n \in Node : ~Swaps(conn[n], conn'[n])
<1>1. ASSUME NEW n \in Node
      PROVE  /\ Around(conn'[n], callStart'[n]) /\ Probes(conn'[n])
             /\ ~Swaps(conn[n], conn'[n])
  <2>1. /\ NodeMoves(n) /\ conn[n] \in Conn /\ callStart[n] \in Server
        /\ Around(conn[n], callStart[n]) /\ Probes(conn[n])
    BY StepMoves DEF Placed, IInv, TypeOK
  <2> QED
    BY <2>1, TurnsAround, TurnsLinks, CallsAround DEF NodeMoves
<1> QED
  BY <1>1 DEF Placed, Around, Probes

LEMMA InitPlaced == Init => Placed
BY DEF Init, InitConn, Placed, Around, Probes

\* Every attempt of a call goes through the server after the one before it, every
\* second one holds the answerer back, and a call that fails has been once around
\* the list, for any number of servers (connector.cpp, attemptFailed).
THEOREM OnceAroundTheListHolds == Spec => []OnceAroundTheList
<1>1. Placed => OnceAroundTheList
  BY DEF Placed, Around, OnceAroundTheList
<1> QED
  BY InitIInv, StepIInv, InitPlaced, StepPlaced, <1>1, PTL DEF Spec

\* The answerer's real link is never exchanged for another one that sees the same
\* offer: every link that is made while it probes, or for a retry, sees none.
THEOREM OneRealLinkHolds == Spec => OneRealLink
<1>1. IInv /\ Placed /\ [Next]_vars =>
        [\A n \in Node : LET l == conn[n].link k == conn'[n].link IN
           (l.accepts /\ k.accepts /\ l.remote = k.remote) =>
              l.sid = k.sid /\ l.tries = k.tries]_vars
  BY StepPlaced DEF Swaps
<1> QED
  BY InitIInv, StepIInv, InitPlaced, StepPlaced, <1>1, PTL DEF Spec, OneRealLink
=============================================================================
