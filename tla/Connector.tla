------------------------------ MODULE Connector ------------------------------
(***************************************************************************)
(* prototype-webrtc-stun/src/connector.cpp: chat calls between nodes that  *)
(* know each other by name only.  An offer travels through one of several  *)
(* public ntfy servers to the topic of the callee, the answer comes back   *)
(* the same way, and a WebRTC data channel opens between the two           *)
(* PeerLinks.  A call that fails is retried through the next server, once  *)
(* around the list.                                                        *)
(*                                                                         *)
(* Every node runs one Connector on one Qt thread, so a handler is one     *)
(* step.  Between the handlers anything may happen: messages are delayed,  *)
(* reordered or lost, POST callbacks come late or report an error for a    *)
(* message that did arrive, timers fire, users press buttons.              *)
(*                                                                         *)
(* The methods of class Connector are operators on the record of its       *)
(* member variables; the handlers are actions built from them.  A Mutant   *)
(* is a plausible bug in the definition after it, kept to show that some   *)
(* property would notice; no action uses one.                              *)
(***************************************************************************)
EXTENDS Integers, FiniteSets

CONSTANTS
    Node,           \* running instances of the program
    Name,           \* node names; numbers, because the glare rule orders them
    InitName,       \* InitName[n]: the name saved in the settings of n
    NServers,       \* length of resources/ntfy-servers.txt
    MaxStunTries,   \* kMaxStunTries
    MaxPresses      \* bound: presses of Connect and Generate, over all nodes

ASSUME NameAssumption == Name \subseteq Nat \ {0}
ASSUME InitNameAssumption ==
    /\ InitName \in [Node -> Name]
    /\ \A n, m \in Node : n # m => InitName[n] # InitName[m]
ASSUME BoundsAssumption ==
    /\ NServers \in Nat \ {0}
    /\ MaxStunTries \in Nat \ {0}
    /\ MaxPresses \in Nat

VARIABLES
    conn,       \* conn[n]: the member variables of n's Connector
    net,        \* messages posted to a server and not delivered
    posts,      \* POST requests whose callback has not run
    sids,       \* sids drawn so far: randomSid never repeats one
    callStart,  \* history: server the last call of n started with
    presses     \* presses of Connect and Generate so far

vars == <<conn, net, posts, sids, callStart, presses>>

----------------------------------------------------------------------------
\* Data.  A session description stands for the PeerLink it was gathered by:
\* the node, the sid it served and which of that attempt's links it was.

NoSid  == 0
NoName == 0
Sid    == Nat
Server == 0 .. NServers - 1

Sdp  == [node : Node, sid : Sid, tries : Nat]

\* m_link: "none" is a null pointer, "up" a negotiated channel whose opened
\* signal is still queued.  remote holds the remote description, if any;
\* held tells whether its candidates are held back, or a release is timed.
Link == [phase   : {"none", "gathering", "ready", "up", "open"},
         sid     : Sid,
         tries   : Nat,
         accepts : BOOLEAN,
         remote  : SUBSET Sdp,
         held    : {"no", "held", "timed"}]

NoLink == [phase |-> "none", sid |-> NoSid, tries |-> 0, accepts |-> FALSE,
           remote |-> {}, held |-> "no"]

Conn == [name         : Name,
         peer         : Name \cup {NoName},
         sid          : Sid,
         role         : {"Caller", "Answerer"},
         state        : {"Idle", "Connecting", "Connected"},
         server       : Server,
         nextServer   : Server,
         attemptsLeft : 0 .. NServers,
         stunTries    : Nat,
         waiting      : BOOLEAN,       \* m_waitingForAnswer
         probing      : BOOLEAN,
         hold         : BOOLEAN,
         answerTimer  : BOOLEAN,       \* armed
         openTimer    : BOOLEAN,       \* armed
         remoteOffer  : SUBSET Sdp,
         link         : Link]

Message == [type   : {"offer", "answer", "bye"},
            to     : Name,             \* topic
            server : Server,
            from   : Name,
            sid    : Sid \ {NoSid},
            sdp    : SUBSET Sdp,
            hold   : BOOLEAN]

Post == [node : Node, sid : Sid, caller : BOOLEAN, hold : BOOLEAN, link : Sdp]

InitConn(n) ==
    [name |-> InitName[n], peer |-> NoName, sid |-> NoSid, role |-> "Caller",
     state |-> "Idle", server |-> 0, nextServer |-> 0, attemptsLeft |-> 0,
     stunTries |-> 0, waiting |-> FALSE, probing |-> FALSE, hold |-> FALSE,
     answerTimer |-> FALSE, openTimer |-> FALSE, remoteOffer |-> {},
     link |-> NoLink]

HasLink(c) == c.link.phase # "none"

\* The description n's current link gathers.
SdpOf(n, c) == [node |-> n, sid |-> c.link.sid, tries |-> c.link.tries]

Envelope(c, type, sdp, hold) ==
    [type |-> type, to |-> c.peer, server |-> c.server, from |-> c.name,
     sid |-> c.sid, sdp |-> sdp, hold |-> hold]

----------------------------------------------------------------------------
\* The methods, as functions of the member variables.

DropLink(c) == [c EXCEPT !.link = NoLink]

\* A new PeerLink: it offers a channel, or accepts the offer at hand.
NewLink(c) ==
    LET accepts == ~(c.role = "Caller" \/ c.probing)
    IN  [phase   |-> "gathering",
         sid     |-> c.sid,
         tries   |-> c.stunTries,
         accepts |-> accepts,
         remote  |-> IF accepts THEN c.remoteOffer ELSE {},
         held    |-> IF accepts /\ c.hold THEN "held" ELSE "no"]

\* startLink(stunServer): with the STUN server given, or with a fresh pick.
StartLinkGiven(c) == [c EXCEPT !.link = NewLink(c)]
StartLink(c) == StartLinkGiven([c EXCEPT !.stunTries = c.stunTries + 1])

\* Mutant: the retry goes on under the sid of the attempt that failed.
RetryKeepsSid(c, sid) ==
    StartLink([c EXCEPT !.role = "Caller", !.probing = FALSE, !.stunTries = 0,
                        !.sid = IF c.sid = NoSid THEN sid ELSE c.sid,
                        !.server = c.nextServer % NServers, !.waiting = FALSE,
                        !.hold = (NServers - c.attemptsLeft) % 2 = 1])

\* startAttempt(), with the sid that randomSid() returns.
StartAttempt(c, sid) ==
    StartLink([c EXCEPT !.role      = "Caller",
                        !.probing   = FALSE,
                        !.sid       = sid,
                        !.server    = c.nextServer % NServers,
                        !.stunTries = 0,
                        !.waiting   = FALSE,
                        !.hold      = (NServers - c.attemptsLeft) % 2 = 1])

Disarm(c) == [c EXCEPT !.link = NoLink, !.answerTimer = FALSE, !.openTimer = FALSE]

\* Mutant: the sid is not cleared.
StopKeepsSid(c) ==
    [Disarm(c) EXCEPT !.waiting = FALSE, !.probing = FALSE, !.state = "Idle"]

Stop(c) ==
    [Disarm(c) EXCEPT !.waiting = FALSE, !.probing = FALSE, !.sid = NoSid,
                      !.state = "Idle"]

\* Mutant: the rotation runs off the end of the list.
NextAttemptUnwrapped(c, sid) ==
    LET d == [Disarm(c) EXCEPT !.nextServer = c.server + 1, !.attemptsLeft = c.attemptsLeft - 1]
    IN  IF d.attemptsLeft > 0 THEN StartAttempt(d, sid) ELSE Stop(d)

\* Mutant: the failed server is tried again.
NextAttemptSameServer(c, sid) ==
    LET d == [Disarm(c) EXCEPT !.nextServer = c.server, !.attemptsLeft = c.attemptsLeft - 1]
    IN  IF d.attemptsLeft > 0 THEN StartAttempt(d, sid) ELSE Stop(d)

NextAttempt(c, sid) ==
    LET d == [Disarm(c) EXCEPT !.nextServer   = (c.server + 1) % NServers,
                               !.attemptsLeft = c.attemptsLeft - 1]
    IN  IF d.attemptsLeft > 0 THEN StartAttempt(d, sid) ELSE Stop(d)

AttemptFailed(c, sid) ==
    IF c.state = "Connecting" /\ c.role = "Caller" THEN NextAttempt(c, sid) ELSE c

\* Mutant: a failed answerer starts over, probing or not.
RelinkWithoutProbing(c, sid) ==
    IF c.role = "Answerer" /\ c.stunTries < MaxStunTries THEN StartLink(c)
    ELSE IF c.state # "Connected" /\ c.role = "Caller" THEN AttemptFailed(c, sid)
    ELSE Stop(c)

\* Mutant: the end of an open channel is taken for a failed attempt.
ClosedOnlyWhileConnecting(c, sid) ==
    IF c.probing /\ c.stunTries < MaxStunTries THEN StartLink(c)
    ELSE IF c.role = "Caller" THEN AttemptFailed(c, sid)
    ELSE Stop(c)

OnClosed(c, sid) ==
    IF c.probing /\ c.stunTries < MaxStunTries THEN StartLink(c)
    ELSE IF c.state # "Connected" /\ c.role = "Caller" THEN AttemptFailed(c, sid)
    ELSE Stop(c)

\* An offer is ignored when it is the one being handled, or when both nodes
\* call each other and this one has the smaller name.
IgnoresOffer(c, m) ==
    \/ c.state # "Idle" /\ m.from = c.peer /\ m.sid = c.sid
    \/ c.state = "Connecting" /\ c.role = "Caller" /\ m.from = c.peer /\ c.name < m.from

\* Mutant: the timers of the call that is replaced stay armed.
TakeOfferKeepsTimers(c, m) ==
    StartLink([DropLink(c) EXCEPT !.waiting = FALSE, !.role = "Answerer", !.peer = m.from,
                                  !.sid = m.sid, !.server = m.server, !.remoteOffer = m.sdp,
                                  !.hold = m.hold, !.probing = TRUE, !.stunTries = 0,
                                  !.state = "Connecting"])

TakeOffer(c, m) ==
    StartLink([Disarm(c) EXCEPT !.waiting     = FALSE,
                                !.role        = "Answerer",
                                !.peer        = m.from,
                                !.sid         = m.sid,
                                !.server      = m.server,
                                !.remoteOffer = m.sdp,
                                !.hold        = m.hold,
                                !.probing     = TRUE,
                                !.stunTries   = 0,
                                !.state       = "Connecting"])

OnOffer(c, m) == IF IgnoresOffer(c, m) THEN c ELSE TakeOffer(c, m)

ExpectsAnswer(c, m) ==
    c.role = "Caller" /\ c.waiting /\ m.from = c.peer /\ m.sid = c.sid

\* Mutant: nothing bounds the time from answer to open channel.
OnAnswerUntimed(c, m) ==
    IF ExpectsAnswer(c, m)
    THEN [c EXCEPT !.waiting = FALSE, !.answerTimer = FALSE, !.link.remote = m.sdp]
    ELSE c

OnAnswer(c, m) ==
    IF ExpectsAnswer(c, m)
    THEN [c EXCEPT !.waiting = FALSE, !.answerTimer = FALSE, !.openTimer = TRUE,
                   !.link.remote = m.sdp]
    ELSE c

OnBye(c, m) ==
    IF c.state # "Idle" /\ m.from = c.peer /\ m.sid = c.sid THEN Stop(c) ELSE c

\* onSignal dispatches on the type.
OnSignal(c, m) ==
    CASE m.type = "offer"  -> OnOffer(c, m)
      [] m.type = "answer" -> OnAnswer(c, m)
      [] m.type = "bye"    -> OnBye(c, m)

OnOpened(c) ==
    [c EXCEPT !.answerTimer = FALSE, !.openTimer = FALSE,
              !.nextServer = IF c.role = "Caller" THEN c.server ELSE @,
              !.state = "Connected", !.link.phase = "open"]

\* The callback of the POST of an offer or an answer; one that belongs to an
\* attempt or a call that is over changes nothing.
TimeRelease(n, c, p) ==
    IF p.hold /\ HasLink(c) /\ SdpOf(n, c) = p.link
    THEN [c EXCEPT !.link.held = "timed"] ELSE c

OnPosted(n, c, p, ok, sid) ==
    IF p.sid # c.sid \/ c.state # "Connecting" THEN c
    ELSE IF p.caller /\ ~ok THEN AttemptFailed(TimeRelease(n, c, p), sid)
    ELSE TimeRelease(n, c, p)

----------------------------------------------------------------------------
\* Actions.

Init ==
    /\ conn = [n \in Node |-> InitConn(n)]
    /\ net = {}
    /\ posts = {}
    /\ sids = 0
    /\ callStart = [n \in Node |-> 0]
    /\ presses = 0

\* n's Connector becomes c; the next sid is used up if c took it.
Becomes(n, c) ==
    /\ conn' = [conn EXCEPT ![n] = c]
    /\ sids' = IF c.sid = sids + 1 THEN c.sid ELSE sids

\* The Connect button, which calls only while Idle (MainWindow::toggleConnection).
ConnectTo(n, peer) ==
    LET c == conn[n] IN
    /\ presses < MaxPresses
    /\ c.state = "Idle"
    /\ peer # c.name
    /\ Becomes(n, StartAttempt([c EXCEPT !.peer = peer, !.attemptsLeft = NServers,
                                         !.state = "Connecting"], sids + 1))
    /\ callStart' = [callStart EXCEPT ![n] = c.nextServer]
    /\ presses' = presses + 1
    /\ UNCHANGED <<net, posts>>

Bye(c) == IF c.state = "Idle" THEN {} ELSE {Envelope(c, "bye", {}, FALSE)}

\* The Disconnect button; the POST of a bye has no callback to speak of.
DisconnectPeer(n) ==
    LET c == conn[n] IN
    /\ c.state # "Idle"
    /\ Becomes(n, Stop(c))
    /\ net' = net \cup Bye(c)
    /\ UNCHANGED <<posts, callStart, presses>>

\* The Generate button: a name no other node has.  The old topic is left.
SetNodeName(n, name) ==
    LET c == conn[n] IN
    /\ presses < MaxPresses
    /\ \A m \in Node : conn[m].name # name
    /\ Becomes(n, [IF c.state = "Idle" THEN c ELSE Stop(c) EXCEPT !.name = name])
    /\ net' = net \cup Bye(c)
    /\ presses' = presses + 1
    /\ UNCHANGED <<posts, callStart>>

\* Mutant: the answerer swaps its real link as well.
RetryStunAlways(n) ==
    LET c == conn[n] IN
    /\ c.stunTries < MaxStunTries
    /\ Becomes(n, StartLink(c))
    /\ UNCHANGED <<net, posts>>

\* onLocalReady, first outcome: no public address, and another STUN server is
\* allowed.  Which server answers, and the 8 s budget, are left open.
RetryStun(n) ==
    LET c == conn[n] IN
    /\ c.role = "Caller" \/ c.probing
    /\ c.stunTries < MaxStunTries
    /\ Becomes(n, StartLink(c))
    /\ UNCHANGED <<net, posts>>

\* Second outcome: the answerer's probe is done, the real link is made.
StartRealLink(n) ==
    LET c == conn[n] IN
    /\ c.probing
    /\ Becomes(n, StartLinkGiven([c EXCEPT !.probing = FALSE]))
    /\ UNCHANGED <<net, posts>>

\* Third outcome: the description goes out and a timer starts.
PublishDescription(n) ==
    LET c      == conn[n]
        caller == c.role = "Caller"
        sdp    == SdpOf(n, c)
    IN
    /\ ~c.probing
    /\ Becomes(n, [c EXCEPT !.waiting     = caller \/ c.waiting,
                            !.answerTimer = caller \/ c.answerTimer,
                            !.openTimer   = ~caller \/ c.openTimer,
                            !.link.phase  = "ready"])
    /\ net' = net \cup {Envelope(c, IF caller THEN "offer" ELSE "answer", {sdp},
                                 caller /\ c.hold)}
    /\ posts' = posts \cup {[node |-> n, sid |-> c.sid, caller |-> caller,
                             hold |-> ~caller /\ c.hold, link |-> sdp]}

OnLocalReady(n) ==
    /\ conn[n].link.phase = "gathering"
    /\ RetryStun(n) \/ StartRealLink(n) \/ PublishDescription(n)
    /\ UNCHANGED <<callStart, presses>>

\* A POST ends.  An error says nothing about delivery: the request may time
\* out after the server has passed the message on.
PostEnds(n) ==
    \E p \in posts, ok \in BOOLEAN :
        /\ p.node = n
        /\ Becomes(n, OnPosted(n, conn[n], p, ok, sids + 1))
        /\ posts' = posts \ {p}
        /\ UNCHANGED <<net, callStart, presses>>

\* holdMs after the answer was posted.
ReleaseRemoteCandidates(n) ==
    /\ conn[n].link.held = "timed"
    /\ Becomes(n, [conn[n] EXCEPT !.link.held = "no"])
    /\ UNCHANGED <<net, posts, callStart, presses>>

\* The subscription of n delivers a message posted to its topic, in any order.
\* A message that is never delivered is lost.
Receive(n) ==
    \E m \in net :
        /\ m.to = conn[n].name
        /\ Becomes(n, IF m.from = conn[n].name THEN conn[n] ELSE OnSignal(conn[n], m))
        /\ net' = net \ {m}
        /\ UNCHANGED <<posts, callStart, presses>>

AnswerTimeout(n) ==
    /\ conn[n].answerTimer
    /\ Becomes(n, AttemptFailed([conn[n] EXCEPT !.answerTimer = FALSE, !.waiting = FALSE],
                                sids + 1))
    /\ UNCHANGED <<net, posts, callStart, presses>>

OpenTimeout(n) ==
    LET c == [conn[n] EXCEPT !.openTimer = FALSE] IN
    /\ conn[n].openTimer
    /\ Becomes(n, IF c.role = "Caller" THEN AttemptFailed(c, sids + 1) ELSE Stop(c))
    /\ UNCHANGED <<net, posts, callStart, presses>>

----------------------------------------------------------------------------
\* What libdatachannel does to a link.

\* Two links can negotiate when each has the other's description.
Matched(n, m) ==
    LET c == conn[n] d == conn[m] IN
    /\ HasLink(c) /\ SdpOf(n, c) \in d.link.remote
    /\ HasLink(d) /\ SdpOf(m, d) \in c.link.remote

\* ICE, DTLS and SCTP come up between two live links.
ChannelUp(n, m) ==
    /\ n # m
    /\ Matched(n, m)
    /\ conn[n].link.phase = "ready" /\ conn[m].link.phase = "ready"
    /\ conn' = [conn EXCEPT ![n].link.phase = "up", ![m].link.phase = "up"]
    /\ UNCHANGED <<net, posts, sids, callStart, presses>>

LinkOpened(n) ==
    /\ conn[n].link.phase = "up"
    /\ Becomes(n, OnOpened(conn[n]))
    /\ UNCHANGED <<net, posts, callStart, presses>>

\* A link may fail at any moment.
LinkClosed(n) ==
    /\ HasLink(conn[n])
    /\ Becomes(n, OnClosed(conn[n], sids + 1))
    /\ UNCHANGED <<net, posts, callStart, presses>>

\* An established link whose other end is gone does fail, sooner or later.
Orphaned(n) ==
    /\ conn[n].link.phase \in {"up", "open"}
    /\ \A m \in Node : ~Matched(n, m)

RemoteGone(n) == Orphaned(n) /\ LinkClosed(n)

Handler(n) ==
    \/ OnLocalReady(n)
    \/ PostEnds(n)
    \/ ReleaseRemoteCandidates(n)
    \/ Receive(n)
    \/ AnswerTimeout(n)
    \/ OpenTimeout(n)
    \/ LinkOpened(n)
    \/ LinkClosed(n)

User(n) ==
    \/ \E name \in Name : ConnectTo(n, name) \/ SetNodeName(n, name)
    \/ DisconnectPeer(n)

Next ==
    \E n \in Node :
        \/ Handler(n)
        \/ User(n)
        \/ \E m \in Node : ChannelUp(n, m)

Spec == Init /\ [][Next]_vars

\* Timers fire, gathering ends (PeerLink times it out), queued signals arrive
\* and the loss of the other end is noticed.  Messages, POSTs and users owe
\* nothing.
Fairness ==
    \A n \in Node :
        /\ WF_vars(OnLocalReady(n))
        /\ WF_vars(AnswerTimeout(n))
        /\ WF_vars(OpenTimeout(n))
        /\ WF_vars(LinkOpened(n))
        /\ WF_vars(RemoteGone(n))

FairSpec == Spec /\ Fairness

----------------------------------------------------------------------------
\* Properties.

TypeOK ==
    /\ conn \in [Node -> Conn]
    /\ net \subseteq Message
    /\ posts \subseteq Post
    /\ sids \in Nat
    /\ callStart \in [Node -> Server]
    /\ presses \in 0 .. MaxPresses

\* What the handlers keep true of the member variables of one Connector; the
\* inductive part behind NeverStuck and NothingLeftOver.
Coherent(c) ==
    /\ c.state = "Idle" <=> ~HasLink(c)
    /\ c.state = "Idle" <=> c.sid = NoSid
    /\ c.state = "Connected" <=> c.link.phase = "open"
    /\ c.state = "Connecting" =>
          c.link.phase = "gathering" \/ c.answerTimer \/ c.openTimer
    /\ c.state # "Idle" => c.peer \in Name
    /\ c.state = "Connecting" /\ c.role = "Caller" => c.attemptsLeft > 0
    /\ c.answerTimer <=> c.waiting
    /\ c.waiting => c.role = "Caller" /\ ~c.openTimer /\ c.link.phase = "ready"
    /\ c.waiting \/ (c.role = "Caller" /\ c.link.phase = "gathering") => c.link.remote = {}
    /\ c.answerTimer \/ c.openTimer =>
          c.state = "Connecting" /\ c.link.phase \in {"ready", "up"}
    /\ c.probing =>
          c.state = "Connecting" /\ c.role = "Answerer" /\ c.link.phase = "gathering"

AllCoherent == \A n \in Node : Coherent(conn[n])

\* What the nodes and the messages under way keep true of each other; the
\* inductive part behind SameCall.  A sid is drawn by one caller, which posts
\* one offer for it, which one node takes.
SidsDrawn ==
    /\ \A n \in Node : conn[n].sid <= sids
    /\ \A o \in net : o.sid <= sids

NamesDiffer == \A n, m \in Node : n # m => conn[n].name # conn[m].name

Paired(c, d) ==
    (c.sid # NoSid /\ c.sid = d.sid) =>
        /\ c.peer = d.name /\ d.peer = c.name
        /\ c.role # d.role
        /\ c.server = d.server
        /\ c.hold = d.hold

Announced(c, o) ==
    o.sid = c.sid =>
        /\ c.role = "Caller" /\ c.link.phase # "gathering"
        /\ o.from = c.name /\ o.to = c.peer
        /\ o.server = c.server /\ o.hold = c.hold

Unannounced(c, d) ==
    (c.role = "Caller" /\ c.link.phase = "gathering") => c.sid # d.sid

Offers == {o \in net : o.type = "offer"}

CallInv ==
    /\ SidsDrawn
    /\ NamesDiffer
    /\ \A n, m \in Node : n # m => Paired(conn[n], conn[m]) /\ Unannounced(conn[n], conn[m])
    /\ \A o \in Offers, n \in Node : Announced(conn[n], o)
    /\ \A o, p \in Offers : o.sid = p.sid => o = p

\* A Connecting call is always carried by something that will end or advance
\* it: a link that gathers, whose PeerLink times itself out, or an armed
\* timer.  No sequence of signals, timeouts and closed links (m_answerTimer,
\* m_openTimer, dropLink) leaves a call that waits for nothing.
NeverStuck ==
    \A n \in Node : LET c == conn[n] IN
        c.state = "Connecting" =>
            /\ HasLink(c)
            /\ c.link.phase = "gathering" \/ c.answerTimer \/ c.openTimer

\* Outside Connecting no timer of an old attempt is left to fire into the next
\* call, an Idle node owns no PeerLink, and a Connected one has an open one.
NothingLeftOver ==
    \A n \in Node : LET c == conn[n] IN
        /\ c.state # "Connecting" => ~c.answerTimer /\ ~c.openTimer /\ ~c.waiting /\ ~c.probing
        /\ c.state = "Idle" <=> ~HasLink(c)
        /\ c.state = "Connected" <=> c.link.phase = "open"
        /\ c.answerTimer <=> c.waiting
        /\ ~(c.answerTimer /\ c.openTimer)

\* Two nodes that handle the same sid are the two ends of one call: they name
\* each other, one called and one answers, and they use the same ntfy server
\* and agree on who holds back its candidates.
SameCall == \A n, m \in Node : n # m => Paired(conn[n], conn[m])

\* While both ends work on one call, a description that one of them applied is
\* that of the link the other still has: the caller never locks onto a link of
\* the answerer that is then thrown away (connector.h on why it probes first).
NeverLocksOntoDiscarded ==
    \A n, m \in Node : LET c == conn[n] d == conn[m] IN
        (n # m /\ c.sid # NoSid /\ c.sid = d.sid /\ c.link.remote # {}) =>
            c.link.remote = {SdpOf(m, d)}

\* A link that has seen an offer is the only one that ever does: a probe never
\* sees it and the answerer does not swap its real link for another, however
\* gathering ends.
OneRealLink ==
    [][\A n \in Node : LET l == conn[n].link k == conn'[n].link IN
          (l.accepts /\ k.accepts /\ l.remote = k.remote) =>
             l.sid = k.sid /\ l.tries = k.tries]_vars

\* Attempt k of a call uses the k-th server after the one it started with, so
\* a call tries every server once and then gives up where it began; every
\* second attempt holds the answerer back.
OnceAroundTheList ==
    \A n \in Node : LET c == conn[n] tried == NServers - c.attemptsLeft IN
        /\ c.state = "Connecting" /\ c.role = "Caller" =>
            /\ c.attemptsLeft > 0
            /\ c.server = (callStart[n] + tried) % NServers
            /\ c.nextServer = c.server
            /\ c.hold <=> (tried % 2 = 1)
        /\ c.attemptsLeft = 0 => c.nextServer = callStart[n]

\* Every call ends: the node gives up, is hung up on or gets its channel.
CallsEnd == \A n \in Node : conn[n].state = "Connecting" ~> conn[n].state # "Connecting"

\* Nobody stays Connected to a node that is not in the call: either the two
\* are in it together or the survivor notices.
HalfOpenHeals ==
    \A n \in Node :
        (conn[n].state = "Connected" /\ \A m \in Node : ~Matched(n, m))
            ~> conn[n].state # "Connected"

\* connector.h: every offer is accepted, the newest wins.  A connection should
\* then not be given up for an offer its own peer made before the one that led
\* to it.  (It is: an offer carries nothing that orders it, so the one that
\* arrives last wins, also when an earlier attempt comes in late.)
NewestWins ==
    [][\A n \in Node :
          (/\ conn[n].state = "Connected" /\ conn'[n].state = "Connecting"
           /\ conn'[n].peer = conn[n].peer) => conn'[n].sid > conn[n].sid]_vars
=============================================================================
