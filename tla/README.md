# Verification of the PickupGameOrganizer prototypes

TLA+ models, TLC runs and TLAPS proofs about the code of this repository. The
repository holds a family of prototypes under `src/ai-trash/prototypes/` (in
this file: `P/`). Two of them carry protocol code in C++: `prototype-webrtc-stun`,
which makes chat calls over WebRTC with public ntfy and STUN servers, and
`prototype-tor-qt`, which runs tor and a Snowflake client inside one program,
also in a browser. The others are web pages and their ports: sign-in and a
roster, a QR scanner, an MQTT chat, a map, signing, each with a service worker.

Contents: 1 the parts of the system, 2 the modules, 3 the runs, 4 the fairness,
5 the proofs, 6 findings, 7 what is not modelled, 8 the plan.

To check everything: `tlc -config X.cfg M` for each row of the table in section 3,
and `tlapm M.tla` for `ConnectorProofs`, `ConnectorCallProofs`, `PeerLinkProofs`,
`SessionProofs`, `StunListProofs`, `VaultProofs`, `QrProofs` and `PageProofs`.

## 1. The parts of the system

### prototype-webrtc-stun (`P/prototype-webrtc-stun/src/`)

| Part | State | Operations | Talks to |
|---|---|---|---|
| `Connector` | call state, role, peer, sid, server index and rotation, STUN tries, two timers, the current link | connectTo, disconnectPeer, setNodeName; handlers of messages, links, timers and POST callbacks | one `PeerLink` at a time, `Signaling`, `StunList`, the window |
| `PeerLink` | flags of one WebRTC connection, candidates, two timers | createOffer, acceptOffer, setAnswer, releaseRemoteCandidates, send; queued callbacks | libdatachannel (own threads), `Connector` by signals |
| `Signaling`, `Subscription` | one subscription per server, retry timers | subscribe, publish | ntfy servers over HTTP |
| `StunList` | the list, the failed set, the last and the first pick | pick, markFailed | `Connector` |
| window, node name | text fields, the saved name | buttons | `Connector` |

One Qt thread per program runs all handlers, so a handler is atomic. What is
hard: the two ends of a call share nothing but messages that may be late, lost
or out of order; a POST may report an error after its message got through; a
retry may overlap the attempt before it; both ends may call at once; callbacks
of libdatachannel come from other threads and are queued. It is correct when a
call is never stuck, nothing of an old call acts on a new one, both ends agree
on which call they are in, the rotation over the servers is complete, and a link
is never thrown away after the other side has committed to it.

### prototype-tor-qt (`P/prototype-tor-qt/src/`)

| Part | State | Operations | Hard |
|---|---|---|---|
| `snowflake/session` | KCP and smux state of one stream, the current, the pending and the probed peer, windows, retry timer | tor bytes in and out, peer messages, peer opened/failed/closed, probe and retry timers | a peer replaced under a running stream; calls that drop the peer synchronously; windows and 32-bit counters |
| `snowflake/client` | SOCKS connections of tor, sessions | accept, handshake, checkPeers | bytes that come early; sessions that end while others start |
| `snowflake/webrtcpeer`, `websocketpeer`, `broker` | one attempt at a proxy | open, send, failed, closed | the order of signals |
| `torcontroller` | tor's thread, control connection, queue of reply handlers, service id | start, authenticate, createOnion, remove | replies matched by order; requests before the reply of the last |
| `chatlink` | active socket, queued texts | send, dial, adopt, disconnect | texts queued for one peer, connection made to another |
| `wasm/netshim.c` | table of in-process sockets under one mutex | socket, bind, listen, accept, connect, send, recv, poll, close | lost wake-ups; slots closed and reused under a blocked thread |
| `wasm/shimsocket` | Qt-side sockets, one pending wake-up | schedule, service, close | coalesced wake-ups between threads |

What makes the Snowflake session correct: while tor wants the stream there is a
peer, an attempt at one or a timer that starts one, never two; failures lead
from WebRTC to the WebSocket and back; a probe is answered by the bridge, and
drops only the peer that was probed; nothing is fetched for a closed stream; the
windows agree with the bytes. Of the tor controller: a reply reaches the handler
of its command, one hidden service at a time. Of the chat link: a text reaches
the peer it was written to. Of netshim: bytes arrive once and in order, and no
blocked thread misses its wake-up.

### The web pages (`P/prototype-*/app.js`, `sw.js`)

| Page | State | Operations | Hard |
|---|---|---|---|
| `minimal`, `webassembly` (accounts) | blobs and session in localStorage, shared by the tabs; per tab the user, the form, the attempts that run | sign in, unlock, create, silent sign-in, sign out, delete, paste records, reload | an attempt awaits key derivations while other attempts and other tabs write the vault |
| `minimal` (roster) | the parsed blocks, the user, the text | paste, press a card, sign in or out | the text is rewritten in place, line ranges and slots must not drift apart |
| `qr-scanner` | camera, frame loop, busy flag, text and its code, timers | start, stop, switch, hide, scan, type | `start()` awaits three times and may overlap itself |
| `mqtt` | client, key, preview, buttons | connect, disconnect, key, write, send | results of imports and encryptions that come late |
| `certificate` | key pair, bytes, signature, buttons | eight steps, Reset, the selects | steps run side by side and enable each other's buttons |
| `OSM` | place, box, download, map, view | locate, size, download, cancel, pan, zoom, pinch | fixes and frames that arrive during a download; clamps |
| service workers | caches by name, the worker in control | install, activate, fetch | deployments, failures and the workers of the other prototypes at any moment |

Every handler runs to its next `await` without interruption; an await, a timer, an
animation frame and another tab are where others come in. They are correct when no
blob is lost or revived by a late attempt and no session outlives its user; when the
text says what the cards say; when the page can stop what it started; when buttons
tell the state; when what is shown is what is saved or requested; and when a fresh
offline copy holds no file older than itself.

`prototype-minimal-qt` and `-minimal-apk` port the accounts and the roster to Qt and
Android, `prototype-arti` and `-apk` bring up arti on a runtime of their own.
`-ipfs-indexeddb`, `-password`, `-encrypted-userdata`, `-qt` and the mock-ups
demonstrate one API or form each.

`PROJECT.json` lists every component with its sources and status, and under
`hazards` the places where the code is hard to test.

## 2. The modules

| Module | Models | Scope |
|---|---|---|
| `Connector` | `connector.cpp`, with `PeerLink` and `Signaling` as it sees them, over several nodes | all handlers |
| `PeerLink` | `peerlink.cpp`: one link and its callback queue | all methods and callbacks |
| `LinkContract` | the signals a Connector may count on: abstract specification of `PeerLink` | |
| `StunList` | `stunlist.cpp` | pick, markFailed |
| `Session` | the peers of `snowflake/session.cpp`, with `peer.h`, `webrtcpeer.cpp`, `websocketpeer.cpp` and `broker.cpp` as it sees them | requests, drops, retries, probes, closing |
| `Vault` | the accounts of `prototype-minimal/app.js` and `prototype-webassembly/app.js`, over several tabs | all handlers |
| `Attendance` | what the roster promises: abstract specification of `Roster` | |
| `Roster` | parser, cards and rewriting of `prototype-minimal/app.js` | all handlers |
| `QrScanner` | `prototype-qr-scanner/app.js` | all handlers but copy and download |
| `MqttChat` | `prototype-mqtt/app.js` | connection, key, preview, sending |
| `Signing` | `prototype-certificate/app.js` | all handlers |
| `OsmDownload`, `OsmView` | `prototype-OSM/app.js`: the download and its map; pan, zoom and pinch | all but parsing and painting |
| `ShellCache` | the nine `sw.js` | install, activate, fetch |
| `MCConnector`, `MCStunList`, `MCSession`, `MCVault`, `MCPages` | instances for TLC | |
| `ConnectorProofs`, `ConnectorCallProofs`, `PeerLinkProofs`, `StunListProofs`, `SessionProofs`, `VaultProofs`, `QrProofs`, `PageProofs` | theorems | |

### Connector

`conn[n]` is the record of member variables of node n's Connector, with the
PeerLink it owns as a field: `m_state`, `m_role`, `m_sid` and so on lose their
prefix. Methods are operators from record to record (`StartAttempt`,
`AttemptFailed`, `OnOffer`...), composed as the code calls them, so an action is
the whole handler: the button handlers `ConnectTo`, `DisconnectPeer`,
`SetNodeName`; `Receive` for a delivered message; `PostEnds` for a finished
request; `AnswerTimeout`, `OpenTimeout`, `ReleaseRemoteCandidates` for timers;
`OnLocalReady`, `LinkOpened`, `LinkClosed` for signals of the link.

`net` is the set of posted messages: delivery takes one out in any order, and
one never taken out is lost. `posts` holds the requests under way, whose
callback reports success or an error whether or not the message was delivered.
`ChannelUp` is libdatachannel: a channel comes up between two links each of
which has the other's description; one side may see it open and the other fail.

Abstractions: a session description stands for the link it was gathered by
(node, sid, number of the link). `randomSid` never repeats a value. The
wall-clock budget of 8 s for STUN tries is left open, so the number of tries is
bounded by `kMaxStunTries` only. Names are numbers because the glare rule orders
them. `callStart` and `presses` are bookkeeping: the first is read by one
property, the second bounds the runs.

### PeerLink and LinkContract

`pl` is the record of member variables, `queue` the callbacks that libdatachannel
has queued to the Qt thread, `rtc` what libdatachannel itself knows, `heard` the
signals that reached the Connector. A handler collects what it emits in
`emits`; `Becomes` hands that over, unless the link has closed, because the
Connector disconnects a link when it hears `closed`. `AttachWhileOpening` is the
race inside `attachChannel`: the channel may open between setting `onOpen` and
asking `isOpen`, and is then reported by both. Candidates are told apart by type.
The local description may come with candidates whose callbacks are still queued:
`carried` is what it holds, `sent` what has left the link, in the description or
beside it, and `announced` the kind of address that went with it.

`LinkContract` says which signals come in which order, and that gathering ends.
`Connector` is written against it: its links become ready, open and closed as the
contract allows, and its fairness of `OnLocalReady` is the contract's.

### StunList

`pick` and `markFailed` as called by Connector: the first pick may be the server
given by `WEBRTC_STUN_FIRST`, later ones are random among the listed servers that
are not failed; when the failed set is as large as the list it is emptied. The
list may name a host twice (`Lists`), and the first server need not be on it
(`Firsts`); it is then put into the failed set like one of the list. `broken`
says that `pick` has indexed an empty list.

### Session

`ses` is the record of the Session's members with its Peer objects in `ses.peer`.
Methods are operators from record to record (`DropPeer`, `RequestPeer`,
`CheckPeer`...); `Becomes` makes one an action. Timers, tor, the user and the
broker are actions of their own, and so are the queued signals `Opened`,
`Closed` and `Receive` of a peer. `Send` is where a handler can lose its peer half
way: a WebRTC channel that broke throws, `Peer::fail` emits `closed`, and
`dropPeer` runs inside the call. (The WebSocket returns an error instead.)
`ChannelUp` and `ChannelDown` are libdatachannel's threads, `BridgeReceives` the
bridge that gets some of the segments and acknowledges them.

Abstractions: KCP is the number of segments sent and the number acknowledged; it
may send again at any tick. `m_webRtcFailures` is counted up to the constant it
is compared with. `m_probeSeq` is 0 while no probe runs, when nobody reads it. The
channel of a dropped peer is not looked at again, as the Session disconnects it;
the object stays until `deleteLater` runs, and its broker request may still be
answered. The silence timeout may fire at any moment. The destruction of the
Session three seconds after tor closed is left out: the model shows what happens
until then, for as long as it takes. `probed` and `failed` are history: the peer
and NOP of the running probe, the kinds of the latest attempts that failed in a
row.

### Vault

`vault`, `session` are localStorage, `who`, `open`, `view`, `busy`, `target`,
`prefill` the variables of each tab, and `run[t]` its `attemptSignIn` calls, each in
a slot with the stage of its await: `search` (findUser), `unlock` (unlockRecord),
`create` (createRecord), `store` (storeCredential). An attempt keeps the list or the
blob it read before it awaited. The WebAssembly build pauses once (`yield`), then
reads the vault, derives keys for about half a second while its tab is `Blocked`,
and writes back the list it read; tabs have threads of their own and no lock, so
other tabs go on meanwhile. `build` says which program runs. A read and a write of
localStorage with no derivation in between are one step. A blob is its id, its salt
and the name and password that open it. Assumptions: the browser refuses only writes
that make the vault larger, so a session can always be stored, and `confirm()` is
answered at once.

### Roster and Attendance

`Attendance` knows for every person whether they are going: a paste may change
everything, a press of a card changes the user's own entry in one block and
nobody else's. `Roster` has the lines, the blocks that
`parseRoster` finds, and `renderRoster` that splices slots back between the lines;
`INSTANCE Attendance` with what the *text* says is its refinement, checked as
`KeepsAttendance`. A line is a date, a player with a slot, or anything else.

### QrScanner

The calls of `start()` that run are counted by await (`asking`, `playing`,
`listing`): they have no variables of their own. `live` is the set of streams whose
camera is on, `loops` the chains of animation frames, against `stream` and `rafId`,
which the page can name. `content` is the text in the box, `code` that of the code
on screen, `noted` the text the buttons are about and `described` the one the line
under the box describes: four texts that the handlers update one by one. People
type any `Text`, the camera sees any `Code`. `overlapped` is history.

### MqttChat and Signing

Encryptions and imports under way are sets of what they will deliver; buttons are
variables, since the code updates them by hand. `running` in `Signing` holds the
steps between `runStep`'s await and its end; whether a step that started succeeds is
left open, so signing with a key of another hash may do either, as it depends on
the algorithm. `raced` is history, as is documented under "Known divergences".

### OsmDownload and OsmView

Coordinates are integers, half thousandths of a degree; the longitude goes as the
latitude does. `request` is the download with its box and its await, `panel` what
the page was last drawn with, `frames` the maps that wait for
`requestAnimationFrame`; our place on the map is left out. The text of a file may
fail to be read after the file was saved (`BlobLost`), which `unread` remembers. In
`OsmView` the buttons work before a map is drawn, the wheel and the fingers do not;
one dimension stands for two, the scale is a power of two, and `Offset` adds the
padding that centres a small map.

### ShellCache

One worker of one prototype, its caches by generation of `CACHE`, the page that
loads an index and a script, and cache writes that end later. `Workers` lists what
the nine `sw.js` differ in: network or cache first, `addAll` or file by file,
whether the sweep runs, whether every path ends in a real answer. The others of
the origin are there by the sweep of their activation. `http` is the browser's HTTP
cache: it may store any answer or none, and answer any later request of a file it
has, however old, unless the request says `cache: 'reload'`. A request and its
answer are one step, and an answer that is not stored drops what was there of the
file. `born` (the version that brought each name of the cache) and
`spoiled` (the names whose install missed a file) are history.

## 3. The runs

| Run | Instance | Checks | Shows |
|---|---|---|---|
| `connector_calls` | 3 nodes, 4 names, 1 server, 2 presses | TypeOK, NeverStuck, NothingLeftOver, SameCall | calls that cross, chains of calls and renames: a third node can call either of two that are busy |
| `connector_rotation` | 2 nodes, 2 servers, 2 STUN tries, 1 press | SameCall, NeverLocksOntoDiscarded, OnceAroundTheList, OneRealLink | late messages and callbacks of the first attempt meet the second |
| `connector_endings` | 2 nodes, 2 servers, 1 STUN try, 1 press, fair | CallsEnd, HalfOpenHeals | every call ends; a half-open connection is noticed |
| `connector_newest` | 2 nodes, 2 servers, 1 press | NewestWins, violated | finding 1 |
| `peerlink` | queue of 4, fair | HonestAddress, KeepsContract, GatheringEnds, ChannelNoticed | every order of callbacks and timers, with descriptions that carry candidates or none |
| `session_peers` | 2 Peer objects, browser, 2 segments, 1 buffered message, fair | OnePeerOnTheWay, Alternates, NatHonest, NoPeerAfterClose, AliveIsProved, KeepsLooking | a stream over peers that fail, break, fall silent and are replaced at any moment |
| `session_probe` | the same, desktop | OnlyProbedDropped, violated | finding 3 |
| `vault` | 2 tabs, 2 attempts, 7 presses, 2 people, both builds | SessionHasOwner, LockedMeansRunning, NothingLost | attempts, sign-outs, deletions, pastes and reloads in every order |
| `pages` | one page at a time, see below | TextSaysWhatCardsSay, KeepsAttendance, OneStartOneCamera, BusyMeansDetecting, CodeShowsContent, SendButtonTells, NeverStuck, ButtonsTellState, AdvertisedIsRequested, DrawnIsSaved, PointStaysPut, NoPinchJump, NoStaleGeneration, LossNeedsActivation, WorkerRules | awaits, timers, events and users of the seven modules in every order |
| `qr_hidden` | 2 streams, 2 start() calls | HidingReleasesCamera, violated | finding 4 |
| `stunlist_lists` | lists of 4, with and without a repetition; first server unset, listed, unlisted | RunsDry, SkipsFailed | all sequences of picks and failures |
| `stunlist_repeated` | a list of 4 that names one host twice | AnotherChance, violated | finding 2 |

Bounds. A press of Connect or Generate is counted (`MaxPresses`), Disconnect is
not: two presses give both ends calling at once, a call into a call and a rename
during a call; with one press and two servers the whole retry of a call runs
against its own past. Two servers are the fewest for which an attempt has a
successor, and `OnceAroundTheList` wraps; two STUN tries are the fewest with a
link that is replaced. A queue of four holds the description, both kinds of
candidate and the end of gathering at once; no property depends on more (section
5 proves the safety part for any length). Two Peer objects are as
many as matter: the Session knows one, and one that was dropped may wait for its
deletion or its broker reply; a third would be a second dropped one. Two
segments are the SYN and a NOP that a probe sends, one buffered message is the
acknowledgement sent before it. Lists of four leave
room for failed and unfailed hosts beside a repeated one, and a fifth host is
there to be the unlisted first server.

`vault`: two tabs are the fewest that disturb each other, two attempts
(`MaxRunning`, with a `Slot` each) the fewest that overlap; seven presses
(`MaxPresses`) create a user, sign out, open the form again, start two attempts and
delete. One fresh id and two pasted lists (`Pasted`), one of which replaces the
other's blob, cover every branch of `mergeRecords`. `pages`: the page is chosen at
the start (`open`), and the others rest. The four texts (`Paper`) have blocks with
and without slots, gaps, a person named twice and a block another program wrote. The
scanner comes as two pages, `qr camera` where `start()` calls may overlap and nobody
types, and `qr text` where people type and they do not; its two texts tell the code
in view from the text in the box. Two streams, two loops, two `start()` calls
(`MaxCalls`) and two `detect()` calls (`MaxDetects`) are one more than a scanner
that works needs; a third adds no new order of two. Two awaits (`MaxAwaits`) in the
chat and three steps (`MaxSteps`) in the signing page let a late result meet a newer
one and a third party. Two maps in one frame (`MaxFrames`) need a download that was
repeated before the frame. Three fingers are one more than a pinch; `MaxPan` stops
the map from drifting off for ever; two places, one of them the pole, reach the
clamp. Two deployments (`MaxVersion`) with or without a new cache name and one write
under way (`MaxPuts`) give a late write of the old version after the new cache was
made, and an HTTP cache that holds the old version for either. Section 5 proves all
of these properties without the bounds.

`CHECK_DEADLOCK FALSE` is given where the system
may stop: when the presses are used up and every call or attempt is over, and
when a link has ended; and a program that has indexed an empty list of STUN
servers may stop. Session and the pages never do.

Each property has a mutant, a plausible bug in one definition (named in its comment
as `Mutant`), under which the run finds it violated. `AllCoherent` and `CallInv`,
the strengthenings used in the proofs about the Connector, were model-checked on the
same instances before they were proved.

## 4. Fairness

* Timers fire: `AnswerTimeout`, `OpenTimeout`, `GatherTimeout` are weakly fair.
  Each is a Qt single-shot timer that is enabled while armed.
* Gathering ends: `OnLocalReady` is weakly fair in `Connector`. That is
  `GatheringEnds` of `PeerLink`, which in turn needs the Qt event loop
  (`HandleNext`), the gather timer, and that libdatachannel calls back with a
  local description (`Describe`). Without the last the code does wait for ever:
  the gather timer then only sets `m_wantFinish`. `Describe` is strongly fair
  because the bound on the queue can disable it.
* Queued signals arrive: `LinkOpened`.
* A link whose other end has gone fails (ICE consent): `RemoteGone`.
* In `Session`, the timers fire (`Start`, `RetryTimeout`, `PendingTimeout`), the
  queued signals of a peer arrive (`Opened`, `Closed`) and deleted objects go
  (`Delete`): all by the Qt event loop. The pending timeout is what ends an
  attempt at a broker or proxy that stays mute. Nothing is assumed of proxies,
  the broker, the bridge, tor, the probe timer or the silence timeout.
* Nothing is assumed of users, messages and POST requests.
* The web pages are checked for safety only, without fairness.

## 5. The proofs

Every safety invariant and every safety action property that a passing run checks
is proved, and so are the types of every component. The theorems
hold for every number of nodes, names, servers, tries and presses, every length of
the callback queue and every list of hosts, and for every number of tabs, attempts,
calls, texts, blocks, places, maps and deployments. They assume what each module's
named ASSUME says of its constants and no more: non-empty lists, different initial
names, values that stand for "nothing" outside the sets they complement, texts and
pasted lists that are sequences (`PaperAssumption`, `PastedAssumption`), builds
that are among the two (`BuildAssumption`), at least one version
(`VersionAssumption`). TLC evaluates every one of them. The bounds in the guards
(`MaxAwaits` and the like) may have any value. No theorem has a hypothesis of its own.

`ConnectorProofs` proves `TypeOK`, `NeverStuck`, `NothingLeftOver`,
`OnceAroundTheList` and `OneRealLink`. The inductive invariant of the first three is
`TypeOK /\ AllCoherent`. `NeverStuck` alone is not
inductive: that a timeout leads somewhere needs `attemptsLeft > 0`, that an
answer finds its timer needs `answerTimer <=> waiting`, and so on; `Coherent`
collects these facts about the members of one Connector. One lemma per method
shows that it maps coherent records to coherent records, one per action applies
them. The last two add `Placed`: where a Connector is in the list follows from the
server it started with and the attempts it has left (`Around`), and a probe never
sees an offer (`Probes`). Every method is one of a few turns (`Turns`: it goes on,
retries, takes an offer, ends, starts), and only the retry needs arithmetic, the
lemma `Rotation`: going round the list once comes back to its start.

`ConnectorCallProofs` proves `SameCall` and `NeverLocksOntoDiscarded`, which relate
two nodes. The invariant of the first adds `CallInv`: a sid is drawn by one caller
(`SidsDrawn`), nobody else has it while that caller gathers (`Unannounced`), it is
posted in at most one offer, which matches the caller's members (`Announced`), and
one node takes that offer (`Paired`). Every handler is first shown to be one of four
kinds of step (goes on with its call, stops, draws a fresh sid, or takes an offer),
and the argument is made once for each kind. `NamesDiffer` matters: two nodes with
one name would both take the offer. The second adds `ToldInv`: an offer under way
describes the link its caller still has, an answer that of its answerer, and no
answer is under way together with the offer it answers. That links are renewed only
before anything is posted is what it rests on.

`PeerLinkProofs` proves that `PeerLink` implements the safety part of
`LinkContract`, and `HonestAddress`: what is announced as public holds a public
candidate, and what is not holds one only if the description carried it ahead of its
callback. The invariant of the first says that what was heard of a link follows from
its flags, and that a channel is found open, or queued as such, only after the
description went out. Each method emits one signal of the contract or none.

`SessionProofs` proves `TypeOK` and `OnePeerOnTheWay`. The invariant adds what
holds before `Start`: no peer, no attempt and no retry timer. One lemma per method
takes good members to good members, and the methods compose as the code composes
them; `DropPeerGood` is the heart, because `Send` may call it from everywhere.
On top of it `SInv` proves the action properties `NoPeerAfterClose`, `NatHonest`,
`Alternates` and `AliveIsProved`: the pending peer is a live object that has not
opened (`Objects`), `webRtcFailures` knows how the last attempts ended (`Counted`),
and no acknowledgement, received or under way, is ahead of the bridge (`Acked`).
The nested calls are composed through one relation, `Moves`, so that a handler that
loses a peer half way is one step of it.

`StunListProofs` speaks of every list, repeated hosts included, and of every first
server, listed or not. `RunsDryHolds` and `OnlyRepeatsRunDry` say that `pick` can
only run out of candidates if fewer hosts than lines are listed, `SkipsFailedHolds`
when it may hand out a failed server: after all of the list failed, or all but one
if an unlisted first server failed too. The invariant `OneUnlisted` says that at
most one host outside the list is ever in the failed set; the rest is a pigeonhole
argument.

`VaultProofs` proves the types, `SessionHasOwner`, `LockedMeansRunning` and
`NothingLost`. The first safety property needs nothing but that a hit makes tab and
session the same person in one step and that signing out takes the session along,
whoever's it is. The second is strengthened by the shape of the slots: one lemma
says what a change of one slot may do, and each way out of an attempt is one such
change. `NothingLost` excepts the one step that breaks it in the code, an attempt of
the WebAssembly build that another tab has `Overtaken`, and takes for granted that a
read and a write of localStorage in one handler, without a derivation in between,
are not interleaved with another tab's. It needs what `mergeRecords` returns for a
pasted list of any length. The function is recursive, and the induction theorems of
the library cannot be used for it; `CountingUp` derives what is needed from the
well-foundedness of the naturals: a set of numbers that contains 0 and with every
number the next one contains all.

`QrProofs` proves the types, `OneStartOneCamera`, `BusyMeansDetecting` and
`CodeShowsContent`. For the camera the invariant `OneCall` says what each await
leaves behind: while a `start()` asks for a camera none is on, and before its end
no loop runs; that is what makes the answer of `getUserMedia` the only stream.
`CodeShowsContent` holds of the code on screen and of the buttons; of the line under
the text it says that it is about the text or about the code scanned last.

`PageProofs` has one section per page, each with its type theorem.

* Roster: `TextSaysWhatCardsSay`, and that the page implements `Attendance`
  (`KeepsAttendance`: every step is a step of the abstract specification or a
  stutter). Both rest on what parsing, splicing and rendering do to a text of any
  length. The lines of a kind are numbered by the one rising list of their places
  (`InOrderIs`, `RisingIs`); a splice shifts the places behind it and keeps their
  order (`SpliceIs` to `SpliceOthers`); the blocks are rewritten from the back, so
  that each rewriting leaves the places of the blocks still to come alone, and an
  induction over their number gives `RenderSays`. The invariant `RosterInv` says that
  the cards keep the places in the text that they were read from (`Framed`).
* Chat: `NeverStuck` and `SendButtonTells`.
* Map: `AdvertisedIsRequested`, `DrawnIsSaved`, `NoPinchJump` and `PointStaysPut`.
  `DrawnIsSaved` is not inductive: maps that wait for their frame count, and while
  the saved file is read once more, or after that failed (`unread`), nothing can be
  said of the map that is drawn. A pinch that is measured has exactly two fingers
  down, which is what a third finger that goes up needs. `PointStaysPut` speaks of
  integers, where division could round: `ExactInv` says that the scale is a power of
  two that divides how far the map is moved.
* Signing: `ButtonsTellState` needs that a step that runs still has what it reads,
  and is proved once for any step that enables buttons (`EndTold`).
* Workers: `NoStaleGeneration`, `WorkerRules` and `LossNeedsActivation`. The invariant
  `ShellInv` says how far an install has come, that names and caches agree, and that a
  cache that is complete keeps its files; what an activation sweeps is the only loss.
  `ShellAge` says how old at most the files in a cache, in a write under way and, once
  a worker has installed, in the HTTP cache are.

Model-checked only: `CallsEnd`, `HalfOpenHeals`, `GatheringEnds`, `ChannelNoticed` and
`KeepsLooking`, which are liveness under fairness and out of the prover's reach, and
the four properties that are violated (section 6).

## 6. Findings

1. `connector_newest`: `connector.h:18` says that every offer is accepted and the
   newest wins. `Connector::onOffer` takes the one that arrives last. An offer of
   attempt 1 that its server delivers late replaces the connection that attempt 2
   made: the callee drops its open link, and the caller loses the call when the
   link fails, for an attempt it gave up long before. An order on attempts in the
   envelope would settle it.
2. `stunlist_repeated`: `stunlist.cpp:26` means to give every server another
   chance once all have failed, and compares the size of a set (`m_failed`) with
   that of a list (`m_servers`). `resources/stun-servers.txt` lists three hosts
   twice, so the sizes never meet; with every host failed, `pick` asks for a
   random element of an empty list.

3. `session_probe`: `checkPeer` sends a NOP, flushes, and starts the probe timer,
   so that a proxy that does not answer "well within" five seconds
   (`session.cpp:30`) is dropped. When the channel is found broken by that very
   flush, the peer is dropped inside the call, which stops a probe timer that is
   not running yet; `checkPeer` then starts it. Whatever peer is current five
   seconds later is dropped for a probe it never got, unless an acknowledgement
   came through it in the meantime. Starting the timer only if `m_current` is
   still there would settle it.

4. `qr_hidden`: `prototype-qr-scanner/app.js:416` says that releasing the camera
   when the page is hidden keeps the indicator of the system honest. Switch, the
   camera list and Start after a Stop call `start()` while an earlier call still
   awaits `getUserMedia`; the answers overwrite `stream` one after the other, and
   the camera of the first stays on when the page is hidden or stopped. A number
   drawn by every call and compared after each await would settle it.

### Known divergences

Seen while modelling, in the models as the code has them, and excluded from the
properties where these say so:

* STUN: a first server that is not of the list (`WEBRTC_STUN_FIRST`, for example "a
  dead one, to test the retry") counts in the failed set like one of the list, so
  that the others get their second chance when one of them has not failed yet.
  The README of the prototype (63) skips failed servers "for the rest of the
  session", which `stunlist.cpp:25` does not do in any case.
* Links: a description may carry a public candidate whose callback is still queued
  when gathering ends. `FinishGathering` goes by the callbacks (`peerlink.cpp` 237,
  258-259): the description goes out announced as "lan" with the public candidate in
  it, and the Connector marks a STUN server failed that works.
* Accounts: the WebAssembly build reads the vault, asks and derives keys for half a
  second, and writes what it read with the new user added
  (`prototype-webassembly/app.js` 283-290). What another tab wrote meanwhile is
  lost, and what it deleted comes back (`Overtaken`). The first of two overlapping
  attempts to end unlocks the form of both (`prototype-minimal/app.js` 386-393). The
  silent attempt may end after a sign-out and sign in again, or replace another user
  who signed in meanwhile (544-563); an attempt that unlocked a blob which was
  deleted during its await signs in all the same.
* Roster: lines between the players of one block are dropped when it is rewritten
  (614-627), and a block without slots shows "Going" for a user who is not
  written down.
* Chat: clearing the key box does not stop an import that runs, whose key is then
  used; a late preview fills the box that was cleared; `reconnectPeriod` stays
  long after a recovery (`prototype-mqtt/app.js` 226-253).
* Signing: Reset and a change of the algorithm do not stop the steps that run;
  their results come back afterwards (`prototype-certificate/app.js` 259-302).
* Scanner: the README of the prototype (274-276) says that a code that is seen again
  refreshes the timestamp and nothing else. `prototype-qr-scanner/app.js` 228 writes
  the whole line anew, about the code: after an edit the line describes a text that
  is not in the box (`SeenAgain`). `getUserMedia` may answer after the page was
  hidden, and the camera then runs in the background; a decode of the old run
  overlaps the new one after a quick stop and start (the comment at
  `prototype-qr-scanner/app.js` 42).
* Map: when the text of a file cannot be read after the file was saved
  (`prototype-OSM/app.js` 360), the note says that the API could not be reached, and
  the old map stays beside the new file (`BlobLost`).
* Workers: the network-first ones ask with the default cache mode
  (`prototype-minimal/sw.js` 53), so the browser's HTTP cache may answer while
  online and a page may mix two versions. The comment (6-9) and the README (308-310)
  say that the network wins whenever it answers and a reload runs the current code.
  What `cache: 'reload'` is there for, a fresh cache without stale files, holds
  (`NoStaleGeneration`). A worker whose install failed activates, and its sweep
  removes the complete cache of its predecessor; the sweep also removes the caches
  of the other prototypes of the same origin (`prototype-OSM/sw.js` 27-33).
  `LossNeedsActivation` says that this is the only way to lose the offline copy.

## 7. What is not modelled

Wording, logging and layout everywhere. In `prototype-webrtc-stun`: chat
messages over an open channel, the text of descriptions, wall-clock times (a
timer may fire at any moment while it is armed), and the reconnecting
`Subscription` (its effect, lost and late messages, is in `Connector`; the races
between its error, its end and its stall timer are not). Two questions about calls
stay open: that one of two calls that cross survives, which lost messages may
prevent, and that an attempt is not given up for a failed POST although its offer
arrived, which the code does not try. An empty
STUN or ntfy list, which the resource files exclude. `kcp` is third-party code.

Of `prototype-tor-qt`: the receive windows of smux (32-bit counters, `session.cpp`
302-423), the SOCKS client, `torcontroller`, `chatlink`, `netshim` and
`shimsocket`. They are components of their own, with the hazards `PROJECT.json`
lists and no property: the project keeps to the Session, on which the others
depend.

Of the map view, `PointStaysPut` says that some point that a zoom may be about stays
where it is, not that it is the one under the cursor.

The C implementations of SHA-256, AES-GCM, P-256, base64 and JSON are bit-level
functions that the repository tests against vectors. The roster and the vault in
`prototype-webassembly/src`, `prototype-minimal-qt` and `prototype-minimal-apk` port
`prototype-minimal`; they are not modelled a second time, and the asynchronous key
store of the Qt port not at all. `prototype-ipfs-indexeddb` awaits one library
call per button and prints what it returns; `prototype-password` and
`prototype-encrypted-userdata` compute from the fields on screen;
`coi-serviceworker.js` caches nothing; the Qt counter, the group administration and
the mock-ups have no state worth a model. The arti prototypes wrap a library.

## 8. The plan

Done: `Connector`, `PeerLink` with `LinkContract`, `StunList`, `Session`; `Vault`,
`Roster` with `Attendance`, `QrScanner`, `MqttChat`, `Signing`, `OsmDownload`,
`OsmView`, `ShellCache`. What could follow, in order of importance:

1. Proofs: that the ids of the vault stay unique when a list is pasted, and that a
   `PeerLink` put in the place of the contract leaves the invariants of `Connector`
   true; all that the runs check for safety is proved (section 5).
2. `SmuxFlow`: the window arithmetic with 32-bit wrap against unbounded counters.
3. `TorController`: reply queue in command order, one hidden service at a time.
4. `ChatLink`: texts reach the peer they were queued for.
5. `Netshim` and `ShimHub`: blocking calls, poll and close under one mutex.
6. `Subscription`: stall, error and reconnect of one stream.

Runs stay within a few minutes each, and at about twelve.
