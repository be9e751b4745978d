------------------------------ MODULE QrScanner ------------------------------
(***************************************************************************)
(* prototype-qr-scanner (app.js): a camera, a loop over its frames, and a  *)
(* text box with the QR code of what stands in it.                         *)
(*                                                                         *)
(* start() awaits three times (the permission, video.play(), the list of   *)
(* cameras) and nothing keeps a second call from running meanwhile: Stop,  *)
(* hiding the page, Switch and the camera list all enable or make one.     *)
(* The calls have no state of their own, they share the variables of the   *)
(* page, so a number of calls at each await is all there is to know.       *)
(* The page is served over https and the browser has a camera API, so the  *)
(* two early returns of start() are left out.  A Mutant is a plausible bug *)
(* in the definition after it; no action uses one.                         *)
(***************************************************************************)
EXTENDS Naturals

CONSTANTS
    Stream,     \* bound: the streams the browser may have open at one time
    Loop,       \* bound: the requestAnimationFrame chains at one time
    Text,       \* what people type and cameras read
    Code,       \* bound: the texts of the codes in view
    Empty,      \* the empty text
    TooLong,    \* texts that do not fit a QR code
    MaxCalls,   \* bound: start() calls at the same time
    MaxDetects, \* bound: detect() calls at the same time
    Off

ASSUME StreamAssumption == Off \notin Stream \cup Loop \cup Text
ASSUME TextAssumption ==
    /\ Empty \in Text /\ TooLong \subseteq Text \ {Empty}
    /\ Code \subseteq Text \ {Empty}

VARIABLES
    stream,     \* the stream the page knows of
    live,       \* the streams whose camera is on
    raf,        \* rafId: the chain that cancelAnimationFrame would end
    loops,      \* the chains that run
    asking,     \* start() calls that await getUserMedia,
    playing,    \*   video.play(),
    listing,    \*   and enumerateDevices
    cameras,    \* how many cameras the page knows of
    buttons,    \* which of "start" and "stop" are enabled
    native,     \* detector: decode with BarcodeDetector?
    picked,     \* has pickEngine() ended?
    decoding,   \* decodeBusy
    detects,    \* detect() calls that run
    content,    \* the text in the box
    code,       \* the text of the QR code shown
    noted,      \* the text the buttons under the box are about
    described,  \* the text the line under the box describes
    scanned,    \* lastText
    typing,     \* does typingTimer run?
    hidden,     \* is the page in the background?
    overlapped  \* history: did a start() ever begin while another one ran?

camera == <<stream, live, raf, loops, asking, playing, listing, cameras, buttons, overlapped>>
engine == <<native, picked>>
result == <<content, code, noted, described, scanned>>
qrVars == <<camera, engine, decoding, detects, result, typing, hidden>>

Calls == asking + playing + listing

\* Mutant: the loop is left running.
StopKeepsLoop ==
    /\ live' = live \ {stream} /\ stream' = Off
    /\ UNCHANGED loops /\ raf' = Off
    /\ decoding' = FALSE

\* stopStream(), but for its buttons.
StopStream ==
    /\ live' = live \ {stream} /\ stream' = Off
    /\ loops' = loops \ {raf} /\ raf' = Off
    /\ decoding' = FALSE

Stopped ==
    /\ StopStream
    /\ buttons' = {"start"}
    /\ UNCHANGED <<asking, playing, listing, cameras, overlapped>>

(***************************************************************************)
(* start(), await by await.                                                *)
(***************************************************************************)
Start ==
    /\ Calls < MaxCalls
    /\ StopStream
    /\ buttons' = {}
    /\ asking' = asking + 1
    /\ overlapped' = (overlapped \/ Calls > 0)
    /\ UNCHANGED <<playing, listing, cameras>>

Denied ==
    /\ asking > 0 /\ asking' = asking - 1
    /\ buttons' = buttons \cup {"start"}
    /\ UNCHANGED <<stream, live, raf, loops, playing, listing, cameras, overlapped, decoding>>

Granted ==
    /\ asking > 0 /\ asking' = asking - 1 /\ playing' = playing + 1
    /\ \E s \in Stream \ live : stream' = s /\ live' = live \cup {s}
    /\ UNCHANGED <<raf, loops, listing, cameras, buttons, overlapped, decoding>>

Played ==
    /\ playing > 0 /\ playing' = playing - 1 /\ listing' = listing + 1
    /\ buttons' = buttons \cup {"stop"}
    /\ UNCHANGED <<stream, live, raf, loops, asking, cameras, overlapped, decoding>>

\* refreshCameraList ends.  When the stream is gone by then, the call throws
\* before it starts its loop.
Listed ==
    /\ listing > 0 /\ listing' = listing - 1
    /\ cameras' \in 0 .. 2
    /\ IF stream = Off
       THEN UNCHANGED <<raf, loops>>
       ELSE \E c \in Loop \ loops : raf' = c /\ loops' = loops \cup {c}
    /\ UNCHANGED <<stream, live, asking, playing, buttons, overlapped, decoding>>

StartEnds == Denied \/ Granted \/ Played \/ Listed

(***************************************************************************)
(* The content and its code.                                               *)
(***************************************************************************)
Encode(t) == IF t = Empty \/ t \in TooLong THEN Off ELSE t

\* updateContentMeta.
Note(t) == noted' = t /\ described' = t

\* Mutant: the text is shown and its code is not.
SetContentOnly(t) == content' = t /\ Note(t) /\ UNCHANGED code

SetContent(t) == content' = t /\ Note(t) /\ code' = Encode(t)

\* A code that is still in view does not overwrite what was typed since, but it
\* is what the line under the box then describes.
SeenAgain == described' = scanned /\ UNCHANGED <<content, code, noted, scanned>>

OnDecoded(t) ==
    IF t = scanned THEN SeenAgain ELSE scanned' = t /\ SetContent(t)

Decoded == UNCHANGED result \/ \E t \in Code : OnDecoded(t)

(***************************************************************************)
(* The loop.  jsQR decodes within the frame, BarcodeDetector later.        *)
(***************************************************************************)
Tick(c) ==
    /\ c \in loops /\ ~hidden
    /\ raf' = c
    /\ \/ UNCHANGED <<decoding, detects, result>>
       \/ /\ stream # Off /\ ~decoding /\ native /\ detects < MaxDetects
          /\ decoding' = TRUE /\ detects' = detects + 1
          /\ UNCHANGED result
       \/ /\ stream # Off /\ ~decoding /\ ~native
          /\ Decoded /\ UNCHANGED <<decoding, detects>>
    /\ UNCHANGED <<stream, live, loops, asking, playing, listing, cameras, buttons,
                   overlapped, engine, typing, hidden>>

\* Mutant: a detect() that is rejected leaves the flag set.
DetectEndsThenOnly ==
    /\ detects > 0 /\ detects' = detects - 1
    /\ \/ Decoded /\ decoding' = FALSE
       \/ UNCHANGED <<decoding, result>>
    /\ UNCHANGED <<camera, engine, typing, hidden>>

DetectEnds ==
    /\ detects > 0 /\ detects' = detects - 1
    /\ Decoded
    /\ decoding' = FALSE
    /\ UNCHANGED <<camera, engine, typing, hidden>>

(***************************************************************************)
(* What the user does.                                                     *)
(***************************************************************************)
PressStart == "start" \in buttons /\ Start
PressSwitch == cameras = 2 /\ Start
SelectCamera == cameras > 0 /\ stream # Off /\ Start
PressStop == "stop" \in buttons /\ Stopped

\* lastText is forgotten, so that a code in view can be picked up again.
Clear ==
    /\ noted # Empty
    /\ scanned' = Off /\ SetContent(Empty)
    /\ UNCHANGED <<camera, engine, decoding, detects, typing, hidden>>

Type(t) ==
    /\ content' = t /\ t # content /\ typing' = TRUE
    /\ UNCHANGED <<camera, engine, decoding, detects, code, noted, described, scanned,
                   hidden>>

TypingTimer ==
    /\ typing /\ typing' = FALSE /\ SetContent(content)
    /\ UNCHANGED <<camera, engine, decoding, detects, scanned, hidden>>

ResizeTimer ==
    /\ code' = Encode(content)
    /\ UNCHANGED <<camera, engine, decoding, detects, content, noted, described, scanned,
                   typing, hidden>>

Hide ==
    /\ ~hidden /\ hidden' = TRUE
    /\ IF stream # Off THEN Stopped ELSE UNCHANGED <<camera, decoding>>

Show == hidden /\ hidden' = FALSE /\ UNCHANGED <<camera, decoding>>

\* The page is left.  The browser may keep it and come back to it, when none
\* of its start() calls is waiting.
PageHide == Calls = 0 /\ Stopped /\ hidden' = TRUE

PickEngine ==
    /\ ~picked /\ picked' = TRUE
    /\ \/ native' = TRUE /\ UNCHANGED buttons
       \/ UNCHANGED <<native, buttons>>
       \/ buttons' = buttons \ {"start"} /\ UNCHANGED native
    /\ UNCHANGED <<stream, live, raf, loops, asking, playing, listing, cameras, overlapped,
                   decoding, detects, result, typing, hidden>>

\* Browsers restore the text box across a reload.
QrInit ==
    /\ stream = Off /\ live = {} /\ raf = Off /\ loops = {}
    /\ asking = 0 /\ playing = 0 /\ listing = 0 /\ cameras = 0
    /\ buttons = {"start"}
    /\ native = FALSE /\ picked = FALSE
    /\ decoding = FALSE /\ detects = 0
    /\ content \in Text /\ code = Encode(content) /\ scanned = Off
    /\ noted = content /\ described = content
    /\ typing = FALSE /\ hidden = FALSE /\ overlapped = FALSE

CameraStep ==
    /\ \/ ~hidden /\ (PressStart \/ PressSwitch \/ SelectCamera \/ PressStop)
       \/ StartEnds
    /\ UNCHANGED <<engine, detects, result, typing, hidden>>

PageStep == (Hide \/ Show \/ PageHide) /\ UNCHANGED <<engine, detects, result, typing>>

TextStep ==
    \/ ~hidden /\ (Clear \/ \E t \in Text : Type(t))
    \/ TypingTimer \/ ResizeTimer

QrNext ==
    \/ CameraStep \/ PageStep \/ TextStep \/ PickEngine
    \/ \E c \in Loop : Tick(c)
    \/ DetectEnds

QrSpec == QrInit /\ [][QrNext]_qrVars

(***************************************************************************)
(* Properties.                                                             *)
(***************************************************************************)
QrTypeOK ==
    /\ stream \in Stream \cup {Off} /\ live \subseteq Stream
    /\ raf \in Loop \cup {Off} /\ loops \subseteq Loop
    /\ asking \in Nat /\ playing \in Nat /\ listing \in Nat
    /\ cameras \in 0 .. 2 /\ buttons \subseteq {"start", "stop"}
    /\ native \in BOOLEAN /\ picked \in BOOLEAN
    /\ decoding \in BOOLEAN /\ detects \in Nat
    /\ content \in Text /\ noted \in Text /\ described \in Text
    /\ code \in Text \cup {Off} /\ scanned \in Text \cup {Off}
    /\ typing \in BOOLEAN /\ hidden \in BOOLEAN /\ overlapped \in BOOLEAN

\* As long as no start() begins while another one runs, the camera that is on
\* is the one the page knows of, so that Stop turns it off, and one loop runs,
\* the one rafId names: whatever of Stop, hiding, denials and late answers
\* comes between the awaits (app.js 111-181, 186-188, 416-424).
OneStartOneCamera == ~overlapped => live \subseteq {stream} /\ loops \subseteq {raf}

\* The busy flag is set only while a detect() runs that will clear it: no
\* order of stops, restarts and late results leaves a scanner that runs and
\* never decodes again (app.js 42, 168-176, 186-200).
BusyMeansDetecting == decoding => detects > 0

\* The code on screen, the buttons under the text and the text agree, unless
\* the 120 ms after a keystroke still run, and the line under the text is about
\* the text too, or about the code that was scanned last: whatever of scans,
\* repeated scans, edits, clears and resizes comes in between (app.js 223-235,
\* 261-344, 383-407).
CodeShowsContent ==
    ~typing => /\ code = Encode(content) /\ noted = content
               /\ described \in {content, scanned}

\* "Releasing the camera when the page is hidden keeps the OS indicator
\* honest" (app.js 416-417): once the page has been hidden no camera is on.
HidingReleasesCamera == [][hidden' /\ ~hidden => live' = {}]_qrVars

=============================================================================
