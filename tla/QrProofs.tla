------------------------------- MODULE QrProofs -------------------------------
(***************************************************************************)
(* Proofs about QrScanner.tla, for any number of streams, loops, texts and *)
(* calls at the same time.                                                 *)
(***************************************************************************)
EXTENDS QrScanner, TLAPS

\* What the three awaits of start() leave behind when starts do not overlap:
\* at most one call runs, no camera is on while it asks for one, and no loop
\* runs before its end.
OneCall ==
    ~overlapped =>
        /\ Calls <= 1
        /\ live \subseteq {stream} /\ loops \subseteq {raf}
        /\ asking > 0 => live = {}
        /\ Calls > 0 => loops = {}

CameraInv == QrTypeOK /\ OneCall

----------------------------------------------------------------------------
\* Types.

LEMMA EncodeType == ASSUME NEW t \in Text PROVE Encode(t) \in Text \cup {Off}
BY DEF Encode

LEMMA QrTypeInit == QrInit => QrTypeOK
<1> SUFFICES ASSUME QrInit PROVE QrTypeOK
  OBVIOUS
<1>1. content \in Text /\ code \in Text \cup {Off}
  BY EncodeType DEF QrInit
<1>2. /\ stream \in Stream \cup {Off} /\ live \subseteq Stream
      /\ raf \in Loop \cup {Off} /\ loops \subseteq Loop
      /\ buttons \subseteq {"start", "stop"} /\ scanned \in Text \cup {Off}
      /\ noted = content /\ described = content
  BY DEF QrInit
<1>3. /\ asking \in Nat /\ playing \in Nat /\ listing \in Nat
      /\ cameras \in 0 .. 2 /\ detects \in Nat
  BY DEF QrInit
<1>4. /\ native \in BOOLEAN /\ picked \in BOOLEAN /\ decoding \in BOOLEAN
      /\ typing \in BOOLEAN /\ hidden \in BOOLEAN /\ overlapped \in BOOLEAN
  BY DEF QrInit
<1> QED
  BY <1>1, <1>2, <1>3, <1>4 DEF QrTypeOK

\* stopStream() keeps the variables of the camera well typed.
LEMMA StopTypes ==
    ASSUME QrTypeOK, StopStream
    PROVE  /\ stream' \in Stream \cup {Off} /\ live' \subseteq Stream
           /\ raf' \in Loop \cup {Off} /\ loops' \subseteq Loop
           /\ decoding' \in BOOLEAN
BY DEF QrTypeOK, StopStream

\* The variables of the text keep their types.
TextTypes ==
    /\ content' \in Text /\ noted' \in Text /\ described' \in Text
    /\ code' \in Text \cup {Off} /\ scanned' \in Text \cup {Off}

\* A decoded text, whether it is new or not.
LEMMA DecodedTypes == ASSUME QrTypeOK, Decoded PROVE TextTypes
<1>1. CASE UNCHANGED result
  BY <1>1 DEF QrTypeOK, result, TextTypes
<1>2. ASSUME NEW t \in Code, OnDecoded(t) PROVE TextTypes
  <2>0. t \in Text
    BY TextAssumption
  <2>1. CASE t = scanned /\ SeenAgain
    BY <2>0, <2>1 DEF QrTypeOK, SeenAgain, TextTypes
  <2>2. CASE scanned' = t /\ SetContent(t)
    BY <2>0, <2>2, EncodeType DEF SetContent, Note, TextTypes
  <2> QED
    BY <1>2, <2>1, <2>2 DEF OnDecoded
<1> QED
  BY <1>1, <1>2 DEF Decoded

LEMMA CameraTypes == QrTypeOK /\ CameraStep => QrTypeOK'
<1> SUFFICES ASSUME QrTypeOK, CameraStep PROVE QrTypeOK'
  OBVIOUS
<1>0. /\ UNCHANGED <<native, picked, detects, content, code, noted, described, scanned,
                  typing, hidden>>
      /\ Start \/ Stopped \/ StartEnds
  BY DEF CameraStep, engine, result, PressStart, PressSwitch, SelectCamera, PressStop
<1>1. CASE Start
  BY <1>0, <1>1, StopTypes DEF QrTypeOK, Start, Calls
<1>2. CASE Stopped
  BY <1>0, <1>2, StopTypes DEF QrTypeOK, Stopped
<1>3. CASE Denied
  BY <1>0, <1>3 DEF QrTypeOK, Denied
<1>4. CASE Granted
  BY <1>0, <1>4 DEF QrTypeOK, Granted
<1>5. CASE Played
  BY <1>0, <1>5 DEF QrTypeOK, Played
<1>6. CASE Listed
  BY <1>0, <1>6 DEF QrTypeOK, Listed
<1> QED
  BY <1>0, <1>1, <1>2, <1>3, <1>4, <1>5, <1>6 DEF StartEnds

LEMMA OtherTypes == QrTypeOK /\ QrNext /\ ~CameraStep => QrTypeOK'
<1> SUFFICES ASSUME QrTypeOK, QrNext, ~CameraStep PROVE QrTypeOK'
  OBVIOUS
<1>1. CASE PageStep
  <2>1. CASE UNCHANGED <<camera, decoding>>
    BY <1>1, <2>1 DEF QrTypeOK, PageStep, Hide, Show, PageHide, camera, engine, result
  <2>2. CASE Stopped
    BY <1>1, <2>2, StopTypes DEF QrTypeOK, PageStep, Hide, Show, PageHide, Stopped, engine, result
  <2> QED
    BY <1>1, <2>1, <2>2 DEF PageStep, Hide, Show, PageHide
<1>2. CASE Clear
  BY <1>2, EncodeType, TextAssumption DEF QrTypeOK, Clear, SetContent, Note, camera, engine
<1>3. ASSUME NEW t \in Text, Type(t) PROVE QrTypeOK'
  BY <1>3 DEF QrTypeOK, Type, camera, engine
<1>4. CASE TypingTimer
  BY <1>4, EncodeType DEF QrTypeOK, TypingTimer, SetContent, Note, camera, engine
<1>5. CASE ResizeTimer
  BY <1>5, EncodeType DEF QrTypeOK, ResizeTimer, camera, engine
<1>6. CASE PickEngine
  BY <1>6 DEF QrTypeOK, PickEngine, result
<1>7. ASSUME NEW c \in Loop, Tick(c) PROVE QrTypeOK'
  <2>1. TextTypes
    BY <1>7, DecodedTypes DEF QrTypeOK, Tick, result, TextTypes
  <2>2. decoding' \in BOOLEAN
    BY <1>7 DEF QrTypeOK, Tick
  <2>3. detects' \in Nat
    BY <1>7 DEF QrTypeOK, Tick
  <2>4. /\ raf' = c
        /\ UNCHANGED <<stream, live, loops, asking, playing, listing, cameras, buttons,
                       overlapped, native, picked, typing, hidden>>
    BY <1>7 DEF Tick, engine
  <2> QED
    BY <2>1, <2>2, <2>3, <2>4 DEF QrTypeOK, TextTypes
<1>8. CASE DetectEnds
  <2>1. TextTypes
    BY <1>8, DecodedTypes DEF DetectEnds
  <2>2. decoding' \in BOOLEAN
    BY <1>8 DEF DetectEnds
  <2>3. detects' \in Nat
    BY <1>8 DEF QrTypeOK, DetectEnds
  <2>4. UNCHANGED <<stream, live, raf, loops, asking, playing, listing, cameras, buttons,
                    overlapped, native, picked, typing, hidden>>
    BY <1>8 DEF DetectEnds, camera, engine
  <2> QED
    BY <2>1, <2>2, <2>3, <2>4 DEF QrTypeOK, TextTypes
<1> QED
  BY <1>1, <1>2, <1>3, <1>4, <1>5, <1>6, <1>7, <1>8 DEF QrNext, TextStep

\* Every variable of the scanner keeps its type; the counts of calls never
\* fall below zero (app.js 20-43 and the handlers that write them).
THEOREM QrTypeCorrect == QrSpec => []QrTypeOK
<1>1. QrTypeOK /\ [QrNext]_qrVars => QrTypeOK'
  <2>1. QrTypeOK /\ UNCHANGED qrVars => QrTypeOK'
    BY DEF QrTypeOK, qrVars, camera, engine, result
  <2> QED
    BY <2>1, CameraTypes, OtherTypes
<1> QED
  BY QrTypeInit, <1>1, PTL DEF QrSpec

----------------------------------------------------------------------------
\* The camera and the loop.

\* stopStream() leaves no camera and no loop when starts did not overlap.
LEMMA StopEmpties ==
    ASSUME CameraInv, StopStream, ~overlapped
    PROVE  live' = {} /\ loops' = {}
BY DEF CameraInv, OneCall, StopStream

LEMMA StoppedOneCall ==
    ASSUME CameraInv, Stopped
    PROVE  OneCall'
BY StopEmpties DEF CameraInv, QrTypeOK, OneCall, Calls, Stopped

LEMMA CameraOneCall == CameraInv /\ CameraStep => OneCall'
<1> SUFFICES ASSUME CameraInv, CameraStep, ~overlapped' PROVE OneCall'
  BY DEF OneCall
<1>0. Start \/ Stopped \/ StartEnds
  BY DEF CameraStep, PressStart, PressSwitch, SelectCamera, PressStop
<1>t. /\ asking \in Nat /\ playing \in Nat /\ listing \in Nat
      /\ overlapped \in BOOLEAN /\ overlapped' \in BOOLEAN
  BY CameraTypes DEF CameraInv, QrTypeOK
<1>1. CASE Start
  <2>0. ~overlapped /\ ~(Calls > 0)
    BY <1>1, Zenon DEF Start
  <2>1. ~overlapped /\ Calls = 0
    BY <1>t, <2>0 DEF Calls
  <2>2. live' = {} /\ loops' = {}
    BY <1>1, <2>1, StopEmpties DEF Start
  <2> QED
    BY <1>1, <1>t, <2>1, <2>2 DEF OneCall, Calls, Start
<1>2. CASE Stopped
  BY <1>2, StoppedOneCall
<1>3. CASE Denied
  BY <1>3, <1>t DEF CameraInv, OneCall, Calls, Denied
<1>4. CASE Granted
  <2>1. ~overlapped /\ live = {} /\ loops = {} /\ Calls <= 1
    BY <1>4, <1>t DEF CameraInv, OneCall, Calls, Granted
  <2> QED
    BY <1>4, <1>t, <2>1 DEF OneCall, Calls, Granted
<1>5. CASE Played
  BY <1>5, <1>t DEF CameraInv, OneCall, Calls, Played
<1>6. CASE Listed
  <2>1. ~overlapped /\ loops = {} /\ asking = 0 /\ playing = 0 /\ listing = 1
    BY <1>6, <1>t DEF CameraInv, OneCall, Calls, Listed
  <2>2. live' \subseteq {stream'} /\ loops' \subseteq {raf'}
    BY <1>6, <1>t, <2>1 DEF CameraInv, OneCall, Listed
  <2> QED
    BY <1>6, <2>1, <2>2 DEF OneCall, Calls, Listed
<1> QED
  BY <1>0, <1>1, <1>2, <1>3, <1>4, <1>5, <1>6 DEF StartEnds

LEMMA OtherOneCall == CameraInv /\ QrNext /\ ~CameraStep => OneCall'
<1> SUFFICES ASSUME CameraInv, QrNext, ~CameraStep PROVE OneCall'
  OBVIOUS
<1>1. CASE UNCHANGED camera
  BY <1>1 DEF CameraInv, OneCall, Calls, camera
<1>2. CASE Stopped
  BY <1>2, StoppedOneCall
<1>3. CASE PickEngine
  BY <1>3 DEF CameraInv, OneCall, Calls, PickEngine
<1>4. ASSUME NEW c \in Loop, Tick(c) PROVE OneCall'
  BY <1>4 DEF CameraInv, OneCall, Calls, Tick
<1>5. PageStep => UNCHANGED camera \/ Stopped
  BY DEF PageStep, Hide, Show, PageHide
<1>6. TextStep \/ DetectEnds => UNCHANGED camera
  BY DEF TextStep, Clear, Type, TypingTimer, ResizeTimer, DetectEnds
<1> QED
  BY <1>1, <1>2, <1>3, <1>4, <1>5, <1>6 DEF QrNext

\* As long as start() calls do not overlap, the camera that is on and the loop
\* that runs are those the page can stop, whatever comes between its awaits
\* (app.js 111-181, 186-188, 416-424).
THEOREM OneStartOneCameraHolds == QrSpec => []OneStartOneCamera
<1>1. QrInit => CameraInv
  BY QrTypeInit DEF QrInit, CameraInv, OneCall, Calls
<1>2. CameraInv /\ [QrNext]_qrVars => CameraInv'
  <2>1. CameraInv /\ UNCHANGED qrVars => CameraInv'
    BY DEF CameraInv, QrTypeOK, OneCall, Calls, qrVars, camera, engine, result
  <2> QED
    BY <2>1, CameraTypes, OtherTypes, CameraOneCall, OtherOneCall DEF CameraInv
<1>3. CameraInv => OneStartOneCamera
  BY DEF CameraInv, OneCall, OneStartOneCamera
<1> QED
  BY <1>1, <1>2, <1>3, PTL DEF QrSpec

----------------------------------------------------------------------------
\* The busy flag and the code on screen.

\* A scanner that is busy has a detect() under way that will clear the flag,
\* over any number of stops, restarts and late results (app.js 168-200).
THEOREM BusyMeansDetectingHolds == QrSpec => []BusyMeansDetecting
<1>1. QrInit => BusyMeansDetecting
  BY DEF QrInit, BusyMeansDetecting
<1>2. ASSUME QrTypeOK, BusyMeansDetecting, [QrNext]_qrVars PROVE BusyMeansDetecting'
  <2>1. CASE UNCHANGED <<decoding, detects>>
    BY <1>2, <2>1 DEF BusyMeansDetecting
  <2>2. CASE decoding' = FALSE
    BY <2>2 DEF BusyMeansDetecting
  <2>3. CASE detects' = detects + 1
    BY <1>2, <2>3 DEF QrTypeOK, BusyMeansDetecting
  <2>4. CameraStep \/ PageStep => decoding' = FALSE \/ UNCHANGED <<decoding, detects>>
    BY DEF CameraStep, PageStep, PressStart, PressSwitch, SelectCamera, PressStop, Start,
           Stopped, StopStream, StartEnds, Denied, Granted, Played, Listed, Hide, Show, PageHide
  <2>5. TextStep \/ PickEngine => UNCHANGED <<decoding, detects>>
    BY DEF TextStep, Clear, Type, TypingTimer, ResizeTimer, PickEngine
  <2>6. ASSUME NEW c \in Loop, Tick(c)
        PROVE  detects' = detects + 1 \/ UNCHANGED <<decoding, detects>>
    BY <2>6 DEF Tick
  <2>7. DetectEnds => decoding' = FALSE
    BY DEF DetectEnds
  <2>8. UNCHANGED qrVars => UNCHANGED <<decoding, detects>>
    BY DEF qrVars
  <2> QED
    BY <1>2, <2>1, <2>2, <2>3, <2>4, <2>5, <2>6, <2>7, <2>8 DEF QrNext
<1> QED
  BY QrTypeCorrect, <1>1, <1>2, PTL DEF QrSpec

\* The code on screen and the buttons are about the text in the box, and the
\* line under it about that text or the code scanned last, but for the 120 ms
\* after a keystroke, whatever scans, clears and timers come between (app.js
\* 223-344, 383-407).
THEOREM CodeShowsContentHolds == QrSpec => []CodeShowsContent
<1>1. QrInit => CodeShowsContent
  BY DEF QrInit, CodeShowsContent
<1>2. ASSUME CodeShowsContent, [QrNext]_qrVars PROVE CodeShowsContent'
  <2>1. CASE UNCHANGED <<result, typing>>
    BY <1>2, <2>1 DEF CodeShowsContent, result
  <2>2. CASE \E t : SetContent(t)
    BY <2>2 DEF CodeShowsContent, SetContent, Note
  <2>3. CASE typing' = TRUE
    BY <2>3 DEF CodeShowsContent
  <2>4. CASE ResizeTimer
    BY <1>2, <2>4 DEF CodeShowsContent, ResizeTimer
  <2>10. CASE SeenAgain /\ typing' = typing
    BY <1>2, <2>10 DEF CodeShowsContent, SeenAgain
  <2>5. Decoded => UNCHANGED result \/ SeenAgain \/ \E t : SetContent(t)
    BY DEF Decoded, OnDecoded
  <2>6. CameraStep \/ PageStep \/ PickEngine \/ UNCHANGED qrVars => UNCHANGED <<result, typing>>
    BY DEF CameraStep, PageStep, PickEngine, qrVars
  <2>7. ASSUME NEW c \in Loop, Tick(c)
        PROVE  (typing' = typing /\ (UNCHANGED result \/ SeenAgain)) \/ \E t : SetContent(t)
    BY <2>5, <2>7 DEF Tick
  <2>8. DetectEnds =>
            (typing' = typing /\ (UNCHANGED result \/ SeenAgain)) \/ \E t : SetContent(t)
    BY <2>5 DEF DetectEnds
  <2>9. TextStep => typing' = TRUE \/ ResizeTimer \/ \E t : SetContent(t)
    BY DEF TextStep, Clear, Type, TypingTimer
  <2> QED
    BY <1>2, <2>1, <2>2, <2>3, <2>4, <2>6, <2>7, <2>8, <2>9, <2>10 DEF QrNext
<1> QED
  BY <1>1, <1>2, PTL DEF QrSpec

=============================================================================
