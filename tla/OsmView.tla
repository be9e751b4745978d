------------------------------- MODULE OsmView -------------------------------
(***************************************************************************)
(* prototype-OSM (app.js), second half: panning and zooming the map with   *)
(* one pointer, two pointers, the wheel and the buttons.  The horizontal   *)
(* coordinate stands for both.  Zoom factors are powers of two, so that    *)
(* everything stays an integer when lengths are 64ths of a pixel: a scale  *)
(* is at most MaxScale = 64.  Drawing reads the state and changes none.  A *)
(* Mutant is a plausible bug in the definition after it; no action uses    *)
(* one.                                                                    *)
(***************************************************************************)
EXTENDS Integers, FiniteSets

CONSTANTS
    Finger,     \* the pointers there are
    Anchor,     \* where people zoom, in pixels
    Step,       \* how far one move pans, in pixels
    MaxPan,     \* bound: how far the map is moved, in pixels
    NoPinch

MaxScale == 64
Unit == 64
PadX == 3       \* the centring of the frame in the canvas, in pixels
Factors == {[num |-> 2, den |-> 1], [num |-> 4, den |-> 1], [num |-> 1, den |-> 2]}

ASSUME AnchorAssumption == Anchor \subseteq Int /\ Step \subseteq Int

VARIABLES
    drawn,      \* is there a scene?
    scale, tx,  \* view
    pointers,   \* the pointers that are down
    pinch       \* pinchStart: whose distance it is

viewVars == <<drawn, scale, tx, pointers, pinch>>

NewView(s, t) ==
    /\ scale' = s /\ tx' = t
    /\ t \in -(Unit * MaxPan) .. Unit * MaxPan

\* The clamp of zoomBy.
Next2(f) ==
    IF scale * f.num <= f.den THEN 1
    ELSE IF scale * f.num >= MaxScale * f.den THEN MaxScale
    ELSE (scale * f.num) \div f.den

\* Mutant: the map moves by the factor asked for, not by the one applied.
ZoomByFactor(f, x) ==
    NewView(Next2(f), Unit * x - ((Unit * x - tx) * f.num) \div f.den)

ZoomBy(f, x) ==
    NewView(Next2(f), Unit * x - ((Unit * x - tx) * Next2(f)) \div scale)

ZoomAnywhere ==
    /\ \E f \in Factors, x \in Anchor : ZoomBy(f, x)
    /\ UNCHANGED <<drawn, pointers, pinch>>

Wheel == drawn /\ ZoomAnywhere

\* The two buttons are there before the map is drawn, and when it cannot be
\* read.  The middle of the canvas is one of the anchors.
ZoomButton == ZoomAnywhere

FitView == NewView(1, 0)
Fit == FitView /\ UNCHANGED <<drawn, pointers, pinch>>

\* showMap() draws what was downloaded.
NewMap == drawn' = TRUE /\ FitView /\ UNCHANGED <<pointers, pinch>>

\* Mutant: a third finger leaves the distance of the first two behind.
PointerDownKeepsPinch(f) ==
    /\ drawn /\ f \notin pointers
    /\ pointers' = pointers \cup {f}
    /\ UNCHANGED <<drawn, scale, tx, pinch>>

PointerDown(f) ==
    /\ drawn /\ f \notin pointers
    /\ pointers' = pointers \cup {f} /\ pinch' = NoPinch
    /\ UNCHANGED <<drawn, scale, tx>>

Pan ==
    /\ Cardinality(pointers) = 1
    /\ \E d \in Step : NewView(scale, tx + Unit * d)
    /\ UNCHANGED <<drawn, pointers, pinch>>

Pinch ==
    /\ Cardinality(pointers) = 2
    /\ IF pinch = NoPinch THEN UNCHANGED <<scale, tx>>
       ELSE \E f \in Factors, x \in Anchor : ZoomBy(f, x)
    /\ pinch' = pointers
    /\ UNCHANGED <<drawn, pointers>>

PointerUp(f) ==
    /\ f \in pointers
    /\ pointers' = pointers \ {f}
    /\ pinch' = IF Cardinality(pointers') < 2 THEN NoPinch ELSE pinch
    /\ UNCHANGED <<drawn, scale, tx>>

ViewInit == drawn = FALSE /\ scale = 1 /\ tx = 0 /\ pointers = {} /\ pinch = NoPinch

ViewNext ==
    \/ Wheel \/ ZoomButton \/ Fit \/ NewMap \/ Pan \/ Pinch
    \/ \E f \in Finger : PointerDown(f) \/ PointerUp(f)

ViewSpec == ViewInit /\ [][ViewNext]_viewVars

(***************************************************************************)
(* Properties.                                                             *)
(***************************************************************************)
ViewTypeOK ==
    /\ drawn \in BOOLEAN /\ scale \in 1 .. MaxScale /\ tx \in Int
    /\ pointers \subseteq Finger /\ pinch \in (SUBSET Finger) \cup {NoPinch}

\* Mutant: the frame is centred again at the zoomed scale.
OffsetRecentred(s, t) == Unit * PadX + t

\* transformFor: where the left edge of the frame is drawn.
Offset(s, t) == Unit * PadX * s + t

\* Zooming holds the point under the cursor, the fingers or the middle of the
\* canvas still, also when the clamp at 1 or at 64 cuts the step short, and
\* with the centring that the drawing adds (the comments of app.js 524-531 and
\* 729).
PointStaysPut ==
    [][scale' # scale => \/ scale' = 1 /\ tx' = 0
                         \/ \E x \in Anchor :
                                (Unit * x - Offset(scale, tx)) * scale' =
                                (Unit * x - Offset(scale', tx')) * scale]_viewVars

\* A pinch is measured from the two fingers that are down: a third one, or
\* one finger that replaces another, makes no map jump (app.js 749-788).
NoPinchJump == pinch # NoPinch => pinch = pointers

=============================================================================
