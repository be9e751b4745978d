----------------------------- MODULE OsmDownload -----------------------------
(***************************************************************************)
(* prototype-OSM (app.js), first half: ask where we are, show the box      *)
(* around that place, download it, draw it. A new fix may arrive at any    *)
(* time, a download takes four awaits, the user may cancel it, and the map *)
(* is drawn in a later frame; our place on it is left out. Latitude stands *)
(* for both coordinates; it is an integer in half thousandths of a degree, *)
(* so that half of the smallest box is one. The page is in a secure        *)
(* context and the browser has geolocation. A Mutant is a plausible bug in *)
(* the definition after it; no action uses one.                            *)
(***************************************************************************)
EXTENDS Integers, Sequences, SequencesExt

CONSTANTS
    Place,      \* where we may be
    NoPlace,    \* also "no box", "no map" and "no file"
    MaxFrames   \* bound: maps that wait for a frame

Limit == 180000         \* 90 degrees
Sizes == {10, 20}       \* the size picker
MaxSize == 20
Tenth == 200

ASSUME PlaceAssumption == Place \subseteq -Limit .. Limit /\ NoPlace \notin Place

VARIABLES
    fixes,     \* getCurrentPosition calls that run
    canLocate,  \* locateBtn is enabled
    booting,    \* autoLocate awaits the permission
    position, cell, size,
    busy,       \* a download is running
    panel,      \* what render() put on the page last: the box, and busy
    request,    \* the download: its box and its await
    saved,      \* the box of the file saved last
    unread,     \* history: could the text of that file not be read for the map?
    frames,     \* showMap calls that wait for their frame: their boxes
    scene,      \* the box of the map that is drawn
    mapPill

locating == <<fixes, canLocate, booting>>
drawing == <<frames, scene, mapPill>>
osmVars == <<locating, position, cell, size, busy, panel, request, saved, unread, drawing>>

Larger(a, b) == IF a > b THEN a ELSE b
Smaller(a, b) == IF a < b THEN a ELSE b

\* Half away from zero, in tenths of a degree.
RoundTenth(deg) ==
    LET t == ((IF deg < 0 THEN -deg ELSE deg) + Tenth \div 2) \div Tenth
    IN IF deg < 0 THEN -t ELSE t

BoxAround(lat, s) ==
    [min |-> Larger(-Limit, lat - s \div 2), max |-> Smaller(Limit, lat + s \div 2)]

CurrentSize == Smaller(size, MaxSize)

Box == IF position = NoPlace THEN NoPlace ELSE BoxAround(position, CurrentSize)

Redraw == panel' = [box |-> Box', busy |-> busy']

(***************************************************************************)
(* Where we are.                                                           *)
(***************************************************************************)
Locate ==
    /\ fixes' = fixes + 1 /\ canLocate' = FALSE
    /\ UNCHANGED <<position, cell, size, busy, panel, request, saved, unread, drawing>>

PressLocate == canLocate /\ fixes < 2 /\ Locate /\ UNCHANGED booting

\* Whether the button was pressed meanwhile is not asked.
AutoLocate ==
    /\ booting /\ booting' = FALSE
    /\ \/ fixes < 2 /\ Locate
       \/ UNCHANGED <<fixes, canLocate, position, cell, size, busy, panel, request, saved,
                      unread, drawing>>

Located(p) ==
    /\ fixes > 0 /\ fixes' = fixes - 1 /\ canLocate' = TRUE
    /\ position' = p /\ cell' = RoundTenth(p)
    /\ UNCHANGED <<booting, size, busy, request, saved, unread, drawing>>
    /\ Redraw

NotLocated ==
    /\ fixes > 0 /\ fixes' = fixes - 1 /\ canLocate' = TRUE
    /\ UNCHANGED <<booting, position, cell, size, busy, panel, request, saved, unread, drawing>>

\* Mutant: the size is clamped later, and the page is not drawn again.
SelectSizeQuietly(s) ==
    /\ ~panel.busy /\ size' = s
    /\ UNCHANGED <<locating, position, cell, busy, panel, request, saved, unread, drawing>>

SelectSize(s) ==
    /\ ~panel.busy /\ size' = s
    /\ UNCHANGED <<locating, position, cell, busy, request, saved, unread, drawing>>
    /\ Redraw

(***************************************************************************)
(* The download, await by await.                                           *)
(***************************************************************************)
Download ==
    /\ panel.box # NoPlace /\ ~panel.busy
    /\ position # NoPlace /\ ~busy
    /\ busy' = TRUE
    /\ request' = [box |-> Box, await |-> "fetch"]
    /\ UNCHANGED <<locating, position, cell, size, saved, unread, drawing>>
    /\ Redraw

Await(stage) == request # NoPlace /\ request.await = stage

\* The headers arrive; an error has a text to read.
Response ==
    /\ Await("fetch")
    /\ \E next \in {"body", "error text"} : request' = [request EXCEPT !.await = next]
    /\ UNCHANGED <<locating, position, cell, size, busy, panel, saved, unread, drawing>>

\* The file is saved; its text is read once more for the map.
BodyRead ==
    /\ Await("body")
    /\ saved' = request.box /\ unread' = FALSE
    /\ request' = [request EXCEPT !.await = "blob text"]
    /\ UNCHANGED <<locating, position, cell, size, busy, panel, drawing>>

\* The finally block.
Finally ==
    /\ busy' = FALSE /\ request' = NoPlace
    /\ UNCHANGED <<locating, position, cell, size, saved>>
    /\ Redraw

\* showMap() of the box that was requested.
BlobRead ==
    /\ Await("blob text") /\ Len(frames) < MaxFrames
    /\ frames' = Append(frames, request.box)
    /\ mapPill' = "rendering"
    /\ UNCHANGED <<scene, unread>>
    /\ Finally

\* The file is saved and its text cannot be read: the map stays as it is.
BlobLost ==
    /\ Await("blob text")
    /\ unread' = TRUE
    /\ UNCHANGED drawing
    /\ Finally

\* An abort, a lost connection, or the text of an error: nothing is saved.
DownloadFails ==
    /\ Await("fetch") \/ Await("body") \/ Await("error text")
    /\ UNCHANGED <<unread, drawing>>
    /\ Finally

\* Mutant: cancelling frees the page at once, and the download goes on.
CancelAtOnce ==
    /\ panel.busy /\ request # NoPlace
    /\ busy' = FALSE
    /\ UNCHANGED <<locating, position, cell, size, request, saved, unread, drawing>>
    /\ Redraw

\* The abort is noticed by the await that runs, or too late.
Cancel == panel.busy /\ request # NoPlace /\ UNCHANGED osmVars

\* One frame runs all the callbacks that wait for it.  A text that cannot be
\* parsed leaves the map as it was.
Frame ==
    /\ frames # <<>> /\ frames' = <<>>
    /\ \/ scene' = Last(frames) /\ mapPill' = "ok"
       \/ scene' \in {scene} \cup ToSet(Front(frames)) /\ mapPill' = "unreadable"
    /\ UNCHANGED <<locating, position, cell, size, busy, panel, request, saved, unread>>

OsmInit ==
    /\ fixes = 0 /\ canLocate = TRUE /\ booting = TRUE
    /\ position = NoPlace /\ cell = NoPlace /\ size = MaxSize
    /\ busy = FALSE /\ panel = [box |-> NoPlace, busy |-> FALSE]
    /\ request = NoPlace /\ saved = NoPlace /\ unread = FALSE
    /\ frames = <<>> /\ scene = NoPlace /\ mapPill = "none"

OsmNext ==
    \/ PressLocate \/ AutoLocate \/ NotLocated \/ (\E p \in Place : Located(p))
    \/ \E s \in Sizes : SelectSize(s)
    \/ Download \/ Response \/ BodyRead \/ BlobRead \/ BlobLost \/ DownloadFails
    \/ Cancel
    \/ Frame

OsmSpec == OsmInit /\ [][OsmNext]_osmVars

(***************************************************************************)
(* Properties.                                                             *)
(***************************************************************************)
Boxes == [min : -Limit .. Limit, max : -Limit .. Limit]

OsmTypeOK ==
    /\ fixes \in Nat /\ {canLocate, booting, busy, unread} \subseteq BOOLEAN
    /\ position \in Place \cup {NoPlace} /\ size \in Sizes
    /\ panel \in [box : Boxes \cup {NoPlace}, busy : BOOLEAN]
    /\ mapPill \in {"none", "rendering", "ok", "unreadable"}

\* The download fetches the box that the page shows when the button is
\* pressed, whatever fixes and sizes came before it (the comment of app.js
\* 89-91).
AdvertisedIsRequested ==
    [][request = NoPlace /\ request' # NoPlace =>
           request'.box = panel.box /\ panel'.box = panel.box]_osmVars

\* When no download runs and the map panel says it is drawn, the map is that
\* of the file saved last, unless that file could not be read back: downloads
\* that were cancelled or failed, and maps that waited for their frame, leave
\* no other map behind (app.js 331-378, 695-721).
DrawnIsSaved == mapPill = "ok" /\ ~busy /\ ~unread => scene = saved

=============================================================================
