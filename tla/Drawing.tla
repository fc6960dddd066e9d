------------------------------ MODULE Drawing ------------------------------
(***************************************************************************)
(* What one drawn element looks like and where it can be clicked: a shape  *)
(* dragged out, a pen stroke sampled, simplified when the pen lifts, and   *)
(* resized by a handle while the document catches up (geometry.ts,         *)
(* stroke.ts, elements.ts, and the gestures of useBoardTools.ts).          *)
(*                                                                         *)
(* Coordinates are board units, which the document holds as integers.      *)
(* A stroke's samples are relative to its anchor, and so is its box.  A    *)
(* point of a hit test, and twice a tolerance, are in half units.          *)
(***************************************************************************)
EXTENDS Integers, Sequences, FiniteSetsExt

CONSTANTS
    Kinds,      \* of KINDS, the ones drawn
    Trail,      \* where the pen goes, from where it came down
    Corners,    \* where a shape's drag ends, from where it began
    Spots,      \* where a handle is dragged
    Grips,      \* of HANDLES, the ones dragged
    MinSize,    \* MIN_SIZE
    MaxPoints,  \* MAX_POINTS
    MaxWrites,  \* bound: resizes written
    Grab        \* twice GRAB_PX, as the zoom makes it

ConstantsAssumption ==
    /\ Kinds \subseteq {"note", "rect", "ellipse", "line", "path"}
    /\ Trail \cup Corners \cup Spots \subseteq Int \X Int
    /\ Grips \subseteq {"nw", "n", "ne", "e", "se", "s", "sw", "w"}
    /\ {MinSize, MaxPoints, MaxWrites, Grab} \subseteq Nat \ {0}

VARIABLES
    el,      \* the element's scalars
    points,  \* the samples of a stroke
    drawn,   \* history: the samples as the pen made them
    stage,   \* "none", "drawing", "done"
    grip,    \* the resize under way: the handle and the box it began with
    asked,   \* history: the box last asked for, or NoBox
    writes   \* history: resizes written

vars == <<el, points, drawn, stage, grip, asked, writes>>

NoBox  == [x |-> 0, y |-> 0, w |-> -1, h |-> -1]
NoGrip == [handle |-> "none", from |-> NoBox]
NoElement == [kind |-> "none", x |-> 0, y |-> 0, w |-> 0, h |-> 0, bx |-> 0, by |-> 0,
              filled |-> FALSE]

StrokeWidth == 2

-----------------------------------------------------------------------------
(* geometry.ts                                                             *)

Least(a, b) == IF a < b THEN a ELSE b
Most(a, b)  == IF a < b THEN b ELSE a
Size(n)     == Most(n, -n)

\* Math.round of n / d: a half goes up.
Round(n, d) == (2 * n + d) \div (2 * d)

NormalizeRect(a, b) ==
    [x |-> Least(a[1], b[1]), y |-> Least(a[2], b[2]),
     w |-> Size(b[1] - a[1]), h |-> Size(b[2] - a[2])]

BboxOf(e) ==
    IF e.kind = "path"
    THEN [x |-> e.x + e.bx, y |-> e.y + e.by, w |-> e.w, h |-> e.h]
    ELSE NormalizeRect(<<e.x, e.y>>, <<e.x + e.w, e.y + e.h>>)

West(handle)  == handle \in {"nw", "w", "sw"}
East(handle)  == handle \in {"ne", "e", "se"}
North(handle) == handle \in {"nw", "n", "ne"}
South(handle) == handle \in {"sw", "s", "se"}

ResizeRect(rect, handle, to) ==
    LET right0  == rect.x + rect.w
        bottom0 == rect.y + rect.h
        x == IF West(handle) THEN Least(to[1], right0 - MinSize) ELSE rect.x
        y == IF North(handle) THEN Least(to[2], bottom0 - MinSize) ELSE rect.y
        right  == IF East(handle) THEN Most(to[1], x + MinSize) ELSE right0
        bottom == IF South(handle) THEN Most(to[2], y + MinSize) ELSE bottom0
    IN  [x |-> x, y |-> y, w |-> right - x, h |-> bottom - y]

\* In half units: whether p is within half of reach of the segment from a to b.
\* The squared distance is a fraction over the squared length.
NearSegment(p, a, b, reach) ==
    LET dx == b[1] - a[1]
        dy == b[2] - a[2]
        length == dx * dx + dy * dy
        along  == (p[1] - a[1]) * dx + (p[2] - a[2]) * dy
        across == (p[1] - a[1]) * dy - (p[2] - a[2]) * dx
        To(c)  == (p[1] - c[1]) * (p[1] - c[1]) + (p[2] - c[2]) * (p[2] - c[2])
    IN  CASE along <= 0      -> To(a) <= reach * reach
          [] along >= length -> To(b) <= reach * reach
          [] OTHER           -> across * across <= reach * reach * length

\* toleranceFor, twice.
Reach(e) == Most(Grab, StrokeWidth)

InInflated(box, p, reach) ==
    /\ p[1] >= 2 * box.x - reach /\ p[1] <= 2 * (box.x + box.w) + reach
    /\ p[2] >= 2 * box.y - reach /\ p[2] <= 2 * (box.y + box.h) + reach

NearOutline(box, p, reach) ==
    LET left == 2 * box.x
        top  == 2 * box.y
        right  == left + 2 * box.w
        bottom == top + 2 * box.h
    IN  \/ NearSegment(p, <<left, top>>, <<right, top>>, reach)
        \/ NearSegment(p, <<right, top>>, <<right, bottom>>, reach)
        \/ NearSegment(p, <<right, bottom>>, <<left, bottom>>, reach)
        \/ NearSegment(p, <<left, bottom>>, <<left, top>>, reach)

\* The square of a point's normalised radius is RadiusSquared over
\* (box.w * box.h) ^ 2; 1 is on the outline.
RadiusSquared(box, p) ==
    LET dx == p[1] - (2 * box.x + box.w)
        dy == p[2] - (2 * box.y + box.h)
    IN  dx * dx * box.h * box.h + dy * dy * box.w * box.w

\* distanceToEllipse: how far the radius is off 1, in smaller semi-axes.
NearEllipse(box, p, reach) ==
    LET unit == box.w * box.h
        axis == Least(box.w, box.h)
        q == RadiusSquared(box, p) * axis * axis
    IN  /\ unit > 0
        /\ q <= (axis + reach) * (axis + reach) * unit * unit
        /\ reach < axis => q >= (axis - reach) * (axis - reach) * unit * unit

InEllipse(box, p) ==
    box.w * box.h > 0 /\ RadiusSquared(box, p) <= (box.w * box.h) * (box.w * box.h)

\* A sample, in half units of the board.
At(e, s) == <<2 * (e.x + s[1]), 2 * (e.y + s[2])>>

NearPolyline(e, pts, p, reach) ==
    IF Len(pts) = 1 THEN NearSegment(p, At(e, pts[1]), At(e, pts[1]), reach)
    ELSE \E i \in 1..(Len(pts) - 1) :
            NearSegment(p, At(e, pts[i]), At(e, pts[i + 1]), reach)

HitTest(e, pts, p) ==
    LET box == BboxOf(e)
        reach == Reach(e)
    IN  /\ InInflated(box, p, reach)
        /\ \/ e.kind = "note"
           \/ e.kind = "rect" /\ (e.filled \/ NearOutline(box, p, reach))
           \/ /\ e.kind = "ellipse"
              /\ NearEllipse(box, p, reach) \/ (e.filled /\ InEllipse(box, p))
           \/ /\ e.kind = "line"
              /\ NearSegment(p, At(e, <<0, 0>>), At(e, <<e.w, e.h>>), reach)
           \/ e.kind = "path" /\ NearPolyline(e, pts, p, reach)

-----------------------------------------------------------------------------
(* stroke.ts                                                               *)

\* perpendicularSquared times the squared length of the segment, which the
\* samples compared with it share; of a segment that is a point, as it is.
Off(pts, i, first, last) ==
    LET a == pts[first]
        b == pts[last]
        dx == b[1] - a[1]
        dy == b[2] - a[2]
        px == pts[i][1] - a[1]
        py == pts[i][2] - a[2]
        length == dx * dx + dy * dy
        along  == px * dx + py * dy
        beyond == (pts[i][1] - b[1]) * (pts[i][1] - b[1]) + (pts[i][2] - b[2]) * (pts[i][2] - b[2])
    IN  CASE length = 0                     -> px * px + py * py
          [] length # 0 /\ along <= 0      -> (px * px + py * py) * length
          [] length # 0 /\ along >= length -> beyond * length
          [] OTHER                         -> (px * dy - py * dx) * (px * dy - py * dx)

Length(pts, first, last) ==
    LET dx == pts[last][1] - pts[first][1]
        dy == pts[last][2] - pts[first][2]
    IN  Most(1, dx * dx + dy * dy)

\* SIMPLIFY_TOLERANCE, 0.6, squared.
TooFarOff(pts, i, first, last) == 100 * Off(pts, i, first, last) > 36 * Length(pts, first, last)

\* The first of the samples in between that are farthest off.
Worst(pts, first, last) ==
    LET between == (first + 1)..(last - 1)
    IN  Min({i \in between : \A j \in between : Off(pts, j, first, last) <= Off(pts, i, first, last)})

\* The samples simplify keeps, a stretch at a time.
Kept(pts) ==
    LET n == Len(pts)
        kept[s \in (1..n) \X (1..n)] ==
            IF s[2] <= s[1] + 1 THEN {s[1], s[2]}
            ELSE LET worst == Worst(pts, s[1], s[2])
                 IN  IF TooFarOff(pts, worst, s[1], s[2])
                     THEN kept[<<s[1], worst>>] \cup kept[<<worst, s[2]>>]
                     ELSE {s[1], s[2]}
    IN  kept[<<1, n>>]

\* What is left of a sequence when only these places are.
At_(pts, places) ==
    [n \in 1..Cardinality(places) |->
        pts[CHOOSE i \in places : Cardinality({j \in places : j <= i}) = n]]

Simplify(pts) == IF Len(pts) < 3 THEN pts ELSE At_(pts, Kept(pts))

-----------------------------------------------------------------------------
(* Drawing.                                                                *)

\* beginDrawOut and its end: a line keeps the way it was drawn, anything else
\* becomes a box.
DrawOut(kind, corner, filled) ==
    /\ stage = "none"
    /\ LET box == NormalizeRect(<<0, 0>>, corner)
       IN  el' = IF kind = "line"
                 THEN [NoElement EXCEPT !.kind = kind, !.w = corner[1], !.h = corner[2]]
                 ELSE [NoElement EXCEPT !.kind = kind, !.filled = filled,
                          !.x = box.x, !.y = box.y, !.w = box.w, !.h = box.h]
    /\ stage' = "done"
    /\ UNCHANGED <<points, drawn, grip, asked, writes>>

\* beginStroke.
PenDown ==
    /\ stage = "none"
    /\ el' = [NoElement EXCEPT !.kind = "path"]
    /\ points' = <<<<0, 0>>>>
    /\ drawn' = <<<<0, 0>>>>
    /\ stage' = "drawing"
    /\ UNCHANGED <<grip, asked, writes>>

\* appendPoints: the box grows to hold the samples added.
Grown(e, batch) ==
    LET left   == Min({e.bx} \cup {batch[i][1] : i \in DOMAIN batch})
        top    == Min({e.by} \cup {batch[i][2] : i \in DOMAIN batch})
        right  == Max({e.bx + e.w} \cup {batch[i][1] : i \in DOMAIN batch})
        bottom == Max({e.by + e.h} \cup {batch[i][2] : i \in DOMAIN batch})
    IN  [e EXCEPT !.bx = left, !.by = top, !.w = right - left, !.h = bottom - top]

\* The pen moves, and what it gathered goes out.
AppendPoints(batch) ==
    /\ stage = "drawing"
    /\ Len(points) < MaxPoints
    /\ points' = points \o batch
    /\ drawn' = points \o batch
    /\ el' = Grown(el, batch)
    /\ UNCHANGED <<stage, grip, asked, writes>>

\* The pen lifts (replacePoints).
PenUp ==
    /\ stage = "drawing"
    /\ points' = Simplify(points)
    /\ stage' = "done"
    /\ UNCHANGED <<el, drawn, grip, asked, writes>>

-----------------------------------------------------------------------------
(* Resizing.                                                               *)

Stretches(e) == e.kind = "path" /\ e.w > 0 /\ e.h > 0

\* Mutant: a stroke's anchor goes where its box is to be.
AnchorAtBox(e, rect) ==
    [e EXCEPT !.x = rect.x, !.y = rect.y, !.w = rect.w, !.h = rect.h]

\* resizedFields and resizeElement: the anchor moves by the scaled offset of the
\* box.
Fitted(e, rect) ==
    LET bx == IF Stretches(e) THEN Round(e.bx * rect.w, e.w) ELSE e.bx
        by == IF Stretches(e) THEN Round(e.by * rect.h, e.h) ELSE e.by
        path == e.kind = "path"
    IN  [e EXCEPT !.bx = bx, !.by = by,
                  !.x = rect.x - (IF path THEN bx ELSE 0),
                  !.y = rect.y - (IF path THEN by ELSE 0),
                  !.w = rect.w, !.h = rect.h]

Stretched(e, pts, rect) ==
    IF Stretches(e)
    THEN [i \in DOMAIN pts |-> <<Round(pts[i][1] * rect.w, e.w), Round(pts[i][2] * rect.h, e.h)>>]
    ELSE pts

ResizeElement(rect) ==
    /\ el' = Fitted(el, rect)
    /\ points' = Stretched(el, points, rect)
    /\ asked' = rect

\* "A line or arrow gets endpoint handles only" (handleUnder).
HandlesOf(e) == IF e.kind = "line" THEN {"nw", "se"} ELSE {"nw", "n", "ne", "e", "se", "s", "sw", "w"}

\* beginResize.
TakeHandle(handle) ==
    /\ stage = "done"
    /\ grip = NoGrip
    /\ handle \in HandlesOf(el)
    /\ writes < MaxWrites
    /\ grip' = [handle |-> handle, from |-> BboxOf(el)]
    /\ asked' = NoBox
    /\ UNCHANGED <<el, points, drawn, stage, writes>>

\* The document catches up, or the handle is let go.
DragHandle(to, letGo) ==
    /\ grip # NoGrip
    /\ writes < MaxWrites
    /\ ResizeElement(ResizeRect(grip.from, grip.handle, to))
    /\ grip' = IF letGo THEN NoGrip ELSE grip
    /\ writes' = writes + 1
    /\ UNCHANGED <<drawn, stage>>

\* Escape, or a second finger: the box it began with.
CancelResize ==
    /\ grip # NoGrip
    /\ ResizeElement(grip.from)
    /\ grip' = NoGrip
    /\ UNCHANGED <<drawn, stage, writes>>

-----------------------------------------------------------------------------
Init ==
    /\ el = NoElement
    /\ points = <<>>
    /\ drawn = <<>>
    /\ stage = "none"
    /\ grip = NoGrip
    /\ asked = NoBox
    /\ writes = 0

Batches == {<<s>> : s \in Trail} \cup {<<s, t>> : s, t \in Trail}

Next ==
    \/ \E kind \in Kinds \ {"path"}, corner \in Corners, filled \in BOOLEAN :
            DrawOut(kind, corner, filled)
    \/ "path" \in Kinds /\ PenDown
    \/ \E batch \in Batches : AppendPoints(batch)
    \/ PenUp
    \/ \E handle \in Grips : TakeHandle(handle)
    \/ \E to \in Spots, letGo \in BOOLEAN : DragHandle(to, letGo)
    \/ CancelResize

Spec == Init /\ [][Next]_vars

-----------------------------------------------------------------------------
(* Properties.                                                             *)

Box == [x : Int, y : Int, w : Int, h : Int]

TypeOK ==
    /\ el.kind \in Kinds \cup {"none"}
    /\ <<el.x, el.y, el.w, el.h, el.bx, el.by>> \in Int \X Int \X Int \X Int \X Int \X Int
    /\ points \in Seq(Int \X Int) /\ Len(points) <= Len(drawn)
    /\ Len(points) <= MaxPoints + 1
    /\ stage \in {"none", "drawing", "done"}
    /\ grip = NoGrip \/ (grip.handle \in Grips /\ grip.from \in Box)
    /\ asked \in Box
    /\ writes \in 0..MaxWrites

Mid(a, b) == <<(a[1] + b[1]) \div 2, (a[2] + b[2]) \div 2>>

\* Some of what is painted of an element, in half units.  SVG paints no rect or
\* ellipse that has no width or no height (ShapeView.tsx).
Painted(e, pts) ==
    LET box  == BboxOf(e)
        flat == e.kind \in {"rect", "ellipse"} /\ (box.w = 0 \/ box.h = 0)
        Spot(i, j) == <<2 * box.x + i * box.w, 2 * box.y + j * box.h>>
    IN  CASE flat -> {}
          [] e.kind = "path" ->
                {At(e, pts[i]) : i \in DOMAIN pts}
                    \cup {Mid(At(e, pts[i]), At(e, pts[i + 1])) : i \in 1..(Len(pts) - 1)}
          [] e.kind = "line" ->
                {At(e, <<0, 0>>), At(e, <<e.w, e.h>>), <<2 * e.x + e.w, 2 * e.y + e.h>>}
          [] e.kind = "ellipse" /\ ~flat -> {Spot(0, 1), Spot(1, 0), Spot(1, 2), Spot(2, 1)}
          [] OTHER -> {Spot(i, j) : i, j \in 0..2}
                        \ (IF e.kind = "rect" THEN {Spot(1, 1)} ELSE {})

CanBeGrabbed == \A p \in Painted(el, points) : HitTest(el, points, p)

\* A stroke straight along an axis: its box has no width, or no height.
Straight(samples) == \E axis \in 1..2 : \A i \in DOMAIN samples : samples[i][axis] = 0

\* What is painted can be clicked, at any zoom, down to the last sample of a
\* stroke drawn up and to the left, and however often it was resized and its
\* samples rounded: the box is "what hit-testing and selection read, so it has to
\* keep up - in every direction" (elements.ts:380-383).  A straight stroke that
\* was resized is StraightInkCanBeGrabbed's.
PaintCanBeGrabbed ==
    (stage # "none" /\ (el.kind = "path" /\ writes > 0 => ~Straight(drawn))) => CanBeGrabbed

\* A note can be clicked "through the middle of a rectangle drawn over it"
\* (geometry.ts:207-209): the middle of a hollow shape, and the corner beside a
\* round one, are only hit when its line is within reach.
HollowLetsThrough ==
    LET box == BboxOf(el)
        middle == <<2 * box.x + box.w, 2 * box.y + box.h>>
        corner == <<2 * box.x, 2 * box.y>>
        thick == Least(box.w, box.h)
    IN  /\ el.kind \in {"rect", "ellipse"} /\ ~el.filled /\ thick > Reach(el)
              => ~HitTest(el, points, middle)
        /\ el.kind = "ellipse" /\ 2 * thick > 5 * Reach(el) => ~HitTest(el, points, corner)

\* Whether a sample is within SIMPLIFY_TOLERANCE of the line from a to b.
Close(s, a, b) == ~TooFarOff(<<a, s, b>>, 2, 1, 3)

\* What simplify drops carried no shape: the stroke still starts and ends where
\* it did, and every sample of it is next to the line that is left
\* (stroke.ts:104-110).
SimplifiedStaysClose ==
    (el.kind = "path" /\ stage = "done" /\ writes = 0 /\ asked = NoBox) =>
        /\ points[1] = drawn[1]
        /\ points[Len(points)] = drawn[Len(drawn)]
        /\ \A i \in DOMAIN drawn :
            \/ Len(points) = 1
            \/ \E j \in 1..(Len(points) - 1) : Close(drawn[i], points[j], points[j + 1])

\* Whatever it stores and however often it was rounded, an element that is
\* resized has the box asked for: "the box lands on the integer rect it was
\* given rather than drifting by the rounding" (elements.ts:248-249).
ResizeLands == asked # NoBox => BboxOf(el) = asked

\* A resize keeps the edges that were not dragged where they were when the handle
\* was taken, and never turns the element inside out (resizeRect).
FarEdgesStay ==
    (grip # NoGrip /\ asked # NoBox) =>
        LET from == grip.from
            now == BboxOf(el)
        IN  /\ ~West(grip.handle) => now.x = from.x
            /\ ~North(grip.handle) => now.y = from.y
            /\ ~East(grip.handle) => now.x + now.w = from.x + from.w
            /\ ~South(grip.handle) => now.y + now.h = from.y + from.h
            /\ West(grip.handle) \/ East(grip.handle) => now.w >= MinSize
            /\ North(grip.handle) \/ South(grip.handle) => now.h >= MinSize

\* What is drawn, painted, clicked and resized is one and the same shape.
ShapesAgree ==
    /\ TypeOK
    /\ PaintCanBeGrabbed /\ HollowLetsThrough
    /\ SimplifiedStaysClose
    /\ ResizeLands /\ FarEdgesStay

-----------------------------------------------------------------------------
(* What a comment says and the code does not do.                           *)

\* A straight stroke that was resized can be clicked on all of its ink too: its
\* box shrinks and its samples do not ("half of it unselectable",
\* elements.ts:382-383).
StraightInkCanBeGrabbed == stage # "none" => CanBeGrabbed

\* Whatever was drawn is on show and can be clicked there, not "a zero-sized element
\* nobody can find again" (useBoardTools.ts:497-498): a rectangle or an ellipse
\* dragged out straight along an axis is long enough to be kept, and has no height.
DrawnCanBeFound == stage = "done" => \E p \in Painted(el, points) : HitTest(el, points, p)

\* "A line keeps its direction" (useBoardTools.ts:456): a line drawn up to the
\* right still runs up to the right.
LineKeepsDirection ==
    [][(el.kind = "line" /\ grip # NoGrip) => el'.w * el.w >= 0 /\ el'.h * el.h >= 0]_vars
=============================================================================
