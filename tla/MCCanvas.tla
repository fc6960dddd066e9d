------------------------------ MODULE MCCanvas ------------------------------
(* The canvas's four modules on small instances. They share no state, so a  *)
(* behaviour is one of one of them: what `part` says.                       *)
EXTENDS Pointer, ElementViews, PaintOrder, TLC

CONSTANTS
    Kinds, Trail, Corners, Spots, Grips, MinSize, MaxPoints, MaxWrites, Grab

CONSTANTS f1, f2, m1, p1, p2, i1, i2, i3

VARIABLES
    part,
    el, points, drawn, stage, grip, asked, writes

drawingVars == <<el, points, drawn, stage, grip, asked, writes>>

D == INSTANCE Drawing

ASSUME CanvasAssumption ==
    PointerAssumption /\ D!ConstantsAssumption /\ OrderAssumption /\ ViewsAssumption

-----------------------------------------------------------------------------
\* All that is drawn, and every handle.
AllKinds   == {"note", "rect", "ellipse", "line", "path"}
AllHandles == {"nw", "n", "ne", "e", "se", "s", "sw", "w"}

\* Strokes that run nearly or quite straight, turn, and go up and to the left.
ATrail == {<<9, 0>>, <<6, 1>>, <<-4, -5>>}

\* A shape dragged out down to the right, one up to the right, a thin one, and one
\* straight to the right.
SomeCorners == {<<14, 8>>, <<9, -6>>, <<-3, 7>>, <<9, 0>>}

\* A handle dragged inside, and beyond the opposite edge.
SomeSpots == {<<3, 2>>, <<-5, -7>>}

\* Three elements on the board.
Three == <<i1, i2, i3>>

\* Places are interchangeable.
Symmetry == Permutations(Points)

-----------------------------------------------------------------------------
Init ==
    /\ part \in {"pointer", "drawing", "order", "views"}
    /\ PointerInit /\ D!Init /\ OrderInit /\ ViewsInit

Next ==
    /\ UNCHANGED part
    /\ \/ part = "pointer" /\ PointerNext /\ UNCHANGED <<drawingVars, orderVars, viewsVars>>
       \/ part = "drawing" /\ D!Next /\ UNCHANGED <<pointerVars, orderVars, viewsVars>>
       \/ part = "order"   /\ OrderNext /\ UNCHANGED <<pointerVars, drawingVars, viewsVars>>
       \/ part = "views"   /\ ViewsNext /\ UNCHANGED <<pointerVars, drawingVars, orderVars>>

Spec == Init /\ [][Next]_<<part, pointerVars, drawingVars, orderVars, viewsVars>>

-----------------------------------------------------------------------------
(* Drawing's properties, as it states them; the others come with their     *)
(* modules.                                                                *)

\* Drawing: what is painted, clicked and resized is one shape.
ShapesAgree == D!ShapesAgree

-----------------------------------------------------------------------------
(* Claims of the code's comments that this instance refutes, with          *)
(* CursorSettles and HandIsNotFought of Pointer and FewestMove of           *)
(* PaintOrder.                                                              *)

\* Drawing: a straight stroke that was resized can be clicked on all its ink.
StraightInkCanBeGrabbed == D!StraightInkCanBeGrabbed

\* Drawing: whatever was drawn is on show, and can be clicked there.
DrawnCanBeFound == D!DrawnCanBeFound

\* Drawing: a line that is resized keeps its direction.
LineKeepsDirection == D!LineKeepsDirection
=============================================================================
