------------------------------- MODULE Editor -------------------------------
(***************************************************************************)
(* The board's editor on one page: what presses, drags, keys and typing    *)
(* write into the document, what each of them is to undo and redo, and     *)
(* what is left selected, edited, painted and focused (useBoardTools,      *)
(* tools, elements, useUndo, BoardSurface, TextEditor), while peers change *)
(* the same document.                                                      *)
(*                                                                         *)
(* A gesture paints every frame and writes every PUBLISH_MS, so a frame, a *)
(* timer, its end, its cancellation, a key and a peer come in any order.   *)
(* Which element a press lands on is any one there; an element has one     *)
(* coordinate, one extent, one style, the set of those who wrote in it, and *)
(* a form: 1 is what its box does not tell, a line drawn up or to the left  *)
(* or the samples of a stroke as they were drawn.                           *)
(***************************************************************************)
EXTENDS Integers, Sequences, FiniteSets, SequencesExt, FiniteSetsExt, TLC

CONSTANTS
    Ids,          \* element ids
    Given,        \* what is on the board at first
    None,         \* no element
    Offsets,      \* where a drag can take the pointer, in half board units
    Sizes,        \* extents it can give; 0 is a click that did not drag
    DefaultSize,
    MaxPoints,    \* bound, and the code's: samples of a stroke
    MaxOps,       \* bound: presses, key presses and clicks
    Tools,        \* those the person uses
    MaxMeddling,  \* bound: changes peers make, and surprises
    Surprises     \* "keys": keys pressed in the middle of a drag; "pause": ten
                  \* seconds without a write while something is under way

Nothing == [kind |-> "none", at |-> 0, size |-> 0, form |-> 0, ink |-> 0, said |-> {}]

ASSUME EditorAssumption ==
    /\ Given \in [Ids -> [kind : {"none", "note", "text", "shape"}, at : Int, size : Nat,
                          form : 0..1, ink : 0..1, said : SUBSET {"me", "peer"}]]
    /\ \A i \in Ids : Given[i].kind = "none" => Given[i] = Nothing
    /\ "select" \in Tools /\ Tools \subseteq {"select", "note", "shape", "text", "pen"}
    /\ None \notin Ids /\ Offsets \subseteq Int /\ Sizes \subseteq Nat
    /\ {DefaultSize, MaxPoints, MaxOps, MaxMeddling} \subseteq Nat /\ Surprises \subseteq {"keys", "pause"}

VARIABLES
    ed,        \* the document and its UndoManager: doc, undo, redo, open; and op,
               \* history: the number of what the person is doing
    ui,        \* ToolState: tool, selection, editing
    drag,      \* the drag handlers in use and their closure
    screen,    \* painted: transforms, previews and the marquee on show;
               \* late: transforms a frame nobody cancelled will still set; focus
    burst,     \* the next arrow key may continue a run
    unused,    \* ids not made yet
    before,    \* history: the document at the press, with peers' changes since
    upset,     \* history: a surprise came, or a peer moved what is being dragged
    meddled

vars == <<ed, ui, drag, screen, burst, unused, before, upset, meddled>>

NoDrag == [kind |-> "none", ids |-> {}, from |-> Nothing, total |-> 0, flushed |-> 0,
           timer |-> FALSE, frame |-> FALSE, orphan |-> FALSE]
dragging == drag.kind # "none"

HoldsText(el) == el.kind \in {"note", "text"}
Blank(el)     == el.kind = "text" /\ el.said = {}
Painted(d)    == {i \in Ids : d[i] # Nothing}

Round(half) == (half + 1) \div 2

---------------------------------------------------------------------------
(* A transaction of ours joins the open undo entry or starts one. *)

Over(f, g) == [i \in DOMAIN f \cup DOMAIN g |-> IF i \in DOMAIN f THEN f[i] ELSE g[i]]

Write(e, new) ==
    LET was    == [i \in DOMAIN new |-> e.doc[i]]
        joined == e.open /\ e.undo # <<>>
        top    == Last(e.undo)
        entry  == IF joined THEN [ops |-> top.ops \cup {e.op}, was |-> Over(top.was, was), is |-> Over(new, top.is)]
                            ELSE [ops |-> {e.op}, was |-> was, is |-> new]
    IN IF DOMAIN new = {} THEN e
       ELSE [doc  |-> Over(new, e.doc), op |-> e.op, open |-> TRUE, redo |-> <<>>,
             undo |-> Append(IF joined THEN Front(e.undo) ELSE e.undo, entry)]

Closed(e) == [e EXCEPT !.open = FALSE]
Starting(e) == [Closed(e) EXCEPT !.op = @ + 1]

(* One element of an undo entry, taken from `from` back to `to`.  A field   *)
(* someone else has set since is left or overwritten as the library likes. *)
Reverted(cur, from, to, over) ==
    LET Field(c, f, t) == IF f # t /\ (over \/ c = f) THEN t ELSE c
    IN CASE to = Nothing -> Nothing
         [] to # Nothing /\ from = Nothing -> to
         [] Nothing \notin {to, from} /\ cur = Nothing -> Nothing
         [] OTHER -> [cur EXCEPT !.at = Field(@, from.at, to.at), !.size = Field(@, from.size, to.size),
                                 !.form = Field(@, from.form, to.form), !.ink = Field(@, from.ink, to.ink),
                                 !.said = (@ \ (from.said \ to.said)) \cup (to.said \ from.said)]

Without(d, entry, over) ==
    Over([i \in DOMAIN entry.was |-> Reverted(d[i], entry.is[i], entry.was[i], over)], d)

(* An entry that no longer changes anything is dropped for the one below. *)
Performs(d, entry, over) ==
    Without(d, entry, over) # d \/ (entry.was = entry.is /\ \E i \in DOMAIN entry.was : d[i] # Nothing)

Popped(d, stack, over) ==
    LET k   == Max({0} \cup {j \in DOMAIN stack : Performs(d, stack[j], over)})
        new == Without(d, stack[k], over)
        on  == DOMAIN stack[k].was
    IN IF k = 0 THEN [doc |-> d, rest |-> <<>>, turned |-> <<>>]
       ELSE [doc |-> new, rest |-> SubSeq(stack, 1, k - 1),
             turned |-> <<[ops |-> stack[k].ops, was |-> Restrict(d, on), is |-> Restrict(new, on)]>>]

Undone(e, over) ==
    LET p == Popped(e.doc, e.undo, over)
    IN [e EXCEPT !.doc = p.doc, !.undo = p.rest, !.redo = @ \o p.turned,
                 !.open = @ /\ p.turned = <<>>]

Redone(e, over) ==
    LET p == Popped(e.doc, e.redo, over)
    IN [e EXCEPT !.doc = p.doc, !.redo = p.rest, !.undo = @ \o p.turned]

---------------------------------------------------------------------------
(* elements.ts: what each writer sets on the elements still there. *)

(* What bboxOf tells of an element, and the element fitted to a box: a line *)
(* runs as the box does, a stroke's samples are scaled and rounded anew.    *)
BboxOf(el) == [el EXCEPT !.form = 0]
Fitted(el, box, n) ==
    [el EXCEPT !.at = box.at, !.size = n,
               !.form = IF el.kind # "path" THEN box.form ELSE IF el.size \in {0, n} THEN @ ELSE 0]

On(e, ids, F(_)) == Write(e, [i \in ids \cap Painted(e.doc) |-> F(e.doc[i])])

Create(e, i, el)      == Write(e, [j \in {i} |-> el])
MoveBy(e, ids, n)     == IF n = 0 THEN e ELSE On(e, ids, LAMBDA el : [el EXCEPT !.at = @ + n])
Resize(e, ids, box, n) == On(e, ids, LAMBDA el : Fitted(el, box, n))
AppendPoints(e, ids, n) == IF n = 0 THEN e ELSE On(e, ids, LAMBDA el : [el EXCEPT !.size = @ + n])
RemoveElements(e, ids)        == On(e, ids, LAMBDA el : Nothing)
\* Mutant: an empty text box stays.
KeepBlank(e, i) == e

DiscardIfBlank(e, i) == IF i # None /\ Blank(e.doc[i]) THEN RemoveElements(e, {i}) ELSE e

NewElement(kind) == [Nothing EXCEPT !.kind = kind, !.form = IF kind = "path" THEN 1 ELSE 0]

---------------------------------------------------------------------------
(* tools.ts: toolReducer, one operator per action. *)

PickTool(u, t)  == IF t = u.tool THEN u ELSE [tool |-> t, selection |-> {}, editing |-> None]
Select(u, ids)  == [u EXCEPT !.selection = ids, !.editing = None]
Toggle(u, i)    == IF i \in u.selection THEN [u EXCEPT !.selection = @ \ {i}]
                   ELSE [u EXCEPT !.selection = @ \cup {i}, !.editing = None]
Edit(u, i)      == [u EXCEPT !.editing = i, !.selection = IF i = None THEN @ ELSE {i}]
Created(u, i)   == IF u.tool = "pen" THEN u ELSE [tool |-> "select", selection |-> {i}, editing |-> None]
Forgotten(u, ids) == [u EXCEPT !.selection = @ \ ids, !.editing = IF @ \in ids THEN None ELSE @]

---------------------------------------------------------------------------
(* BoardSurface: the pieces its handlers share. *)

(* A text box left empty goes when its edit ends. *)
Dropped(e, u) ==
    LET left == DiscardIfBlank(e, ui.editing)
    IN [ed |-> left, ui |-> IF left = e THEN u ELSE Forgotten(u, {ui.editing})]

(* host.focus() takes the focus from an open field, which ends its edit. *)
Blurred(e, u) ==
    IF screen.focus # "editor" THEN [ed |-> e, ui |-> u]
    ELSE [Dropped(e, u) EXCEPT !.ui = Edit(@, None)]

(* An open field has the focus, and loses it to the body when it goes. *)
FocusFrom(f, e, u) ==
    IF u.editing # None /\ e.doc[u.editing] # Nothing THEN "editor"
    ELSE IF f = "editor" THEN "body" ELSE f

Becomes(e, u, f) ==
    /\ ed' = e /\ ui' = u
    /\ screen' = [screen EXCEPT !.focus = FocusFrom(f, e, u)]

(* onGestureStart, as a press on the canvas begins. *)
Pressed ==
    LET d == Dropped(ed, ui)
    IN [d EXCEPT !.ed = Starting(@)]

MayBegin == ed.op < MaxOps
Meddles  == meddled < MaxMeddling /\ meddled' = meddled + 1
Quietly  == UNCHANGED <<before, upset, meddled>>

---------------------------------------------------------------------------
(* Presses on the canvas.  One that hands over a drag focuses the canvas. *)

Takes(e, u, d) ==
    LET b == Blurred(e, u)
    IN /\ Becomes(b.ed, b.ui, "canvas")
       /\ drag' = d /\ before' = Pressed.ed.doc
       /\ burst' = FALSE /\ UNCHANGED <<upset, meddled>>

Opens(i, u) ==
    /\ Becomes(Pressed.ed, Edit(u, i), screen.focus)
    /\ burst' = FALSE /\ UNCHANGED <<drag, unused>> /\ Quietly

A(kind, ids) == [NoDrag EXCEPT !.kind = kind, !.ids = ids]

PressWithNote ==
    /\ ~dragging /\ MayBegin /\ ui.tool = "note" /\ unused # {}
    /\ Takes(Pressed.ed, Pressed.ui, A("note", {})) /\ UNCHANGED unused

PressToDraw ==
    /\ ~dragging /\ MayBegin /\ ui.tool \in {"pen", "shape", "text"}
    /\ LET el == NewElement(IF ui.tool = "pen" THEN "path" ELSE ui.tool)
       IN \E i \in unused, way \in IF ui.tool = "shape" THEN 0..1 ELSE {el.form} :
          /\ Takes(Create(Pressed.ed, i, el), Pressed.ui,
                   [A(IF ui.tool = "pen" THEN "stroke" ELSE "draw", {i}) EXCEPT !.from = [el EXCEPT !.form = way]])
          /\ unused' = unused \ {i}

PressTextOn(i) ==
    /\ ~dragging /\ MayBegin /\ ui.tool = "text" /\ HoldsText(Pressed.ed.doc[i])
    /\ Opens(i, Pressed.ui)

PressHandle(i) ==
    /\ ~dragging /\ MayBegin /\ ui.tool = "select" /\ ui.selection = {i}
    /\ LET el == Pressed.ed.doc[i]
       IN /\ el # Nothing
          /\ Takes(Pressed.ed, Pressed.ui, [A("resize", {i}) EXCEPT !.from = BboxOf(el), !.total = el.size])
    /\ UNCHANGED unused

PressElement(i) ==
    /\ ~dragging /\ MayBegin /\ ui.tool = "select" /\ Pressed.ed.doc[i] # Nothing
    /\ LET already == i \in ui.selection
       IN Takes(Pressed.ed, IF already THEN Pressed.ui ELSE Select(Pressed.ui, {i}),
                A("move", IF already THEN ui.selection ELSE {i}))
    /\ UNCHANGED unused

ShiftPress(i) ==
    /\ ~dragging /\ MayBegin /\ ui.tool = "select" /\ Pressed.ed.doc[i] # Nothing /\ i # ui.editing
    /\ Becomes(Pressed.ed, Toggle(Pressed.ui, i), screen.focus)
    /\ burst' = FALSE /\ UNCHANGED <<drag, unused>> /\ Quietly

(* The second press on what the first one took. *)
DoublePress(i) ==
    /\ ~dragging /\ MayBegin /\ ui.tool = "select" /\ i \in ui.selection /\ i # ui.editing
    /\ HoldsText(Pressed.ed.doc[i])
    /\ Opens(i, Pressed.ui)

PressEmpty ==
    /\ ~dragging /\ MayBegin /\ ui.tool = "select"
    /\ Takes(Pressed.ed, [Pressed.ui EXCEPT !.selection = {}, !.editing = None],
             A("marquee", Painted(Pressed.ed.doc)))
    /\ UNCHANGED unused

---------------------------------------------------------------------------
(* Two clocks: the frame and the timer. *)

residue(d) == d.total - 2 * d.flushed
Shown(d) ==
    CASE d.kind = "move"               -> {<<"shift", i>> : i \in IF residue(d) = 0 THEN {} ELSE d.ids}
      [] d.kind \in {"resize", "draw"} -> {<<"box", i>> : i \in d.ids}
      [] d.kind = "marquee"            -> {<<"marquee", None>>}
      [] OTHER                         -> {}
Repainted(d) == (screen.painted \ ({"shift"} \X d.ids)) \cup Shown(d)

Moved(d, n) == [d EXCEPT !.total = n, !.frame = TRUE, !.timer = TRUE]

DragTo ==
    /\ \/ drag.kind = "move" /\ \E n \in Offsets \ {drag.total} : drag' = Moved(drag, n)
       \/ drag.kind \in {"resize", "draw"} /\ \E n \in Sizes \ {drag.total} : drag' = Moved(drag, n)
       \/ drag.kind = "stroke" /\ drag.total < MaxPoints /\ drag' = Moved(drag, drag.total + 1)
       \/ /\ drag.kind = "marquee" /\ ~drag.frame
          /\ drag' = [drag EXCEPT !.total = 1, !.frame = TRUE]
    /\ UNCHANGED <<ed, ui, screen, burst, unused>> /\ Quietly

Frame ==
    /\ drag.frame \/ drag.orphan
    /\ drag' = [drag EXCEPT !.frame = FALSE, !.orphan = FALSE]
    /\ screen' = [screen EXCEPT !.painted = Repainted(drag)]
    /\ UNCHANGED <<ed, ui, burst, unused>> /\ Quietly

(* What a timer, or the end, writes.  A move that writes paints at once and *)
(* forgets the frame it had asked for.                                      *)
Flushed(d) ==
    LET n == Round(residue(d))
    IN CASE d.kind = "move" /\ n # 0 ->
              [ed |-> MoveBy(ed, d.ids, n),
               drag |-> [d EXCEPT !.timer = FALSE, !.flushed = @ + n, !.frame = FALSE,
                                  !.orphan = @ \/ d.frame]]
         [] d.kind \in {"resize", "draw"} ->
              [ed |-> Resize(ed, d.ids, d.from, d.total), drag |-> [d EXCEPT !.timer = FALSE]]
         [] d.kind = "stroke" ->
              [ed |-> AppendPoints(ed, d.ids, d.total - d.flushed),
               drag |-> [d EXCEPT !.timer = FALSE, !.flushed = d.total]]
         [] OTHER -> [ed |-> ed, drag |-> [d EXCEPT !.timer = FALSE]]

Flush ==
    /\ drag.timer
    /\ LET f == Flushed(drag)
       IN /\ ed' = f.ed /\ drag' = f.drag
          /\ screen' = [screen EXCEPT !.painted = IF f.drag.flushed # drag.flushed THEN Repainted(f.drag) ELSE @]
    /\ UNCHANGED <<ui, burst, unused>> /\ Quietly

\* Mutant: a drag ends without its last move.
Unflushed(d) == [ed |-> ed, drag |-> d]
Final(d) == Flushed([d EXCEPT !.frame = FALSE])

(* The drag is over: its frame and timer are cleared, and what it painted. *)
Wiped(d) == ({"shift", "box"} \X d.ids) \cup {<<"marquee", None>>}

Clears(d, e, u) ==
    /\ drag' = NoDrag /\ ed' = e /\ ui' = u
    /\ screen' = [painted |-> screen.painted \ Wiped(d),
                  late    |-> screen.late \cup (IF d.orphan THEN Shown(d) ELSE {}),
                  focus   |-> FocusFrom(screen.focus, e, u)]
    /\ before' = Given /\ UNCHANGED <<burst, upset, meddled>>

LateFrame ==
    /\ screen.late # {}
    /\ screen' = [screen EXCEPT !.painted = @ \cup screen.late, !.late = {}]
    /\ UNCHANGED <<ed, ui, drag, burst, unused>> /\ Quietly

EndDrag ==
    /\ dragging /\ drag.kind # "note"
    /\ LET done  == Final(drag)
           i     == CHOOSE j \in drag.ids : TRUE
           box   == IF drag.total = 0 THEN BboxOf(drag.from) ELSE drag.from
           sized == Resize(ed, drag.ids, box, IF drag.total = 0 THEN DefaultSize ELSE drag.total)
           made  == Created(ui, i)
       IN CASE drag.kind \in {"move", "resize"} -> Clears(done.drag, done.ed, ui)
            [] drag.kind = "stroke"  -> Clears(drag, done.ed, made)
            [] drag.kind = "draw"    -> Clears(drag, sized, IF drag.from.kind = "text" THEN Edit(made, i) ELSE made)
            [] drag.kind = "marquee" -> \/ Clears(drag, ed, ui)
                                        \/ /\ drag.total # 0
                                           /\ \E S \in SUBSET drag.ids : Clears(drag, ed, Select(ui, S))
    /\ UNCHANGED unused

(* A note is placed as its press ends, and opens at once. *)
EndNote ==
    /\ drag.kind = "note"
    /\ \E i \in unused :
          /\ Clears(drag, Create(ed, i, NewElement("note")), Edit(Created(ui, i), i))
          /\ unused' = unused \ {i}

(* A second finger, or the browser, takes the pointer away. *)
CancelDrag ==
    /\ dragging
    /\ Clears(drag, CASE drag.kind = "move"               -> MoveBy(ed, drag.ids, -drag.flushed)
                      [] drag.kind = "resize"             -> Resize(ed, drag.ids, drag.from, drag.from.size)
                      [] drag.kind \in {"draw", "stroke"} -> RemoveElements(ed, drag.ids)
                      [] OTHER                            -> ed, ui)
    /\ UNCHANGED unused

---------------------------------------------------------------------------
(* Typing, in the field that is open, which keeps its keys to itself.  The *)
(* one who types writes the height the words need, as it opens or later.   *)

Fits(said) ==
    /\ screen.focus = "editor"
    /\ LET el == ed.doc[ui.editing]
       IN \E n \in {el.size} \cup {m \in Sizes : m > el.size} :
             /\ el # [el EXCEPT !.said = said, !.size = n]
             /\ ed' = Write(ed, [i \in {ui.editing} |-> [el EXCEPT !.said = said, !.size = n]])
    /\ UNCHANGED <<ui, drag, screen, burst, unused>> /\ Quietly

Opened == Fits(ed.doc[ui.editing].said)
Type   == Fits(ed.doc[ui.editing].said \cup {"me"})
Erase  == Fits({})

(* Escape, a press that pans or pinches, or a click outside the canvas. *)
EndEdit ==
    /\ screen.focus = "editor"
    /\ LET b == Blurred(ed, ui) IN Becomes(b.ed, b.ui, "canvas")
    /\ UNCHANGED <<drag, burst, unused>> /\ Quietly

---------------------------------------------------------------------------
(* Keys, which the canvas hears while it has the focus. *)

Heard(e, u, run) ==
    /\ screen.focus = "canvas" /\ (dragging => "keys" \in Surprises)
    /\ Becomes(e, u, "canvas")
    /\ burst' = run /\ upset' = (upset \/ dragging)
    /\ IF dragging THEN Meddles ELSE UNCHANGED meddled
    /\ UNCHANGED <<drag, before>>

\* Mutant: a key joins the undo step before it.
Joining == [ed EXCEPT !.op = @ + 1]
Anew == Starting(ed)
selected == ui.selection # {}

KeyUndo == \E over \in BOOLEAN : Heard(Undone(ed, over), ui, burst) /\ UNCHANGED unused
KeyRedo == \E over \in BOOLEAN : Heard(Redone(ed, over), ui, burst) /\ UNCHANGED unused

KeyDelete ==
    /\ MayBegin /\ selected
    /\ Heard(RemoveElements(Anew, ui.selection), Forgotten(ui, ui.selection), FALSE) /\ UNCHANGED unused

(* A run of arrow presses, not too far apart, is one step.  Bound: two. *)
KeyNudge ==
    /\ selected
    /\ \/ burst /\ ed.open /\ Heard(MoveBy(ed, ui.selection, 1), ui, FALSE)
       \/ MayBegin /\ Heard(MoveBy(Anew, ui.selection, 1), ui, TRUE)
    /\ UNCHANGED unused

(* Duplicate, and paste: a little off, and the words are now one's own. *)
Copied(el) == [el EXCEPT !.at = @ + 1, !.said = IF @ = {} THEN {} ELSE {"me"}]

KeyCopies ==
    /\ MayBegin /\ selected
    /\ LET from == ui.selection \cap Painted(ed.doc)
       IN \E to \in kSubset(Cardinality(from), unused) :
          /\ from # {}
          /\ \E pair \in {f \in [to -> from] : \A i, j \in to : f[i] = f[j] => i = j} :
                Heard(Write(Anew, [i \in to |-> Copied(ed.doc[pair[i]])]),
                      Select(PickTool(ui, "select"), to), FALSE)
          /\ unused' = unused \ to

KeySelectAll ==
    /\ Heard(ed, Select(PickTool(ui, "select"), Painted(ed.doc)), FALSE)
    /\ UNCHANGED unused

KeyEscape ==
    /\ Heard(ed, [ui EXCEPT !.selection = {}, !.editing = None], FALSE)
    /\ UNCHANGED unused

KeyTool(t) == Heard(ed, PickTool(ui, t), burst /\ t = ui.tool) /\ UNCHANGED unused

KeyEnter ==
    /\ MayBegin
    /\ \E i \in Ids : /\ ui.selection = {i} /\ HoldsText(ed.doc[i])
                      /\ Heard(Anew, Edit(ui, i), FALSE)
    /\ UNCHANGED unused

(* The toolbar and its style picker, whose buttons take the focus. *)
ClickTool(t) ==
    /\ ~dragging
    /\ LET b == Blurred(ed, ui) IN Becomes(b.ed, PickTool(b.ui, t), "canvas")
    /\ burst' = FALSE /\ UNCHANGED <<drag, unused>> /\ Quietly

ClickStyle ==
    /\ ~dragging /\ MayBegin
    /\ LET b == Blurred(ed, ui)
           e == Starting(b.ed)
       IN Becomes(IF b.ui.selection = {} THEN b.ed
                  ELSE On(e, b.ui.selection, LAMBDA el : [el EXCEPT !.ink = 1 - @]), b.ui, "chrome")
    /\ burst' = (burst /\ ~selected) /\ UNCHANGED <<drag, unused>> /\ Quietly

---------------------------------------------------------------------------
(* Ten seconds go by; peers change the board. *)

Pause ==
    /\ "pause" \in Surprises /\ ed.open /\ (dragging \/ screen.focus = "editor")
    /\ ed' = Closed(ed) /\ upset' = TRUE /\ Meddles
    /\ UNCHANGED <<ui, drag, screen, burst, unused, before>>

Peer(i, F(_)) ==
    /\ Meddles /\ ed.doc[i] \notin {Nothing, F(ed.doc[i])}
    /\ ed' = [ed EXCEPT !.doc[i] = F(@)]
    /\ before' = IF dragging /\ before[i] # Nothing THEN [before EXCEPT ![i] = F(@)] ELSE before
    /\ screen' = [screen EXCEPT !.focus = FocusFrom(@, ed', ui)]
    /\ UNCHANGED <<ui, drag, burst, unused>>

PeerMoves(i)   == Peer(i, LAMBDA el : [el EXCEPT !.at = 9]) /\ upset' = (upset \/ i \in drag.ids)
PeerWrites(i)  == /\ HoldsText(ed.doc[i]) /\ Peer(i, LAMBDA el : [el EXCEPT !.said = @ \cup {"peer"}])
                  /\ UNCHANGED upset
PeerDeletes(i) == Peer(i, LAMBDA el : Nothing) /\ UNCHANGED upset

---------------------------------------------------------------------------
Init ==
    /\ ed = [doc |-> Given, undo |-> <<>>, redo |-> <<>>, open |-> FALSE, op |-> 0]
    /\ ui = [tool |-> "select", selection |-> {}, editing |-> None]
    /\ drag = NoDrag /\ screen = [painted |-> {}, late |-> {}, focus |-> "canvas"]
    /\ burst = FALSE /\ unused = Ids \ Painted(Given)
    /\ before = Given /\ upset = FALSE /\ meddled = 0

Press == \/ PressWithNote \/ PressToDraw \/ PressEmpty
         \/ \E i \in Ids : PressTextOn(i) \/ PressHandle(i) \/ PressElement(i) \/ ShiftPress(i) \/ DoublePress(i)
Drag  == DragTo \/ Frame \/ Flush \/ LateFrame \/ EndDrag \/ EndNote \/ CancelDrag
Key   == \/ KeyUndo \/ KeyRedo \/ KeyDelete \/ KeyNudge \/ KeyCopies \/ KeySelectAll \/ KeyEscape \/ KeyEnter
         \/ \E t \in Tools : KeyTool(t) \/ ClickTool(t)
         \/ ClickStyle
Field == screen.focus = "editor" /\ (Opened \/ Type \/ Erase \/ EndEdit)
Other == Pause \/ \E i \in Ids : PeerMoves(i) \/ PeerWrites(i) \/ PeerDeletes(i)

Next == Press \/ Drag \/ Key \/ Field \/ Other

Spec == Init /\ [][Next]_vars

---------------------------------------------------------------------------
(* What must hold. *)

(* Every variable has its type, and an undo entry names what it changed. *)
Elements == [kind : {"none", "note", "text", "shape", "path"}, at : Int, size : Nat,
             form : 0..1, ink : 0..1, said : SUBSET {"me", "peer"}]
Entries(stack) == \A k \in DOMAIN stack :
    /\ DOMAIN stack[k].was = DOMAIN stack[k].is /\ DOMAIN stack[k].is \subseteq Ids
    /\ stack[k].ops \subseteq 1..MaxOps
TypeOK ==
    /\ ed.doc \in [Ids -> Elements] /\ Entries(ed.undo) /\ Entries(ed.redo)
    /\ ed.open \in BOOLEAN /\ ed.op \in 0..MaxOps
    /\ ui.tool \in Tools /\ ui.selection \subseteq Ids /\ ui.editing \in Ids \cup {None}
    /\ drag.kind \in {"none", "note", "stroke", "draw", "resize", "move", "marquee"} /\ drag.ids \subseteq Ids
    /\ screen.painted \cup screen.late \subseteq {"shift", "box", "marquee"} \X (Ids \cup {None})
    /\ screen.focus \in {"canvas", "editor", "body", "chrome"}
    /\ unused \subseteq Ids /\ meddled \in 0..MaxMeddling

(* "Each gesture is exactly one Cmd+Z" (useBoardTools onGestureStart): an    *)
(* undo step holds what one press, drag, run of keys or edit did, and no    *)
(* two hold parts of the same, unless a key or a long pause cut into one.   *)
OneStepEach ==
    upset \/ LET all == ed.undo \o ed.redo
             IN \A j, k \in DOMAIN all : /\ Cardinality(all[j].ops) = 1
                                         /\ j # k => all[j].ops \cap all[k].ops = {}

(* What a cancelled drag must leave: a resize, what boxes tell of elements. *)
Told(d) == [i \in Ids |-> IF drag.kind = "resize" /\ i \in drag.ids THEN BboxOf(d[i]) ELSE d[i]]

(* A cancelled drag leaves the document as it was at the press, but for what *)
(* peers did and, after a resize, for the form of what was resized: its box  *)
(* is put back, with its samples rounded and its line running down and right *)
(* (beginResize cancel; see TakenBackWhole).                                 *)
CancelTakesBack == [][CancelDrag /\ ~upset => Told(ed'.doc) = Told(before)]_vars

(* A move ends within half a unit of where the pointer let go, however the  *)
(* timer divided it, and the elements keep their places by each other; a    *)
(* resize and a stroke end exactly there.                                   *)
LandsWhereReleased ==
    [][EndDrag /\ ~upset =>
        \A i \in drag.ids : ed'.doc[i] # Nothing =>
            CASE drag.kind = "move" -> LET by == 2 * (ed'.doc[i].at - before[i].at) - drag.total IN by \in -1..1
              [] drag.kind \in {"resize", "stroke"} -> ed'.doc[i].size = drag.total
              [] OTHER -> TRUE]_vars

(* What a drag has not written yet has a timer armed to write it: a pause   *)
(* of the hand never leaves peers with an older picture.                    *)
PendingIsScheduled ==
    CASE drag.kind = "move"   -> Round(residue(drag)) # 0 => drag.timer
      [] drag.kind = "stroke" -> drag.total # drag.flushed => drag.timer
      [] drag.kind \in {"resize", "draw"} ->
            ~upset => \A i \in drag.ids : ed.doc[i].size # drag.total => drag.timer \/ ed.doc[i] = Nothing
      [] OTHER -> TRUE

(* The preview box and the marquee are on show only during the drag they    *)
(* belong to, even when keys or peers took its element away.                *)
PreviewsEnd ==
    \A p \in screen.painted :
        /\ p[1] = "box" => drag.kind \in {"resize", "draw"} /\ p[2] \in drag.ids
        /\ p[1] = "marquee" => drag.kind = "marquee"

(* An empty text box is being drawn or edited: none is left on the board    *)
(* (BoardSurface dropIfBlank), whichever way its edit ended, and no undo,   *)
(* redo, copy or peer brings one back, until a key in mid-drag or a long    *)
(* pause has come between (see NoBlankEver).                                *)
NoStrayBlank ==
    upset \/ \A i \in Ids : Blank(ed.doc[i]) => i = ui.editing \/ (drag.kind = "draw" /\ i \in drag.ids)

(* However a drag ends, the document has what the hand did, or nothing of   *)
(* it but the form of what a cancelled resize had taken hold of.            *)
DragsLand == LandsWhereReleased /\ CancelTakesBack

(* What belongs to a drag or an edit ends with it: previews, boxes and, until *)
(* a key in mid-drag or a long pause has come between, an empty text box; and *)
(* what is not written yet has a timer that will write it.                    *)
NothingLingers == TypeOK /\ PendingIsScheduled /\ PreviewsEnd /\ NoStrayBlank

---------------------------------------------------------------------------
(* Claims of the code's comments that the runs refute. *)

(* "Whatever it did is taken back" (DragHandlers.cancel): when a drag that   *)
(* has moved is cancelled, what it took hold of is as it was, form included. *)
TakenBackWhole == [][CancelDrag /\ ~upset /\ drag.total # drag.from.size => ed'.doc = before]_vars

(* A text box left empty is "a stray "Type something" on the board"          *)
(* (discardIfBlank): none is left, not even by an undo that takes its words  *)
(* and, cut from them by a pause, not its making.                            *)
NoBlankEver == \A i \in Ids : Blank(ed.doc[i]) => i = ui.editing \/ (drag.kind = "draw" /\ i \in drag.ids)

(* "The two never double-count" (beginMove): no element stays displaced by  *)
(* a transform once nothing drags it.                                       *)
ShiftsEnd == \A p \in screen.painted : p[1] = "shift" => drag.kind = "move"

(* "A gesture is never split in two" (useUndo): also after a pause.         *)
NeverSplit == \A j, k \in DOMAIN ed.undo : j # k => ed.undo[j].ops \cap ed.undo[k].ops = {}

(* "Whatever already reached the document goes back" (beginMove cancel):    *)
(* once, also when Cmd+Z has taken it back already.                         *)
TakenBackOnce == [][CancelDrag /\ drag.flushed # 0 /\ ed.undo = <<>> => ed'.doc = before]_vars

(* Shortcuts go on working when an edit has ended (BoardSurface endEdit).   *)
KeysAreHeard == ui.editing = None => screen.focus # "body"

(* Undo is personal (useUndo.test.ts): it never takes a peer's words.       *)
UndoIsPersonal ==
    [][KeyUndo => \A i \in Ids : "peer" \in ed.doc[i].said => "peer" \in ed'.doc[i].said]_vars
=============================================================================
