------------------------------ MODULE Pointer -------------------------------
(***************************************************************************)
(* The pointer layer of the canvas: which of a press, a pinch and a pan    *)
(* has the gesture (useBoardGestures), the camera and its glide (useCamera,*)
(* viewport), and the cursor peers are told of (board-session setCursor).  *)
(*                                                                         *)
(* Pointers go down and up in any order, on the canvas or on what floats   *)
(* over it; the browser takes a pointer, its capture or the window's focus *)
(* away when it likes.  Zoom stops are the even numbers and a glide passes *)
(* through the odd ones between; a camera moved by hand counts its moves.  *)
(***************************************************************************)
EXTENDS Integers, Sequences, FiniteSets, SequencesExt

CONSTANTS
    Fingers, Mice,   \* pointers: touches, and mice or pens
    Points,          \* places the cursor can be, further than an epsilon apart
    Nowhere,         \* no cursor
    MaxStop,         \* the highest zoom stop; the lowest is 0
    MaxInputs        \* bound: what the user presses, moves or chooses

PointerAssumption ==
    /\ Fingers \cap Mice = {} /\ Nowhere \notin Points
    /\ {MaxStop, MaxInputs} \subseteq Nat
    /\ MaxStop % 2 = 0

Pointers == Fingers \cup Mice

VARIABLES
    down,       \* pointers that are pressed
    fingers,    \* the fingers map, in the order of insertion
    gesture,    \* kind, and the pointers it follows
    captured,   \* pointers the host has captured
    drags,      \* history: tool drags begun, and ended or cancelled
    keys,       \* the space key is down; the hook holds that it is; the window
                \* has the focus
    panOnly,    \* the Hand tool is chosen
    fitted,     \* the camera was shown the content, when the document came
    cursor,     \* at: where the pointer is; published, pending, has, timer
    camera,     \* zoom, and how often it was moved by hand
    glide,      \* on, to, expected, and the heading of useCamera
    wanted,     \* history: the zoom the presses ask for; -1 once a hand has moved it
    inputs

pointerVars == <<down, fingers, gesture, captured, drags, keys, panOnly, fitted,
                 cursor, camera, glide, wanted, inputs>>

hands    == <<down, fingers, gesture, captured, drags>>
sight    == <<camera, glide, wanted>>
settings == <<keys, panOnly, fitted>>

NoGesture == [kind |-> "none", of |-> {}]
NoCamera  == [zoom |-> -1, hand |-> 0]

---------------------------------------------------------------------------
(* The camera, moved other than by a glide: a wheel, a pan or a pinch. *)

Clamp(z) == IF z < 0 THEN 0 ELSE IF z > MaxStop THEN MaxStop ELSE z

HandMoves ==
    /\ \E z \in {camera.zoom, Clamp(camera.zoom - 1), Clamp(camera.zoom + 1)} :
          /\ camera' = [zoom |-> z, hand |-> camera.hand + 1]
    /\ wanted' = -1 /\ UNCHANGED glide

Wheel == HandMoves /\ UNCHANGED <<hands, settings, cursor>>

(* Once, when the document arrives: a jump to the content, if it is out of view. *)
FitOnLoad ==
    /\ ~fitted /\ fitted' = TRUE
    /\ HandMoves \/ UNCHANGED sight
    /\ UNCHANGED <<keys, panOnly, hands, cursor>>

NextStop(z, up) == Clamp(IF up THEN 2 * (z \div 2) + 2 ELSE 2 * ((z - 1) \div 2))

(* moveTo: a new glide takes over from the one in flight. *)
GlidesTo(target) ==
    glide' = [on |-> TRUE, to |-> target, expected |-> camera, heading |-> target]

From == IF glide.heading # NoCamera THEN glide.heading ELSE camera

(* A zoom button or key steps on from where a glide in flight is heading; *)
(* fit, and back to 100%, go to a stop of their own.                       *)
Zoom ==
    /\ \E up \in BOOLEAN :
          /\ GlidesTo([From EXCEPT !.zoom = NextStop(@, up)])
          /\ wanted' = IF wanted = -1 THEN -1 ELSE NextStop(wanted, up)
    /\ UNCHANGED <<camera, hands, settings, cursor>>

Fit ==
    /\ \E z \in 0..MaxStop : GlidesTo([camera EXCEPT !.zoom = z]) /\ wanted' = z
    /\ UNCHANGED <<camera, hands, settings, cursor>>

Between(a, b) == {z \in 0..MaxStop : (a < z /\ z < b) \/ (b < z /\ z < a)}
Landed == [on |-> FALSE, to |-> NoCamera, expected |-> NoCamera, heading |-> NoCamera]

Tick ==
    /\ glide.on
    /\ \/ camera # glide.expected /\ glide' = Landed /\ UNCHANGED camera
       \/ camera = glide.expected /\ camera' = glide.to /\ glide' = Landed
       \/ /\ camera = glide.expected
          /\ \E z \in Between(camera.zoom, glide.to.zoom) :
                /\ camera' = [glide.to EXCEPT !.zoom = z]
                /\ glide' = [glide EXCEPT !.expected = camera']
    /\ UNCHANGED <<wanted, hands, settings, cursor>>

---------------------------------------------------------------------------
(* The cursor: published at once, then at most every PUBLISH_MS. *)

Publish(c, p) == [c EXCEPT !.published = p, !.pending = p, !.has = FALSE, !.timer = TRUE]

SetCursor(c, p) ==
    LET stands == p # Nowhere /\ c.published = p IN
    CASE stands             -> [c EXCEPT !.at = p]
      [] ~stands /\ c.timer -> [c EXCEPT !.at = p, !.pending = p, !.has = TRUE]
      [] OTHER              -> Publish([c EXCEPT !.at = p], p)

FlushCursor ==
    /\ cursor.timer
    /\ cursor' = IF cursor.has THEN Publish(cursor, cursor.pending) ELSE [cursor EXCEPT !.timer = FALSE]
    /\ UNCHANGED <<hands, settings, sight>>

PointerLeaves ==
    /\ captured # Pointers /\ cursor.at # Nowhere
    /\ cursor' = SetCursor(cursor, Nowhere)
    /\ UNCHANGED <<hands, settings, sight>>

---------------------------------------------------------------------------
(* Presses.  A press on chrome or in a field is not the board's. *)

Took(p, kind) ==
    /\ gesture' = [kind |-> kind, of |-> {p}]
    /\ captured' = captured \cup {p}

PressElsewhere(p) ==
    /\ p \notin down
    /\ down' = down \cup {p}
    /\ UNCHANGED <<fingers, gesture, captured, drags, settings, sight, cursor>>

Noted(p) == IF p \in Fingers THEN Append(fingers, p) ELSE fingers

\* Mutant: a pinch leaves the drag it takes over as it is.
ForgetsDrag(known) ==
    /\ gesture' = [kind |-> "pinch", of |-> {known[1], known[2]}]
    /\ captured' = captured \cup {known[1], known[2]}
    /\ UNCHANGED drags

BecomesPinch(known) ==
    /\ gesture' = [kind |-> "pinch", of |-> {known[1], known[2]}]
    /\ captured' = captured \cup {known[1], known[2]}
    /\ drags' = IF gesture.kind = "tool" THEN [drags EXCEPT !.over = @ + 1] ELSE drags

(* A second finger takes over what a finger had begun, never a pen's drag. *)
MayPinch(known) == gesture.kind # "pinch" /\ gesture.of \subseteq ToSet(known)

PressFinger(p) ==
    /\ p \in Fingers \ down
    /\ Len(Noted(p)) >= 2
    /\ down' = down \cup {p} /\ fingers' = Noted(p)
    /\ IF MayPinch(Noted(p)) THEN BecomesPinch(Noted(p)) ELSE UNCHANGED <<gesture, captured, drags>>
    /\ UNCHANGED <<settings, sight, cursor>>

Press(p) ==
    /\ p \in Pointers \ down
    /\ p \in Mice \/ Len(Noted(p)) < 2
    /\ down' = down \cup {p} /\ fingers' = Noted(p)
    /\ \/ gesture # NoGesture /\ UNCHANGED <<gesture, captured, drags>>
       \/ /\ gesture = NoGesture /\ (keys.space \/ panOnly \/ p \in Mice)  \* a mouse's middle button
          /\ Took(p, "pan") /\ UNCHANGED drags
       \/ /\ gesture = NoGesture /\ ~keys.space /\ ~panOnly
          /\ Took(p, "tool") /\ drags' = [drags EXCEPT !.begun = @ + 1]
       \/ gesture = NoGesture /\ UNCHANGED <<gesture, captured, drags>>  \* the tool took no drag
    /\ UNCHANGED <<settings, sight, cursor>>

Move(p) ==
    /\ p \in down \cup Mice
    /\ IF gesture.kind = "pinch"
       THEN cursor' = cursor /\ IF p \in gesture.of THEN HandMoves ELSE UNCHANGED sight
       ELSE /\ \E at \in Points : cursor' = SetCursor(cursor, at)
            /\ IF gesture.kind = "pan" /\ p \in gesture.of THEN HandMoves ELSE UNCHANGED sight
    /\ UNCHANGED <<hands, settings>>

---------------------------------------------------------------------------
(* Releases.  The host hears of a pointer it captured, or one over it; the  *)
(* window, which forgets the finger, of every one.                          *)

Follows(p) == p \in gesture.of

GestureOver ==
    /\ gesture' = NoGesture
    /\ drags' = IF gesture.kind = "tool" THEN [drags EXCEPT !.over = @ + 1] ELSE drags

FingersWithout(p) ==
    IF \E i \in DOMAIN fingers : fingers[i] = p
    THEN RemoveAt(fingers, CHOOSE i \in DOMAIN fingers : fingers[i] = p)
    ELSE fingers

(* Up, or taken by the browser: pointerup, pointercancel. *)
Release(p) ==
    /\ p \in down /\ down' = down \ {p}
    /\ \E heard \in {TRUE, (p \in captured)} :
          IF heard /\ Follows(p) THEN GestureOver ELSE UNCHANGED <<gesture, drags>>
    /\ captured' = captured \ {p} /\ fingers' = FingersWithout(p)
    /\ UNCHANGED <<settings, sight, cursor>>

(* The browser revokes the capture of a pointer that is still down. *)
LoseCapture(p) ==
    /\ p \in captured /\ captured' = captured \ {p}
    /\ IF Follows(p) THEN GestureOver ELSE UNCHANGED <<gesture, drags>>
    /\ UNCHANGED <<down, fingers, settings, sight, cursor>>

---------------------------------------------------------------------------
(* Space, the window's focus, and the Hand tool. *)

(* Pressed, or repeated while it is held; in a field it is a character. *)
SpaceDown ==
    /\ keys.focused
    /\ \E typing \in BOOLEAN :
          keys' = [keys EXCEPT !.held = TRUE, !.space = IF typing THEN @ ELSE TRUE]
    /\ UNCHANGED <<panOnly, fitted, hands, sight, cursor>>

SpaceUp ==
    /\ keys.held
    /\ keys' = [keys EXCEPT !.held = FALSE, !.space = IF keys.focused THEN FALSE ELSE @]
    /\ UNCHANGED <<panOnly, fitted, hands, sight, cursor>>

Blurred(k) == [k EXCEPT !.focused = FALSE, !.space = FALSE]

WindowBlurs ==
    /\ keys.focused /\ keys' = Blurred(keys)
    /\ UNCHANGED <<panOnly, fitted, hands, sight, cursor>>

WindowFocuses ==
    /\ ~keys.focused /\ keys' = [keys EXCEPT !.focused = TRUE]
    /\ UNCHANGED <<panOnly, fitted, hands, sight, cursor>>

PickHand ==
    /\ gesture = NoGesture /\ panOnly' = ~panOnly
    /\ UNCHANGED <<keys, fitted, hands, sight, cursor>>

---------------------------------------------------------------------------
PointerInit ==
    /\ down = {} /\ fingers = <<>> /\ gesture = NoGesture /\ captured = {}
    /\ drags = [begun |-> 0, over |-> 0]
    /\ keys = [held |-> FALSE, space |-> FALSE, focused |-> TRUE] /\ panOnly = FALSE /\ fitted = FALSE
    /\ cursor = [at |-> Nowhere, published |-> Nowhere, pending |-> Nowhere, has |-> FALSE, timer |-> FALSE]
    /\ camera = [zoom |-> 0, hand |-> 0] /\ glide = Landed /\ wanted = 0
    /\ inputs = 0

Presses(p) == PressElsewhere(p) \/ PressFinger(p) \/ Press(p) \/ Move(p)
Releases(p) == Release(p) \/ LoseCapture(p)

Input == \/ \E p \in Pointers : Presses(p)
         \/ Wheel \/ FitOnLoad \/ Zoom \/ Fit \/ SpaceDown \/ PickHand \/ PointerLeaves
Rest  == \/ \E p \in Pointers : Releases(p)
         \/ SpaceUp \/ WindowBlurs \/ WindowFocuses \/ Tick \/ FlushCursor

PointerNext ==
    \/ inputs < MaxInputs /\ inputs' = inputs + 1 /\ Input
    \/ UNCHANGED inputs /\ Rest

PointerSpec == PointerInit /\ [][PointerNext]_pointerVars

---------------------------------------------------------------------------
(* What must hold. *)

(* Every variable has its type; a gesture follows as many pointers as its  *)
(* kind takes.                                                             *)
PointersTyped ==
    /\ down \cup captured \subseteq Pointers /\ ToSet(fingers) \subseteq Fingers
    /\ gesture.kind \in {"none", "pan", "tool", "pinch"} /\ gesture.of \subseteq Pointers
    /\ Cardinality(gesture.of) = CASE gesture.kind = "none" -> 0 [] gesture.kind = "pinch" -> 2 [] OTHER -> 1
    /\ keys \in [held : BOOLEAN, space : BOOLEAN, focused : BOOLEAN] /\ panOnly \in BOOLEAN
    /\ {cursor.at, cursor.published, cursor.pending} \subseteq Points \cup {Nowhere}
    /\ camera.zoom \in 0..MaxStop /\ camera.hand \in 0..MaxInputs /\ wanted \in -1..MaxStop

(* Every drag a tool was handed is ended or cancelled once, whatever takes  *)
(* the gesture over: none is left running and none is told twice.           *)
DragsAreSettled == drags.begun = drags.over + (IF gesture.kind = "tool" THEN 1 ELSE 0)

(* "Without this the board stays stuck mid-drag" (onLostCapture): what      *)
(* follows a pointer follows one that is down and whose release the host    *)
(* will hear; and the fingers counted are fingers that are down, so that a  *)
(* pinch has two (its moves read both).                                     *)
NothingIsStuck ==
    /\ gesture.of \subseteq down \cap captured
    /\ ToSet(fingers) \subseteq down
    /\ gesture.kind = "pinch" => gesture.of \subseteq ToSet(fingers)

(* "Fingers arriving then are a palm resting on the screen" (startPinch): a *)
(* pen's or mouse's drag is over only by its own release or lost capture.   *)
PalmsAreIgnored ==
    [][\A p \in Mice : gesture.of = {p} /\ gesture' # gesture => p \in captured /\ p \notin captured']_pointerVars

(* "Alt-tabbing ... would leave the board stuck in pan mode" (onBlur).      *)
SpaceIsHeld == keys.space => keys.held /\ keys.focused

(* Zoom presses add up (useCamera heading): while nobody moves the camera   *)
(* by hand, a glide goes to where all of them together lead, and lands      *)
(* there.                                                                   *)
PressesAddUp ==
    wanted # -1 => IF glide.on THEN glide.to.zoom = wanted ELSE camera.zoom = wanted

(* "A drag that strays outside ... should not retract your cursor", and      *)
(* leaving should: once the pointer has left the board, what is on its way to *)
(* the peers last says so, however the throttle cut the moves before it.     *)
LeavingIsTold ==
    cursor.at = Nowhere =>
        IF cursor.has THEN cursor.timer /\ cursor.pending = Nowhere
                      ELSE cursor.published = Nowhere

(* Pointers, keys, cursor and camera, however they interrupt each other.    *)
GesturesAreSettled ==
    /\ [](PointersTyped /\ DragsAreSettled /\ NothingIsStuck /\ SpaceIsHeld)
    /\ [](PressesAddUp /\ LeavingIsTold)
    /\ PalmsAreIgnored

---------------------------------------------------------------------------
(* Claims of the code's comments and tests that the runs refute. *)

(* "The rest coalesce into the trailing flush" (board-session.test.ts): at  *)
(* rest, what peers see is where the pointer is.                            *)
CursorSettles == ~cursor.timer => cursor.published = cursor.at

(* "A wheel or pan mid-glide is never fought" (animateViewport): what the   *)
(* hand moved is not moved back.                                            *)
HandIsNotFought == [][camera'.hand >= camera.hand]_pointerVars
=============================================================================
