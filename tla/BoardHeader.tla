---------------------------- MODULE BoardHeader ----------------------------
(***************************************************************************)
(* What a board's own page keeps for the pages around it: its title        *)
(* (BoardTitle) and its picture on My Boards (useThumbnail).               *)
(*                                                                         *)
(* Nobody else renames the board, and a call is served in the order calls  *)
(* are sent but answered in any.  A drawing is a number, one more at each  *)
(* stroke of this browser; peers' strokes make no picture.  Empty boards   *)
(* and the signature's age are left out.  Races: "twice" renames again     *)
(* under a rename, and "upload" lets a save outlast the next idle timer.   *)
(***************************************************************************)
EXTENDS MyBoards

VARIABLES
    named,     \* the server: the title of this board
    head,      \* BoardTitle: [title, pending, editing, draft, settled, opened]
    leaving,   \* whether the field that closed is still to blur
    escaped,   \* history: the opening that Escape was pressed in, 0 for none
    saves,     \* renames that are out: [n, title]
    drawn,     \* strokes on the board
    pic,       \* useThumbnail: [dirty, timer, stray, stage, shot]
    picture,   \* the server: the strokes the thumbnail shows
    missed     \* history: a save failed or was given up since the last stroke

header  == <<named, head, leaving, escaped, saves>>
drawing == <<drawn, pic, picture, missed>>
corner  == <<header, drawing>>

\* Both are for whoever has a board open, here its owner.
OnBoard == page = "board"

HeaderInit ==
    /\ named = CHOOSE t \in Titles : TRUE
    /\ head = [title |-> named, pending |-> NoTitle, editing |-> FALSE, draft |-> NoTitle,
               settled |-> FALSE, opened |-> 0]
    /\ leaving = FALSE
    /\ escaped = 0
    /\ saves = {}
    /\ drawn = 0
    /\ pic = [dirty |-> FALSE, timer |-> FALSE, stray |-> FALSE, stage |-> "idle", shot |-> 0]
    /\ picture = 0
    /\ missed = FALSE

-----------------------------------------------------------------------------
(* BoardTitle.                                                             *)

\* The new title while it is on its way, optimistically.
ShownTitle == IF head.pending = NoTitle THEN head.title ELSE head.pending

OpenTitle ==
    /\ Does
    /\ OnBoard /\ ~head.editing /\ ~leaving
    /\ saves = {} \/ "twice" \in Races
    /\ head' = [head EXCEPT !.settled = FALSE, !.draft = ShownTitle, !.editing = TRUE,
                            !.opened = @ + 1]
    /\ UNCHANGED <<account, myBoards, drawing, named, leaving, escaped, saves>>

TypeTitle(t) ==
    /\ Does
    /\ head.editing /\ head.draft # t
    /\ head' = [head EXCEPT !.draft = t]
    /\ UNCHANGED <<account, myBoards, drawing, named, leaving, escaped, saves>>

\* save: the first of Enter and blur counts.
Save ==
    IF head.settled THEN UNCHANGED <<head, saves, named>>
    ELSE IF head.draft = ShownTitle
    THEN head' = [head EXCEPT !.settled = TRUE, !.editing = FALSE] /\ UNCHANGED <<saves, named>>
    ELSE /\ head' = [head EXCEPT !.settled = TRUE, !.editing = FALSE, !.pending = head.draft]
         /\ \/ named' = head.draft
               /\ saves' = saves \cup {[n |-> head.opened, title |-> head.draft, ok |-> TRUE]}
            \/ named' = named
               /\ saves' = saves \cup {[n |-> head.opened, title |-> head.draft, ok |-> FALSE]}

Enter ==
    /\ Does
    /\ head.editing
    /\ Save
    /\ leaving' = TRUE
    /\ UNCHANGED <<account, myBoards, drawing, escaped>>

\* cancel.
Cancelled(h) == [h EXCEPT !.settled = TRUE, !.editing = FALSE]

Escape ==
    /\ Does
    /\ head.editing
    /\ head' = Cancelled(head)
    /\ leaving' = TRUE
    /\ escaped' = head.opened
    /\ UNCHANGED <<account, myBoards, drawing, named, saves>>

\* The person presses elsewhere, or the field that Enter or Escape took away
\* loses the focus with it.
BlurTitle ==
    /\ head.editing \/ leaving
    /\ IF leaving THEN UNCHANGED inputs ELSE Does
    /\ leaving' = FALSE
    /\ Save
    /\ UNCHANGED <<account, myBoards, drawing, escaped>>

\* onRenamed, and finally.
TitleAnswered(h, s) == [h EXCEPT !.title = IF s.ok THEN s.title ELSE @, !.pending = NoTitle]

SaveLands(s) ==
    /\ s \in saves
    /\ saves' = saves \ {s}
    /\ head' = TitleAnswered(head, s)
    /\ UNCHANGED <<account, myBoards, drawing, named, leaving, escaped, inputs>>

-----------------------------------------------------------------------------
(* useThumbnail.                                                           *)

\* A local update: five idle seconds from now.
Stroke ==
    /\ Does
    /\ OnBoard
    /\ drawn' = drawn + 1
    /\ pic' = [pic EXCEPT !.dirty = TRUE, !.timer = TRUE]
    /\ missed' = FALSE
    /\ UNCHANGED <<account, myBoards, header, picture>>

\* The picture is of what is drawn by now: whatever comes later is dirty again.
Shot(p) == [p EXCEPT !.stage = "signing", !.shot = drawn, !.dirty = FALSE]

\* save: not while one is in flight.
SavePicture(p) == IF p.stage # "idle" \/ ~p.dirty THEN p ELSE Shot(p)

TimerFires ==
    /\ OnBoard
    /\ pic.stage = "idle" \/ "upload" \in Races
    /\ \/ pic.timer /\ pic' = SavePicture([pic EXCEPT !.timer = FALSE])
       \/ pic.stray /\ pic' = SavePicture([pic EXCEPT !.stray = FALSE, !.timer = FALSE])
    /\ UNCHANGED <<account, myBoards, header, drawn, picture, missed, inputs>>

\* The tab is hidden: save forgets the timer without clearing it.
Hide ==
    /\ Does
    /\ OnBoard /\ pic.dirty
    /\ pic.stage = "idle" \/ "upload" \in Races
    /\ pic' = SavePicture([pic EXCEPT !.timer = FALSE, !.stray = @ \/ pic.timer])
    /\ UNCHANGED <<account, myBoards, header, drawn, picture, missed>>

\* Mutant: what was drawn meanwhile is taken to be in the picture.
IdleAndClean(p) == [p EXCEPT !.stage = "idle", !.dirty = FALSE]

\* finally.
Idle(p) == [p EXCEPT !.stage = "idle"]

\* The signature, the upload and the confirmation.  Failure is silent, and a
\* page that was left stops before it confirms.
PictureGoesOn ==
    /\ pic.stage # "idle"
    /\ \/ pic.stage = "signing" /\ OnBoard /\ pic' = [pic EXCEPT !.stage = "uploading"]
          /\ UNCHANGED <<picture, missed>>
       \/ pic.stage = "uploading" /\ OnBoard /\ pic' = [pic EXCEPT !.stage = "confirming"]
          /\ UNCHANGED <<picture, missed>>
       \/ pic.stage = "confirming" /\ pic' = Idle(pic) /\ picture' = pic.shot
          /\ UNCHANGED missed
       \/ pic' = Idle(pic) /\ missed' = TRUE /\ UNCHANGED picture
    /\ UNCHANGED <<account, myBoards, header, drawn, inputs>>

HeaderNext ==
    \/ OpenTitle \/ Enter \/ Escape \/ BlurTitle
    \/ \E t \in Titles : TypeTitle(t)
    \/ \E s \in saves : SaveLands(s)
    \/ Stroke \/ TimerFires \/ Hide \/ PictureGoesOn

Init == MyBoardsInit /\ HeaderInit

\* Leaving the board takes its timers away and settles nothing.
LeavesBoard ==
    IF OnBoard /\ page' # "board"
    THEN /\ pic' = [pic EXCEPT !.timer = FALSE, !.stray = FALSE]
         /\ head' = [head EXCEPT !.editing = FALSE]
         /\ missed' = TRUE
         /\ UNCHANGED <<named, leaving, escaped, saves, drawn, picture>>
    ELSE UNCHANGED corner

Next == HeaderNext \/ (MyBoardsNext /\ LeavesBoard)

vars == <<account, myBoards, corner, inputs>>
Spec == Init /\ [][Next]_vars

-----------------------------------------------------------------------------
TypeOK ==
    /\ AccountTypeOK /\ MyBoardsTypeOK
    /\ {named, head.title} \subseteq Titles
    /\ {head.pending, head.draft} \subseteq Titles \cup {NoTitle}
    /\ \A s \in saves : s.title \in Titles
    /\ pic.stage \in {"idle", "signing", "uploading", "confirming"}
    /\ {drawn, pic.shot, picture} \subseteq 0..MaxInputs

\* With no rename out, the page shows the title the server has: "until the
\* server either agrees or says why not" (BoardTitle.tsx:35-36).
TitleAgrees == saves = {} => ShownTitle = named

\* Escape changes nothing: neither it nor the blur that follows sends a rename
\* (BoardTitle.tsx:38-39).
EscapeKeepsTitle == \A s \in saves : s.n # escaped

\* A board that is at rest is pictured as it is, unless a save failed or the
\* page was left: an edit made during a save leads to another.
PictureIsLatest ==
    (OnBoard /\ pic.stage = "idle" /\ ~pic.timer /\ ~pic.stray /\ ~missed) => picture = drawn

\* Signing in: the pages show who is signed in, the code step names an inbox that
\* was mailed to, a form that is done stays quiet unless it is pressed again, and
\* a guest's token is kept until its board has an owner.
SignInIsTrue ==
    /\ [](TypeOK /\ ShownIsSignedIn /\ CodeWasMailed /\ QuietOnceIn)
    /\ TokenUntilOwned

\* With nothing out, My Boards, its id hint and a board's title show what the
\* server has, and a title that was given up was not sent.
PagesAgree == ListAgrees /\ HintIsOfTheField /\ TitleAgrees /\ EscapeKeepsTitle
============================================================================
