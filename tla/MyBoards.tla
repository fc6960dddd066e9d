----------------------------- MODULE MyBoards ------------------------------
(***************************************************************************)
(* The My Boards page: the list (useResource), the tiles' menu, the dialogs *)
(* that rename and delete, and the dialog that makes a board under an id of *)
(* one's own (CreateBoardDialog).                                          *)
(*                                                                         *)
(* This browser alone changes the boards.  A call is served at one moment  *)
(* and answered at a later one, so answers come in any order; a call that  *)
(* fails was not served.  The list's order, dates and pictures are left    *)
(* out.  Races: "tile" uses a tile while the page's calls are out,          *)
(* "dialog" while another dialog's call is, and "reopen" opens or changes   *)
(* the create dialog under a call of its own.                              *)
(***************************************************************************)
EXTENDS Account

CONSTANTS
    Titles,
    NoTitle,      \* the title of a board there is not
    NoId          \* an empty id field

ASSUME MyBoardsAssumption == NoTitle \notin Titles /\ NoId \notin Ids

VARIABLES
    title,     \* the server: the title of each board
    list,      \* useResource: [status, tiles, doubled]
    gen,       \* its generation
    asks,      \* this page's calls that are out
    asking,    \* BoardsList's asking, with the dialog's busy
    claim,     \* ?claim=: "due", "out" or "done"
    create,    \* CreateBoardDialog: [open, id, hint, gen, busy]
    about,     \* history: the id the hint was given for
    checks     \* its calls that are out

myBoards == <<title, list, gen, asks, asking, claim, create, about, checks>>
listed   == <<list, gen, asks, asking, claim>>
tiles    == <<title, listed>>
making   == <<create, about, checks>>

\* useResource's key: My Boards is loaded for somebody, on its page.
Key == IF page = "boards" THEN user ELSE NoOne

Tile(i, t) == [id |-> i, title |-> t]

OwnedBy(u) == {Tile(i, title[i]) : i \in {j \in Ids : title[j] # NoTitle /\ owner[j] = u}}

Ask(kind, n, i, t) ==
    [kind |-> kind, n |-> n, id |-> i, title |-> t, as |-> cookie', state |-> "sent",
     got |-> {}, live |-> TRUE]

Unloaded(s) == [status |-> s, tiles |-> {}, doubled |-> {}]
Unasked     == [kind |-> "none", id |-> NoId, title |-> NoTitle, open |-> FALSE,
                opened |-> 0, busy |-> FALSE]
Closed      == [open |-> FALSE, id |-> NoId, hint |-> "idle", gen |-> 0, busy |-> FALSE]

MyBoardsInit ==
    /\ AccountInit
    /\ \E t \in Titles : title = [i \in Ids |-> IF i = Guest \/ owner[i] # NoOne
                                                THEN t ELSE NoTitle]
    /\ list = Unloaded("idle")
    /\ gen = 0
    /\ asks = {}
    /\ asking = Unasked
    /\ claim = IF page = "boards" /\ guest = "token" THEN "due" ELSE "done"
    /\ create = Closed
    /\ about = NoId
    /\ checks = {}

-----------------------------------------------------------------------------
(* useResource.                                                            *)

\* A load starts: a new generation, and whatever was shown is gone.
Load(out) ==
    /\ gen' = gen + 1
    /\ list' = Unloaded("loading")
    /\ asks' = out \cup {Ask("list", gen + 1, NoId, NoTitle)}

\* The page, or who it is for, changes: another key is another list, and what
\* the last one had called reaches nothing.
ListFollows ==
    IF Key' = Key THEN UNCHANGED listed
    ELSE LET gone == {[a EXCEPT !.live = FALSE] : a \in asks}
         IN  /\ (\A a \in asks : a.kind = "list") \/ "hurry" \in Races
             /\ IF Key' = NoOne
                  THEN list' = Unloaded("idle") /\ gen' = gen /\ asks' = gone
                  ELSE Load(gone)
             /\ asking' = Unasked
             /\ UNCHANGED claim

\* Mutant: whatever arrives is shown.
AnyGeneration(a) == a.live

\* An abort only stops the fetch: the generation stops the rest.
Current(a) == a.live /\ a.n = gen

ListLands(a) ==
    /\ a \in asks /\ a.kind = "list" /\ a.state # "sent"
    /\ list' = IF ~Current(a) THEN list
               ELSE IF a.state = "ok" THEN [status |-> "ready", tiles |-> a.got, doubled |-> {}]
               ELSE Unloaded("error")
    /\ asks' = asks \ {a}
    /\ UNCHANGED <<account, making, title, gen, asking, claim, inputs>>

\* "Try again".
Reload ==
    /\ Does
    /\ Key # NoOne /\ list.status = "error"
    /\ UNCHANGED <<account, making, title, asking, claim>>
    /\ Load(asks)

\* update: applied to what is shown by then, and to nothing while it loads.
Update(new) == list' = IF list.status = "ready" THEN new ELSE list

-----------------------------------------------------------------------------
(* The server.                                                             *)

\* A call is of the session it was sent in, if that has not ended.
Signed(a) == cookie # NoOne /\ a.as = cookie

Owned(a) == Signed(a) /\ owner[a.id] = cookie /\ title[a.id] # NoTitle

Answer(a, b) == asks' = (asks \ {a}) \cup {b}

\* A copy gets a title of its own.
Served(a) ==
    /\ a \in asks /\ a.state = "sent"
    /\ \/ Answer(a, [a EXCEPT !.state = "no"]) /\ UNCHANGED <<owner, title>>
       \/ /\ a.kind = "list" /\ Signed(a)
          /\ Answer(a, [a EXCEPT !.state = "ok", !.got = OwnedBy(cookie)])
          /\ UNCHANGED <<owner, title>>
       \/ /\ a.kind = "rename" /\ Owned(a)
          /\ title' = [title EXCEPT ![a.id] = a.title]
          /\ Answer(a, [a EXCEPT !.state = "ok"])
          /\ UNCHANGED owner
       \/ /\ a.kind = "delete" /\ Owned(a)
          /\ title' = [title EXCEPT ![a.id] = NoTitle]
          /\ owner' = [owner EXCEPT ![a.id] = NoOne]
          /\ Answer(a, [a EXCEPT !.state = "ok"])
       \/ /\ a.kind = "copy" /\ Signed(a) /\ title[a.id] # NoTitle
          /\ \E i \in Ids, t \in Titles :
                /\ title[i] = NoTitle
                /\ title' = [title EXCEPT ![i] = t]
                /\ owner' = [owner EXCEPT ![i] = cookie]
                /\ Answer(a, [a EXCEPT !.state = "ok", !.got = {Tile(i, t)}])
    /\ UNCHANGED <<page, cookie, user, status, me, mine, form, calls, mail, wanted, landed,
                   guest, inputs, making, list, gen, asking, claim>>

-----------------------------------------------------------------------------
(* BoardsList, TileMenu and BoardDialogs.                                  *)

\* Patience: a tile is used when nothing of the page is out.
Calm == asks = {} /\ claim = "done"

TileUsed(t) ==
    /\ Does
    /\ Key # NoOne /\ list.status = "ready" /\ t \in list.tiles /\ ~asking.open
    /\ UNCHANGED <<account, making, title, list, gen, claim>>
    /\ Calm \/ (claim # "out" /\ "dialog" \in Races) \/ "tile" \in Races

Duplicate(t) ==
    /\ TileUsed(t)
    /\ asks' = asks \cup {Ask("copy", inputs', t.id, NoTitle)}
    /\ UNCHANGED asking

\* Each opening is a dialog of its own.
OpenDialog(kind, t) ==
    /\ TileUsed(t)
    /\ asking' = [kind |-> kind, id |-> t.id, title |-> t.title, open |-> TRUE,
                  opened |-> asking.opened + 1, busy |-> FALSE]
    /\ UNCHANGED asks

\* Cancel, Esc, or a press outside: also while the call is out.
StopAsking ==
    /\ Does
    /\ asking.open
    /\ asking' = [asking EXCEPT !.open = FALSE]
    /\ UNCHANGED <<account, making, title, list, gen, asks, claim>>

\* RenameBoardDialog's submit and DeleteBoardDialog's confirm.  The same title
\* only closes.
Confirm(t) ==
    /\ Does
    /\ asking.open /\ ~asking.busy
    /\ asking.kind = "delete" => t = asking.title
    /\ UNCHANGED <<account, making, title, list, gen, claim>>
    /\ IF asking.kind = "rename" /\ t = asking.title
         THEN asking' = [asking EXCEPT !.open = FALSE] /\ UNCHANGED asks
         ELSE /\ asking' = [asking EXCEPT !.busy = TRUE]
              /\ asks' = asks \cup {Ask(asking.kind, asking.opened, asking.id, t)}

\* replace, for a new title or for none.  onRenamed and onDeleted are of the
\* render that sent the call: its target.
Replaced(a) ==
    [list EXCEPT !.tiles = IF a.kind = "delete" THEN {t \in @ : t.id # a.id}
                           ELSE {IF t.id = a.id THEN Tile(a.id, a.title) ELSE t : t \in @}]

\* The copy goes on top, without asking whether it is there already.
Prepended(a) ==
    [list EXCEPT !.tiles = @ \cup a.got,
                 !.doubled = @ \cup {t.id : t \in a.got \cap list.tiles}]

\* A dialog's answer closes the dialog, whichever is open by then; a failure
\* stays inside the one that asked.
DialogAnswered(a) ==
    [asking EXCEPT !.open = @ /\ a.state = "no", !.busy = @ /\ a.n # asking.opened]

ChangeLands(a) ==
    /\ a \in asks /\ a.kind # "list" /\ a.state # "sent"
    /\ asks' = asks \ {a}
    /\ IF ~a.live THEN UNCHANGED <<list, asking>>
       ELSE /\ IF a.state = "no" THEN list' = list
               ELSE Update(IF a.kind = "copy" THEN Prepended(a) ELSE Replaced(a))
            /\ asking' = IF a.kind = "copy" THEN asking ELSE DialogAnswered(a)
    /\ UNCHANGED <<account, making, title, gen, claim, inputs>>

\* Arriving from an OAuth sign-in that carried ?claim=: once.  A board that was
\* claimed is one more to list.
ClaimStarts ==
    /\ claim = "due" /\ Key # NoOne
    /\ claim' = "out"
    /\ UNCHANGED <<account, making, title, list, gen, asks, asking, inputs>>

ClaimLands ==
    /\ claim = "out"
    /\ claim' = "done"
    /\ \E ok \in BOOLEAN : ClaimServed(ok)
    /\ UNCHANGED <<page, cookie, user, status, me, mine, form, calls, mail, wanted, landed,
                   inputs, making, title, asking>>
    /\ IF guest' # guest /\ Key # NoOne THEN Load(asks) ELSE UNCHANGED <<list, gen, asks>>

-----------------------------------------------------------------------------
(* CreateBoardDialog, opened from NewBoardButton on the home page.         *)

OpenCreate ==
    /\ Does
    /\ page = "home" /\ ~create.open
    /\ checks = {} \/ "reopen" \in Races
    /\ create' = [create EXCEPT !.open = TRUE, !.id = NoId, !.hint = "idle", !.busy = FALSE]
    /\ UNCHANGED <<account, tiles, about, checks>>

CloseCreate ==
    /\ Does
    /\ create.open
    /\ create' = [create EXCEPT !.open = FALSE]
    /\ UNCHANGED <<account, tiles, about, checks>>

\* Stale in-flight checks no longer apply.
NextCheck(n) == n + 1

TypeId(i) ==
    /\ Does
    /\ create.open /\ create.id # i
    /\ ~create.busy \/ "reopen" \in Races
    /\ create' = [create EXCEPT !.id = i, !.hint = "idle", !.gen = NextCheck(@)]
    /\ UNCHANGED <<account, tiles, about, checks>>

\* checkId, as the field loses the focus.
Blur ==
    /\ Does
    /\ create.open
    /\ IF create.id = NoId THEN create' = [create EXCEPT !.hint = "idle"] /\ UNCHANGED checks
       ELSE /\ create' = [create EXCEPT !.hint = "checking", !.gen = @ + 1]
            /\ checks' = checks \cup {[kind |-> "check", n |-> create.gen + 1, id |-> create.id]}
    /\ UNCHANGED <<account, tiles, about>>

CheckLands(c) ==
    /\ c \in checks /\ c.kind = "check"
    /\ checks' = checks \ {c}
    /\ IF c.n # create.gen THEN UNCHANGED <<create, about>>
       ELSE \/ create' = [create EXCEPT !.hint = "idle"] /\ UNCHANGED about
            \/ /\ create' = [create EXCEPT !.hint = IF title[c.id] = NoTitle THEN "available"
                                                    ELSE "taken"]
               /\ about' = c.id
    /\ UNCHANGED <<account, tiles, inputs>>

SubmitCreate ==
    /\ Does
    /\ create.open /\ ~create.busy /\ create.hint \notin {"checking", "taken"}
    /\ create' = [create EXCEPT !.busy = TRUE]
    /\ checks' = checks \cup {[kind |-> "create", n |-> 0, id |-> create.id]}
    /\ UNCHANGED <<account, tiles, about>>

\* NewBoardButton's own press: one board at a time, with an id the server picks.
NewBoard ==
    /\ Does
    /\ page = "home" /\ \A c \in checks : c.kind = "check"
    /\ ~create.open
    /\ checks' = checks \cup {[kind |-> "create", n |-> 1, id |-> NoId]}
    /\ UNCHANGED <<account, tiles, create, about>>

\* createBoard is answered: on to the board, a dialog closed meanwhile or not;
\* or the id was taken after all; or it failed.
CreateLands(c) ==
    /\ c \in checks /\ c.kind = "create"
    /\ checks' = checks \ {c}
    /\ \/ \E i \in Ids :
             /\ title[i] = NoTitle /\ c.id \in {i, NoId}
             /\ title' = [title EXCEPT ![i] = CHOOSE t \in Titles : TRUE]
             /\ owner' = [owner EXCEPT ![i] = cookie]
             /\ page' = "board"
             /\ create' = [create EXCEPT !.open = @ /\ c.n # 0, !.busy = FALSE]
             /\ UNCHANGED <<user, status>>
             /\ Shows(form, calls)
             /\ UNCHANGED about
       \/ /\ c.id # NoId /\ title[c.id] # NoTitle
          /\ create' = [create EXCEPT !.busy = FALSE, !.hint = "taken"]
          /\ about' = c.id
          /\ UNCHANGED <<page, user, status, form, calls, wanted, landed, owner, title>>
       \/ /\ create' = [create EXCEPT !.busy = FALSE]
          /\ UNCHANGED <<about, page, user, status, form, calls, wanted, landed, owner, title>>
    /\ ListFollows
    /\ UNCHANGED <<cookie, me, mine, mail, guest, inputs>>

MyBoardsNext ==
    \/ AccountNext /\ ListFollows /\ UNCHANGED <<title, making>>
    \/ \E a \in asks : ListLands(a) \/ Served(a) \/ ChangeLands(a)
    \/ Reload \/ StopAsking \/ ClaimStarts \/ ClaimLands
    \/ \E t \in list.tiles : \/ Duplicate(t)
                             \/ \E kind \in {"rename", "delete"} : OpenDialog(kind, t)
    \/ \E t \in Titles : Confirm(t)
    \/ OpenCreate \/ CloseCreate \/ Blur \/ SubmitCreate \/ NewBoard
    \/ \E i \in Ids \cup {NoId} : TypeId(i)
    \/ \E c \in checks : CheckLands(c) \/ CreateLands(c)

-----------------------------------------------------------------------------
TileSet == [id : Ids, title : Titles]

MyBoardsTypeOK ==
    /\ title \in [Ids -> Titles \cup {NoTitle}]
    /\ list.status \in {"idle", "loading", "ready", "error"}
    /\ list.tiles \subseteq TileSet /\ list.doubled \subseteq Ids
    /\ \A a \in asks : a.state \in {"sent", "ok", "no"} /\ a.got \subseteq TileSet
    /\ asking.kind \in {"none", "rename", "delete"} /\ asking.id \in Ids \cup {NoId}
    /\ claim \in {"due", "out", "done"}
    /\ create.hint \in {"idle", "checking", "available", "taken"}
    /\ about \in Ids \cup {NoId}

\* With nothing out, the page shows the account's boards, each once: the
\* mutations patch what a load brought (BoardsList.tsx:114-148) and no answer of
\* an older load gets in (useResource.ts:67-76).
ListAgrees ==
    (list.status = "ready" /\ asks = {} /\ claim # "out" /\ user = cookie) =>
        list.tiles = OwnedBy(cookie) /\ list.doubled = {}

\* What the id field says of an id is about the id in it: "A generation counter
\* discards a stale reply" (CreateBoardDialog.tsx:82-84).
HintIsOfTheField == create.open /\ create.hint \in {"available", "taken"} => about = create.id

\* A dialog is closed by whoever it asks, or by its own answer: an answer to an
\* earlier one leaves it be (BoardsList.tsx:227-228).
DialogIsLeftAlone ==
    [][\A a \in asks \ asks' : (asking.open /\ a.n # asking.opened) => asking'.open]_<<asks, asking>>
============================================================================
