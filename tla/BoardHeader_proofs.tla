------------------------- MODULE BoardHeader_proofs -------------------------
(***************************************************************************)
(* Proofs about Account, MyBoards and BoardHeader, for any people, boards, *)
(* titles, codes and bounds.  Types hold under every race; the pages agree *)
(* with the server without the races that refute it, which each theorem    *)
(* names.                                                                  *)
(***************************************************************************)
EXTENDS BoardHeader, TLAPS

-----------------------------------------------------------------------------
(* What the state is made of.                                              *)

Persons == People \cup {NoOne}
Entries == Codes \cup {NoCode}

CallSet ==
    [kind : {"request", "verify", "claim", "replace"}, email : People, code : Entries,
     live : BOOLEAN]

FormSet ==
    [step : {"email", "code"}, email : Persons, code : Entries, sent : Entries,
     busy : BOOLEAN, cooling : BOOLEAN, problem : BOOLEAN, again : BOOLEAN]

\* The code step, and a call that will be heard, are of an inbox.
Inbox == (form.step = "code" \/ \E c \in calls : c.live) => form.email # NoOne

\* A form that is not on the page is a new one, and nothing called reaches it.
Hidden ==
    ~FormShown => /\ form = Fresh /\ wanted = {} /\ landed = FALSE
                  /\ \A c \in calls : ~c.live

AskSet ==
    [kind : {"list", "rename", "delete", "copy"}, n : Nat, id : Ids \cup {NoId},
     title : Titles \cup {NoTitle}, as : Persons, state : {"sent", "ok", "no"},
     got : SUBSET TileSet, live : BOOLEAN]

\* What changes a board names it, and a rename its title.
Aimed(a) ==
    /\ a.kind # "list" => a.id \in Ids
    /\ a.kind = "rename" => a.title \in Titles

ListSet ==
    [status : {"idle", "loading", "ready", "error"}, tiles : SUBSET TileSet, doubled : SUBSET Ids]

DialogSet ==
    [kind : {"none", "rename", "delete"}, id : Ids \cup {NoId}, title : Titles \cup {NoTitle},
     open : BOOLEAN, opened : Nat, busy : BOOLEAN]

ListTypes ==
    /\ title \in [Ids -> Titles \cup {NoTitle}]
    /\ list \in ListSet
    /\ gen \in Nat
    /\ asks \subseteq AskSet /\ \A a \in asks : Aimed(a)
    /\ asking \in DialogSet
    /\ asking.open => asking.kind # "none" /\ asking.id \in Ids /\ asking.title \in Titles
    /\ claim \in {"due", "out", "done"}

CreateSet ==
    [open : BOOLEAN, id : Ids \cup {NoId}, hint : {"idle", "checking", "available", "taken"},
     gen : Nat, busy : BOOLEAN]

CheckSet == [kind : {"check", "create"}, n : Nat, id : Ids \cup {NoId}]

CreateTypes ==
    /\ create \in CreateSet
    /\ about \in Ids \cup {NoId}
    /\ checks \subseteq CheckSet
    /\ \A c \in checks : c.kind = "check" => c.id \in Ids

Rename == [n : Nat, title : Titles, ok : BOOLEAN]

HeadSet ==
    [title : Titles, pending : Titles \cup {NoTitle}, editing : BOOLEAN,
     draft : Titles \cup {NoTitle}, settled : BOOLEAN, opened : Nat]

TitleTypes ==
    /\ named \in Titles
    /\ head \in HeadSet
    /\ head.editing => head.draft \in Titles
    /\ leaving \in BOOLEAN
    /\ leaving => head.settled
    /\ escaped \in Nat
    /\ saves \subseteq Rename

Stages == {"idle", "signing", "uploading", "confirming"}

PicSet(n) == [dirty : BOOLEAN, timer : BOOLEAN, stray : BOOLEAN, stage : Stages, shot : 0..n]

PicTypes ==
    /\ drawn \in 0..inputs
    /\ pic \in PicSet(inputs)
    /\ picture \in 0..inputs
    /\ missed \in BOOLEAN

HeaderTypes == TitleTypes /\ PicTypes

AccountTypes == AccountTypeOK /\ Inbox /\ Hidden

Types == AccountTypes /\ ListTypes /\ CreateTypes /\ HeaderTypes

-----------------------------------------------------------------------------
(* Signing in.                                                             *)

\* Until GET /auth/me has answered, nobody else signs in; from then on the
\* page is told.
Told ==
    /\ me = "out" => cookie = mine /\ user = NoOne /\ status = "loading"
    /\ me = "done" => status # "loading"
    /\ status = "ready" => user = cookie

\* A call that is heard finds the form as it was: but for the page that is to
\* come, whose form is idle and may be pressed once more, one is heard at most.
Heard(c) ==
    /\ c.email = form.email
    /\ c.kind # "replace" => form.busy /\ ~form.problem
    /\ c.kind = "request" => ~landed
    /\ c.kind = "verify" => form.step = "code" /\ form.sent = form.code /\ (landed => form.again)
    /\ c.kind \in {"claim", "replace"} => landed

Patient ==
    /\ \A c \in calls : c.live => Heard(c)
    /\ \A c, d \in calls : c.live /\ d.live => c = d \/ "replace" \in {c.kind, d.kind}
    /\ landed => form.sent = form.code /\ (form.problem => form.again)

FormInv == Patient /\ CodeWasMailed

-----------------------------------------------------------------------------
(* My Boards.                                                              *)

\* Whoever leaves a page waits for what the form called.
Waits ==
    /\ me = "out" => status = "loading"
    /\ \A c, d \in calls : c = d
    /\ FormShown => \A c \in calls : c.live
    /\ page = "boards" => calls = {}

Changes == {a \in asks : a.kind # "list"}

After(a) == IF a.kind = "copy" THEN Prepended(a) ELSE Replaced(a)

Accurate(l) == l.tiles = OwnedBy(cookie) /\ l.doubled = {}

\* Nothing is listed for nobody.
Vacant == Key = NoOne => list.status = "idle" /\ ~asking.open /\ \A a \in asks : ~a.live

\* A change is out alone, on a list that is loaded.
Alone ==
    \A a \in Changes : /\ asks = {a} /\ a.live /\ a.as = cookie
                       /\ claim = "done" /\ list.status = "ready"
                       /\ a.kind # "copy" => a.n = asking.opened

\* A dialog is open over a list that is loaded.
Dialogs ==
    asking.open => /\ claim = "done" /\ list.status = "ready"
                   /\ ~asking.busy => asks = {}
                   /\ \A a \in Changes : a.kind # "copy"

\* The load that counts is the last one.
Loads ==
    \A a \in asks : a.kind = "list" =>
        /\ a.n <= gen
        /\ Current(a) => /\ list.status = "loading"
                         /\ a.state = "ok" => a.got = OwnedBy(cookie)
                         /\ \A b \in asks : b.kind = "list" /\ Current(b) => a = b

\* The list is what the server has, or will be with the answer.
Listed ==
    list.status = "ready" =>
        IF \E a \in Changes : a.state = "ok" THEN \A a \in Changes : Accurate(After(a))
        ELSE Accurate(list)

ListInv == Vacant /\ Alone /\ Dialogs /\ Loads /\ Listed

\* The create dialog's own call is of what is in its field, and so is the last
\* check.
HintInv ==
    /\ HintIsOfTheField
    /\ \A c \in checks : c.kind = "check" => c.n <= create.gen
    /\ create.open =>
         \A c \in checks : /\ c.kind = "check" /\ c.n = create.gen => c.id = create.id
                           /\ c.kind = "create" => c.n = 0 /\ c.id = create.id /\ create.busy

-----------------------------------------------------------------------------
(* The title and the picture.                                              *)

TitleInv ==
    IF saves = {} THEN head.pending = NoTitle /\ head.title = named
    ELSE /\ ~head.editing
         /\ \E s \in saves : /\ saves = {s} /\ head.pending = s.title
                             /\ named = IF s.ok THEN s.title ELSE head.title

\* Each opening of the field saves or is escaped once, and the one that is open
\* has done neither.
EscapeInv ==
    /\ EscapeKeepsTitle
    /\ \A n \in {escaped} \cup {s.n : s \in saves} :
          n <= head.opened /\ (head.editing => n # head.opened)

\* What no picture shows yet is dirty, and what is dirty has a timer.
PictureInv ==
    ~missed =>
        /\ pic.dirty => pic.timer \/ pic.stray
        /\ ~pic.dirty => drawn = IF pic.stage = "idle" THEN picture ELSE pic.shot

-----------------------------------------------------------------------------
(* Types.                                                                  *)

\* A new form asks for an email.
LEMMA FreshForm == Fresh \in FormSet /\ Fresh.step = "email"
  BY DEF Fresh, FormSet, Persons, Entries

\* What a step leaves of the form once the next page is known.
Settles ==
    /\ form' \in FormSet /\ calls' \subseteq CallSet
    /\ wanted' \subseteq People /\ landed' \in BOOLEAN
    /\ Inbox' /\ Hidden'

LEMMA ShowsTypes ==
    ASSUME NEW f \in FormSet, NEW out \in SUBSET CallSet,
           wanted \subseteq People, landed \in BOOLEAN,
           (f.step = "code" \/ \E c \in out : c.live) => f.email # NoOne,
           Shows(f, out)
    PROVE  Settles
  <1>1. CASE FormShown'
    <2>1. form' = f /\ calls' = out /\ wanted' = wanted /\ landed' = landed
      BY <1>1 DEF Shows
    <2> QED
      BY <1>1, <2>1 DEF Settles, Inbox, Hidden
  <1>2. CASE ~FormShown'
    <2>1. /\ form' = Fresh /\ wanted' = {} /\ landed' = FALSE
          /\ calls' = {[c EXCEPT !.live = FALSE] : c \in out}
      BY <1>2 DEF Shows
    <2>2. \A c \in out : [c EXCEPT !.live = FALSE] \in CallSet /\ ~[c EXCEPT !.live = FALSE].live
      BY DEF CallSet
    <2>3. calls' \subseteq CallSet /\ \A c \in calls' : ~c.live
      BY <2>1, <2>2
    <2> QED
      BY <2>1, <2>3, FreshForm DEF Settles, Inbox, Hidden
  <1> QED
    BY <1>1, <1>2

\* The types in the names used here.
LEMMA AccountFacts ==
    ASSUME AccountTypes
    PROVE  /\ form \in FormSet /\ calls \subseteq CallSet
           /\ wanted \subseteq People /\ landed \in BOOLEAN
           /\ (form.step = "code" \/ \E c \in calls : c.live) => form.email # NoOne
           /\ \A c \in calls : c.live => FormShown
           /\ ~FormShown => form = Fresh /\ wanted = {} /\ landed = FALSE
  BY DEF AccountTypes, AccountTypeOK, FormSet, CallSet, Persons, Entries, Inbox, Hidden

LEMMA AccountFactsBack ==
    ASSUME /\ page \in {"signin", "boards", "board", "home"}
           /\ {cookie, user, mine} \subseteq Persons
           /\ status \in {"loading", "ready", "error"}
           /\ me \in {"out", "done"}
           /\ form \in FormSet /\ calls \subseteq CallSet
           /\ mail \in [People -> Entries]
           /\ wanted \subseteq People /\ landed \in BOOLEAN
           /\ guest \in {"token", "spent", "none"}
           /\ owner \in [Ids -> Persons]
           /\ inputs \in 0..MaxInputs
           /\ Inbox /\ Hidden
    PROVE  AccountTypes
  BY DEF AccountTypes, AccountTypeOK, FormSet, CallSet, Persons, Entries

\* What is not of the form.
Outside ==
    /\ page \in {"signin", "boards", "board", "home"}
    /\ {cookie, user, mine} \subseteq Persons
    /\ status \in {"loading", "ready", "error"}
    /\ me \in {"out", "done"}
    /\ mail \in [People -> Entries]
    /\ guest \in {"token", "spent", "none"}
    /\ owner \in [Ids -> Persons]
    /\ inputs \in 0..MaxInputs

LEMMA AccountSplits == AccountTypes => Outside
  BY DEF AccountTypes, AccountTypeOK, Outside, Persons, Entries

LEMMA AccountJoins ==
    ASSUME Outside', Settles
    PROVE  AccountTypes'
  BY DEF AccountTypes, AccountTypeOK, FormSet, CallSet, Persons, Entries, Outside, Settles

LEMMA DoesTypes ==
    ASSUME inputs \in 0..MaxInputs, Does
    PROVE  inputs' \in 0..MaxInputs
  BY AccountAssumption DEF Does

LEMMA ClaimTypes ==
    ASSUME Outside, NEW ok \in BOOLEAN, ClaimServed(ok)
    PROVE  guest' \in {"token", "spent", "none"} /\ owner' \in [Ids -> Persons]
  BY DEF Outside, ClaimServed, Persons

\* The two answers to a code.
Moved(c) == (calls \ {c}) \cup {[c EXCEPT !.kind = "claim"]}

Verifies(c) ==
    /\ mail[c.email] = c.code
    /\ mail' = [mail EXCEPT ![c.email] = NoCode]
    /\ cookie' = c.email /\ user' = Applied(c.email)
    /\ UNCHANGED <<page, status, me, mine, guest, owner, inputs>>
    /\ FormShown' => /\ calls' = Moved(c) /\ landed' = (landed \/ c.live)
                     /\ UNCHANGED <<form, wanted>>
    /\ ~FormShown' => Shows(form, Moved(c))

Refuses(c) ==
    /\ Tell(c, [form EXCEPT !.problem = TRUE, !.code = NoCode, !.sent = NoCode, !.busy = FALSE])
    /\ calls' = calls \ {c}
    /\ UNCHANGED <<page, cookie, user, status, me, mine, mail, wanted, landed, guest, owner, inputs>>

LEMMA VerifiedSplits ==
    ASSUME NEW c, CodeVerified(c)
    PROVE  (Verifies(c) \/ Refuses(c)) /\ c.kind = "verify" /\ (me = "done" \/ "slow" \in Races)
  BY DEF CodeVerified, Verifies, Refuses, Moved

LEMMA AccountKeeps ==
    ASSUME AccountTypes, AccountNext
    PROVE  AccountTypes'
  <1>1. Outside
    BY AccountSplits
  <1>2. SUFFICES Outside' /\ Settles
    BY AccountJoins
  <1> USE AccountFacts
  <1>3. CASE MeLands
    <2>1. Settles
      BY <1>3, ShowsTypes DEF MeLands
    <2>2. Outside'
      BY <1>1, <1>3 DEF MeLands, Outside, server
    <2> QED
      BY <2>1, <2>2
  <1>4. CASE SignOut
    <2>1. Settles
      BY <1>4, ShowsTypes DEF SignOut
    <2>2. Outside'
      BY <1>1, <1>4, DoesTypes DEF SignOut, Outside, Persons
    <2> QED
      BY <2>1, <2>2
  <1>5. CASE \E p \in People : TypeEmail(p)
    <2>1. PICK p \in People : TypeEmail(p)
      BY <1>5
    <2>2. form' \in FormSet /\ form'.step = "email" /\ form'.email # NoOne
      BY <2>1, AccountAssumption DEF TypeEmail, FormSet, Persons
    <2>3. FormShown'
      BY <2>1 DEF TypeEmail, Editable, FormShown
    <2>4. Settles
      BY <2>1, <2>2, <2>3 DEF TypeEmail, Settles, Inbox, Hidden
    <2>5. Outside'
      BY <1>1, <2>1, DoesTypes DEF TypeEmail, Outside, server
    <2> QED
      BY <2>4, <2>5
  <1>6. CASE (\E c \in Codes : TypeCode(c)) \/ UseDifferentEmail
    <2>1. /\ Does /\ Editable /\ form.step = "code"
          /\ UNCHANGED <<server, page, user, status, me, mine, calls, wanted, landed>>
          /\ form' \in FormSet /\ form'.email = form.email
      <3>1. CASE \E c \in Codes : TypeCode(c)
        BY <3>1 DEF TypeCode, FormSet, Entries
      <3>2. CASE UseDifferentEmail
        BY <3>2 DEF UseDifferentEmail, FormSet, Entries
      <3> QED
        BY <1>6, <3>1, <3>2
    <2>2. FormShown'
      BY <2>1 DEF Editable, FormShown
    <2>3. Settles
      BY <2>1, <2>2 DEF Settles, Inbox, Hidden
    <2>4. Outside'
      BY <1>1, <2>1, DoesTypes DEF Outside, server
    <2> QED
      BY <2>3, <2>4
  <1>7. CASE SendCode
    <2>1. Call("request") \in CallSet /\ form' \in FormSet /\ form'.email = form.email
      BY <1>7, AccountAssumption DEF SendCode, Call, CallSet, FormSet, Waiting, Persons
    <2>2. FormShown'
      BY <1>7 DEF SendCode, Editable, FormShown
    <2>3. Settles
      BY <1>7, <2>1, <2>2 DEF SendCode, Settles, Inbox, Hidden
    <2>4. inputs' \in 0..MaxInputs
      BY <1>1, <1>7, DoesTypes DEF SendCode, Outside
    <2>5. Outside'
      BY <1>1, <1>7, <2>4 DEF SendCode, Outside, server
    <2> QED
      BY <2>3, <2>5
  <1>8. CASE CoolDown
    <2>1. form' \in FormSet /\ form'.email = form.email /\ form'.step = form.step
      BY <1>8 DEF CoolDown, FormSet
    <2>2. FormShown'
      <3>1. form # Fresh
        BY <1>8 DEF CoolDown, Fresh
      <3>2. FormShown
        BY <3>1
      <3> QED
        BY <1>8, <3>2 DEF CoolDown, FormShown
    <2>3. Settles
      BY <1>8, <2>1, <2>2 DEF CoolDown, Settles, Inbox, Hidden
    <2>4. Outside'
      BY <1>1, <1>8 DEF CoolDown, Outside, server
    <2> QED
      BY <2>3, <2>4
  <1>9. CASE SubmitCode
    <2>1. /\ Call("verify") \in CallSet /\ form' \in FormSet
          /\ form'.email = form.email /\ form'.step = form.step
      <3> DEFINE again == ~NewFullCode
      <3>1. again \in BOOLEAN /\ form' = [Waiting(form) EXCEPT !.sent = form.code, !.again = again]
        BY <1>9 DEF SubmitCode
      <3>2. Waiting(form) \in FormSet /\ form.code \in Entries
        BY DEF Waiting, FormSet
      <3>3. Waiting(form).email = form.email /\ Waiting(form).step = form.step
        BY DEF Waiting, FormSet
      <3> HIDE DEF again
      <3>4. form' \in FormSet /\ form'.email = form.email /\ form'.step = form.step
        BY <3>1, <3>2, <3>3 DEF FormSet
      <3>5. Call("verify") \in CallSet
        BY <1>9, AccountAssumption DEF SubmitCode, Call, CallSet, FormSet, Persons
      <3> QED
        BY <3>4, <3>5
    <2>2. FormShown'
      BY <1>9 DEF SubmitCode, FormShown
    <2>3. Settles
      BY <1>9, <2>1, <2>2 DEF SubmitCode, Settles, Inbox, Hidden
    <2>4. inputs' \in 0..MaxInputs
      BY <1>1, <1>9, DoesTypes DEF SubmitCode, Outside
    <2>5. Outside'
      BY <1>1, <1>9, <2>4 DEF SubmitCode, Outside, server
    <2> QED
      BY <2>3, <2>5
  <1>10. CASE \E c \in calls : CodeRequested(c)
    <2>1. PICK c \in calls : CodeRequested(c)
      BY <1>10
    <2>2. c \in CallSet /\ (c.live => FormShown)
      OBVIOUS
    <2>3. FormShown' <=> FormShown
      BY <2>1 DEF CodeRequested, FormShown
    <2>4. /\ form' \in FormSet
          /\ c.live => form'.email = form.email
          /\ ~c.live => form' = form
      <3> DEFINE sent     == [form EXCEPT !.step = "code", !.code = NoCode, !.sent = NoCode,
                                          !.cooling = TRUE, !.busy = FALSE]
                 failed(w) == [form EXCEPT !.problem = TRUE, !.busy = FALSE, !.cooling = @ \/ w]
      <3>1. sent \in FormSet /\ sent.email = form.email
        BY DEF FormSet, Entries
      <3>2. \A w \in BOOLEAN : failed(w) \in FormSet /\ failed(w).email = form.email
        BY DEF FormSet
      <3>3. Tell(c, sent) \/ \E w \in BOOLEAN : Tell(c, failed(w))
        BY <2>1 DEF CodeRequested
      <3> HIDE DEF sent, failed
      <3> QED
        BY <3>1, <3>2, <3>3 DEF Tell
    <2>5. wanted' \in SUBSET People /\ (~c.live => wanted' = wanted)
      BY <2>1, <2>2 DEF CodeRequested, CallSet
    <2>6. calls' \subseteq calls /\ landed' = landed
      BY <2>1 DEF CodeRequested
    <2>7. Settles
      BY <2>2, <2>3, <2>4, <2>5, <2>6 DEF Settles, Inbox, Hidden
    <2>8. mail' \in [People -> Entries]
      BY <1>1, <2>1, <2>2 DEF CodeRequested, Outside, Entries, CallSet
    <2>9. Outside'
      BY <1>1, <2>1, <2>8 DEF CodeRequested, Outside
    <2> QED
      BY <2>7, <2>9
  <1>11. CASE \E c \in calls : CodeVerified(c)
    <2>1. PICK c \in calls : CodeVerified(c)
      BY <1>11
    <2>2. c \in CallSet /\ (c.live => FormShown)
      OBVIOUS
    <2>3. CASE Verifies(c)
      <3>1. Moved(c) \in SUBSET CallSet /\ ((\E d \in Moved(c) : d.live) => \E d \in calls : d.live)
        <4>1. [c EXCEPT !.kind = "claim"] \in CallSet /\ [c EXCEPT !.kind = "claim"].live = c.live
          BY <2>2 DEF CallSet
        <4> QED
          BY <4>1 DEF Moved
      <3>2. ASSUME FormShown' PROVE Settles
        <4>1. /\ calls' = Moved(c) /\ landed' = (landed \/ c.live)
              /\ form' = form /\ wanted' = wanted
          BY <2>3, <3>2 DEF Verifies
        <4>2. landed' \in BOOLEAN
          BY <2>2, <4>1 DEF CallSet
        <4> QED
          BY <3>1, <3>2, <4>1, <4>2 DEF Settles, Inbox, Hidden
      <3>3. ASSUME ~FormShown' PROVE Settles
        BY <2>3, <3>1, <3>3, ShowsTypes DEF Verifies
      <3>4. Settles
        BY <3>2, <3>3
      <3>5. c.email \in People
        BY <2>2 DEF CallSet
      <3>6. mail' \in [People -> Entries]
        BY <1>1, <2>3 DEF Verifies, Outside, Entries
      <3>7. Outside'
        BY <1>1, <2>3, <3>5, <3>6 DEF Verifies, Applied, Outside, Persons
      <3> QED
        BY <3>4, <3>7
    <2>4. CASE Refuses(c)
      <3>1. FormShown' <=> FormShown
        BY <2>4 DEF Refuses, FormShown
      <3>2. /\ form' \in FormSet
            /\ c.live => form'.email = form.email
            /\ ~c.live => form' = form
        BY <2>4 DEF Refuses, Tell, FormSet, Entries
      <3>3. calls' \subseteq calls /\ landed' = landed /\ wanted' = wanted
        BY <2>4 DEF Refuses
      <3>4. Settles
        BY <2>2, <3>1, <3>2, <3>3 DEF Settles, Inbox, Hidden
      <3>5. Outside'
        BY <1>1, <2>4 DEF Refuses, Outside
      <3> QED
        BY <3>4, <3>5
    <2> QED
      BY <2>1, <2>3, <2>4, VerifiedSplits
  <1>12. CASE \E c \in calls : MoveOn(c)
    <2>1. PICK c \in calls : MoveOn(c)
      BY <1>12
    <2>2. c \in CallSet /\ (c.live => FormShown)
      OBVIOUS
    <2>3. [c EXCEPT !.kind = "replace"] \in CallSet /\ [c EXCEPT !.kind = "replace"].live = c.live
      BY <2>2 DEF CallSet
    <2>4. FormShown' <=> FormShown
      BY <2>1 DEF MoveOn, FormShown
    <2>5. /\ form' \in FormSet /\ form'.email = form.email /\ form'.step = form.step
          /\ ~c.live => form' = form
      BY <2>1 DEF MoveOn, Tell, FormSet
    <2>6. Settles
      BY <2>1, <2>2, <2>3, <2>4, <2>5 DEF MoveOn, Settles, Inbox, Hidden
    <2>7. Outside'
      BY <1>1, <2>1, ClaimTypes DEF MoveOn, Outside
    <2> QED
      BY <2>6, <2>7
  <1>13. CASE \E c \in calls : PageComes(c)
    <2>1. PICK c \in calls : PageComes(c)
      BY <1>13
    <2>2. Settles
      BY <2>1, ShowsTypes DEF PageComes
    <2>3. Outside'
      BY <1>1, <2>1 DEF PageComes, Outside, server
    <2> QED
      BY <2>2, <2>3
  <1>14. CASE \E p \in {"boards", "signin"} : Visit(p)
    <2>1. PICK p \in {"boards", "signin"} : Visit(p)
      BY <1>14
    <2>2. Settles
      BY <2>1, ShowsTypes DEF Visit
    <2>3. Outside'
      BY <1>1, <2>1, DoesTypes DEF Visit, Outside, server
    <2> QED
      BY <2>2, <2>3
  <1> QED
    BY <1>3, <1>4, <1>5, <1>6, <1>7, <1>8, <1>9, <1>10, <1>11, <1>12, <1>13, <1>14
    DEF AccountNext

\* Steps of the pages that leave the account as it is.
Aside == UNCHANGED account /\ (UNCHANGED inputs \/ Does)

LEMMA AsideTypes ==
    ASSUME AccountTypes, Aside
    PROVE  AccountTypes'
  <1>1. inputs' \in 0..MaxInputs
    BY DoesTypes DEF AccountTypes, AccountTypeOK, Aside
  <1> QED
    BY <1>1 DEF AccountTypes, AccountTypeOK, Aside, account, Inbox, Hidden, FormShown

LEMMA ServedTypes ==
    ASSUME AccountTypes, owner' \in [Ids -> Persons], guest' \in {"token", "spent", "none"},
           UNCHANGED <<page, cookie, user, status, me, mine, form, calls, mail, wanted, landed,
                       inputs>>
    PROVE  AccountTypes'
  BY DEF AccountTypes, AccountTypeOK, Persons, Inbox, Hidden, FormShown

\* Every tile is of a board.
LEMMA OwnedTypes ==
    ASSUME ListTypes, NEW u
    PROVE  OwnedBy(u) \subseteq TileSet
  BY DEF ListTypes, OwnedBy, Tile, TileSet

LEMMA AskTypes ==
    ASSUME NEW kind \in {"list", "rename", "delete", "copy"}, NEW n \in Nat,
           NEW i \in Ids \cup {NoId}, NEW t \in Titles \cup {NoTitle}, cookie' \in Persons,
           kind # "list" => i \in Ids, kind = "rename" => t \in Titles
    PROVE  Ask(kind, n, i, t) \in AskSet /\ Aimed(Ask(kind, n, i, t))
  BY DEF Ask, AskSet, Aimed

LEMMA LoadTypes ==
    ASSUME NEW out \in SUBSET AskSet, \A a \in out : Aimed(a), gen \in Nat,
           cookie' \in Persons, Load(out)
    PROVE  /\ gen' \in Nat /\ list' \in ListSet
           /\ asks' \subseteq AskSet /\ \A a \in asks' : Aimed(a)
  <1>1. Ask("list", gen + 1, NoId, NoTitle) \in AskSet /\ Aimed(Ask("list", gen + 1, NoId, NoTitle))
    BY AskTypes
  <1>2. list' \in ListSet
    BY DEF Load, Unloaded, ListSet
  <1> QED
    BY <1>1, <1>2 DEF Load

Gone == {[a EXCEPT !.live = FALSE] : a \in asks}

LEMMA GoneTypes ==
    ASSUME ListTypes
    PROVE  Gone \subseteq AskSet /\ \A a \in Gone : Aimed(a)
  <1>1. \A a \in asks : [a EXCEPT !.live = FALSE] \in AskSet /\ Aimed([a EXCEPT !.live = FALSE])
    BY DEF ListTypes, AskSet, Aimed
  <1> QED
    BY <1>1 DEF Gone

LEMMA FollowTypes ==
    ASSUME ListTypes, cookie' \in Persons, title' \in [Ids -> Titles \cup {NoTitle}], ListFollows
    PROVE  ListTypes'
  <1>1. CASE Key' = Key
    BY <1>1 DEF ListFollows, listed, ListTypes
  <1>2. CASE Key' # Key
    <2>1. claim' = claim /\ asking' = Unasked
      BY <1>2 DEF ListFollows
    <2>2. asking' \in DialogSet /\ ~asking'.open
      BY <2>1 DEF Unasked, DialogSet
    <2>3. Unloaded("idle") \in ListSet
      BY DEF Unloaded, ListSet
    <2>4. CASE Key' = NoOne
      <3>1. list' = Unloaded("idle") /\ gen' = gen /\ asks' = Gone
        BY <1>2, <2>4 DEF ListFollows, Gone
      <3> QED
        BY <2>1, <2>2, <2>3, <3>1, GoneTypes DEF ListTypes
    <2>5. CASE Key' # NoOne
      <3>1. Load(Gone)
        BY <1>2, <2>5 DEF ListFollows, Gone
      <3>2. gen \in Nat
        BY DEF ListTypes
      <3>3. /\ gen' \in Nat /\ list' \in ListSet
            /\ asks' \subseteq AskSet /\ \A a \in asks' : Aimed(a)
        BY <3>1, <3>2, GoneTypes, LoadTypes
      <3> QED
        BY <2>1, <2>2, <3>3 DEF ListTypes
    <2> QED
      BY <2>4, <2>5
  <1> QED
    BY <1>1, <1>2

\* Answers to what was asked are of the same kind.
LEMMA AnswerTypes ==
    ASSUME ListTypes, NEW a \in asks, NEW s \in {"sent", "ok", "no"}
    PROVE  /\ [a EXCEPT !.state = s] \in AskSet /\ Aimed([a EXCEPT !.state = s])
           /\ \A g \in SUBSET TileSet : /\ [a EXCEPT !.state = s, !.got = g] \in AskSet
                                        /\ Aimed([a EXCEPT !.state = s, !.got = g])
  <1>1. a \in AskSet /\ Aimed(a)
    BY DEF ListTypes
  <1> QED
    BY <1>1 DEF AskSet, Aimed

\* What a served call does, besides being refused.
ServesList(a) ==
    /\ a.kind = "list" /\ Signed(a)
    /\ Answer(a, [a EXCEPT !.state = "ok", !.got = OwnedBy(cookie)])
    /\ UNCHANGED <<owner, title>>

ServesRename(a) ==
    /\ a.kind = "rename" /\ Owned(a)
    /\ title' = [title EXCEPT ![a.id] = a.title]
    /\ Answer(a, [a EXCEPT !.state = "ok"])
    /\ UNCHANGED owner

ServesDelete(a) ==
    /\ a.kind = "delete" /\ Owned(a)
    /\ title' = [title EXCEPT ![a.id] = NoTitle]
    /\ owner' = [owner EXCEPT ![a.id] = NoOne]
    /\ Answer(a, [a EXCEPT !.state = "ok"])

ServesCopy(a, i, t) ==
    /\ a.kind = "copy" /\ Signed(a) /\ title[i] = NoTitle
    /\ title' = [title EXCEPT ![i] = t]
    /\ owner' = [owner EXCEPT ![i] = cookie]
    /\ Answer(a, [a EXCEPT !.state = "ok", !.got = {Tile(i, t)}])

Refused(a) == Answer(a, [a EXCEPT !.state = "no"]) /\ UNCHANGED <<owner, title>>

LEMMA ServedSplits ==
    ASSUME NEW a, Served(a)
    PROVE  /\ a \in asks /\ a.state = "sent"
           /\ UNCHANGED <<page, cookie, user, status, me, mine, form, calls, mail, wanted, landed,
                          guest, inputs, making, list, gen, asking, claim>>
           /\ \/ Refused(a) \/ ServesList(a) \/ ServesRename(a) \/ ServesDelete(a)
              \/ \E i \in Ids, t \in Titles : ServesCopy(a, i, t)
  BY DEF Served, Refused, ServesList, ServesRename, ServesDelete, ServesCopy

LEMMA ServedKeeps ==
    ASSUME Types, NEW a, Served(a)
    PROVE  AccountTypes' /\ ListTypes'
  <1>1. a \in asks /\ a \in AskSet /\ Aimed(a) /\ ListTypes /\ AccountTypes
    BY ServedSplits DEF Types, ListTypes
  <1>2. cookie \in Persons /\ owner \in [Ids -> Persons] /\ guest \in {"token", "spent", "none"}
    BY <1>1, AccountSplits DEF Outside
  <1>3. UNCHANGED <<page, cookie, user, status, me, mine, form, calls, mail, wanted, landed,
                    guest, inputs, making, list, gen, asking, claim>>
    BY ServedSplits
  <1>4. SUFFICES /\ owner' \in [Ids -> Persons]
                 /\ title' \in [Ids -> Titles \cup {NoTitle}]
                 /\ \E b \in AskSet : Aimed(b) /\ Answer(a, b)
    <2>1. asks' \subseteq AskSet /\ \A b \in asks' : Aimed(b)
      BY <1>1, <1>4 DEF Answer, ListTypes
    <2>2. ListTypes'
      BY <1>1, <1>3, <1>4, <2>1 DEF ListTypes
    <2> QED
      BY <1>1, <1>2, <1>3, <1>4, <2>2, ServedTypes
  <1> USE <1>1, <1>2 DEF Answer
  <1>5. title \in [Ids -> Titles \cup {NoTitle}]
    BY DEF ListTypes
  <1>6. CASE Refused(a)
    BY <1>5, <1>6, AnswerTypes DEF Refused
  <1>7. CASE ServesList(a)
    <2>1. OwnedBy(cookie) \in SUBSET TileSet
      BY OwnedTypes
    <2> QED
      BY <1>5, <1>7, <2>1, AnswerTypes DEF ServesList
  <1>8. CASE ServesRename(a)
    BY <1>5, <1>8, AnswerTypes DEF ServesRename, Aimed
  <1>9. CASE ServesDelete(a)
    <2>1. owner' \in [Ids -> Persons]
      BY <1>9 DEF ServesDelete, Persons
    <2> QED
      BY <1>5, <1>9, <2>1, AnswerTypes DEF ServesDelete
  <1>10. CASE \E i \in Ids, t \in Titles : ServesCopy(a, i, t)
    <2>1. PICK i \in Ids, t \in Titles : ServesCopy(a, i, t)
      BY <1>10
    <2>2. {Tile(i, t)} \in SUBSET TileSet
      BY DEF Tile, TileSet
    <2> QED
      BY <1>5, <2>1, <2>2, AnswerTypes DEF ServesCopy
  <1> QED
    BY <1>6, <1>7, <1>8, <1>9, <1>10, ServedSplits

LEMMA ListLandsTypes ==
    ASSUME ListTypes, NEW a, ListLands(a)
    PROVE  ListTypes'
  <1>1. a \in AskSet /\ asks' \subseteq asks
    BY DEF ListLands, ListTypes
  <1>2. list' \in ListSet
    BY <1>1 DEF ListLands, ListTypes, Unloaded, ListSet, AskSet
  <1> QED
    BY <1>1, <1>2 DEF ListLands, ListTypes

\* What an answer makes of the list.
LEMMA AfterTypes ==
    ASSUME ListTypes, NEW a \in asks, a.kind # "list"
    PROVE  After(a) \in ListSet /\ After(a).status = list.status
  <1>1. a \in AskSet /\ a.id \in Ids /\ list \in ListSet /\ (a.kind = "rename" => a.title \in Titles)
    BY DEF ListTypes, Aimed
  <1>2. CASE a.kind = "copy"
    <2>1. {t.id : t \in a.got \cap list.tiles} \subseteq Ids
      BY <1>1 DEF ListSet, TileSet
    <2>2. list.tiles \cup a.got \subseteq TileSet
      BY <1>1 DEF ListSet, AskSet
    <2> HIDE DEF TileSet
    <2>3. After(a) = [list EXCEPT !.tiles = list.tiles \cup a.got,
                                  !.doubled = list.doubled \cup {t.id : t \in a.got \cap list.tiles}]
      BY <1>2 DEF After, Prepended
    <2> DEFINE more == {t.id : t \in a.got \cap list.tiles}
    <2> HIDE DEF more
    <2> QED
      BY <1>1, <2>1, <2>2, <2>3 DEF ListSet, more
  <1>3. CASE a.kind = "delete"
    <2>1. After(a) = [list EXCEPT !.tiles = {t \in list.tiles : t.id # a.id}]
      BY <1>3 DEF After, Replaced
    <2> QED
      BY <1>1, <2>1 DEF ListSet
  <1>4. CASE a.kind = "rename"
    <2> DEFINE more == {IF t.id = a.id THEN Tile(a.id, a.title) ELSE t : t \in list.tiles}
    <2>1. more \subseteq TileSet
      BY <1>1, <1>4 DEF ListSet, Tile, TileSet
    <2>2. After(a) = [list EXCEPT !.tiles = more]
      BY <1>4 DEF After, Replaced
    <2> HIDE DEF more
    <2> QED
      BY <1>1, <2>1, <2>2 DEF ListSet
  <1> QED
    BY <1>1, <1>2, <1>3, <1>4 DEF AskSet

LEMMA ChangeLandsTypes ==
    ASSUME ListTypes, NEW a, ChangeLands(a)
    PROVE  ListTypes'
  <1>1. a \in asks /\ a.kind # "list" /\ asks' = asks \ {a} /\ UNCHANGED <<title, gen, claim>>
    BY DEF ChangeLands, making
  <1>2. list' \in ListSet
    <2>1. list' = list \/ list' = After(a)
      BY DEF ChangeLands, Update, After
    <2> QED
      BY <1>1, <2>1, AfterTypes DEF ListTypes
  <1>3. asking' \in DialogSet /\ (asking'.open => asking.open) /\ asking'.kind = asking.kind
        /\ asking'.id = asking.id /\ asking'.title = asking.title
    <2>1. asking' = asking \/ asking' = DialogAnswered(a)
      BY DEF ChangeLands
    <2>2. asking \in DialogSet
      BY DEF ListTypes
    <2>3. /\ DialogAnswered(a) \in DialogSet /\ (DialogAnswered(a).open => asking.open)
          /\ DialogAnswered(a).kind = asking.kind /\ DialogAnswered(a).id = asking.id
          /\ DialogAnswered(a).title = asking.title
      BY <2>2 DEF DialogAnswered, DialogSet
    <2> QED
      BY <2>1, <2>2, <2>3
  <1> QED
    BY <1>1, <1>2, <1>3 DEF ListTypes

LEMMA TileUsedTypes ==
    ASSUME ListTypes, cookie \in Persons, NEW t, TileUsed(t)
    PROVE  /\ t.id \in Ids /\ t.title \in Titles /\ t \in list.tiles
           /\ cookie' = cookie /\ cookie' \in Persons
           /\ UNCHANGED <<account, making, title, list, gen, claim>>
  <1>1. t \in TileSet
    BY DEF TileUsed, ListTypes, ListSet
  <1> QED
    BY <1>1 DEF TileUsed, TileSet, account

LEMMA UsesTypes ==
    ASSUME Types, \/ \E t \in list.tiles : \/ Duplicate(t)
                                           \/ \E kind \in {"rename", "delete"} : OpenDialog(kind, t)
                  \/ \E t \in Titles : Confirm(t)
                  \/ StopAsking
    PROVE  ListTypes'
  <1>1. ListTypes /\ cookie \in Persons /\ inputs \in 0..MaxInputs
    BY AccountSplits DEF Types, Outside
  <1>2. CASE \E t \in list.tiles : Duplicate(t)
    <2>1. PICK t \in list.tiles : Duplicate(t)
      BY <1>2
    <2>2. TileUsed(t)
      BY <2>1 DEF Duplicate
    <2>3. /\ t.id \in Ids /\ t.title \in Titles
          /\ cookie' = cookie /\ cookie' \in Persons
          /\ UNCHANGED <<account, making, title, list, gen, claim>>
      BY <1>1, <2>2, TileUsedTypes
    <2>4. inputs' \in Nat
      BY <1>1, <2>2, AccountAssumption DEF TileUsed, Does
    <2>5. /\ Ask("copy", inputs', t.id, NoTitle) \in AskSet
          /\ Aimed(Ask("copy", inputs', t.id, NoTitle))
      BY <2>3, <2>4, AskTypes
    <2> QED
      BY <1>1, <2>1, <2>3, <2>5 DEF Duplicate, ListTypes
  <1>3. CASE \E t \in list.tiles, kind \in {"rename", "delete"} : OpenDialog(kind, t)
    <2>1. PICK t \in list.tiles, kind \in {"rename", "delete"} : OpenDialog(kind, t)
      BY <1>3
    <2>2. TileUsed(t)
      BY <2>1 DEF OpenDialog
    <2>3. /\ t.id \in Ids /\ t.title \in Titles
          /\ UNCHANGED <<account, making, title, list, gen, claim>>
      BY <1>1, <2>2, TileUsedTypes
    <2>4. asking' \in DialogSet /\ asking'.kind # "none" /\ asking'.id \in Ids /\ asking'.title \in Titles
      BY <1>1, <2>1, <2>3 DEF OpenDialog, DialogSet, ListTypes
    <2> QED
      BY <1>1, <2>1, <2>3, <2>4 DEF OpenDialog, ListTypes
  <1>4. CASE \E t \in Titles : Confirm(t)
    <2>1. PICK t \in Titles : Confirm(t)
      BY <1>4
    <2>2. /\ asking.open /\ asking.kind \in {"rename", "delete"} /\ asking.id \in Ids
          /\ asking.opened \in Nat /\ cookie' \in Persons
          /\ UNCHANGED <<title, list, gen, claim>>
      BY <1>1, <2>1 DEF Confirm, ListTypes, DialogSet, account
    <2>3. /\ Ask(asking.kind, asking.opened, asking.id, t) \in AskSet
          /\ Aimed(Ask(asking.kind, asking.opened, asking.id, t))
      BY <2>2, AskTypes
    <2>4. /\ asking' \in DialogSet /\ asking'.kind = asking.kind
          /\ asking'.id = asking.id /\ asking'.title = asking.title
      BY <1>1, <2>1 DEF Confirm, ListTypes, DialogSet
    <2> QED
      BY <1>1, <2>1, <2>2, <2>3, <2>4 DEF Confirm, ListTypes
  <1>5. CASE StopAsking
    BY <1>1, <1>5 DEF StopAsking, ListTypes, DialogSet
  <1> QED
    BY <1>2, <1>3, <1>4, <1>5

LEMMA LoadsTypes ==
    ASSUME Types, Reload \/ ClaimStarts \/ ClaimLands
    PROVE  ListTypes'
  <1>1. ListTypes /\ cookie \in Persons /\ gen \in Nat /\ asks \in SUBSET AskSet
        /\ \A a \in asks : Aimed(a)
    BY AccountSplits DEF Types, ListTypes, Outside
  <1>2. CASE Reload
    <2>1. Load(asks) /\ cookie' = cookie /\ UNCHANGED <<title, asking, claim>>
      BY <1>2 DEF Reload, account
    <2>2. /\ gen' \in Nat /\ list' \in ListSet
          /\ asks' \subseteq AskSet /\ \A a \in asks' : Aimed(a)
      BY <1>1, <2>1, LoadTypes
    <2> QED
      BY <1>1, <2>1, <2>2 DEF ListTypes
  <1>3. CASE ClaimStarts
    BY <1>1, <1>3 DEF ClaimStarts, ListTypes
  <1>4. CASE ClaimLands
    <2>1. cookie' = cookie /\ claim' = "done" /\ UNCHANGED <<title, asking>>
      BY <1>4 DEF ClaimLands
    <2>2. CASE Load(asks)
      <3>1. /\ gen' \in Nat /\ list' \in ListSet
            /\ asks' \subseteq AskSet /\ \A a \in asks' : Aimed(a)
        BY <1>1, <2>1, <2>2, LoadTypes
      <3> QED
        BY <1>1, <2>1, <3>1 DEF ListTypes
    <2>3. CASE UNCHANGED <<list, gen, asks>>
      BY <1>1, <2>1, <2>3 DEF ListTypes
    <2> QED
      BY <1>4, <2>2, <2>3 DEF ClaimLands
  <1> QED
    BY <1>2, <1>3, <1>4

\* The create dialog.
Making ==
    \/ OpenCreate \/ CloseCreate \/ Blur \/ SubmitCreate \/ NewBoard
    \/ \E i \in Ids \cup {NoId} : TypeId(i)
    \/ \E c \in checks : CheckLands(c)

LEMMA MakingTypes ==
    ASSUME CreateTypes, Making
    PROVE  CreateTypes'
  <1>0. /\ create \in CreateSet /\ about \in Ids \cup {NoId}
        /\ checks \subseteq CheckSet /\ \A c \in checks : c.kind = "check" => c.id \in Ids
    BY DEF CreateTypes
  <1>1. SUFFICES /\ create' \in CreateSet /\ about' \in Ids \cup {NoId}
                 /\ \A c \in checks' \ checks :
                       c \in CheckSet /\ (c.kind = "check" => c.id \in Ids)
    BY <1>0 DEF CreateTypes
  <1>2. CASE OpenCreate \/ CloseCreate
    BY <1>0, <1>2 DEF OpenCreate, CloseCreate, CreateSet
  <1>3. CASE Blur
    <2>1. create.id \in Ids \cup {NoId} /\ create.gen + 1 \in Nat
      BY <1>0 DEF CreateSet
    <2>2. create' \in CreateSet
      BY <1>0, <1>3, <2>1 DEF Blur, CreateSet
    <2> QED
      BY <1>0, <1>3, <2>1, <2>2 DEF Blur, CheckSet
  <1>4. CASE SubmitCreate \/ NewBoard
    <2>1. create.id \in Ids \cup {NoId}
      BY <1>0 DEF CreateSet
    <2>2. create' \in CreateSet
      BY <1>0, <1>4 DEF SubmitCreate, NewBoard, CreateSet
    <2> QED
      BY <1>0, <1>4, <2>1, <2>2 DEF SubmitCreate, NewBoard, CheckSet
  <1>5. CASE \E i \in Ids \cup {NoId} : TypeId(i)
    <2>1. PICK i \in Ids \cup {NoId} : TypeId(i)
      BY <1>5
    <2>2. PICK n \in Nat : n = NextCheck(create.gen)
      BY <1>0 DEF CreateSet, NextCheck
    <2>3. create' = [create EXCEPT !.id = i, !.hint = "idle", !.gen = n]
      BY <2>1, <2>2 DEF TypeId
    <2>4. create' \in CreateSet
      BY <1>0, <2>3 DEF CreateSet
    <2> QED
      BY <1>0, <2>1, <2>4 DEF TypeId
  <1>6. CASE \E c \in checks : CheckLands(c)
    <2>1. PICK c \in checks : CheckLands(c)
      BY <1>6
    <2>2. create' \in CreateSet
      BY <1>0, <2>1 DEF CheckLands, CreateSet
    <2> QED
      BY <1>0, <2>1, <2>2 DEF CheckLands
  <1> QED
    BY <1>2, <1>3, <1>4, <1>5, <1>6 DEF Making

\* What createBoard's answer does.
MadeBoard(c, i) ==
    /\ title[i] = NoTitle /\ c.id \in {i, NoId}
    /\ title' = [title EXCEPT ![i] = CHOOSE t \in Titles : TRUE]
    /\ owner' = [owner EXCEPT ![i] = cookie]
    /\ page' = "board"
    /\ create' = [create EXCEPT !.open = @ /\ c.n # 0, !.busy = FALSE]
    /\ UNCHANGED <<user, status, about>>
    /\ Shows(form, calls)

NotMade(c) ==
    /\ UNCHANGED <<page, user, status, form, calls, wanted, landed, owner, title>>
    /\ \/ /\ c.id # NoId
          /\ create' = [create EXCEPT !.busy = FALSE, !.hint = "taken"] /\ about' = c.id
       \/ create' = [create EXCEPT !.busy = FALSE] /\ about' = about

LEMMA CreateSplits ==
    ASSUME NEW c, CreateLands(c)
    PROVE  /\ c \in checks /\ c.kind = "create" /\ checks' = checks \ {c} /\ ListFollows
           /\ UNCHANGED <<cookie, me, mine, mail, guest, inputs>>
           /\ (\E i \in Ids : MadeBoard(c, i)) \/ NotMade(c)
  BY DEF CreateLands, MadeBoard, NotMade

LEMMA CreateKeeps ==
    ASSUME Types, Titles # {}, NEW c, CreateLands(c)
    PROVE  AccountTypes' /\ ListTypes' /\ CreateTypes'
  <1>1. /\ c \in checks /\ checks' = checks \ {c} /\ ListFollows
        /\ UNCHANGED <<cookie, me, mine, mail, guest, inputs>>
    BY CreateSplits
  <1>2. Outside /\ AccountTypes /\ ListTypes /\ CreateTypes
    BY AccountSplits DEF Types
  <1>3. CASE \E i \in Ids : MadeBoard(c, i)
    <2>1. PICK i \in Ids : MadeBoard(c, i)
      BY <1>3
    <2>2. Settles
      BY <1>2, <2>1, AccountFacts, ShowsTypes DEF MadeBoard
    <2>3. owner' \in [Ids -> Persons]
      BY <1>2, <2>1 DEF Outside, MadeBoard
    <2>4. Outside'
      BY <1>1, <1>2, <2>1, <2>3 DEF Outside, MadeBoard
    <2>5. (CHOOSE t \in Titles : TRUE) \in Titles
      OBVIOUS
    <2>6. title' \in [Ids -> Titles \cup {NoTitle}]
      BY <1>2, <2>1, <2>5 DEF MadeBoard, ListTypes
    <2>7. CreateTypes'
      BY <1>1, <1>2, <2>1 DEF MadeBoard, CreateTypes, CreateSet
    <2> QED
      BY <1>1, <1>2, <2>2, <2>4, <2>6, <2>7, AccountJoins, FollowTypes DEF Outside
  <1>4. CASE NotMade(c)
    <2>1. AccountTypes'
      BY <1>1, <1>2, <1>4 DEF NotMade, AccountTypes, AccountTypeOK, Inbox, Hidden, FormShown
    <2>2. ListTypes'
      BY <1>1, <1>2, <1>4, FollowTypes DEF NotMade, Outside, ListTypes
    <2>3. CreateTypes'
      BY <1>1, <1>2, <1>4 DEF NotMade, CreateTypes, CreateSet, CheckSet
    <2> QED
      BY <2>1, <2>2, <2>3
  <1> QED
    BY <1>3, <1>4, CreateSplits

\* My Boards' steps, sorted by what they touch.
Follows == AccountNext /\ ListFollows /\ UNCHANGED <<title, making>>

Uses ==
    \/ \E t \in list.tiles : \/ Duplicate(t)
                             \/ \E kind \in {"rename", "delete"} : OpenDialog(kind, t)
    \/ \E t \in Titles : Confirm(t)
    \/ StopAsking

LEMMA PageSteps ==
    ASSUME MyBoardsNext
    PROVE  \/ Follows \/ Uses \/ Making \/ Reload \/ ClaimStarts \/ ClaimLands
           \/ \E a \in asks : ListLands(a) \/ Served(a) \/ ChangeLands(a)
           \/ \E c \in checks : CreateLands(c)
  BY DEF MyBoardsNext, Follows, Uses, Making

LEMMA AsideSteps ==
    ASSUME \/ Uses \/ Making \/ Reload \/ ClaimStarts
           \/ \E a \in asks : ListLands(a) \/ ChangeLands(a)
    PROVE  Aside
  <1>1. CASE Uses
    BY <1>1 DEF Uses, Duplicate, OpenDialog, Confirm, StopAsking, TileUsed, Aside
  <1>2. CASE Making
    BY <1>2 DEF Making, OpenCreate, CloseCreate, Blur, SubmitCreate, NewBoard, TypeId, CheckLands,
                Aside
  <1>3. CASE Reload \/ ClaimStarts
    BY <1>3 DEF Reload, ClaimStarts, Aside
  <1>4. CASE \E a \in asks : ListLands(a) \/ ChangeLands(a)
    BY <1>4 DEF ListLands, ChangeLands, Aside
  <1> QED
    BY <1>1, <1>2, <1>3, <1>4

LEMMA AccountCounts ==
    ASSUME AccountNext
    PROVE  UNCHANGED inputs \/ Does
  <1>1. CASE \E c \in calls : CodeRequested(c) \/ MoveOn(c) \/ PageComes(c)
    BY <1>1 DEF CodeRequested, MoveOn, PageComes
  <1>2. CASE \E c \in calls : CodeVerified(c)
    BY <1>2 DEF CodeVerified
  <1>3. CASE MeLands \/ SignOut \/ \E p \in {"boards", "signin"} : Visit(p)
    BY <1>3 DEF MeLands, SignOut, Visit
  <1>4. CASE \/ \E p \in People : TypeEmail(p)
             \/ \E c \in Codes : TypeCode(c)
             \/ UseDifferentEmail \/ SendCode \/ CoolDown \/ SubmitCode
    BY <1>4 DEF TypeEmail, TypeCode, UseDifferentEmail, SendCode, CoolDown, SubmitCode
  <1> QED
    BY <1>1, <1>2, <1>3, <1>4 DEF AccountNext

LEMMA PagesCount ==
    ASSUME MyBoardsNext
    PROVE  UNCHANGED inputs \/ Does
  <1>1. CASE Follows
    BY <1>1, AccountCounts DEF Follows
  <1>2. CASE \/ Uses \/ Making \/ Reload \/ ClaimStarts
             \/ \E a \in asks : ListLands(a) \/ ChangeLands(a)
    BY <1>2, AsideSteps DEF Aside
  <1>3. CASE ClaimLands
    BY <1>3 DEF ClaimLands
  <1>4. CASE \E a \in asks : Served(a)
    BY <1>4, ServedSplits
  <1>5. CASE \E c \in checks : CreateLands(c)
    BY <1>5, CreateSplits
  <1> QED
    BY <1>1, <1>2, <1>3, <1>4, <1>5, PageSteps

LEMMA PageKeeps ==
    ASSUME Types, MyBoardsNext
    PROVE  AccountTypes' /\ ListTypes' /\ CreateTypes'
  <1>1. AccountTypes /\ ListTypes /\ CreateTypes /\ Outside /\ Titles # {}
    BY AccountSplits DEF Types, HeaderTypes, TitleTypes
  <1>2. CASE Follows
    <2>1. AccountTypes'
      BY <1>1, <1>2, AccountKeeps DEF Follows
    <2>2. cookie' \in Persons
      BY <2>1, AccountSplits DEF AccountTypes, AccountTypeOK, Persons
    <2>3. ListTypes'
      BY <1>1, <1>2, <2>2, FollowTypes DEF Follows, ListTypes
    <2>4. CreateTypes'
      BY <1>1, <1>2 DEF Follows, making, CreateTypes
    <2> QED
      BY <2>1, <2>3, <2>4
  <1>3. CASE Uses
    <2>1. AccountTypes'
      BY <1>1, <1>3, AsideSteps, AsideTypes
    <2>2. ListTypes'
      BY <1>3, UsesTypes DEF Uses
    <2>3. UNCHANGED making
      BY <1>3 DEF Uses, Duplicate, OpenDialog, Confirm, StopAsking, TileUsed
    <2> QED
      BY <1>1, <2>1, <2>2, <2>3 DEF making, CreateTypes
  <1>4. CASE Making
    <2>1. AccountTypes'
      BY <1>1, <1>4, AsideSteps, AsideTypes
    <2>2. CreateTypes'
      BY <1>1, <1>4, MakingTypes
    <2>3. UNCHANGED tiles
      BY <1>4 DEF Making, OpenCreate, CloseCreate, Blur, SubmitCreate, NewBoard, TypeId, CheckLands
    <2> QED
      BY <1>1, <2>1, <2>2, <2>3 DEF tiles, listed, ListTypes
  <1>5. CASE Reload \/ ClaimStarts
    <2>1. AccountTypes'
      BY <1>1, <1>5, AsideSteps, AsideTypes
    <2>2. ListTypes'
      BY <1>5, LoadsTypes
    <2> QED
      BY <1>1, <1>5, <2>1, <2>2 DEF Reload, ClaimStarts, making, CreateTypes
  <1>6. CASE ClaimLands
    <2>1. AccountTypes'
      BY <1>1, <1>6, ClaimTypes, ServedTypes DEF ClaimLands
    <2>2. ListTypes'
      BY <1>6, LoadsTypes
    <2> QED
      BY <1>1, <1>6, <2>1, <2>2 DEF ClaimLands, making, CreateTypes
  <1>7. CASE \E a \in asks : ListLands(a) \/ ChangeLands(a)
    <2>1. AccountTypes'
      BY <1>1, <1>7, AsideSteps, AsideTypes
    <2>2. ListTypes'
      BY <1>1, <1>7, ListLandsTypes, ChangeLandsTypes
    <2> QED
      BY <1>1, <1>7, <2>1, <2>2 DEF ListLands, ChangeLands, making, CreateTypes
  <1>8. CASE \E a \in asks : Served(a)
    BY <1>1, <1>8, ServedKeeps, ServedSplits DEF making, CreateTypes
  <1>9. CASE \E c \in checks : CreateLands(c)
    BY <1>1, <1>9, CreateKeeps
  <1> QED
    BY <1>2, <1>3, <1>4, <1>5, <1>6, <1>7, <1>8, <1>9, PageSteps

LEMMA ShownTypes ==
    ASSUME TitleTypes
    PROVE  ShownTitle \in Titles
  BY DEF TitleTypes, HeadSet, ShownTitle

LEMMA SaveTypes ==
    ASSUME TitleTypes, Save, head.editing \/ head.settled
    PROVE  /\ named' \in Titles /\ head' \in HeadSet /\ (~head'.editing \/ head' = head)
           /\ head'.settled /\ saves' \subseteq Rename
  <1>1. CASE head.settled
    BY <1>1 DEF Save, TitleTypes
  <1>2. CASE ~head.settled /\ head.draft = ShownTitle
    BY <1>2 DEF Save, TitleTypes, HeadSet
  <1>3. CASE ~head.settled /\ head.draft # ShownTitle
    <2>1. head.draft \in Titles /\ head.opened \in Nat
      BY <1>3 DEF TitleTypes, HeadSet
    <2>2. head' = [head EXCEPT !.settled = TRUE, !.editing = FALSE, !.pending = head.draft]
      BY <1>3 DEF Save
    <2>3. head' \in HeadSet /\ head'.settled /\ ~head'.editing
      BY <2>1, <2>2 DEF TitleTypes, HeadSet
    <2>4. \E ok \in BOOLEAN :
            /\ named' \in {named, head.draft}
            /\ saves' = saves \cup {[n |-> head.opened, title |-> head.draft, ok |-> ok]}
      BY <1>3 DEF Save
    <2> QED
      BY <2>1, <2>3, <2>4 DEF TitleTypes, Rename
  <1> QED
    BY <1>1, <1>2, <1>3

LEMMA TitleKeeps ==
    ASSUME TitleTypes,
           \/ OpenTitle \/ Enter \/ Escape \/ BlurTitle
           \/ \E t \in Titles : TypeTitle(t)
           \/ \E s \in saves : SaveLands(s)
    PROVE  TitleTypes'
  <1>1. CASE OpenTitle
    <2>1. PICK t \in Titles : t = ShownTitle
      BY ShownTypes
    <2>2. PICK n \in Nat : n = head.opened + 1
      BY DEF TitleTypes, HeadSet
    <2>3. head' = [head EXCEPT !.settled = FALSE, !.draft = t, !.editing = TRUE, !.opened = n]
      BY <1>1, <2>1, <2>2 DEF OpenTitle
    <2>4. head' \in HeadSet /\ head'.draft \in Titles
      BY <2>3 DEF TitleTypes, HeadSet
    <2> QED
      BY <1>1, <2>4 DEF OpenTitle, TitleTypes
  <1>2. CASE Enter
    <2>1. Save /\ head.editing /\ leaving' = TRUE /\ escaped' = escaped
      BY <1>2 DEF Enter
    <2>2. /\ named' \in Titles /\ head' \in HeadSet /\ (~head'.editing \/ head' = head)
          /\ head'.settled /\ saves' \subseteq Rename
      BY <2>1, SaveTypes
    <2> QED
      BY <2>1, <2>2 DEF TitleTypes
  <1>3. CASE Escape
    BY <1>3 DEF Escape, Cancelled, TitleTypes, HeadSet
  <1>4. CASE BlurTitle
    <2>1. Save /\ (head.editing \/ head.settled) /\ leaving' = FALSE /\ escaped' = escaped
      BY <1>4 DEF BlurTitle, TitleTypes
    <2>2. /\ named' \in Titles /\ head' \in HeadSet /\ (~head'.editing \/ head' = head)
          /\ saves' \subseteq Rename
      BY <2>1, SaveTypes
    <2> QED
      BY <2>1, <2>2 DEF TitleTypes
  <1>5. CASE \E t \in Titles : TypeTitle(t)
    BY <1>5 DEF TypeTitle, TitleTypes, HeadSet
  <1>6. CASE \E s \in saves : SaveLands(s)
    <2>1. PICK s \in saves : SaveLands(s)
      BY <1>6
    <2>2. PICK t \in Titles : t = IF s.ok THEN s.title ELSE head.title
      BY DEF TitleTypes, HeadSet, Rename
    <2>3. head' = [head EXCEPT !.title = t, !.pending = NoTitle]
      BY <2>1, <2>2 DEF SaveLands, TitleAnswered
    <2>4. /\ head' \in HeadSet /\ head'.editing = head.editing /\ head'.draft = head.draft
          /\ head'.settled = head.settled
      BY <2>3 DEF TitleTypes, HeadSet
    <2> QED
      BY <2>1, <2>4 DEF SaveLands, TitleTypes
  <1> QED
    BY <1>1, <1>2, <1>3, <1>4, <1>5, <1>6

LEMMA PicWider ==
    ASSUME NEW n \in Nat, NEW p \in PicSet(n)
    PROVE  p \in PicSet(n + 1)
  BY DEF PicSet

LEMMA SavePictureTypes ==
    ASSUME NEW n \in Nat, NEW p \in PicSet(n), drawn \in 0..n
    PROVE  SavePicture(p) \in PicSet(n)
  BY DEF SavePicture, Shot, PicSet, Stages

LEMMA PicKeeps ==
    ASSUME PicTypes, inputs \in Nat, Stroke \/ TimerFires \/ Hide \/ PictureGoesOn
    PROVE  PicTypes'
  <1>1. CASE Stroke
    <2>1. inputs' = inputs + 1 /\ drawn' = drawn + 1 /\ UNCHANGED picture /\ missed' = FALSE
          /\ pic' = [pic EXCEPT !.dirty = TRUE, !.timer = TRUE]
      BY <1>1 DEF Stroke, Does
    <2>2. pic \in PicSet(inputs')
      BY <2>1, PicWider DEF PicTypes
    <2>3. pic' \in PicSet(inputs')
      BY <2>1, <2>2 DEF PicSet
    <2>4. drawn' \in 0..inputs' /\ picture' \in 0..inputs'
      BY <2>1 DEF PicTypes
    <2> QED
      BY <2>1, <2>3, <2>4, Zenon DEF PicTypes
  <1>2. CASE TimerFires
    <2>1. /\ [pic EXCEPT !.timer = FALSE] \in PicSet(inputs)
          /\ [pic EXCEPT !.stray = FALSE, !.timer = FALSE] \in PicSet(inputs)
      BY DEF PicTypes, PicSet
    <2>2. pic' \in PicSet(inputs) /\ UNCHANGED <<drawn, picture, missed, inputs>>
      BY <1>2, <2>1, SavePictureTypes DEF TimerFires, PicTypes
    <2> QED
      BY <2>2 DEF PicTypes
  <1>3. CASE Hide
    <2>1. [pic EXCEPT !.timer = FALSE, !.stray = pic.stray \/ pic.timer] \in PicSet(inputs + 1)
      <3>1. pic \in PicSet(inputs + 1)
        BY PicWider DEF PicTypes
      <3> QED
        BY <3>1 DEF PicSet
    <2>2. pic' \in PicSet(inputs + 1) /\ UNCHANGED <<drawn, picture, missed>> /\ inputs' = inputs + 1
      BY <1>3, <2>1, SavePictureTypes DEF Hide, PicTypes, Does
    <2> QED
      BY <2>2 DEF PicTypes
  <1>4. CASE PictureGoesOn
    <2>1. pic' \in PicSet(inputs)
      BY <1>4 DEF PictureGoesOn, Idle, PicTypes, PicSet, Stages
    <2>2. picture' \in 0..inputs
      BY <1>4 DEF PictureGoesOn, PicTypes, PicSet
    <2> QED
      BY <1>4, <2>1, <2>2 DEF PictureGoesOn, PicTypes
  <1> QED
    BY <1>1, <1>2, <1>3, <1>4

\* More inputs leave what is counted within bounds.
LEMMA MoreInputs ==
    ASSUME PicTypes, inputs \in Nat, UNCHANGED inputs \/ Does, UNCHANGED drawing
    PROVE  PicTypes'
  <1>1. inputs' = inputs \/ inputs' = inputs + 1
    BY DEF Does
  <1> QED
    BY <1>1, PicWider DEF PicTypes, drawing

LEMMA LeaveTypes ==
    ASSUME TitleTypes, PicTypes, inputs \in Nat, UNCHANGED inputs \/ Does, LeavesBoard
    PROVE  TitleTypes' /\ PicTypes'
  <1>1. CASE UNCHANGED corner
    BY <1>1, MoreInputs DEF corner, header, TitleTypes
  <1>2. CASE ~UNCHANGED corner
    <2>1. /\ pic' = [pic EXCEPT !.timer = FALSE, !.stray = FALSE]
          /\ head' = [head EXCEPT !.editing = FALSE]
          /\ missed' = TRUE
          /\ UNCHANGED <<named, leaving, escaped, saves, drawn, picture>>
      BY <1>2 DEF LeavesBoard
    <2>2. TitleTypes'
      BY <2>1 DEF TitleTypes, HeadSet
    <2>3. PicTypes'
      <3>1. inputs' = inputs \/ inputs' = inputs + 1
        BY DEF Does
      <3>2. pic \in PicSet(inputs')
        BY <3>1, PicWider DEF PicTypes
      <3>3. pic' \in PicSet(inputs')
        BY <2>1, <3>2 DEF PicSet
      <3> QED
        BY <2>1, <3>1, <3>3 DEF PicTypes
    <2> QED
      BY <2>2, <2>3
  <1> QED
    BY <1>1, <1>2

\* The header's steps, sorted.
TitleStep ==
    /\ \/ OpenTitle \/ Enter \/ Escape \/ BlurTitle
       \/ \E t \in Titles : TypeTitle(t)
       \/ \E s \in saves : SaveLands(s)
    /\ UNCHANGED <<account, myBoards, drawing>> /\ (UNCHANGED inputs \/ Does)

PicStep ==
    /\ Stroke \/ TimerFires \/ Hide \/ PictureGoesOn
    /\ UNCHANGED <<account, myBoards, header>> /\ (UNCHANGED inputs \/ Does)

LEMMA HeaderSteps ==
    ASSUME HeaderNext
    PROVE  TitleStep \/ PicStep
  <1>1. CASE \/ OpenTitle \/ Enter \/ Escape \/ BlurTitle
             \/ \E t \in Titles : TypeTitle(t)
             \/ \E s \in saves : SaveLands(s)
    BY <1>1 DEF TitleStep, OpenTitle, Enter, Escape, BlurTitle, TypeTitle, SaveLands
  <1>2. CASE Stroke \/ TimerFires \/ Hide \/ PictureGoesOn
    BY <1>2 DEF PicStep, Stroke, TimerFires, Hide, PictureGoesOn
  <1> QED
    BY <1>1, <1>2 DEF HeaderNext

LEMMA StepsKeepTypes ==
    ASSUME Types, [Next]_vars
    PROVE  Types'
  <1>1. AccountTypes /\ ListTypes /\ CreateTypes /\ TitleTypes /\ PicTypes /\ inputs \in Nat
    BY AccountSplits, AccountAssumption DEF Types, Outside, HeaderTypes
  <1>2. CASE HeaderNext
    <2>1. Aside /\ UNCHANGED myBoards
      BY <1>2, HeaderSteps DEF TitleStep, PicStep, Aside
    <2>2. AccountTypes'
      BY <1>1, <2>1, AsideTypes
    <2>3. ListTypes' /\ CreateTypes'
      BY <1>1, <2>1 DEF myBoards, ListTypes, CreateTypes
    <2>4. CASE TitleStep
      BY <1>1, <2>2, <2>3, <2>4, TitleKeeps, MoreInputs DEF TitleStep, Types, HeaderTypes
    <2>5. CASE PicStep
      <3>1. PicTypes'
        BY <1>1, <2>5, PicKeeps DEF PicStep
      <3>2. TitleTypes'
        BY <1>1, <2>5 DEF PicStep, header, TitleTypes
      <3> QED
        BY <2>2, <2>3, <3>1, <3>2 DEF Types, HeaderTypes
    <2> QED
      BY <1>2, <2>4, <2>5, HeaderSteps
  <1>3. CASE MyBoardsNext /\ LeavesBoard
    <2>1. AccountTypes' /\ ListTypes' /\ CreateTypes'
      BY <1>3, PageKeeps
    <2>2. TitleTypes' /\ PicTypes'
      BY <1>1, <1>3, PagesCount, LeaveTypes
    <2> QED
      BY <2>1, <2>2 DEF Types, HeaderTypes
  <1>4. CASE UNCHANGED vars
    <2>1. UNCHANGED <<account, myBoards, header, drawing, inputs>>
      BY <1>4 DEF vars, corner
    <2>2. AccountTypes'
      BY <1>1, <2>1, AsideTypes DEF Aside
    <2>3. ListTypes' /\ CreateTypes'
      BY <1>1, <2>1 DEF myBoards, ListTypes, CreateTypes
    <2>4. TitleTypes' /\ PicTypes'
      BY <1>1, <2>1, MoreInputs DEF header, TitleTypes
    <2> QED
      BY <2>2, <2>3, <2>4 DEF Types, HeaderTypes
  <1> QED
    BY <1>2, <1>3, <1>4 DEF Next

LEMMA InitTypes ==
    Init => Types
  <1> SUFFICES ASSUME Init PROVE Types
    OBVIOUS
  <1>1. MyBoardsInit /\ HeaderInit /\ AccountInit
    BY DEF Init, MyBoardsInit
  <1>2. AccountTypes
    <2>1. inputs = 0 /\ inputs \in 0..MaxInputs
      BY <1>1, AccountAssumption DEF AccountInit
    <2>2. AccountTypeOK
      BY <1>1, <2>1, FreshForm DEF AccountInit, AccountTypeOK, FormSet, Persons, Entries
    <2>3. Inbox /\ Hidden
      BY <1>1, FreshForm DEF AccountInit, Inbox, Hidden
    <2> QED
      BY <2>2, <2>3 DEF AccountTypes
  <1>3. PICK t \in Titles : title = [i \in Ids |-> IF i = Guest \/ owner[i] # NoOne
                                                   THEN t ELSE NoTitle]
    BY <1>1 DEF MyBoardsInit
  <1>4. ListTypes
    <2>1. list \in ListSet /\ asking \in DialogSet /\ ~asking.open
      BY <1>1 DEF MyBoardsInit, Unloaded, ListSet, Unasked, DialogSet
    <2> QED
      BY <1>1, <1>3, <2>1 DEF MyBoardsInit, ListTypes
  <1>5. CreateTypes
    BY <1>1 DEF MyBoardsInit, Closed, CreateTypes, CreateSet
  <1>6. TitleTypes
    <2>1. (CHOOSE u \in Titles : TRUE) \in Titles
      BY <1>3
    <2> QED
      BY <1>1, <2>1 DEF HeaderInit, TitleTypes, HeadSet
  <1>7. PicTypes
    <2>1. inputs = 0 /\ drawn = 0 /\ picture = 0 /\ missed = FALSE
      BY <1>1 DEF HeaderInit, AccountInit
    <2>2. pic \in PicSet(inputs)
      BY <1>1, <2>1 DEF HeaderInit, PicSet, Stages
    <2>3. drawn \in 0..inputs /\ picture \in 0..inputs
      BY <2>1
    <2> QED
      BY <2>1, <2>2, <2>3, Zenon DEF PicTypes
  <1> QED
    BY <1>2, <1>4, <1>5, <1>6, <1>7 DEF Types, HeaderTypes

LEMMA TypesImply ==
    Types => TypeOK
  <1> SUFFICES ASSUME Types PROVE TypeOK
    OBVIOUS
  <1>1. AccountTypeOK
    BY DEF Types, AccountTypes
  <1>2. MyBoardsTypeOK
    BY DEF Types, ListTypes, CreateTypes, MyBoardsTypeOK, ListSet, AskSet, DialogSet, CreateSet
  <1>3. inputs \in 0..MaxInputs
    BY <1>1 DEF AccountTypeOK
  <1> QED
    BY <1>1, <1>2, <1>3, AccountAssumption
    DEF Types, HeaderTypes, TitleTypes, PicTypes, HeadSet, PicSet, Stages, Rename, TypeOK

LEMMA TypesAlways ==
    Spec => []Types
  <1>1. Types /\ [Next]_vars => Types'
    BY StepsKeepTypes
  <1> QED
    BY <1>1, InitTypes, PTL DEF Spec

-----------------------------------------------------------------------------
(* Signing in.                                                             *)

\* Who is shown, and who has the cookie.
shown == <<cookie, user, status, me, mine>>

LEMMA ToldBySteps ==
    ASSUME Types, Told, AccountNext, "slow" \notin Races, "cut" \notin Races
    PROVE  Told'
  <1>1. CASE MeLands
    BY <1>1 DEF MeLands, Told, server
  <1>2. CASE SignOut
    BY <1>2 DEF SignOut, Told, Types, AccountTypes, AccountTypeOK
  <1>3. CASE \E c \in calls : CodeVerified(c)
    <2>1. PICK c \in calls : CodeVerified(c)
      BY <1>3
    <2>2. me = "done" /\ UNCHANGED me
      BY <2>1, VerifiedSplits DEF CodeVerified
    <2>3. CASE Verifies(c)
      BY <2>2, <2>3 DEF Verifies, Applied, Told
    <2>4. CASE Refuses(c)
      BY <2>2, <2>4 DEF Refuses, Told
    <2> QED
      BY <2>1, <2>3, <2>4, VerifiedSplits
  <1>4. CASE \/ \E p \in People : TypeEmail(p)
             \/ \E c \in Codes : TypeCode(c)
             \/ UseDifferentEmail \/ SendCode \/ CoolDown \/ SubmitCode
             \/ \E c \in calls : CodeRequested(c) \/ MoveOn(c) \/ PageComes(c)
             \/ \E p \in {"boards", "signin"} : Visit(p)
    <2>1. UNCHANGED shown
      BY <1>4 DEF TypeEmail, TypeCode, UseDifferentEmail, SendCode, CoolDown, SubmitCode,
                  CodeRequested, MoveOn, PageComes, Visit, server, shown
    <2> QED
      BY <2>1 DEF shown, Told
  <1> QED
    BY <1>1, <1>2, <1>3, <1>4 DEF AccountNext

\* A form that nothing calls is at ease.
LEMMA NobodyHeard ==
    ASSUME \A c \in calls' : ~c.live,
           landed' => form'.sent = form'.code /\ (form'.problem => form'.again),
           form'.step = "code" => form'.email \in wanted'
    PROVE  FormInv'
  BY DEF FormInv, Patient, CodeWasMailed

LEMMA HiddenPatient ==
    ASSUME NEW out \in SUBSET CallSet, ~FormShown', Shows(form, out)
    PROVE  FormInv'
  <1>1. /\ form' = Fresh /\ landed' = FALSE
        /\ calls' = {[c EXCEPT !.live = FALSE] : c \in out}
    BY DEF Shows
  <1>2. \A c \in out : ~[c EXCEPT !.live = FALSE].live
    BY DEF CallSet
  <1>3. \A c \in calls' : ~c.live
    BY <1>1, <1>2
  <1> QED
    BY <1>1, <1>3, FreshForm, NobodyHeard

LEMMA ShowsPatient ==
    ASSUME FormInv, calls \subseteq CallSet, NEW out \in SUBSET calls, Shows(form, out)
    PROVE  FormInv'
  <1>1. CASE FormShown'
    <2>1. form' = form /\ calls' = out /\ wanted' = wanted /\ landed' = landed
      BY <1>1 DEF Shows
    <2> QED
      BY <2>1 DEF FormInv, Patient, CodeWasMailed, Heard
  <1>2. CASE ~FormShown'
    BY <1>2, HiddenPatient
  <1> QED
    BY <1>1, <1>2

LEMMA AtEase ==
    ASSUME FormInv, calls \subseteq CallSet, ~form.busy, ~landed
    PROVE  \A c \in calls : ~c.live
  BY DEF FormInv, Patient, Heard, CallSet

\* A call that is heard is the only one, but for the page that is to come, and a
\* request is without that.
LEMMA OnlyOne ==
    ASSUME FormInv, NEW c \in calls, c.live, c.kind # "replace"
    PROVE  /\ Heard(c)
           /\ \A d \in calls \ {c} : d.live => d.kind = "replace" /\ Heard(d) /\ landed
           /\ c.kind = "request" => \A d \in calls \ {c} : ~d.live
  BY DEF FormInv, Patient, Heard

LEMMA PatientKeeps ==
    ASSUME Types, FormInv, AccountNext, "edit" \notin Races
    PROVE  FormInv'
  <1>1. AccountTypes /\ form \in FormSet /\ calls \subseteq CallSet /\ landed \in BOOLEAN
    BY AccountFacts DEF Types
  <1>2. CASE MeLands \/ SignOut \/ \E p \in {"boards", "signin"} : Visit(p)
    <2>1. Shows(form, calls)
      BY <1>2 DEF MeLands, SignOut, Visit
    <2> QED
      BY <1>1, <2>1, ShowsPatient
  <1>3. CASE \E c \in calls : PageComes(c)
    <2>1. \E c \in calls : Shows(form, calls \ {c})
      BY <1>3 DEF PageComes
    <2> QED
      BY <1>1, <2>1, ShowsPatient
  <1>4. CASE \/ \E p \in People : TypeEmail(p)
             \/ \E c \in Codes : TypeCode(c)
             \/ UseDifferentEmail
    <2>1. ~form.busy /\ ~landed /\ UNCHANGED <<calls, wanted, landed>>
      BY <1>4 DEF TypeEmail, TypeCode, UseDifferentEmail, Editable
    <2>2. \A c \in calls' : ~c.live
      BY <1>1, <2>1, AtEase
    <2>3. form'.step = "code" => form.step = "code" /\ form'.email = form.email
      BY <1>1, <1>4 DEF TypeEmail, TypeCode, UseDifferentEmail, FormSet
    <2> QED
      BY <2>1, <2>2, <2>3, NobodyHeard DEF FormInv, CodeWasMailed
  <1>5. CASE SendCode
    <2>1. /\ ~form.busy /\ ~landed /\ form' = Waiting(form) /\ UNCHANGED <<wanted, landed>>
          /\ calls' = calls \cup {Call("request")}
      BY <1>5 DEF SendCode, Editable
    <2>2. \A c \in calls : ~c.live
      BY <1>1, <2>1, AtEase
    <2>3. form'.busy /\ ~form'.problem /\ form'.email = form.email /\ form'.step = form.step
      BY <1>1, <2>1 DEF Waiting, FormSet
    <2>4. Call("request").email = form.email /\ Call("request").kind = "request"
      BY DEF Call
    <2>5. Patient'
      BY <2>1, <2>2, <2>3, <2>4 DEF Patient, Heard
    <2> QED
      BY <2>1, <2>3, <2>5 DEF FormInv, CodeWasMailed
  <1>6. CASE SubmitCode
    <2> DEFINE again == ~NewFullCode
    <2>1. /\ ~form.busy /\ form.step = "code" /\ again \in BOOLEAN
          /\ form' = [Waiting(form) EXCEPT !.sent = form.code, !.again = again]
          /\ UNCHANGED <<wanted, landed>>
          /\ calls' = calls \cup {Call("verify")}
      BY <1>6 DEF SubmitCode
    <2>2. landed => again
      BY DEF FormInv, Patient, NewFullCode
    <2> HIDE DEF again
    <2>3. \A c \in calls : c.live => c.kind = "replace" /\ c.email = form.email /\ landed
      BY <1>1, <2>1 DEF FormInv, Patient, Heard, CallSet
    <2>4. /\ form'.busy /\ ~form'.problem /\ form'.email = form.email /\ form'.step = "code"
          /\ form'.sent = form'.code /\ form'.again = again
      <3>1. /\ Waiting(form) \in FormSet /\ Waiting(form).busy /\ ~Waiting(form).problem
            /\ Waiting(form).email = form.email /\ Waiting(form).step = form.step
            /\ Waiting(form).code = form.code
        BY <1>1 DEF Waiting, FormSet
      <3> QED
        BY <1>1, <2>1, <3>1 DEF FormSet
    <2>5. Call("verify").email = form.email /\ Call("verify").kind = "verify"
      BY DEF Call
    <2>6. Patient'
      <3>1. ASSUME NEW c \in calls', c.live
            PROVE  Heard(c)'
        BY <2>1, <2>2, <2>3, <2>4, <2>5, <3>1 DEF Heard
      <3>2. \A c, d \in calls' : c.live /\ d.live => c = d \/ "replace" \in {c.kind, d.kind}
        BY <2>1, <2>3
      <3> QED
        BY <2>4, <3>1, <3>2 DEF Patient
    <2> QED
      BY <2>1, <2>4, <2>6 DEF FormInv, CodeWasMailed
  <1>7. CASE CoolDown
    <2>1. /\ UNCHANGED <<calls, wanted, landed>>
          /\ form' = [form EXCEPT !.cooling = FALSE]
      BY <1>7 DEF CoolDown
    <2>2. /\ form'.step = form.step /\ form'.email = form.email /\ form'.busy = form.busy
          /\ form'.problem = form.problem /\ form'.sent = form.sent /\ form'.code = form.code
          /\ form'.again = form.again
      BY <1>1, <2>1 DEF FormSet
    <2>3. Patient'
      BY <2>1, <2>2 DEF FormInv, Patient, Heard
    <2> QED
      BY <2>1, <2>2, <2>3 DEF FormInv, CodeWasMailed
  <1>8. CASE \E c \in calls : CodeRequested(c)
    <2>1. PICK c \in calls : CodeRequested(c)
      BY <1>8
    <2>2. calls' = calls \ {c} /\ landed' = landed /\ c.kind = "request" /\ c.live \in BOOLEAN
      BY <1>1, <2>1 DEF CodeRequested, CallSet
    <2>3. CASE c.live
      <3>1. (\A d \in calls \ {c} : ~d.live) /\ c.email = form.email /\ ~landed
        BY <2>2, <2>3, OnlyOne DEF Heard
      <3>2. form'.step = "code" => form'.email \in wanted'
        <4>1. \/ form'.email = form.email /\ c.email \in wanted'
              \/ form'.email = form.email /\ form'.step = form.step /\ wanted' = wanted
          BY <1>1, <2>1, <2>3 DEF CodeRequested, Tell, FormSet
        <4> QED
          BY <3>1, <4>1 DEF FormInv, CodeWasMailed
      <3> QED
        BY <2>2, <3>1, <3>2, NobodyHeard
    <2>4. CASE ~c.live
      <3>1. form' = form /\ wanted' = wanted
        BY <2>1, <2>4 DEF CodeRequested, Tell
      <3> QED
        BY <2>2, <3>1 DEF FormInv, Patient, CodeWasMailed, Heard
    <2> QED
      BY <2>2, <2>3, <2>4
  <1>9. CASE \E c \in calls : CodeVerified(c)
    <2>1. PICK c \in calls : CodeVerified(c)
      BY <1>9
    <2>2. c \in CallSet /\ c.kind = "verify" /\ c.live \in BOOLEAN
      BY <1>1, <2>1, VerifiedSplits DEF CallSet
    <2> DEFINE d == [c EXCEPT !.kind = "claim"]
    <2>3. d.kind = "claim" /\ d.live = c.live /\ d.email = c.email
      BY <2>2 DEF CallSet
    <2>4. Moved(c) = (calls \ {c}) \cup {d}
      BY DEF Moved
    <2> HIDE DEF d
    <2>5. CASE Verifies(c) /\ FormShown'
      <3>1. /\ calls' = Moved(c) /\ landed' = (landed \/ c.live)
            /\ form' = form /\ wanted' = wanted
        BY <2>5 DEF Verifies
      <3>2. CASE c.live
        <4>1. /\ Heard(c)
              /\ \A e \in calls \ {c} : e.live => e.kind = "replace" /\ e.email = form.email
          BY <2>2, <3>2, OnlyOne DEF Heard
        <4>2. landed' /\ form.busy /\ ~form.problem /\ form.sent = form.code /\ c.email = form.email
          BY <2>2, <3>1, <3>2, <4>1 DEF Heard
        <4>3. ASSUME NEW e \in calls', e.live
              PROVE  Heard(e)' /\ (e = d \/ e.kind = "replace")
          <5>1. e = d \/ (e.kind = "replace" /\ e.email = form.email)
            BY <2>4, <3>1, <4>1, <4>3
          <5> QED
            BY <2>3, <3>1, <4>2, <5>1 DEF Heard
        <4>4. Patient'
          BY <3>1, <4>2, <4>3 DEF Patient
        <4> QED
          BY <3>1, <4>4 DEF FormInv, CodeWasMailed
      <3>3. CASE ~c.live
        <4>1. landed' = landed /\ \A e \in calls' : e.live => e \in calls
          BY <1>1, <2>3, <2>4, <3>1, <3>3
        <4> QED
          BY <3>1, <4>1 DEF FormInv, Patient, CodeWasMailed, Heard
      <3> QED
        BY <2>2, <3>2, <3>3
    <2>6. CASE Verifies(c) /\ ~FormShown'
      <3>1. Shows(form, Moved(c)) /\ Moved(c) \in SUBSET CallSet
        BY <1>1, <2>2, <2>6 DEF Verifies, Moved, CallSet
      <3> QED
        BY <2>6, <3>1, HiddenPatient
    <2>7. CASE Refuses(c)
      <3>1. calls' = calls \ {c} /\ landed' = landed /\ wanted' = wanted
        BY <2>7 DEF Refuses
      <3>2. CASE c.live
        <4>1. /\ landed => form.again
              /\ \A e \in calls' : e.live => e.kind = "replace" /\ e.email = form.email /\ landed
          BY <2>2, <3>1, <3>2, OnlyOne DEF Heard
        <4>2. /\ form'.step = form.step /\ form'.email = form.email /\ form'.sent = form'.code
              /\ form'.again = form.again
          BY <1>1, <2>7, <3>2 DEF Refuses, Tell, FormSet
        <4>3. Patient'
          BY <3>1, <4>1, <4>2 DEF Patient, Heard
        <4> QED
          BY <3>1, <4>2, <4>3 DEF FormInv, CodeWasMailed
      <3>3. CASE ~c.live
        <4>1. form' = form
          BY <2>7, <3>3 DEF Refuses, Tell
        <4> QED
          BY <3>1, <4>1 DEF FormInv, Patient, CodeWasMailed, Heard
      <3> QED
        BY <2>2, <3>2, <3>3
    <2> QED
      BY <2>1, <2>5, <2>6, <2>7, VerifiedSplits
  <1>10. CASE \E c \in calls : MoveOn(c)
    <2>1. PICK c \in calls : MoveOn(c)
      BY <1>10
    <2> DEFINE d == [c EXCEPT !.kind = "replace"]
    <2>2. /\ c.kind = "claim" /\ c.live \in BOOLEAN
          /\ calls' = (calls \ {c}) \cup {d} /\ UNCHANGED <<wanted, landed>>
      BY <1>1, <2>1 DEF MoveOn, CallSet
    <2>3. d.kind = "replace" /\ d.live = c.live /\ d.email = c.email
      BY <1>1 DEF CallSet
    <2> HIDE DEF d
    <2>4. CASE c.live
      <3>1. /\ landed /\ c.email = form.email
            /\ \A e \in calls \ {c} : e.live => e.kind = "replace" /\ e.email = form.email
        BY <2>2, <2>4, OnlyOne DEF Heard
      <3>2. /\ form'.step = form.step /\ form'.email = form.email /\ form'.again = form.again
            /\ form'.problem = form.problem /\ form'.sent = form.sent /\ form'.code = form.code
        BY <1>1, <2>1 DEF MoveOn, Tell, FormSet
      <3>3. \A e \in calls' : e.live => e.kind = "replace" /\ e.email = form.email
        BY <2>2, <2>3, <3>1
      <3>4. Patient'
        BY <2>2, <3>1, <3>2, <3>3 DEF FormInv, Patient, Heard
      <3> QED
        BY <2>2, <3>2, <3>4 DEF FormInv, CodeWasMailed
    <2>5. CASE ~c.live
      <3>1. form' = form /\ \A e \in calls' : e.live => e \in calls
        BY <2>1, <2>2, <2>3, <2>5 DEF MoveOn, Tell
      <3> QED
        BY <2>2, <3>1 DEF FormInv, Patient, CodeWasMailed, Heard
    <2> QED
      BY <2>2, <2>4, <2>5
  <1> QED
    BY <1>2, <1>3, <1>4, <1>5, <1>6, <1>7, <1>8, <1>9, <1>10 DEF AccountNext

\* No other step changes who is shown; one that makes a board may hide the form.
LEMMA OtherSteps ==
    ASSUME [Next]_vars
    PROVE  \/ AccountNext
           \/ UNCHANGED shown /\ (UNCHANGED <<form, calls, wanted, landed>> \/ Shows(form, calls))
  <1>1. CASE HeaderNext \/ UNCHANGED vars
    BY <1>1, HeaderSteps DEF TitleStep, PicStep, vars, account, shown
  <1>2. CASE Follows
    BY <1>2 DEF Follows
  <1>3. CASE \/ Uses \/ Making \/ Reload \/ ClaimStarts
             \/ \E a \in asks : ListLands(a) \/ ChangeLands(a)
    BY <1>3, AsideSteps DEF Aside, account, shown
  <1>4. CASE ClaimLands
    BY <1>4 DEF ClaimLands, shown
  <1>5. CASE \E a \in asks : Served(a)
    BY <1>5, ServedSplits DEF shown
  <1>6. CASE \E c \in checks : CreateLands(c)
    <2>1. PICK c \in checks : CreateLands(c)
      BY <1>6
    <2> QED
      BY <2>1, CreateSplits DEF MadeBoard, NotMade, shown
  <1> QED
    BY <1>1, <1>2, <1>3, <1>4, <1>5, <1>6, PageSteps DEF Next

LEMMA FormAlways ==
    ASSUME "edit" \notin Races
    PROVE  Spec => []FormInv
  <1>1. Init => FormInv
    BY FreshForm DEF Init, MyBoardsInit, AccountInit, FormInv, Patient, CodeWasMailed
  <1>2. Types /\ FormInv /\ [Next]_vars => FormInv'
    <2> SUFFICES ASSUME Types, FormInv, [Next]_vars PROVE FormInv'
      OBVIOUS
    <2>1. CASE AccountNext
      BY <2>1, PatientKeeps
    <2>2. CASE UNCHANGED <<form, calls, wanted, landed>>
      BY <2>2 DEF FormInv, Patient, CodeWasMailed, Heard
    <2>3. CASE Shows(form, calls)
      BY <2>3, ShowsPatient, AccountFacts DEF Types
    <2> QED
      BY <2>1, <2>2, <2>3, OtherSteps
  <1> QED
    BY <1>1, <1>2, TypesAlways, PTL DEF Spec

LEMMA ToldAlways ==
    ASSUME "slow" \notin Races, "cut" \notin Races
    PROVE  Spec => []Told
  <1>1. Init => Told
    BY DEF Init, MyBoardsInit, AccountInit, Told
  <1>2. Types /\ Told /\ [Next]_vars => Told'
    <2> SUFFICES ASSUME Types, Told, [Next]_vars PROVE Told'
      OBVIOUS
    <2>1. CASE AccountNext
      BY <2>1, ToldBySteps
    <2>2. CASE UNCHANGED shown
      BY <2>2 DEF shown, Told
    <2> QED
      BY <2>1, <2>2, OtherSteps
  <1> QED
    BY <1>1, <1>2, TypesAlways, PTL DEF Spec

\* A guest's token is spent only on a board that has an owner from then on,
\* whatever overlaps (claim.ts:32-44).
LEMMA TokenSteps ==
    ASSUME Types, [Next]_vars, guest' # guest
    PROVE  owner'[Guest] # NoOne
  <1>1. owner \in [Ids -> Persons] /\ cookie \in Persons /\ Guest \in Ids
    BY AccountSplits, AccountAssumption DEF Types, Outside
  <1>2. \E ok \in BOOLEAN : ClaimServed(ok)
    <2>1. CASE HeaderNext \/ UNCHANGED vars
      BY <2>1, HeaderSteps DEF TitleStep, PicStep, vars, account
    <2>2. CASE Follows
      <3>1. CASE \E c \in calls : MoveOn(c)
        BY <3>1 DEF MoveOn
      <3>2. CASE \E c \in calls : CodeVerified(c)
        BY <3>2, VerifiedSplits DEF Verifies, Refuses
      <3>3. CASE \/ MeLands \/ SignOut
                 \/ \E p \in People : TypeEmail(p)
                 \/ \E c \in Codes : TypeCode(c)
                 \/ UseDifferentEmail \/ SendCode \/ CoolDown \/ SubmitCode
                 \/ \E c \in calls : CodeRequested(c) \/ PageComes(c)
                 \/ \E p \in {"boards", "signin"} : Visit(p)
        BY <3>3 DEF MeLands, SignOut, TypeEmail, TypeCode, UseDifferentEmail, SendCode, CoolDown,
                    SubmitCode, CodeRequested, PageComes, Visit, server
      <3> QED
        BY <2>2, <3>1, <3>2, <3>3 DEF Follows, AccountNext
    <2>3. CASE \/ Uses \/ Making \/ Reload \/ ClaimStarts
               \/ \E a \in asks : ListLands(a) \/ ChangeLands(a)
      BY <2>3, AsideSteps DEF Aside, account
    <2>4. CASE ClaimLands
      BY <2>4 DEF ClaimLands
    <2>5. CASE \E a \in asks : Served(a)
      BY <2>5, ServedSplits
    <2>6. CASE \E c \in checks : CreateLands(c)
      BY <2>6, CreateSplits
    <2> QED
      BY <2>1, <2>2, <2>3, <2>4, <2>5, <2>6, PageSteps DEF Next
  <1> QED
    BY <1>1, <1>2 DEF ClaimServed

\* TypeOK: in every behaviour the pages, the forms, the calls that are out and
\* what they carry are what the code can make of them, whatever overlaps.
THEOREM PagesHaveTypes == Spec => []TypeOK
  BY TypesAlways, TypesImply, PTL

\* SignInIsTrue: when the form is left alone under a call, a late GET /auth/me
\* does not follow a sign-in and a sign-out reaches the server, the pages show
\* who is signed in, the code step names an inbox that was mailed to, a form
\* that is done sends nothing more by itself - so it stays quiet, unless its
\* idle button is pressed once more -, and a token is kept until its board has
\* an owner (SessionProvider.tsx, SignInForm.tsx, claim.ts).
THEOREM SignsInTruly ==
    ASSUME Races \cap {"edit", "slow", "cut"} = {}
    PROVE  Spec => SignInIsTrue
  <1>1. "edit" \notin Races /\ "slow" \notin Races /\ "cut" \notin Races
    OBVIOUS
  <1>2. Spec => []FormInv
    BY <1>1, FormAlways
  <1>3. Spec => []Told
    BY <1>1, ToldAlways
  <1>4. FormInv => CodeWasMailed /\ QuietOnceIn
    BY DEF FormInv, Patient, QuietOnceIn
  <1>5. Told => ShownIsSignedIn
    BY DEF Told, ShownIsSignedIn
  <1>6. Types /\ [Next]_vars => [guest' # guest => owner'[Guest] # NoOne]_<<guest, owner>>
    BY TokenSteps
  <1> QED
    BY <1>2, <1>3, <1>4, <1>5, <1>6, TypesAlways, TypesImply, PTL
    DEF Spec, SignInIsTrue, TokenUntilOwned

-----------------------------------------------------------------------------
(* My Boards.                                                              *)

\* What Shows does to how many are out.
LEMMA ShowsFew ==
    ASSUME NEW out \in SUBSET CallSet, Shows(form, out), \A c, d \in out : c = d
    PROVE  /\ \A c, d \in calls' : c = d
           /\ out = {} => calls' = {}
           /\ FormShown' => calls' = out
  BY DEF Shows

LEMMA WaitsBySteps ==
    ASSUME Types, FormInv, Waits, AccountNext, "edit" \notin Races, "hurry" \notin Races,
           "again" \notin Races
    PROVE  Waits'
  <1>1. AccountTypes /\ form \in FormSet /\ calls \subseteq CallSet /\ landed \in BOOLEAN
    BY AccountFacts DEF Types
  <1>2. CASE MeLands
    <2>1. /\ Shows(form, calls) /\ me' = "done" /\ page' = page /\ status = "loading"
      BY <1>2 DEF MeLands, Waits
    <2>2. FormShown' => FormShown
      BY <2>1 DEF FormShown
    <2> QED
      BY <1>1, <2>1, <2>2, ShowsFew DEF Waits
  <1>3. CASE SignOut \/ \E p \in {"boards", "signin"} : Visit(p)
    <2>1. Shows(form, calls) /\ calls = {} /\ status' = status /\ me' = me
      BY <1>3 DEF SignOut, Visit
    <2> QED
      BY <1>1, <2>1, ShowsFew DEF Waits
  <1>4. CASE \E c \in calls : PageComes(c)
    <2>1. PICK c \in calls : PageComes(c)
      BY <1>4
    <2>2. Shows(form, calls \ {c}) /\ calls \ {c} = {} /\ status' = status /\ me' = me
      BY <2>1 DEF PageComes, Waits
    <2> QED
      BY <1>1, <2>2, ShowsFew DEF Waits
  <1>5. CASE \/ \E p \in People : TypeEmail(p)
             \/ \E c \in Codes : TypeCode(c)
             \/ UseDifferentEmail \/ CoolDown
    <2>1. UNCHANGED <<page, user, status, me, calls>>
      BY <1>5 DEF TypeEmail, TypeCode, UseDifferentEmail, CoolDown
    <2> QED
      BY <2>1 DEF Waits, FormShown
  <1>6. CASE SendCode \/ SubmitCode
    <2>1. /\ ~form.busy /\ ~landed /\ FormShown /\ UNCHANGED <<page, user, status, me>>
          /\ \E kind \in {"request", "verify"} : calls' = calls \cup {Call(kind)}
      <3>1. CASE SendCode
        BY <3>1 DEF SendCode, Editable
      <3>2. CASE SubmitCode
        BY <3>2 DEF SubmitCode, NewFullCode, FormInv, Patient
      <3> QED
        BY <1>6, <3>1, <3>2
    <2>2. calls = {}
      BY <1>1, <2>1, AtEase DEF Waits
    <2>3. \A kind : Call(kind).live
      BY DEF Call
    <2>4. page # "boards"
      BY <2>1 DEF FormShown
    <2> QED
      BY <2>1, <2>2, <2>3, <2>4 DEF Waits
  <1>7. CASE \E c \in calls : CodeRequested(c)
    <2>1. calls' \subseteq calls /\ UNCHANGED <<page, user, status, me>>
      BY <1>7 DEF CodeRequested
    <2> QED
      BY <2>1 DEF Waits, FormShown
  <1>8. CASE \E c \in calls : CodeVerified(c)
    <2>1. PICK c \in calls : CodeVerified(c)
      BY <1>8
    <2>2. c \in CallSet /\ c.live \in BOOLEAN /\ calls = {c} /\ page # "boards"
      BY <1>1 DEF CallSet, Waits
    <2>3. [c EXCEPT !.kind = "claim"] \in CallSet /\ [c EXCEPT !.kind = "claim"].live = c.live
      BY <2>2 DEF CallSet
    <2>4. Moved(c) = {[c EXCEPT !.kind = "claim"]}
      BY <2>2 DEF Moved
    <2>5. CASE Verifies(c)
      <3>1. page' = page /\ status' = status /\ me' = me /\ user' # NoOne
        BY <2>2, <2>5, AccountAssumption DEF Verifies, Applied, CallSet
      <3>2. FormShown' => FormShown /\ calls' = Moved(c)
        BY <2>5, <3>1 DEF Verifies, FormShown
      <3>3. ~FormShown' => \A d, e \in calls' : d = e
        <4>1. ~FormShown' => Shows(form, Moved(c))
          BY <2>5 DEF Verifies
        <4>2. Moved(c) \in SUBSET CallSet /\ \A d, e \in Moved(c) : d = e
          BY <2>3, <2>4
        <4> QED
          BY <4>1, <4>2, ShowsFew
      <3> QED
        BY <2>2, <2>3, <2>4, <3>1, <3>2, <3>3 DEF Waits
    <2>6. CASE Refuses(c)
      BY <2>6 DEF Refuses, Waits, FormShown
    <2> QED
      BY <2>1, <2>5, <2>6, VerifiedSplits
  <1>9. CASE \E c \in calls : MoveOn(c)
    <2>1. PICK c \in calls : MoveOn(c)
      BY <1>9
    <2>2. /\ calls = {c} /\ calls' = {[c EXCEPT !.kind = "replace"]} /\ page # "boards"
          /\ UNCHANGED <<page, user, status, me>>
      BY <2>1 DEF MoveOn, Waits
    <2>3. [c EXCEPT !.kind = "replace"].live = c.live
      BY <1>1 DEF CallSet
    <2> QED
      BY <2>2, <2>3 DEF Waits, FormShown
  <1> QED
    BY <1>2, <1>3, <1>4, <1>5, <1>6, <1>7, <1>8, <1>9 DEF AccountNext

\* The page and who is on it.
place == <<page, user, status, me, calls>>

\* No other step changes the page, but for making a board.
LEMMA OtherPlaces ==
    ASSUME [Next]_vars
    PROVE  \/ AccountNext
           \/ UNCHANGED place
           \/ page' = "board" /\ Shows(form, calls) /\ UNCHANGED <<status, me>>
  <1>1. CASE HeaderNext \/ UNCHANGED vars
    BY <1>1, HeaderSteps DEF TitleStep, PicStep, vars, account, place
  <1>2. CASE Follows
    BY <1>2 DEF Follows
  <1>3. CASE \/ Uses \/ Making \/ Reload \/ ClaimStarts
             \/ \E a \in asks : ListLands(a) \/ ChangeLands(a)
    BY <1>3, AsideSteps DEF Aside, account, place
  <1>4. CASE ClaimLands
    BY <1>4 DEF ClaimLands, place
  <1>5. CASE \E a \in asks : Served(a)
    BY <1>5, ServedSplits DEF place
  <1>6. CASE \E c \in checks : CreateLands(c)
    <2>1. PICK c \in checks : CreateLands(c)
      BY <1>6
    <2> QED
      BY <2>1, CreateSplits DEF MadeBoard, NotMade, place
  <1> QED
    BY <1>1, <1>2, <1>3, <1>4, <1>5, <1>6, PageSteps DEF Next

LEMMA WaitsKeeps ==
    ASSUME Types, FormInv, Waits, [Next]_vars, "edit" \notin Races, "hurry" \notin Races,
           "again" \notin Races
    PROVE  Waits'
  <1>1. CASE AccountNext
    BY <1>1, WaitsBySteps
  <1>2. CASE UNCHANGED place
    BY <1>2 DEF place, Waits, FormShown
  <1>3. CASE page' = "board" /\ Shows(form, calls) /\ UNCHANGED <<status, me>>
    <2>1. calls \in SUBSET CallSet /\ ~FormShown'
      BY <1>3, AccountFacts DEF Types, FormShown
    <2> QED
      BY <1>3, <2>1, ShowsFew DEF Waits
  <1> QED
    BY <1>1, <1>2, <1>3, OtherPlaces

-----------------------------------------------------------------------------
(* What is listed.                                                         *)

\* What the list and the answers are compared with.
compared == <<page, user, cookie, owner, title>>

LEMMA SameList ==
    ASSUME ListInv, UNCHANGED <<compared, listed>>
    PROVE  ListInv'
  <1>1. UNCHANGED <<page, user, cookie, owner, title, list, gen, asks, asking, claim>>
    BY DEF compared, listed
  <1>2. Vacant' /\ Alone' /\ Dialogs'
    BY <1>1 DEF ListInv, Vacant, Key, Alone, Changes, Dialogs
  <1>3. Loads'
    BY <1>1 DEF ListInv, Loads, Current, OwnedBy
  <1>4. Listed'
    <2>1. Accurate(list)' = Accurate(list) /\ Changes' = Changes
      BY <1>1 DEF Accurate, OwnedBy, Changes
    <2>2. \A a : Accurate(After(a))' = Accurate(After(a))
      BY <1>1 DEF Accurate, OwnedBy, After, Prepended, Replaced
    <2> QED
      BY <1>1, <2>1, <2>2 DEF ListInv, Listed
  <1> QED
    BY <1>2, <1>3, <1>4 DEF ListInv

\* While nothing is listed, what the server has does not matter.
LEMMA VacantList ==
    ASSUME ListInv, Key = NoOne, Key' = NoOne, UNCHANGED <<list, gen, asks, asking>>
    PROVE  ListInv'
  <1>1. list.status = "idle" /\ ~asking.open /\ \A a \in asks : ~a.live
    BY DEF ListInv, Vacant
  <1>2. Changes = {}
    BY <1>1 DEF ListInv, Alone, Changes
  <1> QED
    BY <1>1, <1>2 DEF ListInv, Vacant, Alone, Changes, Dialogs, Loads, Current, Listed

\* A load among older ones is the one that counts.
LEMMA LoadLists ==
    ASSUME NEW out \in SUBSET AskSet, \A a \in out : a.kind = "list" /\ a.n <= gen,
           gen \in Nat, Load(out), Key' # NoOne, ~asking'.open
    PROVE  ListInv'
  <1> DEFINE b == Ask("list", gen + 1, NoId, NoTitle)
  <1>1. b.kind = "list" /\ b.n = gen + 1 /\ b.state = "sent"
    BY DEF Ask
  <1>2. gen' = gen + 1 /\ list' = Unloaded("loading") /\ asks' = out \cup {b}
    BY DEF Load
  <1> HIDE DEF b
  <1>3. list'.status = "loading"
    BY <1>2 DEF Unloaded
  <1>4. \A a \in out : a.n \in Nat
    BY DEF AskSet
  <1>5. \A a \in asks' : a.kind = "list" /\ a.n <= gen' /\ (a.n = gen' => a = b)
    BY <1>1, <1>2, <1>4
  <1>6. Loads'
    BY <1>1, <1>3, <1>5 DEF Loads, Current
  <1> QED
    BY <1>3, <1>5, <1>6 DEF ListInv, Vacant, Alone, Changes, Dialogs, Listed

\* Nothing but loads is out when the list is another's.
LEMMA FollowLists ==
    ASSUME Types, ListInv, ListFollows, "hurry" \notin Races,
           (Key' = Key /\ Key # NoOne) => UNCHANGED compared
    PROVE  ListInv'
  <1>1. ListTypes /\ gen \in Nat /\ asks \in SUBSET AskSet
    BY DEF Types, ListTypes
  <1>2. CASE Key' = Key /\ Key # NoOne
    BY <1>2, SameList DEF ListFollows
  <1>3. CASE Key' = Key /\ Key = NoOne
    BY <1>3, VacantList DEF ListFollows, listed
  <1>4. CASE Key' # Key
    <2>1. (\A a \in asks : a.kind = "list") /\ asking' = Unasked
      BY <1>4 DEF ListFollows
    <2>2. ~asking'.open
      BY <2>1 DEF Unasked
    <2>3. \A a \in asks : /\ [a EXCEPT !.live = FALSE].kind = "list" /\ ~[a EXCEPT !.live = FALSE].live
                          /\ [a EXCEPT !.live = FALSE].n = a.n /\ a.n <= gen
      BY <1>1, <2>1 DEF AskSet, ListInv, Loads
    <2>4. \A a \in Gone : a.kind = "list" /\ ~a.live /\ a.n <= gen
      BY <2>3 DEF Gone
    <2>5. CASE Key' = NoOne
      <3>1. list' = Unloaded("idle") /\ gen' = gen /\ asks' = Gone
        BY <1>4, <2>5 DEF ListFollows, Gone
      <3>2. list'.status = "idle"
        BY <3>1 DEF Unloaded
      <3> QED
        BY <2>2, <2>4, <3>1, <3>2
        DEF ListInv, Vacant, Alone, Changes, Dialogs, Loads, Current, Listed
    <2>6. CASE Key' # NoOne
      <3>1. Load(Gone)
        BY <1>4, <2>6 DEF ListFollows, Gone
      <3> QED
        BY <1>1, <2>2, <2>4, <2>6, <3>1, LoadLists, GoneTypes
    <2> QED
      BY <2>5, <2>6
  <1> QED
    BY <1>2, <1>3, <1>4

\* On My Boards nothing of the account is under way that changes the boards.
LEMMA AccountLists ==
    ASSUME Waits, Follows, Key' = Key, Key # NoOne
    PROVE  UNCHANGED compared
  <1>1. page = "boards" /\ calls = {} /\ page' = page /\ user' = user /\ user # NoOne
    BY DEF Key, Waits
  <1>2. ~SignOut
    BY <1>1 DEF SignOut
  <1>3. \/ MeLands
        \/ \E p \in People : TypeEmail(p)
        \/ \E c \in Codes : TypeCode(c)
        \/ UseDifferentEmail \/ SendCode \/ CoolDown \/ SubmitCode
        \/ \E p \in {"boards", "signin"} : Visit(p)
    BY <1>1, <1>2 DEF Follows, AccountNext
  <1>4. UNCHANGED <<cookie, owner>>
    BY <1>3 DEF MeLands, TypeEmail, TypeCode, UseDifferentEmail, SendCode, CoolDown, SubmitCode,
                Visit, server
  <1> QED
    BY <1>1, <1>4 DEF Follows, compared

\* Where changes are out, there is only one and no load.
LEMMA NoLoad ==
    ASSUME ListInv, NEW a \in asks, a.kind = "list"
    PROVE  Changes = {}
  BY DEF ListInv, Alone, Changes

LEMMA ListLandsLists ==
    ASSUME Types, ListInv, NEW a, ListLands(a)
    PROVE  ListInv'
  <1>1. /\ a \in asks /\ a.kind = "list" /\ a \in AskSet /\ asks' = asks \ {a}
        /\ UNCHANGED <<compared, gen, asking, claim>> /\ Changes = {}
    BY NoLoad DEF ListLands, Types, ListTypes, account, compared
  <1>2. \A b \in asks' : b.kind = "list"
    BY <1>1 DEF Changes
  <1>3. CASE ~Current(a)
    <2>1. list' = list
      BY <1>3 DEF ListLands
    <2> QED
      BY <1>1, <1>2, <2>1
      DEF ListInv, compared, Vacant, Key, Alone, Changes, Dialogs, Loads, Current, Listed, Accurate,
          OwnedBy
  <1>4. CASE Current(a)
    <2>1. list.status = "loading" /\ \A b \in asks' : ~Current(b)
      BY <1>1, <1>2, <1>4 DEF ListInv, Loads
    <2>2. Key # NoOne
      BY <1>1, <1>4 DEF ListInv, Vacant, Current
    <2>3. ~asking.open
      BY <2>1 DEF ListInv, Dialogs
    <2>4. list'.status = "ready" => list'.tiles = OwnedBy(cookie) /\ list'.doubled = {}
      BY <1>1, <1>4 DEF ListLands, Unloaded, ListInv, Loads
    <2>5. Listed'
      BY <1>1, <1>2, <2>4 DEF Listed, Changes, Accurate, OwnedBy, compared
    <2>6. Loads'
      BY <1>1, <1>2, <2>1 DEF ListInv, Loads, Current
    <2> QED
      BY <1>1, <1>2, <2>2, <2>3, <2>5, <2>6 DEF ListInv, Vacant, Key, Alone, Changes, Dialogs, compared
  <1> QED
    BY <1>3, <1>4

\* A load is served.
LEMMA LoadServed ==
    ASSUME Types, ListInv, NEW a \in asks, a.kind = "list", NEW b, Answer(a, b),
           b.kind = "list", b.n = a.n, b.live = a.live,
           b.state = "ok" => b.got = OwnedBy(cookie),
           UNCHANGED <<compared, list, gen, asking, claim>>
    PROVE  ListInv'
  <1>1. Changes = {} /\ asks' = (asks \ {a}) \cup {b}
    BY NoLoad DEF Answer
  <1>2. \A c \in asks' : c.kind = "list"
    BY <1>1 DEF Changes
  <1>3. Vacant'
    BY <1>1 DEF ListInv, Vacant, Key, compared
  <1>4. Loads'
    BY <1>1 DEF ListInv, Loads, Current, OwnedBy, compared
  <1>5. Dialogs'
    BY <1>1, <1>2 DEF ListInv, Dialogs, Changes
  <1> QED
    BY <1>1, <1>2, <1>3, <1>4, <1>5 DEF ListInv, Alone, Changes, Listed, Accurate, OwnedBy, compared

\* A change is served, or refused.
LEMMA ChangeServed ==
    ASSUME Types, ListInv, NEW a \in asks, a.kind # "list", NEW b, Answer(a, b),
           b.kind = a.kind, b.n = a.n, b.live = a.live, b.as = a.as,
           IF b.state = "ok" THEN Accurate(After(b))' ELSE Accurate(list)',
           UNCHANGED <<page, user, cookie, list, gen, asking, claim>>
    PROVE  ListInv'
  <1>1. /\ asks = {a} /\ a.live /\ a.as = cookie /\ claim = "done" /\ list.status = "ready"
        /\ a.kind # "copy" => a.n = asking.opened
    BY DEF ListInv, Alone, Changes
  <1>2. asks' = {b} /\ Changes' = {b}
    BY <1>1 DEF Answer, Changes
  <1>3. Vacant'
    BY <1>1, <1>2 DEF ListInv, Vacant, Key
  <1>4. Alone' /\ Loads'
    BY <1>1, <1>2 DEF Alone, Loads
  <1>5. Dialogs'
    BY <1>1, <1>2 DEF ListInv, Dialogs, Changes
  <1>6. Listed'
    BY <1>2 DEF Listed
  <1> QED
    BY <1>3, <1>4, <1>5, <1>6 DEF ListInv

-----------------------------------------------------------------------------

\* What a served change makes of the boards is what its answer makes of the list.
LEMMA RenameServed ==
    ASSUME Types, Accurate(list), NEW a \in asks, ServesRename(a), UNCHANGED <<list, cookie>>,
           NEW b, b.kind = "rename", b.id = a.id, b.title = a.title
    PROVE  Accurate(After(b))'
  <1>1. /\ a.id \in Ids /\ a.title \in Titles /\ a.kind = "rename" /\ owner[a.id] = cookie
        /\ title[a.id] # NoTitle /\ title' = [title EXCEPT ![a.id] = a.title] /\ owner' = owner
        /\ title \in [Ids -> Titles \cup {NoTitle}] /\ list \in ListSet
    BY DEF Types, ListTypes, Aimed, ServesRename, Owned
  <1>2. list.tiles = OwnedBy(cookie) /\ list.doubled = {}
    BY DEF Accurate
  <1> DEFINE new == {IF t.id = a.id THEN Tile(a.id, a.title) ELSE t : t \in list.tiles}
  <1>3. After(b)' = [list EXCEPT !.tiles = new]
    BY DEF After, Replaced
  <1>4. new = OwnedBy(cookie)'
    <2>1. \A i \in Ids : (title'[i] # NoTitle) <=> (title[i] # NoTitle)
      BY <1>1, MyBoardsAssumption
    <2>2. \A i \in Ids : title'[i] = IF i = a.id THEN a.title ELSE title[i]
      BY <1>1
    <2>3. OwnedBy(cookie)' = {Tile(i, title'[i]) : i \in {j \in Ids : title[j] # NoTitle /\ owner[j] = cookie}}
      BY <1>1, <2>1 DEF OwnedBy
    <2>4. \A i \in Ids : LET t == Tile(i, title[i])
                         IN  Tile(i, title'[i]) = IF t.id = a.id THEN Tile(a.id, a.title) ELSE t
      BY <2>2 DEF Tile
    <2>5. list.tiles = {Tile(i, title[i]) : i \in {j \in Ids : title[j] # NoTitle /\ owner[j] = cookie}}
      BY <1>2 DEF OwnedBy
    <2> QED
      BY <2>3, <2>4, <2>5
  <1> HIDE DEF new
  <1>5. After(b)'.tiles = new /\ After(b)'.doubled = {}
    BY <1>1, <1>2, <1>3 DEF ListSet
  <1> QED
    BY <1>4, <1>5 DEF Accurate

LEMMA DeleteServed ==
    ASSUME Types, Accurate(list), NEW a \in asks, ServesDelete(a), UNCHANGED <<list, cookie>>,
           NEW b, b.kind = "delete", b.id = a.id
    PROVE  Accurate(After(b))'
  <1>1. /\ a.id \in Ids /\ title' = [title EXCEPT ![a.id] = NoTitle]
        /\ owner' = [owner EXCEPT ![a.id] = NoOne]
        /\ title \in [Ids -> Titles \cup {NoTitle}] /\ list \in ListSet
        /\ owner \in [Ids -> Persons]
    BY AccountSplits DEF Types, ListTypes, Aimed, ServesDelete, Outside
  <1>2. list.tiles = OwnedBy(cookie) /\ list.doubled = {}
    BY DEF Accurate
  <1> DEFINE new == {t \in list.tiles : t.id # a.id}
  <1>3. After(b)' = [list EXCEPT !.tiles = new]
    BY DEF After, Replaced
  <1>4. new = OwnedBy(cookie)'
    <2>1. \A i \in Ids : /\ i # a.id => title'[i] = title[i] /\ owner'[i] = owner[i]
                         /\ i = a.id => title'[i] = NoTitle
      BY <1>1
    <2>2. \A i \in Ids : Tile(i, title[i]).id = i
      BY DEF Tile
    <2>3. OwnedBy(cookie)' = {Tile(i, title'[i]) : i \in {j \in Ids : title'[j] # NoTitle /\ owner'[j] = cookie}}
      BY DEF OwnedBy
    <2>4. list.tiles = {Tile(i, title[i]) : i \in {j \in Ids : title[j] # NoTitle /\ owner[j] = cookie}}
      BY <1>2 DEF OwnedBy
    <2> QED
      BY <2>1, <2>2, <2>3, <2>4
  <1> HIDE DEF new
  <1>5. After(b)'.tiles = new /\ After(b)'.doubled = {}
    BY <1>1, <1>2, <1>3 DEF ListSet
  <1> QED
    BY <1>4, <1>5 DEF Accurate

LEMMA CopyServed ==
    ASSUME Types, Accurate(list), NEW a \in asks, NEW i \in Ids, NEW t \in Titles,
           ServesCopy(a, i, t), UNCHANGED <<list, cookie>>,
           NEW b, b.kind = "copy", b.got = {Tile(i, t)}
    PROVE  Accurate(After(b))'
  <1>1. /\ title[i] = NoTitle /\ title' = [title EXCEPT ![i] = t]
        /\ owner' = [owner EXCEPT ![i] = cookie]
        /\ title \in [Ids -> Titles \cup {NoTitle}] /\ list \in ListSet
        /\ owner \in [Ids -> Persons]
    BY AccountSplits DEF Types, ListTypes, ServesCopy, Outside
  <1>2. list.tiles = OwnedBy(cookie) /\ list.doubled = {}
    BY DEF Accurate
  <1>3. \A j \in Ids : /\ j # i => title'[j] = title[j] /\ owner'[j] = owner[j]
                       /\ j = i => title'[j] = t /\ owner'[j] = cookie
    BY <1>1
  <1>4. \A j \in Ids : \A u : Tile(j, u).id = j
    BY DEF Tile
  <1>5. list.tiles = {Tile(j, title[j]) : j \in {k \in Ids : title[k] # NoTitle /\ owner[k] = cookie}}
    BY <1>2 DEF OwnedBy
  <1>6. Tile(i, t) \notin list.tiles
    BY <1>1, <1>4, <1>5
  <1>7. list.tiles \cup {Tile(i, t)} = OwnedBy(cookie)'
    <2>1. OwnedBy(cookie)' = {Tile(j, title'[j]) : j \in {k \in Ids : title'[k] # NoTitle /\ owner'[k] = cookie}}
      BY DEF OwnedBy
    <2> QED
      BY <1>1, <1>3, <1>5, <2>1, MyBoardsAssumption
  <1>8. {u.id : u \in b.got \cap list.tiles} = {}
    BY <1>6
  <1>9. After(b)' = [list EXCEPT !.tiles = list.tiles \cup b.got,
                                 !.doubled = list.doubled \cup {u.id : u \in b.got \cap list.tiles}]
    BY DEF After, Prepended
  <1>10. After(b)'.tiles = list.tiles \cup {Tile(i, t)} /\ After(b)'.doubled = {}
    BY <1>1, <1>2, <1>8, <1>9 DEF ListSet
  <1> QED
    BY <1>7, <1>10 DEF Accurate

LEMMA ServedLists ==
    ASSUME Types, ListInv, NEW a, Served(a)
    PROVE  ListInv'
  <1>1. /\ a \in asks /\ a.state = "sent" /\ a \in AskSet
        /\ UNCHANGED <<page, cookie, user, list, gen, asking, claim>>
    BY ServedSplits DEF Types, ListTypes
  <1>2. CASE a.kind = "list"
    <2>1. PICK b : /\ Answer(a, b) /\ UNCHANGED <<owner, title>>
                   /\ b.kind = "list" /\ b.n = a.n /\ b.live = a.live
                   /\ b.state = "ok" => b.got = OwnedBy(cookie)
      <3>1. CASE Refused(a)
        BY <1>1, <1>2, <3>1 DEF Refused, AskSet
      <3>2. CASE ServesList(a)
        <4> DEFINE b == [a EXCEPT !.state = "ok", !.got = OwnedBy(cookie)]
        <4>1. b.kind = a.kind /\ b.n = a.n /\ b.live = a.live /\ b.got = OwnedBy(cookie)
          BY <1>1 DEF AskSet
        <4>2. Answer(a, b) /\ UNCHANGED <<owner, title>>
          BY <3>2 DEF ServesList
        <4> HIDE DEF b
        <4> QED
          BY <1>2, <4>1, <4>2
      <3> QED
        BY <1>2, <3>1, <3>2, ServedSplits DEF ServesRename, ServesDelete, ServesCopy
    <2> QED
      BY <1>1, <1>2, <2>1, LoadServed DEF compared
  <1>3. CASE a.kind # "list"
    <2>1. Accurate(list)
      <3>1. Changes = {a} /\ list.status = "ready"
        BY <1>1, <1>3 DEF ListInv, Alone, Changes
      <3> QED
        BY <1>1, <3>1 DEF ListInv, Listed
    <2>2. CASE Refused(a)
      <3> DEFINE b == [a EXCEPT !.state = "no"]
      <3>1. b.kind = a.kind /\ b.n = a.n /\ b.live = a.live /\ b.as = a.as /\ b.state = "no"
        BY <1>1 DEF AskSet
      <3>2. Answer(a, b) /\ UNCHANGED <<owner, title>>
        BY <2>2 DEF Refused
      <3> HIDE DEF b
      <3>3. Accurate(list)'
        BY <1>1, <2>1, <3>2 DEF Accurate, OwnedBy
      <3> QED
        BY <1>1, <1>3, <3>1, <3>2, <3>3, ChangeServed
    <2>3. CASE ServesRename(a) \/ ServesDelete(a)
      <3> DEFINE b == [a EXCEPT !.state = "ok"]
      <3>1. /\ b.kind = a.kind /\ b.n = a.n /\ b.live = a.live /\ b.as = a.as /\ b.state = "ok"
            /\ b.id = a.id /\ b.title = a.title
        BY <1>1 DEF AskSet
      <3>2. Answer(a, b) /\ (a.kind = "rename" \/ a.kind = "delete")
        BY <2>3 DEF ServesRename, ServesDelete
      <3> HIDE DEF b
      <3>3. Accurate(After(b))'
        <4>1. CASE ServesRename(a)
          BY <1>1, <2>1, <3>1, <4>1, RenameServed DEF ServesRename
        <4>2. CASE ServesDelete(a)
          BY <1>1, <2>1, <3>1, <4>2, DeleteServed DEF ServesDelete
        <4> QED
          BY <2>3, <4>1, <4>2
      <3> QED
        BY <1>1, <1>3, <3>1, <3>2, <3>3, ChangeServed
    <2>4. CASE \E i \in Ids, t \in Titles : ServesCopy(a, i, t)
      <3>1. PICK i \in Ids, t \in Titles : ServesCopy(a, i, t)
        BY <2>4
      <3> DEFINE b == [a EXCEPT !.state = "ok", !.got = {Tile(i, t)}]
      <3>2. /\ b.kind = a.kind /\ b.n = a.n /\ b.live = a.live /\ b.as = a.as /\ b.state = "ok"
            /\ b.got = {Tile(i, t)}
        BY <1>1 DEF AskSet
      <3>3. Answer(a, b) /\ a.kind = "copy"
        BY <3>1 DEF ServesCopy
      <3> HIDE DEF b
      <3>4. Accurate(After(b))'
        BY <1>1, <2>1, <3>1, <3>2, <3>3, CopyServed
      <3> QED
        BY <1>1, <1>3, <3>2, <3>3, <3>4, ChangeServed
    <2> QED
      BY <1>3, <2>2, <2>3, <2>4, ServedSplits DEF ServesList
  <1> QED
    BY <1>2, <1>3

LEMMA ChangeLandsLists ==
    ASSUME Types, ListInv, NEW a, ChangeLands(a)
    PROVE  ListInv'
  <1>1. /\ a \in asks /\ a.kind # "list" /\ a.state \in {"ok", "no"} /\ asks' = asks \ {a}
        /\ UNCHANGED <<compared, gen, claim>>
    BY DEF ChangeLands, Types, ListTypes, AskSet, account, compared
  <1>2. /\ asks = {a} /\ a.live /\ claim = "done" /\ list.status = "ready" /\ Changes = {a}
    BY <1>1 DEF ListInv, Alone, Changes
  <1>3. asks' = {}
    BY <1>1, <1>2
  <1>4. list' = IF a.state = "no" THEN list ELSE After(a)
    BY <1>2 DEF ChangeLands, Update, After
  <1>5. list'.status = "ready"
    BY <1>1, <1>2, <1>4, AfterTypes DEF Types
  <1>6. Accurate(list')
    <2>1. a.state = "ok" => Accurate(After(a))
      BY <1>2 DEF ListInv, Listed
    <2>2. a.state # "ok" => Accurate(list)
      BY <1>2 DEF ListInv, Listed
    <2> QED
      BY <1>1, <1>4, <2>1, <2>2
  <1>7. Accurate(list)'
    BY <1>1, <1>6 DEF Accurate, OwnedBy, compared
  <1>8. asking'.open => asking.open
    BY <1>2 DEF ChangeLands, DialogAnswered, Types, ListTypes, DialogSet
  <1>9. Key' = Key /\ Key # NoOne
    BY <1>1, <1>2 DEF ListInv, Vacant, Key, compared
  <1> QED
    BY <1>1, <1>2, <1>3, <1>5, <1>7, <1>8, <1>9
    DEF ListInv, Vacant, Alone, Changes, Dialogs, Loads, Listed

\* A tile is used when nothing is out.
LEMMA TileUsedCalm ==
    ASSUME Types, NEW t, TileUsed(t), "tile" \notin Races, "dialog" \notin Races
    PROVE  /\ asks = {} /\ claim = "done" /\ Key # NoOne /\ list.status = "ready"
           /\ t \in TileSet
           /\ UNCHANGED <<compared, list, gen, claim>> /\ ~asking.open
  BY DEF TileUsed, Calm, Types, ListTypes, ListSet, account, compared

LEMMA UsesLists ==
    ASSUME Types, ListInv, Uses, "tile" \notin Races, "dialog" \notin Races
    PROVE  ListInv'
  <1>1. CASE \E t \in list.tiles : Duplicate(t)
    <2>1. PICK t \in list.tiles : Duplicate(t)
      BY <1>1
    <2>2. /\ asks = {} /\ claim = "done" /\ Key # NoOne /\ list.status = "ready"
          /\ UNCHANGED <<compared, list, gen, claim>> /\ ~asking.open /\ asking' = asking
      BY <2>1, TileUsedCalm DEF Duplicate
    <2> DEFINE b == Ask("copy", inputs', t.id, NoTitle)
    <2>3. b.kind = "copy" /\ b.live /\ b.as = cookie' /\ b.state = "sent"
      BY DEF Ask
    <2>4. asks' = {b} /\ Changes' = {b}
      BY <2>1, <2>2, <2>3 DEF Duplicate, Changes
    <2> HIDE DEF b
    <2>5. Accurate(list)'
      <3>1. Accurate(list)
        BY <2>2 DEF ListInv, Listed, Changes
      <3> QED
        BY <2>2, <3>1 DEF Accurate, OwnedBy, compared
    <2>6. Key' = Key
      BY <2>2 DEF Key, compared
    <2> QED
      BY <2>2, <2>3, <2>4, <2>5, <2>6
      DEF ListInv, Vacant, Alone, Dialogs, Loads, Listed
  <1>2. CASE \E t \in list.tiles, kind \in {"rename", "delete"} : OpenDialog(kind, t)
    <2>1. PICK t \in list.tiles, kind \in {"rename", "delete"} : OpenDialog(kind, t)
      BY <1>2
    <2>2. /\ asks = {} /\ claim = "done" /\ Key # NoOne /\ list.status = "ready" /\ asks' = asks
          /\ UNCHANGED <<compared, list, gen, claim>>
      BY <2>1, TileUsedCalm DEF OpenDialog
    <2>3. Listed'
      BY <2>2 DEF ListInv, Listed, Changes, Accurate, OwnedBy, compared
    <2> QED
      BY <2>2, <2>3 DEF ListInv, Vacant, Key, Alone, Changes, Dialogs, Loads, compared
  <1>3. CASE \E t \in Titles : Confirm(t)
    <2>1. PICK t \in Titles : Confirm(t)
      BY <1>3
    <2>2. /\ asking.open /\ ~asking.busy /\ UNCHANGED <<compared, list, gen, claim>>
          /\ asking.kind \in {"rename", "delete"} /\ asking \in DialogSet
      BY <2>1 DEF Confirm, Types, ListTypes, DialogSet, account, compared
    <2>3. asks = {} /\ claim = "done" /\ list.status = "ready" /\ Key # NoOne /\ Accurate(list)
      BY <2>2 DEF ListInv, Dialogs, Vacant, Listed, Changes
    <2>4. Accurate(list)' /\ Key' = Key
      BY <2>2, <2>3 DEF Accurate, OwnedBy, Key, compared
    <2>5. CASE asks' = asks
      BY <2>2, <2>3, <2>4, <2>5 DEF ListInv, Vacant, Alone, Changes, Dialogs, Loads, Listed
    <2>6. CASE asks' # asks
      <3> DEFINE b == Ask(asking.kind, asking.opened, asking.id, t)
      <3>1. /\ b.kind = asking.kind /\ b.n = asking.opened /\ b.live /\ b.as = cookie'
            /\ b.state = "sent"
        BY DEF Ask
      <3>2. asks' = {b} /\ asking' = [asking EXCEPT !.busy = TRUE]
        BY <2>1, <2>3, <2>6 DEF Confirm
      <3> HIDE DEF b
      <3>3. asking'.open /\ asking'.busy /\ asking'.opened = asking.opened
        BY <2>2, <3>2 DEF DialogSet
      <3>4. Changes' = {b}
        BY <2>2, <3>1, <3>2 DEF Changes
      <3> QED
        BY <2>2, <2>3, <2>4, <3>1, <3>2, <3>3, <3>4
        DEF ListInv, Vacant, Alone, Dialogs, Loads, Listed
    <2> QED
      BY <2>5, <2>6
  <1>4. CASE StopAsking
    <2>1. /\ UNCHANGED <<compared, list, gen, asks, claim>>
          /\ asking' = [asking EXCEPT !.open = FALSE]
      BY <1>4 DEF StopAsking, account, compared
    <2>2. ~asking'.open /\ asking'.opened = asking.opened
      BY <2>1 DEF Types, ListTypes, DialogSet
    <2> QED
      BY <2>1, <2>2
      DEF ListInv, Vacant, Key, Alone, Changes, Dialogs, Loads, Current, Listed, Accurate, After,
          Prepended, Replaced, OwnedBy, compared
  <1> QED
    BY <1>1, <1>2, <1>3, <1>4 DEF Uses

LEMMA LoadsLists ==
    ASSUME Types, ListInv, Reload \/ ClaimStarts \/ ClaimLands
    PROVE  ListInv'
  <1>1. ListTypes /\ gen \in Nat /\ asks \in SUBSET AskSet
    BY DEF Types, ListTypes
  <1>2. (\A a \in asks : a.kind = "list") => \A a \in asks : a.kind = "list" /\ a.n <= gen
    BY DEF ListInv, Loads
  <1>3. claim # "done" \/ list.status # "ready" => ~asking.open /\ \A a \in asks : a.kind = "list"
    BY DEF ListInv, Dialogs, Alone, Changes
  <1>4. CASE Reload
    <2>1. Load(asks) /\ Key # NoOne /\ Key' = Key /\ list.status = "error" /\ asking' = asking
      BY <1>4 DEF Reload, Key, account
    <2> QED
      BY <1>1, <1>2, <1>3, <2>1, LoadLists
  <1>5. CASE ClaimStarts
    <2>1. UNCHANGED <<compared, list, gen, asks, asking>> /\ claim = "due" /\ claim' = "out"
      BY <1>5 DEF ClaimStarts, account, compared
    <2> QED
      BY <1>3, <2>1
      DEF ListInv, Vacant, Key, Alone, Changes, Dialogs, Loads, Current, Listed, Accurate, OwnedBy,
          compared
  <1>6. CASE ClaimLands
    <2>1. /\ claim = "out" /\ claim' = "done" /\ Key' = Key /\ asking' = asking
          /\ UNCHANGED <<page, user, cookie, title>> /\ \E ok \in BOOLEAN : ClaimServed(ok)
      BY <1>6 DEF ClaimLands, Key
    <2>2. CASE guest' # guest /\ Key # NoOne
      <3>1. Load(asks)
        BY <1>6, <2>1, <2>2 DEF ClaimLands
      <3> QED
        BY <1>1, <1>2, <1>3, <2>1, <2>2, <3>1, LoadLists
    <2>3. CASE Key = NoOne
      <3>1. UNCHANGED <<list, gen, asks, asking>>
        BY <1>6, <2>1, <2>3 DEF ClaimLands
      <3> QED
        BY <2>1, <2>3, <3>1, VacantList
    <2>4. CASE guest' = guest /\ Key # NoOne
      <3>1. UNCHANGED <<list, gen, asks, asking>>
        BY <1>6, <2>4 DEF ClaimLands
      <3>2. owner' = owner
        BY <2>1, <2>4 DEF ClaimServed
      <3> QED
        BY <1>3, <2>1, <3>1, <3>2
        DEF ListInv, Vacant, Key, Alone, Changes, Dialogs, Loads, Current, Listed, Accurate, OwnedBy
    <2> QED
      BY <2>2, <2>3, <2>4
  <1> QED
    BY <1>4, <1>5, <1>6

LEMMA CreateLists ==
    ASSUME Types, ListInv, NEW c, CreateLands(c), "hurry" \notin Races
    PROVE  ListInv'
  <1>1. ListFollows /\ UNCHANGED cookie
    BY CreateSplits
  <1>2. (Key' = Key /\ Key # NoOne) => UNCHANGED compared
    BY <1>1, CreateSplits DEF MadeBoard, NotMade, Key, compared
  <1> QED
    BY <1>1, <1>2, FollowLists

LEMMA ListKeeps ==
    ASSUME Types, Waits, ListInv, [Next]_vars,
           Races \cap {"edit", "again", "hurry", "tile", "dialog"} = {}
    PROVE  ListInv'
  <1>0. "hurry" \notin Races /\ "tile" \notin Races /\ "dialog" \notin Races
    OBVIOUS
  <1>1. CASE HeaderNext \/ UNCHANGED vars
    BY <1>1, HeaderSteps, SameList
    DEF TitleStep, PicStep, vars, account, myBoards, compared, listed
  <1>2. CASE Follows
    BY <1>0, <1>2, FollowLists, AccountLists DEF Follows
  <1>3. CASE Uses
    BY <1>0, <1>3, UsesLists
  <1>4. CASE Making
    <2>1. UNCHANGED <<account, tiles>>
      BY <1>4 DEF Making, OpenCreate, CloseCreate, Blur, SubmitCreate, NewBoard, TypeId, CheckLands
    <2> QED
      BY <2>1, SameList DEF account, tiles, compared, listed
  <1>5. CASE Reload \/ ClaimStarts \/ ClaimLands
    BY <1>5, LoadsLists
  <1>6. CASE \E a \in asks : ListLands(a) \/ Served(a) \/ ChangeLands(a)
    BY <1>6, ListLandsLists, ServedLists, ChangeLandsLists
  <1>7. CASE \E c \in checks : CreateLands(c)
    BY <1>0, <1>7, CreateLists
  <1> QED
    BY <1>1, <1>2, <1>3, <1>4, <1>5, <1>6, <1>7, PageSteps DEF Next

LEMMA ListAlways ==
    ASSUME Races \cap {"edit", "again", "hurry", "tile", "dialog"} = {}
    PROVE  Spec => []ListInv
  <1>1. "edit" \notin Races /\ "hurry" \notin Races /\ "again" \notin Races
    OBVIOUS
  <1>2. Init => Waits
    BY DEF Init, MyBoardsInit, AccountInit, Waits
  <1>3. Types /\ FormInv /\ Waits /\ [Next]_vars => Waits'
    BY <1>1, WaitsKeeps
  <1>4. Init => ListInv
    BY DEF Init, MyBoardsInit, AccountInit, ListInv, Vacant, Key, Alone, Changes, Dialogs, Loads,
           Listed, Unloaded, Unasked
  <1>5. Types /\ Waits /\ ListInv /\ [Next]_vars => ListInv'
    BY ListKeeps
  <1>6. Spec => []FormInv
    BY <1>1, FormAlways
  <1> QED
    BY <1>2, <1>3, <1>4, <1>5, <1>6, TypesAlways, PTL DEF Spec

-----------------------------------------------------------------------------
\* The field's hint, the title and the picture.

LEMMA MakingHints ==
    ASSUME CreateTypes, HintInv, Making, "reopen" \notin Races
    PROVE  HintInv'
  <1>0. /\ create \in CreateSet /\ checks \subseteq CheckSet
        /\ \A c \in checks : c.kind = "check" => c.n <= create.gen
    BY DEF CreateTypes, HintInv
  <1>1. CASE OpenCreate
    BY <1>0, <1>1 DEF OpenCreate, HintInv, HintIsOfTheField, CreateSet
  <1>2. CASE CloseCreate
    BY <1>0, <1>2 DEF CloseCreate, HintInv, HintIsOfTheField, CreateSet
  <1>3. CASE \E i \in Ids \cup {NoId} : TypeId(i)
    <2>1. PICK i \in Ids \cup {NoId} : TypeId(i)
      BY <1>3
    <2>2. \A c \in checks : c.kind = "check" /\ c.n < create.gen + 1
      BY <1>0, <2>1 DEF TypeId, HintInv, CheckSet, CreateSet
    <2>3. PICK n \in Nat : n = create.gen + 1
      BY <1>0 DEF CreateSet
    <2>4. create' = [create EXCEPT !.id = i, !.hint = "idle", !.gen = n] /\ checks' = checks
      BY <2>1, <2>3 DEF TypeId, NextCheck
    <2>5. create'.hint = "idle" /\ create'.gen = n
      BY <1>0, <2>4 DEF CreateSet
    <2> QED
      BY <1>0, <2>2, <2>3, <2>4, <2>5 DEF HintInv, HintIsOfTheField, CheckSet
  <1>4. CASE Blur
    <2>1. CASE create.id = NoId
      BY <1>0, <1>4, <2>1 DEF Blur, HintInv, HintIsOfTheField, CreateSet
    <2>2. CASE create.id # NoId
      <3>1. PICK n \in Nat : n = create.gen + 1
        BY <1>0 DEF CreateSet
      <3>2. /\ create' = [create EXCEPT !.hint = "checking", !.gen = n] /\ about' = about
            /\ checks' = checks \cup {[kind |-> "check", n |-> n, id |-> create.id]}
        BY <1>4, <2>2, <3>1 DEF Blur
      <3>3. /\ create'.hint = "checking" /\ create'.gen = n /\ create'.id = create.id
            /\ create'.open = create.open /\ create'.busy = create.busy
        BY <1>0, <3>2 DEF CreateSet
      <3>4. \A c \in checks : c.kind = "check" => c.n < n
        BY <1>0, <3>1 DEF CheckSet, CreateSet
      <3> QED
        BY <1>0, <3>1, <3>2, <3>3, <3>4 DEF HintInv, HintIsOfTheField, CheckSet
    <2> QED
      BY <2>1, <2>2
  <1>5. CASE SubmitCreate
    BY <1>0, <1>5 DEF SubmitCreate, HintInv, HintIsOfTheField, CreateSet
  <1>6. CASE NewBoard
    BY <1>0, <1>6 DEF NewBoard, HintInv, HintIsOfTheField
  <1>7. CASE \E c \in checks : CheckLands(c)
    <2>1. PICK c \in checks : CheckLands(c)
      BY <1>7
    <2>2. /\ create'.gen = create.gen /\ create'.id = create.id /\ create'.open = create.open
          /\ create'.busy = create.busy /\ checks' \subseteq checks
      BY <1>0, <2>1 DEF CheckLands, CreateSet
    <2>3. HintIsOfTheField'
      <3>1. CASE create' = create /\ about' = about
        BY <3>1 DEF HintInv, HintIsOfTheField
      <3>2. CASE create' = [create EXCEPT !.hint = "idle"]
        BY <1>0, <3>2 DEF HintIsOfTheField, CreateSet
      <3>3. CASE about' = c.id /\ c.n = create.gen
        BY <2>1, <2>2, <3>3 DEF CheckLands, HintInv, HintIsOfTheField
      <3> QED
        BY <2>1, <3>1, <3>2, <3>3 DEF CheckLands
    <2> QED
      BY <2>2, <2>3 DEF HintInv
  <1> QED
    BY <1>1, <1>2, <1>3, <1>4, <1>5, <1>6, <1>7 DEF Making

LEMMA CreateHints ==
    ASSUME CreateTypes, HintInv, NEW c, CreateLands(c)
    PROVE  HintInv'
  <1>1. /\ c \in checks /\ c.kind = "create" /\ checks' = checks \ {c}
        /\ create \in CreateSet /\ checks \subseteq CheckSet
    BY CreateSplits DEF CreateTypes
  <1>2. create.open =>
          /\ c.n = 0 /\ c.id = create.id
          /\ \A d \in checks' : d.kind = "check" /\ (d.n = create.gen => d.id = create.id)
    BY <1>1 DEF HintInv, CheckSet
  <1>3. \A d \in checks' : d.kind = "check" => d.n <= create.gen
    BY <1>1 DEF HintInv
  <1>4. CASE \E i \in Ids : MadeBoard(c, i)
    <2>1. ~create'.open /\ create'.gen = create.gen
      BY <1>1, <1>2, <1>4 DEF MadeBoard, CreateSet
    <2> QED
      BY <1>3, <2>1 DEF HintInv, HintIsOfTheField
  <1>5. CASE NotMade(c)
    <2>1. /\ create'.open = create.open /\ create'.id = create.id /\ create'.gen = create.gen
      BY <1>1, <1>5 DEF NotMade, CreateSet
    <2>2. about' = c.id \/ (about' = about /\ create'.hint = create.hint)
      BY <1>1, <1>5 DEF NotMade, CreateSet
    <2>3. HintIsOfTheField'
      BY <1>2, <2>1, <2>2 DEF HintInv, HintIsOfTheField
    <2> QED
      BY <1>2, <1>3, <2>1, <2>3 DEF HintInv
  <1> QED
    BY <1>4, <1>5, CreateSplits

LEMMA HintKeeps ==
    ASSUME Types, HintInv, [Next]_vars, "reopen" \notin Races
    PROVE  HintInv'
  <1>0. CreateTypes
    BY DEF Types
  <1>1. CASE UNCHANGED making
    BY <1>1 DEF making, HintInv, HintIsOfTheField
  <1>2. CASE Making
    BY <1>0, <1>2, MakingHints
  <1>3. CASE \E c \in checks : CreateLands(c)
    BY <1>0, <1>3, CreateHints
  <1>4. CASE HeaderNext \/ UNCHANGED vars
    <2>1. UNCHANGED myBoards
      BY <1>4, HeaderSteps DEF TitleStep, PicStep, vars
    <2> QED
      BY <1>1, <2>1 DEF myBoards, making
  <1>5. CASE Follows \/ Uses \/ Reload \/ ClaimStarts \/ ClaimLands
    <2>1. UNCHANGED making
      BY <1>5 DEF Follows, Uses, Duplicate, OpenDialog, TileUsed, Confirm, StopAsking, Reload,
                  ClaimStarts, ClaimLands
    <2> QED
      BY <1>1, <2>1
  <1>6. CASE \E a \in asks : ListLands(a) \/ Served(a) \/ ChangeLands(a)
    <2>1. UNCHANGED making
      BY <1>6, ServedSplits DEF ListLands, ChangeLands
    <2> QED
      BY <1>1, <2>1
  <1> QED
    BY <1>2, <1>3, <1>4, <1>5, <1>6, PageSteps DEF Next

LEMMA HintAlways ==
    ASSUME "reopen" \notin Races
    PROVE  Spec => []HintInv
  <1>1. Init => HintInv
    BY DEF Init, MyBoardsInit, Closed, HintInv, HintIsOfTheField
  <1>2. Types /\ HintInv /\ [Next]_vars => HintInv'
    BY HintKeeps
  <1> QED
    BY <1>1, <1>2, TypesAlways, PTL DEF Spec

\* What leaving the board does to its title.
LEMMA LeaveTitle ==
    ASSUME TitleTypes, LeavesBoard
    PROVE  /\ UNCHANGED <<named, leaving, escaped, saves>>
           /\ head' = head \/ head' = [head EXCEPT !.editing = FALSE]
  BY DEF LeavesBoard, corner, header

LEMMA SaveSplits ==
    ASSUME TitleTypes, Save, head.editing \/ leaving
    PROVE  \/ UNCHANGED <<head, saves, named>>
           \/ /\ head.editing /\ UNCHANGED <<saves, named>>
              /\ head' = [head EXCEPT !.settled = TRUE, !.editing = FALSE]
           \/ /\ head.editing
              /\ head' = [head EXCEPT !.settled = TRUE, !.editing = FALSE, !.pending = head.draft]
              /\ \E ok \in BOOLEAN :
                   /\ named' = IF ok THEN head.draft ELSE named
                   /\ saves' = saves \cup {[n |-> head.opened, title |-> head.draft, ok |-> ok]}
  <1>1. leaving => head.settled
    BY DEF TitleTypes
  <1> QED
    BY <1>1 DEF Save

LEMMA TitleHolds ==
    ASSUME TitleTypes, TitleInv, [Next]_vars, "twice" \notin Races
    PROVE  TitleInv'
  <1>0. head \in HeadSet /\ named \in Titles
    BY DEF TitleTypes
  <1>1. CASE UNCHANGED <<named, head, saves>>
    BY <1>1 DEF TitleInv
  <1>2. CASE OpenTitle
    <2>1. PICK n \in Nat : n = head.opened + 1
      BY <1>0 DEF HeadSet
    <2>2. head' = [head EXCEPT !.settled = FALSE, !.draft = ShownTitle, !.editing = TRUE,
                               !.opened = n]
      BY <1>2, <2>1 DEF OpenTitle
    <2>3. head'.pending = head.pending /\ head'.title = head.title
      BY <1>0, <2>2 DEF HeadSet
    <2> QED
      BY <1>2, <2>3 DEF OpenTitle, TitleInv
  <1>3. CASE Enter \/ BlurTitle
    <2>1. Save /\ (head.editing \/ leaving)
      BY <1>3 DEF Enter, BlurTitle
    <2>2. CASE UNCHANGED <<head, saves, named>>
      BY <1>1, <2>2
    <2>3. CASE /\ head.editing /\ UNCHANGED <<saves, named>>
               /\ head' = [head EXCEPT !.settled = TRUE, !.editing = FALSE]
      BY <1>0, <2>3 DEF TitleInv, HeadSet
    <2>4. CASE /\ head.editing
               /\ head' = [head EXCEPT !.settled = TRUE, !.editing = FALSE, !.pending = head.draft]
               /\ \E ok \in BOOLEAN :
                    /\ named' = IF ok THEN head.draft ELSE named
                    /\ saves' = saves \cup {[n |-> head.opened, title |-> head.draft, ok |-> ok]}
      <3>1. saves = {} /\ head.title = named
        BY <2>4 DEF TitleInv
      <3>2. /\ ~head'.editing /\ head'.pending = head.draft /\ head'.title = head.title
        BY <1>0, <2>4 DEF HeadSet
      <3>3. PICK ok \in BOOLEAN :
              /\ named' = IF ok THEN head.draft ELSE named
              /\ saves' = {[n |-> head.opened, title |-> head.draft, ok |-> ok]}
        BY <2>4, <3>1
      <3> QED
        BY <3>1, <3>2, <3>3 DEF TitleInv
    <2> QED
      BY <2>1, <2>2, <2>3, <2>4, SaveSplits
  <1>4. CASE Escape
    BY <1>0, <1>4 DEF Escape, Cancelled, TitleInv, HeadSet
  <1>5. CASE \E t \in Titles : TypeTitle(t)
    BY <1>0, <1>5 DEF TypeTitle, TitleInv, HeadSet
  <1>6. CASE \E s \in saves : SaveLands(s)
    <2>1. PICK s \in saves : SaveLands(s)
      BY <1>6
    <2>2. saves' = {} /\ named = IF s.ok THEN s.title ELSE head.title
      BY <2>1 DEF SaveLands, TitleInv
    <2>3. head' = [head EXCEPT !.title = named, !.pending = NoTitle] /\ named' = named
      BY <2>1, <2>2 DEF SaveLands, TitleAnswered
    <2>4. head'.title = named /\ head'.pending = NoTitle
      BY <1>0, <2>3 DEF HeadSet
    <2> QED
      BY <2>2, <2>3, <2>4 DEF TitleInv
  <1>7. CASE PicStep \/ UNCHANGED vars
    BY <1>1, <1>7 DEF PicStep, vars, corner, header
  <1>8. CASE MyBoardsNext /\ LeavesBoard
    BY <1>0, <1>8, LeaveTitle DEF TitleInv, HeadSet
  <1> QED
    BY <1>2, <1>3, <1>4, <1>5, <1>6, <1>7, <1>8, HeaderSteps DEF Next, TitleStep

LEMMA EscapeHolds ==
    ASSUME TitleTypes, EscapeInv, [Next]_vars
    PROVE  EscapeInv'
  <1>0. /\ head \in HeadSet /\ escaped \in Nat /\ head.opened \in Nat
        /\ \A s \in saves : s \in Rename /\ s.n \in Nat
        /\ escaped <= head.opened /\ \A s \in saves : s.n <= head.opened /\ s.n # escaped
        /\ head.editing => escaped # head.opened /\ \A s \in saves : s.n # head.opened
    BY DEF TitleTypes, HeadSet, Rename, EscapeInv, EscapeKeepsTitle
  <1>1. SUFFICES /\ escaped' <= head'.opened
                 /\ \A s \in saves' : s.n <= head'.opened /\ s.n # escaped'
                 /\ head'.editing => escaped' # head'.opened /\ \A s \in saves' : s.n # head'.opened
    BY DEF EscapeInv, EscapeKeepsTitle
  <1>2. CASE /\ UNCHANGED <<escaped, saves>> /\ head'.opened = head.opened
             /\ head'.editing => head.editing
    BY <1>0, <1>2
  <1>3. CASE OpenTitle
    <2>1. PICK n \in Nat : n = head.opened + 1
      BY <1>0
    <2>2. head' = [head EXCEPT !.settled = FALSE, !.draft = ShownTitle, !.editing = TRUE,
                               !.opened = n]
      BY <1>3, <2>1 DEF OpenTitle
    <2>3. head'.opened = n /\ UNCHANGED <<escaped, saves>>
      BY <1>0, <1>3, <2>2 DEF HeadSet, OpenTitle
    <2> QED
      BY <1>0, <2>1, <2>3
  <1>4. CASE Enter \/ BlurTitle
    <2>1. Save /\ (head.editing \/ leaving) /\ escaped' = escaped
      BY <1>4 DEF Enter, BlurTitle
    <2>2. CASE UNCHANGED <<head, saves, named>>
      BY <1>2, <2>1, <2>2
    <2>3. CASE /\ head.editing /\ UNCHANGED <<saves, named>>
               /\ head' = [head EXCEPT !.settled = TRUE, !.editing = FALSE]
      <3>1. head'.opened = head.opened /\ ~head'.editing
        BY <1>0, <2>3 DEF HeadSet
      <3> QED
        BY <1>2, <2>1, <2>3, <3>1
    <2>4. CASE /\ head.editing
               /\ head' = [head EXCEPT !.settled = TRUE, !.editing = FALSE, !.pending = head.draft]
               /\ \E ok \in BOOLEAN :
                    /\ named' = IF ok THEN head.draft ELSE named
                    /\ saves' = saves \cup {[n |-> head.opened, title |-> head.draft, ok |-> ok]}
      <3>1. head'.opened = head.opened /\ ~head'.editing
        BY <1>0, <2>4 DEF HeadSet
      <3>2. \A s \in saves' : s \in saves \/ s.n = head.opened
        BY <2>4
      <3> QED
        BY <1>0, <2>1, <2>4, <3>1, <3>2
    <2> QED
      BY <2>1, <2>2, <2>3, <2>4, SaveSplits
  <1>5. CASE Escape
    <2>1. head'.opened = head.opened /\ ~head'.editing /\ escaped' = head.opened /\ saves' = saves
      BY <1>0, <1>5 DEF Escape, Cancelled, HeadSet
    <2>2. head.editing
      BY <1>5 DEF Escape
    <2> QED
      BY <1>0, <2>1, <2>2
  <1>6. CASE \E t \in Titles : TypeTitle(t)
    <2>1. /\ UNCHANGED <<escaped, saves>> /\ head'.opened = head.opened
          /\ head'.editing = head.editing
      BY <1>0, <1>6 DEF TypeTitle, HeadSet
    <2> QED
      BY <1>2, <2>1
  <1>7. CASE \E s \in saves : SaveLands(s)
    <2>1. PICK s \in saves : SaveLands(s)
      BY <1>7
    <2>2. PICK t : t = IF s.ok THEN s.title ELSE head.title
      OBVIOUS
    <2>3. head' = [head EXCEPT !.title = t, !.pending = NoTitle]
      BY <2>1, <2>2 DEF SaveLands, TitleAnswered
    <2>4. /\ head'.opened = head.opened /\ head'.editing = head.editing
          /\ escaped' = escaped /\ saves' \subseteq saves
      BY <1>0, <2>1, <2>3 DEF SaveLands, HeadSet
    <2> QED
      BY <1>0, <2>4
  <1>8. CASE PicStep \/ UNCHANGED vars
    BY <1>2, <1>8 DEF PicStep, vars, corner, header
  <1>9. CASE MyBoardsNext /\ LeavesBoard
    <2>1. /\ UNCHANGED <<escaped, saves>> /\ head'.opened = head.opened
          /\ head'.editing => head.editing
      BY <1>0, <1>9, LeaveTitle DEF HeadSet
    <2> QED
      BY <1>2, <2>1
  <1> QED
    BY <1>3, <1>4, <1>5, <1>6, <1>7, <1>8, <1>9, HeaderSteps DEF Next, TitleStep

\* PagesAgree: when a form and a dialog are left alone under their calls, a code
\* is not sent by hand once more, a page is not left in a hurry, and neither a
\* tile, the create dialog nor the title is used again under a call of its own,
\* then with nothing out My Boards, the
\* hint of the id field and the board's title show what the server has, and a
\* title that was given up was not sent (useMyBoards.ts, BoardsList.tsx,
\* CreateBoardDialog.tsx, BoardTitle.tsx).
THEOREM PagesStayTrue ==
    ASSUME Races \cap {"edit", "again", "hurry", "tile", "dialog", "reopen", "twice"} = {}
    PROVE  Spec => []PagesAgree
  <1>1. /\ Races \cap {"edit", "again", "hurry", "tile", "dialog"} = {}
        /\ "reopen" \notin Races /\ "twice" \notin Races
    OBVIOUS
  <1>2. Spec => []ListInv
    BY <1>1, ListAlways
  <1>3. Spec => []HintInv
    BY <1>1, HintAlways
  <1>4. Init => TitleInv /\ EscapeInv
    BY DEF Init, HeaderInit, TitleInv, EscapeInv, EscapeKeepsTitle
  <1>5. Types /\ TitleInv /\ EscapeInv /\ [Next]_vars => TitleInv' /\ EscapeInv'
    BY <1>1, TitleHolds, EscapeHolds DEF Types, HeaderTypes
  <1>6. ListInv /\ HintInv /\ TitleInv /\ EscapeInv => PagesAgree
    <2>1. ListInv => ListAgrees
      BY DEF ListInv, Listed, Changes, Accurate, ListAgrees
    <2>2. TitleInv => TitleAgrees
      BY DEF TitleInv, TitleAgrees, ShownTitle
    <2> QED
      BY <2>1, <2>2 DEF HintInv, EscapeInv, PagesAgree
  <1> QED
    BY <1>2, <1>3, <1>4, <1>5, <1>6, TypesAlways, PTL DEF Spec

LEMMA PictureHolds ==
    ASSUME PicTypes, PictureInv, [Next]_vars, "upload" \notin Races
    PROVE  PictureInv'
  <1>0. \E n \in Nat : pic \in PicSet(n)
    BY DEF PicTypes, PicSet
  <1>1. CASE UNCHANGED drawing
    BY <1>1 DEF drawing, PictureInv
  <1>2. CASE Stroke
    BY <1>0, <1>2 DEF Stroke, PictureInv, PicSet
  <1>3. CASE TimerFires
    BY <1>0, <1>3 DEF TimerFires, SavePicture, Shot, PictureInv, PicSet
  <1>4. CASE Hide
    BY <1>0, <1>4 DEF Hide, SavePicture, Shot, PictureInv, PicSet
  <1>5. CASE PictureGoesOn
    BY <1>0, <1>5 DEF PictureGoesOn, Idle, PictureInv, PicSet
  <1>6. CASE TitleStep \/ UNCHANGED vars
    BY <1>1, <1>6 DEF TitleStep, vars, corner
  <1>7. CASE MyBoardsNext /\ LeavesBoard
    BY <1>0, <1>1, <1>7 DEF LeavesBoard, corner, drawing, PictureInv
  <1> QED
    BY <1>2, <1>3, <1>4, <1>5, <1>6, <1>7, HeaderSteps DEF Next, PicStep

\* PictureIsLatest: when a save does not outlast the next idle timer, a board at
\* rest is pictured as it is, unless a save failed or the page was left
\* (useThumbnail.ts).
THEOREM PictureKeepsUp ==
    ASSUME "upload" \notin Races
    PROVE  Spec => []PictureIsLatest
  <1>1. Init => PictureInv
    BY DEF Init, HeaderInit, PictureInv
  <1>2. Types /\ PictureInv /\ [Next]_vars => PictureInv'
    BY PictureHolds DEF Types, HeaderTypes
  <1>3. Types /\ PictureInv => PictureIsLatest
    BY DEF PictureInv, PictureIsLatest
  <1> QED
    BY <1>1, <1>2, <1>3, TypesAlways, PTL DEF Spec

=============================================================================
