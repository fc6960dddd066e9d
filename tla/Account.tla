------------------------------ MODULE Account ------------------------------
(***************************************************************************)
(* Who the browser shows as signed in: SessionProvider, the sign-in form,  *)
(* the account menu, and the page they are on.                             *)
(*                                                                         *)
(* The server is a cookie, the code last mailed to each inbox and whose    *)
(* each board is; SignIn has its steps.  A call is served and answered in  *)
(* one step: nothing else here reads the server in between.  Races names  *)
(* the overlaps a run lets happen.                                         *)
(***************************************************************************)
EXTENDS Naturals, FiniteSets

CONSTANTS
    People,       \* accounts, and their inboxes
    NoOne,
    Ids,          \* boards
    Guest,        \* the one this browser made as a guest
    Codes,        \* what a mailed or typed code can be
    NoCode,
    Races,        \* overlaps a run lets happen:
                  \* "edit": the form is changed under a call of it;
                  \* "slow": GET /auth/me is answered after a sign-in;
                  \* "cut": a sign-out does not reach the server;
                  \* "again": Verify is pressed once more after it worked;
                  \* "hurry": the page is left, or signed out of, under its calls;
                  \* "tile", "dialog", "reopen": see MyBoards;
                  \* "twice", "upload": see BoardHeader
    MaxInputs     \* bound: what the person does

ASSUME AccountAssumption ==
    NoOne \notin People /\ Guest \in Ids /\ NoCode \notin Codes /\ MaxInputs \in Nat

VARIABLES
    page,      \* the route: "signin", "boards", "board" or "home"
    cookie,    \* whose session the cookie opens
    user,      \* SessionProvider's user
    status,    \* SessionProvider's status
    me,        \* GET /auth/me: "out", or "done"
    mine,      \* whom that request was sent for
    form,      \* SignInForm's state, and submittedCode; `again`, a history: the
               \* code it sent last had been sent, and was sent by hand
    calls,     \* its calls that are out
    mail,      \* the code that works for each inbox
    wanted,    \* history: the inboxes this form had a code sent to
    landed,    \* history: this form has signed somebody in
    guest,     \* its creator token here: "token", "spent" or "none"
    owner,     \* whose each board is
    inputs     \* what the person has done so far

server  == <<cookie, mail, guest, owner>>
account == <<page, cookie, user, status, me, mine, form, calls, mail, wanted,
             landed, guest, owner>>

Fresh == [step |-> "email", email |-> NoOne, code |-> NoCode, sent |-> NoCode,
          busy |-> FALSE, cooling |-> FALSE, problem |-> FALSE, again |-> FALSE]

FormShown == page = "signin" /\ ~(status = "ready" /\ user # NoOne)

\* What the person does is counted.
Does == inputs < MaxInputs /\ inputs' = inputs + 1

\* The screen this leads to: a form that leaves it forgets everything, and
\* what it had called no longer reaches it.
Shows(f, out) ==
    IF FormShown' THEN form' = f /\ calls' = out /\ UNCHANGED <<wanted, landed>>
    ELSE /\ form' = Fresh /\ wanted' = {} /\ landed' = FALSE
         /\ calls' = {[c EXCEPT !.live = FALSE] : c \in out}

AccountInit ==
    /\ page \in {"signin", "boards", "board"}
    /\ cookie \in People \cup {NoOne}
    /\ mine = cookie
    /\ user = NoOne
    /\ status = "loading"
    /\ me = "out"
    /\ form = Fresh
    /\ calls = {}
    /\ mail = [p \in People |-> NoCode]
    /\ wanted = {}
    /\ landed = FALSE
    /\ guest \in {"token", "none"}
    /\ owner \in [Ids -> People \cup {NoOne}] /\ owner[Guest] = NoOne
    /\ inputs = 0

-----------------------------------------------------------------------------
(* SessionProvider.                                                        *)

\* getMe, asked once as the app mounts.
MeLands ==
    /\ me = "out"
    /\ me' = "done"
    /\ \/ user' = mine /\ status' = "ready"
       \/ user' = user /\ status' = "error"
    /\ UNCHANGED <<server, page, mine, inputs>>
    /\ Shows(form, calls)

\* signOut: whatever becomes of the call, nobody is shown as signed in.
\* ContinueAction's button, and UserMenu's handleSignOut: the menu then goes
\* home, unless the call threw.
SignOut ==
    /\ Does
    /\ status # "loading" /\ user # NoOne
    /\ calls = {} \/ "hurry" \in Races
    /\ \E reached \in BOOLEAN, answered \in BOOLEAN :
          /\ reached \/ ("cut" \in Races /\ ~answered)
          /\ cookie' = IF reached THEN NoOne ELSE cookie
          /\ user' = NoOne
          /\ page' = IF page # "signin" /\ answered THEN "home" ELSE page
    /\ UNCHANGED <<mail, guest, owner, status, me, mine>>
    /\ Shows(form, calls)

-----------------------------------------------------------------------------
(* SignInForm.                                                             *)

\* The fields are never disabled: only patience keeps them as they were while
\* a call is out, or the next page is coming.
Editable == FormShown /\ ((~form.busy /\ ~landed) \/ "edit" \in Races)

TypeEmail(p) ==
    /\ Does
    /\ Editable /\ form.step = "email" /\ form.email # p
    /\ form' = [form EXCEPT !.email = p, !.problem = FALSE]
    /\ UNCHANGED <<server, page, user, status, me, mine, calls, wanted, landed>>

\* Six digits; OTPInput then completes.
TypeCode(c) ==
    /\ Does
    /\ Editable /\ form.step = "code"
    /\ form' = [form EXCEPT !.code = c]
    /\ UNCHANGED <<server, page, user, status, me, mine, calls, wanted, landed>>

UseDifferentEmail ==
    /\ Does
    /\ Editable /\ form.step = "code"
    /\ form' = [form EXCEPT !.step = "email", !.code = NoCode, !.sent = NoCode,
                            !.problem = FALSE]
    /\ UNCHANGED <<server, page, user, status, me, mine, calls, wanted, landed>>

Call(kind) == [kind |-> kind, email |-> form.email, code |-> form.code, live |-> TRUE]

\* Mutant: the next step is shown without waiting for the answer.
OnToCode(f) == [f EXCEPT !.busy = TRUE, !.problem = FALSE, !.step = "code"]

\* The form while a call is out.
Waiting(f) == [f EXCEPT !.busy = TRUE, !.problem = FALSE]

\* sendCode: "Continue with email" and "Resend code".
SendCode ==
    /\ Does
    /\ Editable /\ ~form.busy /\ ~form.cooling /\ form.email # NoOne
    /\ form' = Waiting(form)
    /\ calls' = calls \cup {Call("request")}
    /\ UNCHANGED <<server, page, user, status, me, mine, wanted, landed>>

\* A state set after an await reaches the form only while it is mounted.
Tell(c, f) == form' = IF c.live THEN f ELSE form

\* A code is mailed, or the server's own cooldown keeps it from sending a
\* second and it answers the same; or it refuses, perhaps saying for how long.
CodeRequested(c) ==
    /\ c \in calls /\ c.kind = "request"
    /\ calls' = calls \ {c}
    /\ \/ /\ Tell(c, [form EXCEPT !.step = "code", !.code = NoCode, !.sent = NoCode,
                                  !.cooling = TRUE, !.busy = FALSE])
          /\ wanted' = IF c.live THEN wanted \cup {c.email} ELSE wanted
          /\ \/ \E code \in Codes : mail' = [mail EXCEPT ![c.email] = code]
             \/ mail[c.email] # NoCode /\ UNCHANGED mail
       \/ /\ \E wait \in BOOLEAN :
                Tell(c, [form EXCEPT !.problem = TRUE, !.busy = FALSE, !.cooling = @ \/ wait])
          /\ UNCHANGED <<wanted, mail>>
    /\ UNCHANGED <<page, cookie, user, status, me, mine, landed, guest, owner, inputs>>

\* The countdown reaches zero.
CoolDown ==
    /\ form.cooling
    /\ form' = [form EXCEPT !.cooling = FALSE]
    /\ UNCHANGED <<server, page, user, status, me, mine, calls, wanted, landed, inputs>>

\* Mutant: whatever is full goes.
AnyFullCode == form.code # NoCode

\* onComplete, at every render with a full code: submittedCode keeps the same
\* one from going twice by itself.
NewFullCode == form.code # NoCode /\ form.sent # form.code

\* submitCode, from onComplete or from "Verify and sign in", which looks only at
\* the code's length.
SubmitCode ==
    /\ FormShown /\ form.step = "code" /\ ~form.busy
    /\ \/ NewFullCode /\ UNCHANGED inputs
       \/ form.code # NoCode /\ ~NewFullCode /\ "again" \in Races /\ Does
    /\ form' = [Waiting(form) EXCEPT !.sent = form.code, !.again = ~NewFullCode]
    /\ calls' = calls \cup {Call("verify")}
    /\ UNCHANGED <<server, page, user, status, me, mine, wanted, landed>>

\* setUser: the answer already holds the user.
Applied(p) == p

\* verifyEmailCode is answered: the user is set, which may take the form off
\* the page, and the guest board is claimed before moving on.
CodeVerified(c) ==
    /\ c \in calls /\ c.kind = "verify"
    /\ me = "done" \/ "slow" \in Races
    /\ \/ /\ mail[c.email] = c.code
          /\ mail' = [mail EXCEPT ![c.email] = NoCode]
          /\ cookie' = c.email
          /\ user' = Applied(c.email)
          /\ UNCHANGED <<page, status>>
          /\ LET claiming == (calls \ {c}) \cup {[c EXCEPT !.kind = "claim"]}
             IN IF FormShown' THEN /\ calls' = claiming
                                   /\ landed' = (landed \/ c.live)
                                   /\ UNCHANGED <<form, wanted>>
                              ELSE Shows(form, claiming)
       \/ /\ Tell(c, [form EXCEPT !.problem = TRUE, !.code = NoCode, !.sent = NoCode,
                                  !.busy = FALSE])
          /\ calls' = calls \ {c}
          /\ UNCHANGED <<page, cookie, user, status, mail, wanted, landed>>
    /\ UNCHANGED <<me, mine, guest, owner, inputs>>

\* claimIfPossible: no call without a token; 403 and success forget it, and
\* other failures keep it.  The board is there to claim: BoardPage has those
\* that have gone.
ClaimServed(ok) ==
    IF guest = "token" /\ ok /\ cookie # NoOne
    THEN guest' = "spent" /\ owner' = [owner EXCEPT ![Guest] = IF @ = NoOne THEN cookie ELSE @]
    ELSE UNCHANGED <<guest, owner>>

\* The claim settles and router.replace goes on, wherever the person is by
\* then.  The form stays, idle, until the next page has come.
MoveOn(c) ==
    /\ c \in calls /\ c.kind = "claim"
    /\ \E ok \in BOOLEAN : ClaimServed(ok)
    /\ calls' = (calls \ {c}) \cup {[c EXCEPT !.kind = "replace"]}
    /\ Tell(c, [form EXCEPT !.busy = FALSE])
    /\ UNCHANGED <<page, cookie, user, status, me, mine, mail, wanted, landed, inputs>>

PageComes(c) ==
    /\ c \in calls /\ c.kind = "replace"
    /\ page' = "boards"
    /\ UNCHANGED <<server, user, status, me, mine>>
    /\ Shows(form, calls \ {c})
    /\ UNCHANGED inputs

\* The links: Continue, My Boards, Sign in.
Visit(p) ==
    /\ Does
    /\ page # p
    /\ calls = {} \/ "hurry" \in Races
    /\ p = "boards" => user # NoOne
    /\ p = "signin" => user = NoOne
    /\ page' = p
    /\ UNCHANGED <<server, user, status, me, mine>>
    /\ Shows(form, calls)

AccountNext ==
    \/ MeLands \/ SignOut
    \/ \E p \in People : TypeEmail(p)
    \/ \E c \in Codes : TypeCode(c)
    \/ UseDifferentEmail \/ SendCode \/ CoolDown \/ SubmitCode
    \/ \E c \in calls : CodeRequested(c) \/ CodeVerified(c) \/ MoveOn(c) \/ PageComes(c)
    \/ \E p \in {"boards", "signin"} : Visit(p)

-----------------------------------------------------------------------------
AccountTypeOK ==
    /\ page \in {"signin", "boards", "board", "home"}
    /\ {cookie, user, mine} \subseteq People \cup {NoOne}
    /\ status \in {"loading", "ready", "error"}
    /\ me \in {"out", "done"}
    /\ form \in [step : {"email", "code"}, email : People \cup {NoOne},
                 code : Codes \cup {NoCode}, sent : Codes \cup {NoCode},
                 busy : BOOLEAN, cooling : BOOLEAN, problem : BOOLEAN, again : BOOLEAN]
    /\ calls \subseteq [kind : {"request", "verify", "claim", "replace"}, email : People,
                        code : Codes \cup {NoCode}, live : BOOLEAN]
    /\ mail \in [People -> Codes \cup {NoCode}]
    /\ wanted \subseteq People
    /\ landed \in BOOLEAN
    /\ guest \in {"token", "spent", "none"}
    /\ owner \in [Ids -> People \cup {NoOne}]
    /\ inputs \in 0..MaxInputs

\* Once /auth/me has answered and nothing is out, the page shows whoever the
\* cookie signs in: SessionProvider is told of every change (setUser, signOut)
\* and asks again for none.
ShownIsSignedIn == (status = "ready" /\ calls = {}) => user = cookie

\* "Enter the code we emailed to" (SignInForm.tsx:216) names an inbox this form
\* had a code sent to.
CodeWasMailed == form.step = "code" => form.email \in wanted

\* A form that has signed somebody in reports no problem while its next page
\* comes, unless the person sent the code once more: by itself it sends none
\* twice ("Guards the auto-submit", SignInForm.tsx:64-66).
QuietOnceIn == landed => ~form.problem \/ form.again

\* A token is forgotten only for a board somebody owns by then: a claim that
\* failed can be tried again (claim.ts:32-44).
TokenUntilOwned == [][guest' # guest => owner'[Guest] # NoOne]_<<guest, owner>>

\* "Continue with email" does something whenever it can be pressed: it is not
\* disabled by the countdown, which is shown beside the code only.
ContinueWorks == (FormShown /\ form.step = "email" /\ ~form.busy) => ~form.cooling

\* Somebody who has just signed out is signed out: "The cookie is cleared
\* server-side even on a network hiccup" (SessionProvider.tsx:79).
SignedOutIsOut == [][(user # NoOne /\ user' = NoOne) => cookie' = NoOne]_account
============================================================================
