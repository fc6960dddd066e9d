------------------------------- MODULE SignIn -------------------------------
(***************************************************************************)
(* Signing in and out: emailed codes (auth/otp.ts) behind a rate limit     *)
(* (redis/rate-limit.ts), their mails (mail/transport.ts), the OAuth       *)
(* callback (auth/oauth/flow.ts), the accounts both lead to                *)
(* (auth/identity.ts) and sessions (auth/session.ts), as the routes of     *)
(* http/routes/auth.ts put them together.                                  *)
(*                                                                         *)
(* A request waits at every command of Redis or Postgres; an action is one *)
(* command with the code up to the next.  A code is the number of its      *)
(* issue and 0 stands for a wrong one; a user is the number of their row.  *)
(***************************************************************************)
EXTENDS Naturals, Sequences, FiniteSets

CONSTANTS
    Inboxes,      \* people's mailboxes
    Accounts,     \* accounts at GitHub and Google
    NoOne,        \* no address, no key
    Calls,        \* slots for HTTP requests under way
    MaxAttempts,  \* MAX_ATTEMPTS of otp.ts
    Limit,        \* RULES.otpRequestPerEmail.limit
    MaxCodes,     \* bound: codes ever issued
    MaxStates,    \* bound: OAuth states ever begun
    MaxSessions,  \* bound: sessions ever made
    MaxFaults,    \* bound: crashes of the server and outages of Redis
    MaxEvents,    \* bound: all of these together
    Races         \* which of AllRaces may happen

\* "requests", "verifies", "callbacks": two of a kind at once for one address
\* or state.  "everywhere": a session is made while another request signs its
\* user out everywhere.  "lapse": a session in use outlives its user's index.
AllRaces == {"requests", "verifies", "callbacks", "everywhere", "lapse"}

\* An address as it is typed or as a provider spells it.
Spellings == Inboxes \X {"plain", "cased"}

\* identities' unique key: (provider, providerAccountId).
Keys == ({"email"} \X Spellings) \cup ({"provider"} \X Accounts)

ASSUME SignInAssumption ==
    /\ IsFiniteSet(Inboxes)
    /\ NoOne \notin Spellings \cup Keys
    /\ {MaxAttempts, Limit} \subseteq Nat \ {0}
    /\ {MaxCodes, MaxStates, MaxSessions, MaxFaults, MaxEvents} \subseteq Nat
    /\ Races \subseteq AllRaces

VARIABLES
    hits,       \* an address's rate-limit counter: hits, and does it expire
    otp,        \* the sign-in code stored for an address
    cooldown,   \* addresses a code was sent to a moment ago
    issued,     \* codes issued so far
    inbox,      \* history: the codes that reached an address, in order
    compared,   \* history: how often a code was compared with a guess
    accepted,   \* history: how often a code was accepted
    oauth,      \* OAuth states stored
    begun,      \* OAuth states begun so far
    landed,     \* history: how often a state was accepted
    users,      \* the rows of users: their addresses
    identity,   \* the rows of identities: the user of a key, 0 for none
    live,       \* the session records in Redis
    made,       \* the sessions made so far: user and key
    index,      \* userSessions: a user's sessions
    at,         \* the command each request waits for
    job,        \* what it carries
    faults      \* history: crashes and outages so far

codes    == <<otp, cooldown, issued, inbox, compared, accepted>>
states   == <<oauth, begun, landed>>
people   == <<users, identity>>
sessions == <<live, made, index>>
calls    == <<at, job>>
vars     == <<hits, codes, states, people, sessions, calls, faults>>

Users  == 1..Cardinality(Spellings)
NoHits == [n |-> 0, ends |-> FALSE]
NoCode == [code |-> 0, attempts |-> 0]
NoJob  == [email |-> NoOne, code |-> 0, stored |-> 0, key |-> NoOne, n |-> 0,
           hashes |-> {}, before |-> {}]

Sends  == {"expire", "cooldown", "issue", "mail"}
Checks == {"count", "burn", "spend"}
Steps  == Sends \cup Checks
          \cup {"idle", "drop", "exchange", "identity", "address", "link", "create",
                "session", "me", "logout", "delete", "logout all", "list",
                "revoke"}

\* Mutant: addresses are taken as they come.
AsTyped(email) == email

\* normalizeEmail of otp.ts, and emailSchema of the routes.
NormalizeEmail(email) == <<email[1], "plain">>

\* The bound on events.
MayHappen == issued + begun + Len(made) + faults < MaxEvents

Begin(c, step, j) ==
    /\ at[c] = "idle"
    /\ at' = [at EXCEPT ![c] = step]
    /\ job' = [job EXCEPT ![c] = j]
Goto(c, step) == at' = [at EXCEPT ![c] = step] /\ UNCHANGED job
Answer(c) ==
    /\ at' = [at EXCEPT ![c] = "idle"]
    /\ job' = [job EXCEPT ![c] = NoJob]

Busy(steps, email) == \E c \in Calls : at[c] \in steps /\ job[c].email = email

-----------------------------------------------------------------------------
(* POST /auth/email/request.                                               *)

\* consume: only the first hit of a window sets the window's end.
FirstHit(n) == n = 1

\* What comes after the counter.
Allowed(c, n) == IF n <= Limit THEN Goto(c, "cooldown") ELSE Answer(c)

\* INCR of the address's counter.  A request over the limit is told to wait;
\* hits are counted up to the first of those.
RequestCode(c, typed) ==
    LET email == NormalizeEmail(typed)
        n == hits[email].n + 1
        j == [NoJob EXCEPT !.email = email]
    IN  /\ n <= Limit + 1
        /\ "requests" \in Races \/ ~Busy(Sends, email)
        /\ hits' = [hits EXCEPT ![email].n = n]
        /\ IF FirstHit(n) THEN Begin(c, "expire", j)
           ELSE IF n <= Limit THEN Begin(c, "cooldown", j)
           ELSE at[c] = "idle" /\ UNCHANGED calls
        /\ UNCHANGED <<codes, states, people, sessions, faults>>

StartWindow(c) ==
    /\ at[c] = "expire"
    /\ hits' = [hits EXCEPT ![job[c].email].ends = TRUE]
    /\ Allowed(c, hits[job[c].email].n)
    /\ UNCHANGED <<codes, states, people, sessions, faults>>

\* Redis fails between the two commands: consume catches it and allows the
\* request.
LimiterCut(c) ==
    /\ faults < MaxFaults /\ MayHappen
    /\ at[c] = "expire"
    /\ faults' = faults + 1
    /\ Goto(c, "cooldown")
    /\ UNCHANGED <<hits, codes, states, people, sessions>>

\* inCooldown: the answer is the same whether a code was sent or not.
CheckCooldown(c) ==
    /\ at[c] = "cooldown"
    /\ IF job[c].email \in cooldown THEN Answer(c) ELSE Goto(c, "issue")
    /\ UNCHANGED <<hits, codes, states, people, sessions, faults>>

Stored(email) == [code |-> issued + 1, attempts |-> 0]

\* issueCode: one MULTI for the code, its expiry and the cooldown.
IssueCode(c) ==
    LET email == job[c].email IN
    /\ at[c] = "issue"
    /\ issued < MaxCodes /\ MayHappen
    /\ issued' = issued + 1
    /\ otp' = [otp EXCEPT ![email] = Stored(email)]
    /\ cooldown' = cooldown \cup {email}
    /\ at' = [at EXCEPT ![c] = "mail"]
    /\ job' = [job EXCEPT ![c].code = issued + 1]
    /\ UNCHANGED <<hits, inbox, compared, accepted, states, people, sessions,
                   faults>>

\* sendMail: the mail arrives, or it does not and nobody is told.
SendMail(c) ==
    /\ at[c] = "mail"
    /\ \/ inbox' = [inbox EXCEPT ![job[c].email] = Append(@, job[c].code)]
       \/ UNCHANGED inbox
    /\ Answer(c)
    /\ UNCHANGED <<hits, otp, cooldown, issued, compared, accepted, states,
                   people, sessions, faults>>

-----------------------------------------------------------------------------
(* POST /auth/email/verify.                                                *)

\* HGETALL: without a code there is nothing to check and nothing happens.
VerifyCode(c, typed, code) ==
    LET email == NormalizeEmail(typed) IN
    /\ "verifies" \in Races \/ ~Busy(Checks, email)
    /\ otp[email].code # 0
    /\ Begin(c, "count",
             [NoJob EXCEPT !.email = email, !.code = code,
                           !.stored = otp[email].code])
    /\ UNCHANGED <<hits, codes, states, people, sessions, faults>>

\* Mutant: only right guesses count.
CountRight(c, n) == IF job[c].code = job[c].stored THEN n + 1 ELSE n

Counted(c, n) == n + 1

\* HINCRBY, which makes the key when it is gone, then the comparison with
\* what was read before it.
CountAttempt(c) ==
    LET email == job[c].email
        n == Counted(c, otp[email].attempts)
        right == job[c].code = job[c].stored
    IN  /\ at[c] = "count"
        /\ otp' = [otp EXCEPT ![email].attempts = n]
        /\ IF n > MaxAttempts
           THEN Goto(c, "burn") /\ UNCHANGED compared
           ELSE /\ compared' = [compared EXCEPT ![job[c].stored] = @ + 1]
                /\ IF right THEN Goto(c, "spend")
                   ELSE IF n >= MaxAttempts THEN Goto(c, "burn")
                   ELSE Answer(c)
        /\ UNCHANGED <<hits, cooldown, issued, inbox, accepted, states,
                       people, sessions, faults>>

\* DEL after the last wrong guess.
BurnCode(c) ==
    /\ at[c] = "burn"
    /\ otp' = [otp EXCEPT ![job[c].email] = NoCode]
    /\ Answer(c)
    /\ UNCHANGED <<hits, cooldown, issued, inbox, compared, accepted, states,
                   people, sessions, faults>>

Spent(email) == NoCode

\* DEL after the right one, and on to the account.
SpendCode(c) ==
    LET email == job[c].email IN
    /\ at[c] = "spend"
    /\ otp' = [otp EXCEPT ![email] = Spent(email)]
    /\ accepted' = [accepted EXCEPT ![job[c].stored] = @ + 1]
    /\ at' = [at EXCEPT ![c] = "identity"]
    /\ job' = [job EXCEPT ![c] =
                 [NoJob EXCEPT !.email = email, !.key = <<"email", email>>]]
    /\ UNCHANGED <<hits, cooldown, issued, inbox, compared, states, people,
                   sessions, faults>>

-----------------------------------------------------------------------------
(* GET /auth/github, /auth/google and /auth/callback/:provider.            *)

BeginAuthorization ==
    /\ begun < MaxStates /\ MayHappen
    /\ begun' = begun + 1
    /\ oauth' = oauth \cup {begun + 1}
    /\ UNCHANGED <<hits, codes, landed, people, sessions, calls, faults>>

\* consumeState's GET: a callback without its state is sent away.
FindState(c, s) ==
    /\ s \in oauth
    /\ "callbacks" \in Races \/ \A d \in Calls : ~(at[d] = "drop" /\ job[d].n = s)
    /\ Begin(c, "drop", [NoJob EXCEPT !.n = s])
    /\ UNCHANGED <<hits, codes, states, people, sessions, faults>>

Consumed(s) == oauth \ {s}

\* consumeState's DEL.  Without a code the person had cancelled.
DropState(c) ==
    /\ at[c] = "drop"
    /\ oauth' = Consumed(job[c].n)
    /\ landed' = [landed EXCEPT ![job[c].n] = @ + 1]
    /\ Goto(c, "exchange") \/ Answer(c)
    /\ UNCHANGED <<hits, codes, begun, people, sessions, faults>>

\* exchangeCode fails, or the account has no verified address.
ExchangeFails(c) ==
    /\ at[c] = "exchange"
    /\ Answer(c)
    /\ UNCHANGED <<hits, codes, states, people, sessions, faults>>

\* fetchProfile: both providers' profiles have a verified address or none
\* (providers.ts:67, :101), any at all for an account seen before.
FetchProfile(c) ==
    /\ at[c] = "exchange"
    /\ \E account \in Accounts, email \in Spellings :
          /\ at' = [at EXCEPT ![c] = "identity"]
          /\ job' = [job EXCEPT ![c] =
                       [NoJob EXCEPT !.email = NormalizeEmail(email),
                                     !.key = <<"provider", account>>]]
    /\ UNCHANGED <<hits, codes, states, people, sessions, faults>>

-----------------------------------------------------------------------------
(* resolveUser and createSession.  Every address here is verified.         *)

SignInAs(c, user) ==
    /\ at' = [at EXCEPT ![c] = "session"]
    /\ job' = [job EXCEPT ![c].n = user]

FindIdentity(c) ==
    /\ at[c] = "identity"
    /\ IF identity[job[c].key] # 0 THEN SignInAs(c, identity[job[c].key])
       ELSE Goto(c, "address")
    /\ UNCHANGED <<hits, codes, states, people, sessions, faults>>

Holders(email) == {u \in 1..Len(users) : users[u] = email}

FindByEmail(c) ==
    /\ at[c] = "address"
    /\ IF Holders(job[c].email) = {} THEN Goto(c, "create")
       ELSE /\ at' = [at EXCEPT ![c] = "link"]
            /\ \E u \in Holders(job[c].email) :
                  job' = [job EXCEPT ![c].n = u]
    /\ UNCHANGED <<hits, codes, states, people, sessions, faults>>

\* The insert fails when another request has made the row: the sign-in ends
\* with an error.
Link(c) ==
    LET key == job[c].key IN
    /\ at[c] = "link"
    /\ IF identity[key] # 0
       THEN Answer(c) /\ UNCHANGED identity
       ELSE /\ identity' = [identity EXCEPT ![key] = job[c].n]
            /\ Goto(c, "session")
    /\ UNCHANGED <<hits, codes, states, users, sessions, faults>>

CreateUser(c) ==
    LET email == job[c].email
        key == job[c].key
    IN  /\ at[c] = "create"
        /\ IF Holders(email) # {} \/ identity[key] # 0
           THEN Answer(c) /\ UNCHANGED people
           ELSE /\ users' = Append(users, email)
                /\ identity' = [identity EXCEPT ![key] = Len(users) + 1]
                /\ SignInAs(c, Len(users) + 1)
        /\ UNCHANGED <<hits, codes, states, sessions, faults>>

Indexed(user, s) == index[user] \cup {s}

\* createSession: one MULTI for the record, the index and its expiry.
CreateSession(c) ==
    LET user == job[c].n
        s == Len(made) + 1
    IN  /\ at[c] = "session"
        /\ s <= MaxSessions /\ MayHappen
        /\ "everywhere" \in Races
           \/ \A d \in Calls : ~(at[d] = "revoke" /\ made[job[d].n].user = user)
        /\ made' = Append(made, [user |-> user, key |-> job[c].key])
        /\ live' = live \cup {s}
        /\ index' = [index EXCEPT ![user] = Indexed(user, s)]
        /\ Answer(c)
        /\ UNCHANGED <<hits, codes, states, people, faults>>

-----------------------------------------------------------------------------
(* Requests of someone signed in.                                          *)

SessionsOf(user) == {s \in live : made[s].user = user}

\* readSession's GET, for GET /auth/me ("me"), POST /auth/logout ("logout")
\* or POST /auth/logout/all ("logout all").  A dead session is nobody's.
ReadSession(c, s, what) ==
    /\ s \in live
    /\ Begin(c, what, [NoJob EXCEPT !.n = s,
                 !.before = IF what = "logout all" THEN SessionsOf(made[s].user)
                            ELSE {}])
    /\ UNCHANGED <<hits, codes, states, people, sessions, faults>>

\* Mutant: the record is written again with a new expiry.
SetAgain(s) == live \cup {s}

\* EXPIRE touches a key that is there and makes none.
Slid(s) == live

\* readSession's EXPIRE.
SlideSession(c) ==
    /\ at[c] \in {"me", "logout", "logout all"}
    /\ live' = Slid(job[c].n)
    /\ CASE at[c] = "me" -> Answer(c)
         [] at[c] = "logout" -> Goto(c, "delete")
         [] OTHER -> Goto(c, "list")
    /\ UNCHANGED <<hits, codes, states, people, made, index, faults>>

\* destroySession: one MULTI.
DestroySession(c) ==
    LET s == job[c].n IN
    /\ at[c] = "delete"
    /\ live' = live \ {s}
    /\ index' = [index EXCEPT ![made[s].user] = @ \ {s}]
    /\ Answer(c)
    /\ UNCHANGED <<hits, codes, states, people, made, faults>>

\* destroyAllSessions' SMEMBERS.
ListSessions(c) ==
    LET user == made[job[c].n].user IN
    /\ at[c] = "list"
    /\ IF index[user] = {} THEN Answer(c)
       ELSE /\ at' = [at EXCEPT ![c] = "revoke"]
            /\ job' = [job EXCEPT ![c].hashes = index[user]]
    /\ UNCHANGED <<hits, codes, states, people, sessions, faults>>

Listed(c) == job[c].hashes

\* Its MULTI: the sessions listed, and the index as it is now.
RevokeSessions(c) ==
    /\ at[c] = "revoke"
    /\ live' = live \ Listed(c)
    /\ index' = [index EXCEPT ![made[job[c].n].user] = {}]
    /\ Answer(c)
    /\ UNCHANGED <<hits, codes, states, people, made, faults>>

-----------------------------------------------------------------------------
(* Time, and the server.                                                   *)

\* The TTLs of Redis.  A window that nothing ended never ends.
WindowEnds(email) ==
    /\ hits[email].ends
    /\ hits' = [hits EXCEPT ![email] = NoHits]
    /\ UNCHANGED <<codes, states, people, sessions, calls, faults>>

CooldownEnds(email) ==
    /\ email \in cooldown
    /\ cooldown' = cooldown \ {email}
    /\ UNCHANGED <<hits, otp, issued, inbox, compared, accepted, states,
                   people, sessions, calls, faults>>

CodeExpires(email) ==
    /\ otp[email].code # 0
    /\ otp' = [otp EXCEPT ![email] = NoCode]
    /\ UNCHANGED <<hits, cooldown, issued, inbox, compared, accepted, states,
                   people, sessions, calls, faults>>

StateExpires(s) ==
    /\ s \in oauth
    /\ oauth' = oauth \ {s}
    /\ UNCHANGED <<hits, codes, begun, landed, people, sessions, calls,
                   faults>>

SessionExpires(s) ==
    /\ s \in live
    /\ live' = live \ {s}
    /\ UNCHANGED <<hits, codes, states, people, made, index, calls,
                   faults>>

\* 30 days without a sign-in.  A session that was read meanwhile has been
\* given another 30 days (readSession), its user's index has not.
IndexLapses(user) ==
    /\ index[user] # {}
    /\ "lapse" \in Races \/ SessionsOf(user) = {}
    /\ index' = [index EXCEPT ![user] = {}]
    /\ UNCHANGED <<hits, codes, states, people, live, made, calls,
                   faults>>

\* Requests end; Redis and Postgres stay.
Crash ==
    /\ faults < MaxFaults /\ MayHappen
    /\ faults' = faults + 1
    /\ at' = [c \in Calls |-> "idle"]
    /\ job' = [c \in Calls |-> NoJob]
    /\ UNCHANGED <<hits, codes, states, people, sessions>>

-----------------------------------------------------------------------------
Init ==
    /\ hits = [email \in Spellings |-> NoHits]
    /\ otp = [email \in Spellings |-> NoCode]
    /\ cooldown = {}
    /\ issued = 0
    /\ inbox = [email \in Spellings |-> <<>>]
    /\ compared = [code \in 1..MaxCodes |-> 0]
    /\ accepted = [code \in 1..MaxCodes |-> 0]
    /\ oauth = {}
    /\ begun = 0
    /\ landed = [s \in 1..MaxStates |-> 0]
    /\ users = <<>>
    /\ identity = [key \in Keys |-> 0]
    /\ live = {}
    /\ made = <<>>
    /\ index = [user \in Users |-> {}]
    /\ at = [c \in Calls |-> "idle"]
    /\ job = [c \in Calls |-> NoJob]
    /\ faults = 0

Next ==
    \/ \E c \in Calls :
          \/ \E email \in Spellings : RequestCode(c, email)
          \/ StartWindow(c) \/ LimiterCut(c) \/ CheckCooldown(c)
          \/ IssueCode(c) \/ SendMail(c)
          \/ \E email \in Spellings, code \in 0..issued : VerifyCode(c, email, code)
          \/ CountAttempt(c) \/ BurnCode(c) \/ SpendCode(c)
          \/ \E s \in oauth : FindState(c, s)
          \/ DropState(c) \/ ExchangeFails(c) \/ FetchProfile(c)
          \/ FindIdentity(c) \/ FindByEmail(c) \/ Link(c)
          \/ CreateUser(c) \/ CreateSession(c)
          \/ \E s \in live, what \in {"me", "logout", "logout all"} :
                ReadSession(c, s, what)
          \/ SlideSession(c) \/ DestroySession(c) \/ ListSessions(c)
          \/ RevokeSessions(c)
    \/ BeginAuthorization \/ Crash
    \/ \E email \in Spellings :
          WindowEnds(email) \/ CooldownEnds(email) \/ CodeExpires(email)
    \/ \E s \in oauth : StateExpires(s)
    \/ \E s \in live : SessionExpires(s)
    \/ \E user \in Users : IndexLapses(user)

Spec == Init /\ [][Next]_vars

-----------------------------------------------------------------------------
(* Properties.                                                             *)

Sessions == 1..Len(made)

TypeOK ==
    /\ hits \in [Spellings -> [n : 0..(Limit + 1), ends : BOOLEAN]]
    /\ otp \in [Spellings -> [code : 0..MaxCodes, attempts : Nat]]
    /\ cooldown \subseteq Spellings
    /\ issued \in 0..MaxCodes
    /\ inbox \in [Spellings -> Seq(1..MaxCodes)]
    /\ compared \in [1..MaxCodes -> Nat]
    /\ accepted \in [1..MaxCodes -> Nat]
    /\ oauth \subseteq 1..begun
    /\ begun \in 0..MaxStates
    /\ landed \in [1..MaxStates -> Nat]
    /\ users \in Seq(Spellings)
    /\ identity \in [Keys -> {0} \cup Users]
    /\ live \subseteq Sessions
    /\ made \in Seq([user : Users, key : Keys])
    /\ index \in [Users -> SUBSET Sessions]
    /\ at \in [Calls -> Steps]
    /\ job \in [Calls -> [email : Spellings \cup {NoOne}, code : 0..MaxCodes,
                          stored : 0..MaxCodes, key : Keys \cup {NoOne},
                          n : Nat, hashes : SUBSET Sessions,
                          before : SUBSET Sessions]]
    /\ faults \in 0..MaxFaults

\* otp.ts: "five wrong guesses burn the code entirely".  With one verification
\* of an address at a time no code is compared with more guesses than that,
\* whatever is issued or expires meanwhile; a crash before the burning makes
\* room for one more, if the code expires between its reading and its counting.
GuessesAreCounted ==
    \A code \in 1..MaxCodes : compared[code] <= MaxAttempts + faults

\* otp.ts: "Single-use: the code is gone the moment it works."
CodeWorksOnce == \A code \in 1..MaxCodes : accepted[code] <= 1

\* routes/auth.ts: "Check the most recent email and re-enter the code."  If
\* the mail with the code that is stored arrived, it is the last that did.
LatestMailWorks ==
    \A email \in Spellings :
        \A i \in DOMAIN inbox[email] :
            inbox[email][i] = otp[email].code => i = Len(inbox[email])

\* rate-limit.ts: "a stale counter expires on its own".  Unless the server or
\* Redis failed, a counter expires or is about to be told to.
CounterExpires ==
    faults = 0 =>
        \A email \in Spellings :
            hits[email].n > 0 => hits[email].ends \/ Busy({"expire"}, email)

\* The same whatever fails; a failure between INCR and EXPIRE refutes it.
CounterAlwaysExpires ==
    \A email \in Spellings :
        hits[email].n > 0 => hits[email].ends \/ Busy({"expire"}, email)

\* flow.ts: the state is "consumed exactly once on the way back".
StateWorksOnce == \A s \in 1..MaxStates : landed[s] <= 1

\* otp.ts: "so casing never forks one person into two accounts"; identity.ts:
\* signing in with another provider "lands on the same person".  A mailbox
\* has one account, a key has one user and every session signed in with it
\* is that user's.
OnePersonPerInbox ==
    /\ \A i, j \in 1..Len(users) : users[i][1] = users[j][1] => i = j
    /\ \A s \in Sessions : identity[made[s].key] = made[s].user

\* session.ts: signing out makes a session "stop working *now*".  A session
\* that is gone is never back, though a request that read it goes on.
SignedOutStaysOut ==
    [][\A s \in Sessions : s \notin live => s \notin live']_vars

\* session.ts: "The index of a user's live sessions, so revocation never has
\* to SCAN."
IndexCoversSessions ==
    \A s \in live : s \in index[made[s].user]

\* session.ts: "Revoke every session a user holds".  When signing out
\* everywhere ends, none of the sessions there were when it began is left.
EverywhereMeansEverywhere ==
    [][\A c \in Calls :
          /\ at[c] \in {"list", "revoke"}
          /\ at'[c] = "idle"
          /\ faults' = faults
          => job[c].before \cap live' = {}]_vars

\* Codes: a code lets one person in, once, after few enough guesses, it is the
\* one last mailed, and what counts the requests for it runs out.
CodesAreSound ==
    TypeOK /\ GuessesAreCounted /\ CodeWorksOnce /\ LatestMailWorks /\ CounterExpires

\* Accounts: whichever way they come in, and however callbacks and codes race,
\* one person is one user.
OneWayIn == StateWorksOnce /\ OnePersonPerInbox

\* Sessions: a live one can be found by its user, and one that was ended, alone
\* or with all the others, stays ended.
SessionsEnd ==
    []IndexCoversSessions /\ SignedOutStaysOut /\ EverywhereMeansEverywhere
=============================================================================
