----------------------------- MODULE SignIn_proofs -----------------------------
(***************************************************************************)
(* Proofs about SignIn, for any inboxes, accounts, request slots and       *)
(* bounds.  What some of Races breaks is proved where those are left out.  *)
(***************************************************************************)
EXTENDS SignIn, FiniteSetTheorems, TLAPS

-----------------------------------------------------------------------------
(* The inductive invariant of every instance.                              *)

Plain == Inboxes \X {"plain"}

\* What a request carries fits the command it waits for: an address is spelled
\* one way only, and numbers are of codes, states, users and sessions there are.
Fits(step, j, codesN, statesN, usersN, ids, madeN) ==
    /\ step \in Sends \cup Checks => j.email \in Plain
    /\ step = "mail" => j.code \in 1..codesN
    /\ step \in {"count", "spend"} => j.stored \in 1..codesN
    /\ step = "drop" => j.n \in 1..statesN
    /\ step \in {"identity", "address", "link", "create"} =>
          j.email \in Plain /\ j.key \in Keys
    /\ step = "link" => j.n \in 1..usersN
    /\ step = "session" =>
          j.key \in Keys /\ j.n \in 1..usersN /\ ids[j.key] = j.n
    /\ step \in {"me", "logout", "delete", "logout all", "list", "revoke"} =>
          j.n \in 1..madeN

CallInv ==
    \A c \in Calls :
        Fits(at[c], job[c], issued, begun, Len(users), identity, Len(made))

\* A code that is stored was issued.
StoredInv == \A email \in Spellings : otp[email].code \in 0..issued

\* One inbox, one user; keys and sessions are of users there are.
PeopleInv ==
    /\ users \in Seq(Plain)
    /\ \A i, j \in 1..Len(users) : users[i][1] = users[j][1] => i = j
    /\ \A key \in Keys : identity[key] \in 0..Len(users)
    /\ \A s \in Sessions :
          made[s].user \in 1..Len(users) /\ identity[made[s].key] = made[s].user

IInv == TypeOK /\ CallInv /\ StoredInv /\ PeopleInv /\ CounterExpires

-----------------------------------------------------------------------------
(* What holds besides while some races are left out.                       *)

\* OAuth states, unless two callbacks race: a state that is stored, or read by
\* a callback that has not dropped it yet, was never accepted.
StateInv ==
    /\ \A s \in oauth : landed[s] = 0
    /\ \A c \in Calls : at[c] = "drop" => landed[job[c].n] = 0
    /\ \A c, d \in Calls :
          at[c] = "drop" /\ at[d] = "drop" /\ job[c].n = job[d].n => c = d
    /\ \A s \in 1..MaxStates : s > begun => landed[s] = 0
    /\ StateWorksOnce

Holds(c) == at[c] \in {"count", "spend"}

\* Codes, unless two verifications of an address race: an address has one
\* verification and a code one address.
CheckInv ==
    /\ \A c, d \in Calls :
          at[c] \in Checks /\ at[d] \in Checks /\ job[c].email = job[d].email
          => c = d
    /\ \A e, f \in Spellings :
          otp[e].code = otp[f].code /\ otp[e].code # 0 => e = f
    /\ \A c \in Calls, email \in Spellings :
          Holds(c) /\ otp[email].code = job[c].stored => job[c].email = email
    /\ \A c, d \in Calls :
          Holds(c) /\ Holds(d) /\ job[c].stored = job[d].stored => c = d

\* A code that is stored or being checked was never accepted.
FreshInv ==
    /\ \A email \in Spellings :
          otp[email].code # 0 => accepted[otp[email].code] = 0
    /\ \A c \in Calls : Holds(c) => accepted[job[c].stored] = 0
    /\ \A code \in 1..MaxCodes : code > issued => accepted[code] = 0
    /\ CodeWorksOnce

\* A stored code was compared at most as often as was counted, and a request
\* that read one that is gone may still compare it.  A code whose attempts are
\* used up is about to go, unless a crash kept it.
GuessInv ==
    /\ \A email \in Spellings :
          otp[email].code # 0 =>
              /\ compared[otp[email].code] <= otp[email].attempts
              /\ compared[otp[email].code] <= MaxAttempts
    /\ \A c \in Calls :
          at[c] = "count" /\ otp[job[c].email].code # job[c].stored =>
              compared[job[c].stored] + 1 <= MaxAttempts + faults
    /\ faults = 0 =>
          \A email \in Spellings :
              otp[email].code # 0 /\ otp[email].attempts >= MaxAttempts =>
                  Busy({"burn", "spend"}, email)
    /\ \A code \in 1..MaxCodes : code > issued => compared[code] = 0
    /\ GuessesAreCounted

CodeInv == CheckInv /\ FreshInv /\ GuessInv

\* Mails, unless two requests for an address race: the code a mail is being
\* sent with is the one stored, if any is, and has not arrived yet.
MailInv ==
    /\ \A c, d \in Calls :
          at[c] \in Sends /\ at[d] \in Sends /\ job[c].email = job[d].email
          => c = d
    /\ \A email \in Spellings :
          \A i \in DOMAIN inbox[email] : inbox[email][i] \in 1..issued
    /\ \A c \in Calls :
          at[c] = "mail" =>
              /\ otp[job[c].email].code \in {0, job[c].code}
              /\ \A i \in DOMAIN inbox[job[c].email] :
                    inbox[job[c].email][i] # job[c].code
    /\ LatestMailWorks

\* Sessions, unless one is made while its user signs out everywhere or outlives
\* the index: the index has every session, so the list has every one to revoke.
SessionInv ==
    /\ IndexCoversSessions
    /\ \A c \in Calls :
          at[c] = "revoke" =>
              \A s \in live : made[s].user = made[job[c].n].user => s \in job[c].hashes
    /\ \A c \in Calls :
          at[c] \in {"logout all", "list", "revoke"} =>
              \A s \in job[c].before : made[s].user = made[job[c].n].user

-----------------------------------------------------------------------------
(* The steps, by what they are for, and what each kind leaves alone.       *)

Requesting(c) ==
    \/ \E email \in Spellings : RequestCode(c, email)
    \/ StartWindow(c) \/ LimiterCut(c) \/ CheckCooldown(c)
    \/ IssueCode(c) \/ SendMail(c)

Verifying(c) ==
    \/ \E email \in Spellings, code \in 0..issued : VerifyCode(c, email, code)
    \/ CountAttempt(c) \/ BurnCode(c) \/ SpendCode(c)

Returning(c) ==
    \/ \E s \in oauth : FindState(c, s)
    \/ DropState(c) \/ ExchangeFails(c) \/ FetchProfile(c)

Joining(c) ==
    FindIdentity(c) \/ FindByEmail(c) \/ Link(c) \/ CreateUser(c) \/ CreateSession(c)

Leaving(c) ==
    \/ \E s \in live, what \in {"me", "logout", "logout all"} :
          ReadSession(c, s, what)
    \/ SlideSession(c) \/ DestroySession(c) \/ ListSessions(c) \/ RevokeSessions(c)

Passing ==
    \/ BeginAuthorization
    \/ \E email \in Spellings :
          WindowEnds(email) \/ CooldownEnds(email) \/ CodeExpires(email)
    \/ \E s \in oauth : StateExpires(s)
    \/ \E s \in live : SessionExpires(s)
    \/ \E user \in Users : IndexLapses(user)

Serving(c) ==
    Requesting(c) \/ Verifying(c) \/ Returning(c) \/ Joining(c) \/ Leaving(c)

LEMMA NextParts == Next <=> (\E c \in Calls : Serving(c)) \/ Passing \/ Crash
  BY DEF Next, Serving, Requesting, Verifying, Returning, Joining, Leaving, Passing

Returns == {"drop", "exchange"}
Joins   == {"identity", "address", "link", "create", "session"}
Leaves  == {"me", "logout", "delete", "logout all", "list", "revoke"}

\* Only the request c moves, from one of the commands of from to one of to.
Moves(c, from, to) ==
    /\ at[c] \in from /\ at'[c] \in to
    /\ at' \in [Calls -> Steps] /\ job' = [job EXCEPT ![c] = job'[c]]
    /\ \A d \in Calls : d # c => at'[d] = at[d] /\ job'[d] = job[d]

\* The requests that wait for a command of steps are the same and stay there.
Still(steps) ==
    \A c \in Calls :
        at[c] \in steps \/ at'[c] \in steps => at'[c] = at[c] /\ job'[c] = job[c]

CallsType == at \in [Calls -> Steps] /\ job = [c \in Calls |-> job[c]]

LEMMA TypeCalls == TypeOK => CallsType
  BY DEF TypeOK, CallsType

LEMMA StillMoves ==
    ASSUME NEW c \in Calls, NEW from, NEW to, NEW steps,
           Moves(c, from, to), from \cap steps = {}, to \cap steps = {}
    PROVE  Still(steps)
  BY DEF Moves, Still

LEMMA StillCalls ==
    ASSUME NEW steps, UNCHANGED calls
    PROVE  Still(steps)
  BY DEF Still, calls

LEMMA RequestingFrame ==
    ASSUME CallsType, NEW c \in Calls, Requesting(c)
    PROVE  /\ UNCHANGED <<states, people, sessions, compared, accepted>>
           /\ UNCHANGED calls \/ Moves(c, {"idle"} \cup Sends, {"idle"} \cup Sends)
  <1> USE DEF CallsType, Moves, Steps, Sends, Begin, Goto, Answer, calls, codes
  <1>1. CASE \E email \in Spellings : RequestCode(c, email)
    BY <1>1 DEF RequestCode
  <1>2. CASE StartWindow(c) \/ LimiterCut(c) \/ CheckCooldown(c)
    BY <1>2 DEF StartWindow, Allowed, LimiterCut, CheckCooldown
  <1>3. CASE IssueCode(c) \/ SendMail(c)
    BY <1>3 DEF IssueCode, SendMail
  <1>4. QED
    BY <1>1, <1>2, <1>3 DEF Requesting

LEMMA VerifyingFrame ==
    ASSUME CallsType, NEW c \in Calls, Verifying(c)
    PROVE  /\ UNCHANGED <<hits, cooldown, issued, inbox, states, people, sessions,
                          faults>>
           /\ Moves(c, {"idle"} \cup Checks, {"idle", "identity"} \cup Checks)
  <1> USE DEF CallsType, Moves, Steps, Checks, Begin, Goto, Answer, calls, codes
  <1>1. CASE \E email \in Spellings, code \in 0..issued : VerifyCode(c, email, code)
    BY <1>1 DEF VerifyCode
  <1>2. CASE CountAttempt(c)
    BY <1>2 DEF CountAttempt
  <1>3. CASE BurnCode(c) \/ SpendCode(c)
    BY <1>3 DEF BurnCode, SpendCode
  <1>4. QED
    BY <1>1, <1>2, <1>3 DEF Verifying

LEMMA ReturningFrame ==
    ASSUME CallsType, NEW c \in Calls, Returning(c)
    PROVE  /\ UNCHANGED <<hits, codes, begun, people, sessions, faults>>
           /\ Moves(c, {"idle"} \cup Returns, {"idle", "identity"} \cup Returns)
  <1> USE DEF CallsType, Moves, Steps, Returns, Begin, Goto, Answer, states
  <1>1. CASE \E s \in oauth : FindState(c, s)
    BY <1>1 DEF FindState
  <1>2. CASE DropState(c)
    BY <1>2 DEF DropState
  <1>3. CASE ExchangeFails(c) \/ FetchProfile(c)
    BY <1>3 DEF ExchangeFails, FetchProfile
  <1>4. QED
    BY <1>1, <1>2, <1>3 DEF Returning

LEMMA JoiningFrame ==
    ASSUME CallsType, NEW c \in Calls, Joining(c)
    PROVE  /\ UNCHANGED <<hits, codes, states, faults>>
           /\ Moves(c, Joins, {"idle"} \cup Joins)
  <1> USE DEF CallsType, Moves, Steps, Joins, SignInAs, Goto, Answer
  <1>1. CASE FindIdentity(c) \/ FindByEmail(c)
    BY <1>1 DEF FindIdentity, FindByEmail
  <1>2. CASE Link(c) \/ CreateUser(c) \/ CreateSession(c)
    BY <1>2 DEF Link, CreateUser, CreateSession
  <1>3. QED
    BY <1>1, <1>2 DEF Joining

LEMMA LeavingFrame ==
    ASSUME CallsType, NEW c \in Calls, Leaving(c)
    PROVE  /\ UNCHANGED <<hits, codes, states, people, made, faults>>
           /\ live' \subseteq live
           /\ Moves(c, {"idle"} \cup Leaves, {"idle"} \cup Leaves)
  <1> USE DEF CallsType, Moves, Steps, Leaves, Begin, Goto, Answer, sessions
  <1>1. CASE \E s \in live, what \in {"me", "logout", "logout all"} :
                ReadSession(c, s, what)
    BY ZenonT(60), <1>1 DEF ReadSession
  <1>2. CASE SlideSession(c)
    BY <1>2 DEF SlideSession, Slid
  <1>3. CASE DestroySession(c)
    BY <1>3 DEF DestroySession
  <1>4. CASE ListSessions(c) \/ RevokeSessions(c)
    BY <1>4 DEF ListSessions, RevokeSessions
  <1>5. QED
    BY <1>1, <1>2, <1>3, <1>4 DEF Leaving

LEMMA PassingFrame ==
    ASSUME Passing
    PROVE  /\ UNCHANGED <<issued, inbox, compared, accepted, landed, people, made,
                          calls, faults>>
           /\ live' \subseteq live
  BY DEF Passing, BeginAuthorization, WindowEnds, CooldownEnds, CodeExpires,
         StateExpires, SessionExpires, IndexLapses, codes, states, sessions

LEMMA CrashFrame ==
    ASSUME Crash, NEW steps, "idle" \notin steps
    PROVE  /\ UNCHANGED <<hits, codes, states, people, sessions>>
           /\ \A c \in Calls : at'[c] \notin steps /\ at'[c] = "idle"
  BY DEF Crash

-----------------------------------------------------------------------------
(* Accounts.                                                               *)

PeopleType == users \in Seq(Spellings) /\ identity \in [Keys -> {0} \cup Users]

SessionsType ==
    /\ live \subseteq Sessions
    /\ made \in Seq([user : Users, key : Keys])
    /\ index \in [Users -> SUBSET Sessions]

LEMMA MadeType ==
    ASSUME SessionsType
    PROVE  /\ Len(made) \in Nat
           /\ \A s \in Sessions : made[s].user \in Users /\ made[s].key \in Keys
  <1> DEFINE Session == [user : Users, key : Keys]
  <1>1. made \in Seq(Session)
    BY DEF SessionsType
  <1> HIDE DEF Session
  <1>2. Len(made) \in Nat /\ \A s \in Sessions : made[s] \in Session
    BY <1>1 DEF Sessions
  <1>3. QED
    BY <1>2 DEF Session

LEMMA LiveType ==
    ASSUME SessionsType
    PROVE  \A s \in live : s \in 1..Len(made) /\ s \in Nat
  BY MadeType DEF SessionsType, Sessions

LEMMA SpellingsAreFinite == IsFiniteSet(Spellings) /\ Cardinality(Spellings) \in Nat
  <1>1. IsFiniteSet({"plain", "cased"})
    <2>1. {"plain", "cased"} = {"plain"} \cup {"cased"}
      OBVIOUS
    <2>2. IsFiniteSet({"plain"})
      BY FS_Singleton
    <2>3. IsFiniteSet({"plain"} \cup {"cased"})
      BY <2>2, FS_AddElement
    <2>4. QED
      BY <2>1, <2>3
  <1>2. IsFiniteSet(Spellings)
    BY <1>1, SignInAssumption, FS_Product DEF Spellings, SignInAssumption
  <1>3. QED
    BY <1>2, FS_CardinalityType

LEMMA Pigeons ==
    ASSUME NEW T, IsFiniteSet(T), NEW n \in Nat, n > Cardinality(T),
           NEW f \in [1..n -> T]
    PROVE  \E i, j \in 1..n : i # j /\ f[i] = f[j]
  <1> DEFINE S == 1..n
  <1>1. IsFiniteSet(S) /\ Cardinality(S) = n
    BY FS_Interval
  <1>2. Cardinality(T) \in Nat
    BY FS_CardinalityType
  <1>3. Cardinality(T) < Cardinality(S) /\ f \in [S -> T]
    BY <1>1, <1>2
  <1> HIDE DEF S
  <1>4. \E x, y \in S : x # y /\ f[x] = f[y]
    BY <1>1, <1>3, FS_PigeonHole
  <1>5. QED
    BY <1>4 DEF S

\* There is a number of Users for every row, one row to an inbox.
LEMMA RoomForAll ==
    ASSUME NEW rows \in Seq(Plain),
           \A i, j \in 1..Len(rows) : rows[i][1] = rows[j][1] => i = j
    PROVE  1..Len(rows) \subseteq Users
  <1> DEFINE n == Len(rows)
  <1>1. n \in Nat /\ \A i \in 1..n : rows[i] \in Plain
    OBVIOUS
  <1>2. SUFFICES ASSUME n > Cardinality(Spellings) PROVE FALSE
    BY <1>1, SpellingsAreFinite DEF Users
  <1>3. rows \in [1..n -> Spellings]
    BY <1>1 DEF Plain, Spellings
  <1>4. \E i, j \in 1..n : i # j /\ rows[i] = rows[j]
    <2> HIDE DEF n
    <2>1. QED
      BY <1>1, <1>2, <1>3, SpellingsAreFinite, Pigeons
  <1>5. QED
    BY <1>4

\* Only linking and creating an account change accounts.
LEMMA PeopleFrame ==
    ASSUME TypeOK, Next
    PROVE  \/ UNCHANGED people
           \/ \E c \in Calls : Link(c) \/ CreateUser(c)
  <1>1. ASSUME NEW c \in Calls, Joining(c)
        PROVE  UNCHANGED people \/ Link(c) \/ CreateUser(c)
    BY <1>1 DEF Joining, FindIdentity, FindByEmail, CreateSession
  <1>2. ASSUME NEW c \in Calls, Serving(c)
        PROVE  UNCHANGED people \/ Link(c) \/ CreateUser(c)
    BY <1>1, <1>2, TypeCalls, RequestingFrame, VerifyingFrame, ReturningFrame,
       LeavingFrame DEF Serving
  <1>3. QED
    BY <1>2, NextParts, PassingFrame DEF Crash

LEMMA MadeFrame ==
    ASSUME TypeOK, Next
    PROVE  UNCHANGED made \/ \E c \in Calls : CreateSession(c)
  <1>1. ASSUME NEW c \in Calls, Joining(c)
        PROVE  UNCHANGED made \/ CreateSession(c)
    BY <1>1 DEF Joining, FindIdentity, FindByEmail, Link, CreateUser, sessions
  <1>2. ASSUME NEW c \in Calls, Serving(c)
        PROVE  UNCHANGED made \/ CreateSession(c)
    BY <1>1, <1>2, TypeCalls, RequestingFrame, VerifyingFrame, ReturningFrame,
       LeavingFrame DEF Serving, sessions
  <1>3. QED
    BY <1>2, NextParts, PassingFrame DEF Crash, sessions

\* Accounts only grow, and a key stays with the user it was given to.
PeopleGrow ==
    /\ Len(users) <= Len(users')
    /\ \A key \in Keys : identity[key] # 0 => identity'[key] = identity[key]

\* Every step keeps one user to an inbox and one to a key.
LEMMA PeopleStep ==
    ASSUME TypeOK, CallInv, PeopleInv, Next
    PROVE  PeopleType' /\ PeopleInv' /\ PeopleGrow
  <1>1. /\ users \in Seq(Plain) /\ Len(users) \in Nat
        /\ PeopleType
    BY DEF PeopleInv, TypeOK, PeopleType
  <1>2. /\ made \in Seq([user : Users, key : Keys]) /\ Len(made) \in Nat
        /\ \A s \in Sessions : made[s].user \in Users /\ made[s].key \in Keys
    BY MadeType DEF TypeOK, SessionsType
  <1>3. ASSUME UNCHANGED people PROVE PeopleType' /\ PeopleInv' /\ PeopleGrow
    <2>1. PeopleType' /\ PeopleGrow
      BY <1>1, <1>3 DEF people, PeopleType, PeopleGrow
    <2>2. ASSUME UNCHANGED made PROVE PeopleInv'
      BY <1>3, <2>2 DEF people, PeopleInv, Sessions
    <2>3. ASSUME NEW c \in Calls, CreateSession(c) PROVE PeopleInv'
      <3> DEFINE m == [user |-> job[c].n, key |-> job[c].key]
      <3>1. /\ job[c].key \in Keys /\ job[c].n \in 1..Len(users)
            /\ identity[job[c].key] = job[c].n
        BY <2>3 DEF CallInv, Fits, CreateSession
      <3>2. made' = Append(made, m)
        BY <2>3 DEF CreateSession
      <3> HIDE DEF m
      <3>3. /\ Sessions' = Sessions \cup {Len(made) + 1}
            /\ \A s \in Sessions : made'[s] = made[s]
            /\ made'[Len(made) + 1] = m
        BY <1>2, <3>2 DEF Sessions
      <3>4. QED
        BY <1>1, <1>3, <3>1, <3>3 DEF people, PeopleInv, m
    <2>4. QED
      BY <2>1, <2>2, <2>3, MadeFrame
  <1>4. ASSUME NEW c \in Calls, Link(c) PROVE PeopleType' /\ PeopleInv' /\ PeopleGrow
    <2>1. UNCHANGED <<users, made>>
      BY <1>4 DEF Link, sessions
    <2>2. CASE UNCHANGED identity
      BY <1>3, <2>1, <2>2 DEF people
    <2>3. CASE /\ identity[job[c].key] = 0
               /\ identity' = [identity EXCEPT ![job[c].key] = job[c].n]
      <3>1. job[c].n \in 1..Len(users) /\ job[c].key \in Keys
        BY <1>4 DEF CallInv, Fits, Link
      <3>2. job[c].n \in Users
        BY <1>1, <3>1, RoomForAll DEF PeopleInv
      <3>3. QED
        BY <1>1, <1>2, <2>1, <2>3, <3>1, <3>2
        DEF PeopleType, PeopleInv, PeopleGrow, Sessions
    <2>4. QED
      BY <1>4, <2>2, <2>3 DEF Link
  <1>5. ASSUME NEW c \in Calls, CreateUser(c)
        PROVE  PeopleType' /\ PeopleInv' /\ PeopleGrow
    <2>1. UNCHANGED made
      BY <1>5 DEF CreateUser, sessions
    <2>2. CASE UNCHANGED people
      BY <1>3, <2>2
    <2> DEFINE email == job[c].email
               key == job[c].key
    <2>3. CASE /\ Holders(email) = {} /\ identity[key] = 0
               /\ users' = Append(users, email)
               /\ identity' = [identity EXCEPT ![key] = Len(users) + 1]
      <3>1. email \in Plain /\ key \in Keys
        BY <1>5 DEF CallInv, Fits, CreateUser
      <3>3. \A i \in 1..Len(users) : users[i] # email
        BY <2>3 DEF Holders
      <3> HIDE DEF email, key
      <3>4. /\ Len(users') = Len(users) + 1
            /\ users' \in Seq(Plain)
            /\ \A i \in 1..Len(users) : users'[i] = users[i]
            /\ users'[Len(users) + 1] = email
        BY <1>1, <2>3, <3>1
      <3>5. \A i \in 1..Len(users) : users[i] \in Plain
        BY <1>1
      <3>6. \A i \in 1..Len(users) : users[i][1] # email[1]
        BY <3>1, <3>3, <3>5 DEF Plain
      <3>7. \A i, j \in 1..Len(users') : users'[i][1] = users'[j][1] => i = j
        BY <1>1, <3>4, <3>6 DEF PeopleInv
      <3>2. Len(users) + 1 \in Users
        BY <1>1, <3>4, <3>7, RoomForAll
      <3>8. /\ identity' \in [Keys -> {0} \cup Users]
            /\ identity'[key] = Len(users) + 1
            /\ \A k \in Keys : k # key => identity'[k] = identity[k]
        BY <1>1, <2>3, <3>1, <3>2 DEF PeopleType
      <3>9. \A k \in Keys : identity'[k] \in 0..Len(users')
        BY <1>1, <3>4, <3>8 DEF PeopleInv
      <3>10. \A s \in Sessions : /\ made[s].user \in 1..Len(users')
                                 /\ identity'[made[s].key] = made[s].user
        BY <1>1, <1>2, <2>3, <3>4, <3>8 DEF PeopleInv
      <3>11. users' \in Seq(Spellings)
        BY <3>4 DEF Plain, Spellings
      <3>12. QED
        BY <1>1, <2>1, <2>3, <3>4, <3>7, <3>8, <3>9, <3>10, <3>11
        DEF PeopleType, PeopleInv, PeopleGrow, Sessions
    <2>4. QED
      BY <1>5, <2>2, <2>3 DEF CreateUser
  <1>6. QED
    BY <1>3, <1>4, <1>5, PeopleFrame

-----------------------------------------------------------------------------
(* Types, and what a request carries.                                      *)

LimitType == hits \in [Spellings -> [n : 0..(Limit + 1), ends : BOOLEAN]]

CodesType ==
    /\ otp \in [Spellings -> [code : 0..MaxCodes, attempts : Nat]]
    /\ cooldown \subseteq Spellings
    /\ issued \in 0..MaxCodes
    /\ inbox \in [Spellings -> Seq(1..MaxCodes)]
    /\ compared \in [1..MaxCodes -> Nat]
    /\ accepted \in [1..MaxCodes -> Nat]

StatesType ==
    /\ oauth \subseteq 1..begun
    /\ begun \in 0..MaxStates
    /\ landed \in [1..MaxStates -> Nat]

\* What is stored for an address.
Entry == [code : 0..MaxCodes, attempts : Nat]

\* What a request may carry when so many sessions were made.
Job(madeN) ==
    [email : Spellings \cup {NoOne}, code : 0..MaxCodes, stored : 0..MaxCodes,
     key : Keys \cup {NoOne}, n : Nat, hashes : SUBSET (1..madeN),
     before : SUBSET (1..madeN)]

JobType == at \in [Calls -> Steps] /\ job \in [Calls -> Job(Len(made))]

LEMMA TypeParts ==
    TypeOK <=> /\ LimitType /\ CodesType /\ StatesType /\ PeopleType
               /\ SessionsType /\ JobType /\ faults \in 0..MaxFaults
  BY DEF TypeOK, LimitType, CodesType, StatesType, PeopleType, SessionsType,
         JobType, Job, Sessions

LEMMA TypePartsNext ==
    TypeOK' <=> /\ LimitType' /\ CodesType' /\ StatesType' /\ PeopleType'
                /\ SessionsType' /\ JobType' /\ (faults \in 0..MaxFaults)'
  BY DEF TypeOK, LimitType, CodesType, StatesType, PeopleType, SessionsType,
         JobType, Job, Sessions

LEMMA Numbers ==
    /\ MaxAttempts \in Nat \ {0} /\ Limit \in Nat \ {0}
    /\ MaxCodes \in Nat /\ MaxStates \in Nat /\ MaxSessions \in Nat
    /\ MaxFaults \in Nat
  BY SignInAssumption DEF SignInAssumption

LEMMA PlainIsSpelled ==
    /\ Plain \subseteq Spellings
    /\ \A email \in Spellings : NormalizeEmail(email) \in Plain
    /\ \A email \in Plain : <<"email", email>> \in Keys
    /\ \A account \in Accounts : <<"provider", account>> \in Keys
  BY DEF Plain, Spellings, NormalizeEmail, Keys

LEMMA NoJobType == ASSUME NEW madeN \in Nat PROVE NoJob \in Job(madeN)
  BY Numbers DEF NoJob, Job

\* What there is does not get less.
Grow ==
    /\ issued <= issued' /\ begun <= begun' /\ PeopleGrow
    /\ Len(made) <= Len(made')

Counts ==
    issued \in Nat /\ begun \in Nat /\ Len(users) \in Nat /\ Len(made) \in Nat

LEMMA CountsType ==
    /\ TypeOK => Counts
    /\ CodesType' /\ StatesType' /\ PeopleType' /\ SessionsType' => Counts'
  <1>1. ASSUME TypeOK PROVE Len(users) \in Nat /\ Len(made) \in Nat
    BY <1>1 DEF TypeOK
  <1>2. ASSUME PeopleType', SessionsType' PROVE Len(users') \in Nat /\ Len(made') \in Nat
    BY <1>2 DEF PeopleType, SessionsType
  <1>3. QED
    BY SMTT(30), <1>1, <1>2, Numbers DEF TypeOK, CodesType, StatesType, Counts

\* What fits goes on fitting.
LEMMA FitsGrows ==
    ASSUME Counts, Counts', Grow, NEW step, NEW j,
           Fits(step, j, issued, begun, Len(users), identity, Len(made))
    PROVE  Fits(step, j, issued', begun', Len(users'), identity', Len(made'))
  <1>1. ASSUME step = "session"
        PROVE  j.key \in Keys /\ j.n \in 1..Len(users') /\ identity'[j.key] = j.n
    BY <1>1 DEF Counts, Grow, PeopleGrow, Fits
  <1>2. /\ 1..issued \subseteq 1..issued' /\ 1..begun \subseteq 1..begun'
        /\ 1..Len(users) \subseteq 1..Len(users')
        /\ 1..Len(made) \subseteq 1..Len(made')
    BY DEF Counts, Grow, PeopleGrow
  <1>3. QED
    BY <1>1, <1>2 DEF Fits

\* When one request moves it is enough to look at that one.
LEMMA CallStep ==
    ASSUME TypeOK, CallInv, Counts', Grow, NEW c \in Calls, NEW from, NEW to,
           Moves(c, from, to), job'[c] \in Job(Len(made')),
           Fits(at'[c], job'[c], issued', begun', Len(users'), identity', Len(made'))
    PROVE  JobType' /\ CallInv'
  <1>1. Counts
    BY CountsType
  <1>2. \A d \in Calls : job[d] \in Job(Len(made))
    BY TypeParts DEF JobType
  <1>3. \A d \in Calls : job[d] \in Job(Len(made'))
    BY <1>1, <1>2 DEF Counts, Grow, Job
  <1>4. job' \in [Calls -> Job(Len(made'))]
    BY <1>3, TypeParts DEF Moves, JobType
  <1>5. ASSUME NEW d \in Calls
        PROVE  Fits(at'[d], job'[d], issued', begun', Len(users'), identity',
                    Len(made'))
    BY <1>1, <1>5, FitsGrows DEF Moves, CallInv
  <1>6. QED
    BY <1>4, <1>5 DEF JobType, CallInv, Moves

LEMMA CallsStay ==
    ASSUME TypeOK, CallInv, Counts', Grow, UNCHANGED calls
    PROVE  JobType' /\ CallInv'
  <1>1. Counts
    BY CountsType
  <1>2. job \in [Calls -> Job(Len(made))] /\ at \in [Calls -> Steps]
    BY TypeParts DEF JobType
  <1>3. \A d \in Calls : job[d] \in Job(Len(made'))
    BY <1>1, <1>2 DEF Counts, Grow, Job
  <1>4. job' \in [Calls -> Job(Len(made'))] /\ at' = at /\ job' = job
    BY <1>2, <1>3 DEF calls
  <1>5. ASSUME NEW d \in Calls
        PROVE  Fits(at'[d], job'[d], issued', begun', Len(users'), identity',
                    Len(made'))
    BY <1>1, <1>4, FitsGrows DEF CallInv
  <1>6. QED
    BY <1>2, <1>4, <1>5 DEF JobType, CallInv

\* What the request c carries after its step.
Carries(c) ==
    /\ job'[c] \in Job(Len(made'))
    /\ Fits(at'[c], job'[c], issued', begun', Len(users'), identity', Len(made'))

LEMMA JobOf ==
    ASSUME TypeOK, CallInv, NEW c \in Calls
    PROVE  /\ job[c] \in Job(Len(made))
           /\ Fits(at[c], job[c], issued, begun, Len(users), identity, Len(made))
  BY TypeParts DEF JobType, CallInv

LEMMA IdleFits ==
    ASSUME NEW j, NEW codesN, NEW statesN, NEW usersN, NEW ids, NEW madeN
    PROVE  Fits("idle", j, codesN, statesN, usersN, ids, madeN)
  BY DEF Fits, Sends, Checks

\* A request that is answered carries nothing.
LEMMA AnswerCarries ==
    ASSUME TypeOK, Counts', NEW c \in Calls, Answer(c) PROVE Carries(c)
  <1>1. at'[c] = "idle" /\ job'[c] = NoJob
    BY TypeCalls DEF Answer, CallsType
  <1>2. NoJob \in Job(Len(made'))
    BY NoJobType DEF Counts
  <1>3. QED
    BY <1>1, <1>2, IdleFits DEF Carries

LEMMA RequestingTypes ==
    ASSUME TypeOK, CallInv, NEW c \in Calls, Requesting(c)
    PROVE  /\ LimitType' /\ CodesType' /\ faults' \in 0..MaxFaults /\ issued <= issued'
           /\ UNCHANGED calls \/ Carries(c)
  <1> DEFINE Goal == /\ LimitType' /\ CodesType' /\ faults' \in 0..MaxFaults
                     /\ issued <= issued'
                     /\ UNCHANGED calls \/ Carries(c)
  <1> USE Numbers
  <1>1. /\ Counts /\ LimitType /\ CodesType /\ faults \in 0..MaxFaults
        /\ at \in [Calls -> Steps] /\ job \in [Calls -> Job(Len(made))]
    BY TypeParts, CountsType DEF JobType
  <1>2. Fits(at[c], job[c], issued, begun, Len(users), identity, Len(made))
    BY JobOf
  <1>3. ASSUME NEW typed \in Spellings, RequestCode(c, typed) PROVE Goal
    <2> DEFINE email == NormalizeEmail(typed)
    <2>1. email \in Plain /\ email \in Spellings
      BY PlainIsSpelled
    <2> HIDE DEF email
    <2>2. LimitType' /\ CodesType'
      <3>1. /\ hits' = [hits EXCEPT ![email].n = hits[email].n + 1]
            /\ hits[email].n + 1 <= Limit + 1
            /\ UNCHANGED codes
        BY <1>3 DEF RequestCode, email
      <3>2. LimitType'
        <4>1. hits \in [Spellings -> [n : 0..Limit + 1, ends : BOOLEAN]]
          BY <1>1 DEF LimitType
        <4>2. hits[email] \in [n : 0..Limit + 1, ends : BOOLEAN]
          BY <2>1, <4>1
        <4> DEFINE m == hits[email].n + 1
        <4>3. m \in 0..Limit + 1
          BY <3>1, <4>2
        <4> HIDE DEF m
        <4>4. [hits[email] EXCEPT !.n = m] \in [n : 0..Limit + 1, ends : BOOLEAN]
          BY <4>2, <4>3
        <4>5. hits' = [hits EXCEPT ![email] = [hits[email] EXCEPT !.n = m]]
          BY <3>1, <4>1, <2>1 DEF m
        <4>6. hits' \in [Spellings -> [n : 0..Limit + 1, ends : BOOLEAN]]
          BY <2>1, <4>1, <4>4, <4>5
        <4>7. QED
          BY <4>6 DEF LimitType
      <3>3. QED
        BY <1>1, <3>1, <3>2 DEF CodesType, codes
    <2>3. [NoJob EXCEPT !.email = email] \in Job(Len(made))
      BY <1>1, <2>1, NoJobType DEF Job, Counts, NoJob
    <2>4. \/ UNCHANGED calls
          \/ /\ at'[c] \in {"expire", "cooldown"}
             /\ job'[c] = [NoJob EXCEPT !.email = email]
      BY <1>1, <1>3 DEF RequestCode, Begin, email
    <2>5. UNCHANGED <<issued, begun, users, identity, made, faults>>
      BY <1>3 DEF RequestCode, codes, states, people, sessions
    <2>6. UNCHANGED calls \/ Carries(c)
      BY <2>1, <2>3, <2>4, <2>5 DEF Carries, Fits, Sends, Checks, NoJob
    <2>7. QED
      BY <1>1, <2>2, <2>5, <2>6 DEF Counts
  <1>4. CASE StartWindow(c) \/ LimiterCut(c) \/ CheckCooldown(c)
    <2>1. UNCHANGED <<codes, states, people, sessions>>
      BY <1>4 DEF StartWindow, LimiterCut, CheckCooldown
    <2>2. job[c].email \in Spellings
      BY <1>2, <1>4, PlainIsSpelled DEF Fits, StartWindow, LimiterCut, CheckCooldown, Sends
    <2>3. LimitType'
      BY <1>1, <1>4, <2>2 DEF LimitType, StartWindow, LimiterCut, CheckCooldown
    <2>4. faults' \in 0..MaxFaults
      BY <1>1, <1>4 DEF StartWindow, LimiterCut, CheckCooldown
    <2>5. CodesType' /\ issued' = issued /\ UNCHANGED <<begun, users, identity, made>>
      BY <1>1, <2>1 DEF CodesType, codes, states, people, sessions
    <2>6. CASE Answer(c)
      BY <1>1, <2>3, <2>4, <2>5, <2>6, AnswerCarries DEF Counts
    <2>7. CASE Goto(c, "cooldown") \/ Goto(c, "issue")
      <3>1. at'[c] \in {"cooldown", "issue"} /\ job'[c] = job[c]
        BY <1>1, <2>7 DEF Goto
      <3>2. job[c].email \in Plain
        BY <1>2, <1>4 DEF Fits, StartWindow, LimiterCut, CheckCooldown, Sends
      <3>3. Carries(c)
        BY <1>1, <2>5, <3>1, <3>2 DEF Carries, Fits, Sends, Checks
      <3>4. QED
        BY <1>1, <2>3, <2>4, <2>5, <3>3 DEF Counts
    <2>8. QED
      BY <1>4, <2>6, <2>7 DEF StartWindow, Allowed, LimiterCut, CheckCooldown
  <1>5. CASE IssueCode(c)
    <2> DEFINE email == job[c].email
    <2>1. email \in Plain /\ email \in Spellings /\ job[c] \in Job(Len(made))
      BY <1>1, <1>2, <1>5, PlainIsSpelled DEF Fits, IssueCode, Sends
    <2>2. issued' = issued + 1 /\ issued + 1 \in 1..MaxCodes
      BY <1>1, <1>5 DEF IssueCode, CodesType
    <2>3. LimitType' /\ CodesType'
      <3>1. Stored(email) \in [code : 0..MaxCodes, attempts : Nat]
        BY <1>1, <2>2 DEF Stored
      <3>2. otp' \in [Spellings -> [code : 0..MaxCodes, attempts : Nat]]
        BY <1>1, <1>5, <3>1 DEF IssueCode, CodesType
      <3>3. issued' \in 0..MaxCodes /\ cooldown' \subseteq Spellings
        BY SMTT(30), <1>1, <1>5, <2>1, <2>2 DEF IssueCode, CodesType
      <3>4. UNCHANGED <<hits, inbox, compared, accepted>>
        BY <1>5 DEF IssueCode
      <3>5. QED
        BY <1>1, <3>2, <3>3, <3>4 DEF LimitType, CodesType
    <2>4. /\ at'[c] = "mail" /\ job'[c] = [job[c] EXCEPT !.code = issued + 1]
          /\ job'[c].email = email /\ job'[c].code = issued'
      BY <1>1, <1>5, <2>1, <2>2 DEF IssueCode, Job
    <2>5. job'[c] \in Job(Len(made))
      BY SMTT(30), <2>1, <2>2, <2>4 DEF Job
    <2>6. UNCHANGED <<begun, users, identity, made, faults>>
      BY <1>5 DEF IssueCode, states, people, sessions
    <2>7. Carries(c)
      BY <1>1, <2>1, <2>2, <2>4, <2>5, <2>6 DEF Carries, Fits, Sends, Checks, Counts
    <2>8. QED
      BY <1>1, <2>2, <2>3, <2>6, <2>7 DEF Counts
  <1>6. CASE SendMail(c)
    <2>1. job[c].email \in Spellings /\ job[c].code \in 1..MaxCodes
      BY <1>1, <1>2, <1>6, PlainIsSpelled DEF Fits, SendMail, Sends, CodesType
    <2>2. Append(inbox[job[c].email], job[c].code) \in Seq(1..MaxCodes)
      BY <1>1, <2>1 DEF CodesType
    <2>3. LimitType' /\ CodesType'
      BY <1>1, <1>6, <2>1, <2>2 DEF LimitType, CodesType, SendMail
    <2>4. Answer(c) /\ UNCHANGED <<issued, begun, users, identity, made, faults>>
      BY <1>6 DEF SendMail, states, people, sessions
    <2>5. QED
      BY <1>1, <2>3, <2>4, AnswerCarries DEF Counts
  <1>7. QED
    BY <1>3, <1>4, <1>5, <1>6 DEF Requesting

LEMMA EntryType ==
    ASSUME CodesType, NEW email \in Spellings, NEW entry \in Entry
    PROVE  [otp EXCEPT ![email] = entry] \in [Spellings -> Entry]
  BY DEF CodesType, Entry

LEMMA NoCodeType == NoCode \in Entry
  BY Numbers DEF NoCode, Entry

LEMMA VerifyingTypes ==
    ASSUME TypeOK, CallInv, StoredInv, NEW c \in Calls, Verifying(c)
    PROVE  CodesType' /\ Carries(c)
  <1>1. /\ Counts /\ CodesType
        /\ at \in [Calls -> Steps] /\ job \in [Calls -> Job(Len(made))]
    BY TypeParts, CountsType DEF JobType
  <1>2. Fits(at[c], job[c], issued, begun, Len(users), identity, Len(made))
    BY JobOf
  <1>3. UNCHANGED <<cooldown, issued, inbox, begun, users, identity, made>>
    BY TypeCalls, VerifyingFrame DEF states, people, sessions
  <1>4. Counts'
    BY <1>1, <1>3 DEF Counts
  <1>5. ASSUME NEW typed \in Spellings, NEW code \in 0..issued,
               VerifyCode(c, typed, code)
        PROVE  CodesType' /\ Carries(c)
    <2> DEFINE email == NormalizeEmail(typed)
               j == [NoJob EXCEPT !.email = email, !.code = code,
                                  !.stored = otp[email].code]
    <2>1. email \in Plain /\ email \in Spellings
      BY PlainIsSpelled
    <2>2. /\ at'[c] = "count" /\ job'[c] = j
          /\ UNCHANGED codes
          /\ otp[email].code # 0
      BY <1>1, <1>5 DEF VerifyCode, Begin
    <2> HIDE DEF email
    <2>3. CodesType'
      BY <1>1, <2>2 DEF CodesType, codes
    <2>4. otp[email].code \in 0..MaxCodes /\ code \in 0..MaxCodes
      BY <1>1, <2>1, Numbers DEF CodesType
    <2>5. j \in Job(Len(made)) /\ j.email = email /\ j.stored = otp[email].code
      BY <1>1, <2>1, <2>4, NoJobType DEF Counts, Job, NoJob
    <2> HIDE DEF j
    <2>6. otp[email].code \in 1..issued
      BY <1>1, <2>1, <2>2 DEF StoredInv, Counts
    <2>7. Carries(c)
      BY <1>3, <2>1, <2>2, <2>5, <2>6 DEF Carries, Fits, Sends, Checks
    <2>8. QED
      BY <2>3, <2>7
  <1>6. CASE CountAttempt(c)
    <2> DEFINE email == job[c].email
               n == otp[email].attempts + 1
    <2>1. /\ email \in Plain /\ email \in Spellings
          /\ job[c].stored \in 1..issued
      BY <1>2, <1>6, PlainIsSpelled DEF Fits, CountAttempt, Checks
    <2>2. otp' = [otp EXCEPT ![email].attempts = n] /\ UNCHANGED accepted
      BY <1>6 DEF CountAttempt, Counted
    <2>3. \/ UNCHANGED compared
          \/ compared' = [compared EXCEPT ![job[c].stored] = @ + 1]
      BY <1>6 DEF CountAttempt
    <2>4. \/ Answer(c)
          \/ Goto(c, "burn") \/ Goto(c, "spend")
      BY <1>6 DEF CountAttempt
    <2>5. otp' \in [Spellings -> Entry]
      <3>1. otp[email] \in Entry
        BY <1>1, <2>1 DEF CodesType, Entry
      <3>2. n \in Nat /\ [otp[email] EXCEPT !.attempts = n] \in Entry
        BY <3>1 DEF Entry
      <3> HIDE DEF n, email
      <3>3. QED
        BY <1>1, <2>1, <2>2, <3>2, EntryType
    <2>6. compared' \in [1..MaxCodes -> Nat]
      BY <1>1, <2>3 DEF CodesType
    <2>7. CodesType'
      BY <1>1, <1>3, <2>2, <2>5, <2>6 DEF CodesType, Entry
    <2>8. ASSUME Goto(c, "burn") \/ Goto(c, "spend") PROVE Carries(c)
      <3>1. at'[c] \in {"burn", "spend"} /\ job'[c] = job[c]
        BY <1>1, <2>8 DEF Goto
      <3>2. QED
        BY <1>1, <1>3, <2>1, <3>1 DEF Carries, Fits, Sends, Checks
    <2>9. QED
      BY <1>4, <2>4, <2>7, <2>8, AnswerCarries
  <1>7. CASE BurnCode(c)
    <2>1. otp' = [otp EXCEPT ![job[c].email] = NoCode] /\ Answer(c)
      BY <1>7 DEF BurnCode
    <2>2. UNCHANGED <<compared, accepted>>
      BY <1>7 DEF BurnCode
    <2>3. job[c].email \in Spellings
      BY <1>2, <1>7, PlainIsSpelled DEF Fits, BurnCode, Checks
    <2>4. otp' \in [Spellings -> Entry]
      BY <1>1, <2>1, <2>3, EntryType, NoCodeType
    <2>5. QED
      BY <1>1, <1>3, <1>4, <2>1, <2>2, <2>4, AnswerCarries DEF CodesType, Entry
  <1>8. CASE SpendCode(c)
    <2> DEFINE email == job[c].email
               j == [NoJob EXCEPT !.email = email, !.key = <<"email", email>>]
    <2>1. /\ email \in Plain /\ email \in Spellings /\ <<"email", email>> \in Keys
          /\ job[c].stored \in 1..issued
      BY <1>2, <1>8, PlainIsSpelled DEF Fits, SpendCode, Checks
    <2>2. /\ otp' = [otp EXCEPT ![email] = NoCode]
          /\ accepted' = [accepted EXCEPT ![job[c].stored] = @ + 1]
          /\ UNCHANGED compared
      BY <1>8 DEF SpendCode, Spent
    <2>3. otp' \in [Spellings -> Entry]
      BY <1>1, <2>1, <2>2, EntryType, NoCodeType
    <2>4. accepted' \in [1..MaxCodes -> Nat]
      <3>1. accepted \in [1..MaxCodes -> Nat] /\ job[c].stored \in 1..MaxCodes
        BY <1>1, <2>1, Numbers DEF CodesType
      <3>2. QED
        BY <2>2, <3>1
    <2>5. at'[c] = "identity" /\ job'[c] = j
      BY <1>1, <1>8 DEF SpendCode
    <2>6. CodesType'
      BY <1>1, <1>3, <2>2, <2>3, <2>4 DEF CodesType, Entry
    <2> HIDE DEF email
    <2>7. j \in Job(Len(made)) /\ j.email = email /\ j.key = <<"email", email>>
      BY <1>1, <2>1, NoJobType DEF Counts, Job, NoJob
    <2> HIDE DEF j
    <2>8. Carries(c)
      BY <1>3, <2>1, <2>5, <2>7 DEF Carries, Fits, Sends, Checks
    <2>9. QED
      BY <2>6, <2>8
  <1>9. QED
    BY <1>5, <1>6, <1>7, <1>8 DEF Verifying

LEMMA ReturningTypes ==
    ASSUME TypeOK, CallInv, NEW c \in Calls, Returning(c)
    PROVE  StatesType' /\ Carries(c)
  <1>1. /\ Counts /\ StatesType
        /\ at \in [Calls -> Steps] /\ job \in [Calls -> Job(Len(made))]
    BY TypeParts, CountsType DEF JobType
  <1>2. Fits(at[c], job[c], issued, begun, Len(users), identity, Len(made))
    BY JobOf
  <1>3. UNCHANGED <<issued, begun, users, identity, made>>
    BY TypeCalls, ReturningFrame DEF codes, people, sessions
  <1>4. Counts'
    BY <1>1, <1>3 DEF Counts
  <1>5. ASSUME NEW s \in oauth, FindState(c, s) PROVE StatesType' /\ Carries(c)
    <2> DEFINE j == [NoJob EXCEPT !.n = s]
    <2>1. s \in 1..begun /\ s \in Nat
      BY <1>1 DEF StatesType, Counts
    <2>2. at'[c] = "drop" /\ job'[c] = j /\ UNCHANGED states
      BY <1>1, <1>5 DEF FindState, Begin
    <2>3. j \in Job(Len(made)) /\ j.n = s
      BY <1>1, <2>1, NoJobType DEF Counts, Job, NoJob
    <2> HIDE DEF j
    <2>4. Carries(c)
      BY <1>3, <2>1, <2>2, <2>3 DEF Carries, Fits, Sends, Checks
    <2>5. QED
      BY <1>1, <2>2, <2>4 DEF StatesType, states
  <1>6. CASE DropState(c)
    <2>1. job[c].n \in 1..begun
      BY <1>2, <1>6 DEF Fits, DropState
    <2>2. landed \in [1..MaxStates -> Nat] /\ job[c].n \in 1..MaxStates
      BY <1>1, <2>1, Numbers DEF StatesType
    <2>3. /\ oauth' = oauth \ {job[c].n} /\ begun' = begun
          /\ landed' = [landed EXCEPT ![job[c].n] = @ + 1]
      BY <1>6 DEF DropState, Consumed
    <2>4. StatesType'
      <3>1. landed' \in [1..MaxStates -> Nat]
        BY <2>2, <2>3
      <3>2. QED
        BY <1>1, <2>3, <3>1 DEF StatesType
    <2>5. ASSUME Goto(c, "exchange") PROVE Carries(c)
      <3>1. at'[c] = "exchange" /\ job'[c] = job[c]
        BY <1>1, <2>5 DEF Goto
      <3>2. QED
        BY <1>1, <1>3, <3>1 DEF Carries, Fits, Sends, Checks
    <2>6. QED
      BY <1>4, <1>6, <2>4, <2>5, AnswerCarries DEF DropState
  <1>7. CASE ExchangeFails(c)
    BY <1>1, <1>4, <1>7, AnswerCarries DEF ExchangeFails, StatesType, states
  <1>8. CASE FetchProfile(c)
    <2>1. PICK account \in Accounts, email \in Spellings :
             /\ at'[c] = "identity"
             /\ job'[c] = [NoJob EXCEPT !.email = NormalizeEmail(email),
                                        !.key = <<"provider", account>>]
      BY <1>1, <1>8 DEF FetchProfile
    <2> DEFINE plain == NormalizeEmail(email)
               key == <<"provider", account>>
               j == [NoJob EXCEPT !.email = plain, !.key = key]
    <2>2. plain \in Plain /\ plain \in Spellings /\ key \in Keys
      BY PlainIsSpelled
    <2> HIDE DEF plain, key
    <2>3. j \in Job(Len(made)) /\ j.email = plain /\ j.key = key
      BY <1>1, <2>2, NoJobType DEF Counts, Job, NoJob
    <2>4. job'[c] = j
      BY <2>1 DEF plain, key
    <2> HIDE DEF j
    <2>5. Carries(c)
      BY <1>3, <2>1, <2>2, <2>3, <2>4 DEF Carries, Fits, Sends, Checks
    <2>6. QED
      BY <1>1, <1>8, <2>5 DEF FetchProfile, StatesType, states
  <1>9. QED
    BY <1>5, <1>6, <1>7, <1>8 DEF Returning

LEMMA JoiningTypes ==
    ASSUME TypeOK, CallInv, PeopleInv, NEW c \in Calls, Joining(c),
           PeopleType', PeopleInv'
    PROVE  SessionsType' /\ Carries(c) /\ Len(made) <= Len(made')
  <1>1. /\ Counts /\ SessionsType /\ PeopleType
        /\ at \in [Calls -> Steps] /\ job \in [Calls -> Job(Len(made))]
    BY TypeParts, CountsType DEF JobType
  <1>2. Fits(at[c], job[c], issued, begun, Len(users), identity, Len(made))
    BY JobOf
  <1>3. job[c] \in Job(Len(made))
    BY <1>1
  <1>4. UNCHANGED <<issued, begun>>
    BY TypeCalls, JoiningFrame DEF codes, states
  <1>5. ASSUME NEW user \in 1..Len(users'), SignInAs(c, user), UNCHANGED made,
               job[c].key \in Keys, identity'[job[c].key] = user
        PROVE  Carries(c)
    <2>1. at'[c] = "session" /\ job'[c] = [job[c] EXCEPT !.n = user]
      BY <1>1, <1>5 DEF SignInAs
    <2>2. user \in Nat
      BY <1>5
    <2>3. /\ job'[c] \in Job(Len(made)) /\ job'[c].n = user
          /\ job'[c].key = job[c].key
      BY <1>3, <2>1, <2>2 DEF Job
    <2>4. QED
      BY <1>5, <2>1, <2>3 DEF Carries, Fits, Sends, Checks
  <1>6. ASSUME Goto(c, "address") \/ Goto(c, "create"), UNCHANGED <<people, made>>,
               job[c].email \in Plain, job[c].key \in Keys
        PROVE  Carries(c)
    <2>1. at'[c] \in {"address", "create"} /\ job'[c] = job[c]
      BY <1>1, <1>6 DEF Goto
    <2>2. QED
      BY <1>3, <1>6, <2>1 DEF Carries, Fits, Sends, Checks
  <1>7. CASE FindIdentity(c)
    <2>1. job[c].email \in Plain /\ job[c].key \in Keys
      BY <1>2, <1>7 DEF Fits, FindIdentity
    <2>2. UNCHANGED <<live, made, index>> /\ UNCHANGED people
      BY <1>7 DEF FindIdentity, sessions
    <2>3. identity[job[c].key] \in 0..Len(users)
      BY <2>1 DEF PeopleInv
    <2>4. Carries(c)
      BY <1>1, <1>5, <1>6, <1>7, <2>1, <2>2, <2>3 DEF FindIdentity, people, Counts
    <2>5. QED
      BY <1>1, <2>2, <2>4 DEF SessionsType, Sessions, Counts
  <1>8. CASE FindByEmail(c)
    <2>1. job[c].email \in Plain /\ job[c].key \in Keys
      BY <1>2, <1>8 DEF Fits, FindByEmail
    <2>2. UNCHANGED <<live, made, index>> /\ UNCHANGED people
      BY <1>8 DEF FindByEmail, sessions
    <2>3. ASSUME Goto(c, "create") PROVE Carries(c)
      BY <1>6, <2>1, <2>2, <2>3
    <2>4. ASSUME NEW u \in Holders(job[c].email), at'[c] = "link",
                 job'[c] = [job[c] EXCEPT !.n = u]
          PROVE  Carries(c)
      <3>1. u \in 1..Len(users) /\ u \in Nat
        BY DEF Holders
      <3>2. /\ job'[c] \in Job(Len(made)) /\ job'[c].n = u
            /\ job'[c].key = job[c].key /\ job'[c].email = job[c].email
        BY <1>3, <2>4, <3>1 DEF Job
      <3>3. QED
        BY <2>1, <2>2, <2>4, <3>1, <3>2 DEF Carries, Fits, Sends, Checks, people
    <2>5. \/ Goto(c, "create")
          \/ \E u \in Holders(job[c].email) :
                at'[c] = "link" /\ job'[c] = [job[c] EXCEPT !.n = u]
      BY <1>1, <1>8 DEF FindByEmail
    <2>6. SessionsType' /\ Len(made) <= Len(made')
      BY <1>1, <2>2 DEF SessionsType, Sessions, Counts
    <2>7. Carries(c)
      BY <2>3, <2>4, <2>5
    <2>8. QED
      BY <2>6, <2>7
  <1>9. CASE Link(c)
    <2>1. /\ job[c].email \in Plain /\ job[c].key \in Keys
          /\ job[c].n \in 1..Len(users)
      BY <1>2, <1>9 DEF Fits, Link
    <2>2. UNCHANGED <<live, made, index, users>>
      BY <1>9 DEF Link, sessions
    <2>3. SessionsType' /\ Len(made) <= Len(made')
      BY <1>1, <2>2 DEF SessionsType, Sessions, Counts
    <2>4. Counts'
      BY <1>1, <1>4, <2>2 DEF Counts
    <2>5. CASE Answer(c)
      BY <2>3, <2>4, <2>5, AnswerCarries
    <2>6. CASE /\ Goto(c, "session")
               /\ identity' = [identity EXCEPT ![job[c].key] = job[c].n]
      <3>1. at'[c] = "session" /\ job'[c] = job[c]
        BY <1>1, <2>6 DEF Goto
      <3>2. identity'[job[c].key] = job[c].n
        BY <1>1, <2>1, <2>6 DEF PeopleType
      <3>3. QED
        BY <1>3, <2>1, <2>2, <2>3, <3>1, <3>2 DEF Carries, Fits, Sends, Checks
    <2>7. QED
      BY <1>9, <2>5, <2>6 DEF Link
  <1>10. CASE CreateUser(c)
    <2>1. job[c].email \in Plain /\ job[c].key \in Keys
      BY <1>2, <1>10 DEF Fits, CreateUser
    <2>2. UNCHANGED <<live, made, index>>
      BY <1>10 DEF CreateUser, sessions
    <2>3. SessionsType' /\ Len(made) <= Len(made')
      BY <1>1, <2>2 DEF SessionsType, Sessions, Counts
    <2>4. CASE Answer(c)
      <3>1. Counts'
        BY <1>1, <1>4, <2>2 DEF Counts, PeopleInv
      <3>2. QED
        BY <2>3, <2>4, <3>1, AnswerCarries
    <2>5. CASE /\ users' = Append(users, job[c].email)
               /\ identity' = [identity EXCEPT ![job[c].key] = Len(users) + 1]
               /\ SignInAs(c, Len(users) + 1)
      <3>1. users \in Seq(Plain)
        BY DEF PeopleInv
      <3>2. Len(users) + 1 \in 1..Len(users')
        BY <2>1, <2>5, <3>1
      <3>3. identity'[job[c].key] = Len(users) + 1
        BY <1>1, <2>1, <2>5 DEF PeopleType
      <3>4. QED
        BY <1>5, <2>1, <2>2, <2>3, <2>5, <3>2, <3>3
    <2>6. QED
      BY <1>10, <2>4, <2>5 DEF CreateUser
  <1>11. CASE CreateSession(c)
    <2> DEFINE user == job[c].n
               s == Len(made) + 1
               m == [user |-> user, key |-> job[c].key]
    <2>1. job[c].key \in Keys /\ user \in 1..Len(users) /\ user \in Users
      BY <1>2, <1>11, RoomForAll DEF Fits, CreateSession, PeopleInv
    <2>2. /\ made' = Append(made, m) /\ live' = live \cup {s}
          /\ index' = [index EXCEPT ![user] = @ \cup {s}]
          /\ UNCHANGED people
          /\ Answer(c)
      BY <1>11 DEF CreateSession, Indexed
    <2>3. made' \in Seq([user : Users, key : Keys]) /\ Len(made') = s
      BY <1>1, <2>1, <2>2 DEF SessionsType
    <2>4. Sessions' = Sessions \cup {s} /\ Len(made) <= Len(made')
      BY <1>1, <2>3 DEF Sessions, Counts
    <2>5. live' \subseteq Sessions'
      BY <1>1, <2>2, <2>4 DEF SessionsType
    <2>6. index' \in [Users -> SUBSET Sessions']
      BY <1>1, <2>1, <2>2, <2>4 DEF SessionsType
    <2>7. Counts'
      BY <1>1, <1>4, <2>2, <2>3 DEF Counts, people
    <2>8. QED
      BY <2>2, <2>3, <2>4, <2>5, <2>6, <2>7, AnswerCarries DEF SessionsType
  <1>12. QED
    BY <1>7, <1>8, <1>9, <1>10, <1>11 DEF Joining

LEMMA LeavingTypes ==
    ASSUME TypeOK, CallInv, NEW c \in Calls, Leaving(c)
    PROVE  SessionsType' /\ Carries(c)
  <1>1. /\ Counts /\ SessionsType
        /\ at \in [Calls -> Steps] /\ job \in [Calls -> Job(Len(made))]
    BY TypeParts, CountsType DEF JobType
  <1>2. Fits(at[c], job[c], issued, begun, Len(users), identity, Len(made))
    BY JobOf
  <1>3. job[c] \in Job(Len(made))
    BY <1>1
  <1>4. /\ UNCHANGED <<issued, begun, users, identity, made>>
        /\ live' \subseteq live
    BY TypeCalls, LeavingFrame DEF codes, states, people
  <1>5. Counts'
    BY <1>1, <1>4 DEF Counts
  <1>6. /\ live' \subseteq Sessions'
        /\ made' \in Seq([user : Users, key : Keys])
    BY <1>1, <1>4 DEF SessionsType, Sessions
  <1>7. ASSUME UNCHANGED index PROVE SessionsType'
    BY <1>1, <1>4, <1>6, <1>7 DEF SessionsType, Sessions
  <1>8. ASSUME NEW user, NEW gone \in SUBSET Sessions,
               index' = [index EXCEPT ![user] = @ \ gone]
        PROVE  SessionsType'
    <2>1. index' \in [Users -> SUBSET Sessions]
      BY <1>1, <1>8 DEF SessionsType
    <2>2. QED
      BY <1>4, <1>6, <2>1 DEF SessionsType, Sessions
  <1>9. ASSUME NEW s \in live, NEW what \in {"me", "logout", "logout all"},
               ReadSession(c, s, what)
        PROVE  SessionsType' /\ Carries(c)
    <2> DEFINE before == IF what = "logout all" THEN SessionsOf(made[s].user) ELSE {}
               j == [NoJob EXCEPT !.n = s, !.before = before]
    <2>1. s \in 1..Len(made) /\ s \in Nat /\ before \subseteq 1..Len(made)
      <3>1. live \subseteq 1..Len(made)
        BY <1>1 DEF SessionsType, Sessions
      <3>2. SessionsOf(made[s].user) \subseteq live
        BY DEF SessionsOf
      <3>3. s \in 1..Len(made) /\ s \in Nat
        BY <1>1, LiveType
      <3>4. before \subseteq live
        BY <3>2
      <3> HIDE DEF before
      <3>5. QED
        BY <3>1, <3>3, <3>4
    <2>2. at'[c] = what /\ job'[c] = j /\ UNCHANGED sessions
      BY <1>1, <1>9 DEF ReadSession, Begin
    <2> HIDE DEF before
    <2>3. j \in Job(Len(made)) /\ j.n = s
      BY <1>1, <2>1, NoJobType DEF Counts, Job, NoJob
    <2> HIDE DEF j
    <2>4. Carries(c)
      BY <1>4, <2>1, <2>2, <2>3 DEF Carries, Fits, Sends, Checks
    <2>5. QED
      BY <1>7, <2>2, <2>4 DEF sessions
  <1>10. ASSUME NEW step \in {"delete", "list"}, Goto(c, step),
                at[c] \in {"me", "logout", "logout all"}
         PROVE  Carries(c)
    <2>1. at'[c] = step /\ job'[c] = job[c]
      BY <1>1, <1>10 DEF Goto
    <2>2. job[c].n \in 1..Len(made)
      BY <1>2, <1>10 DEF Fits
    <2>3. QED
      BY <1>3, <1>4, <2>1, <2>2 DEF Carries, Fits, Sends, Checks
  <1>11. CASE SlideSession(c)
    <2>1. SessionsType'
      BY <1>7, <1>11 DEF SlideSession
    <2>2. Answer(c) \/ Goto(c, "delete") \/ Goto(c, "list")
      BY <1>11 DEF SlideSession
    <2>3. QED
      BY <1>5, <1>10, <1>11, <2>1, <2>2, AnswerCarries DEF SlideSession
  <1>12. CASE DestroySession(c)
    <2>1. job[c].n \in Sessions
      BY <1>2, <1>12 DEF Fits, DestroySession, Sessions
    <2>2. index' = [index EXCEPT ![made[job[c].n].user] = @ \ {job[c].n}]
      BY <1>12 DEF DestroySession
    <2>3. SessionsType'
      BY ZenonT(60), <1>8, <2>1, <2>2
    <2>4. QED
      BY <1>5, <1>12, <2>3, AnswerCarries DEF DestroySession
  <1>13. CASE ListSessions(c)
    <2> DEFINE user == made[job[c].n].user
               listed == index[user]
    <2>1. SessionsType'
      BY <1>7, <1>13 DEF ListSessions, sessions
    <2>2. job[c].n \in 1..Len(made)
      BY <1>2, <1>13 DEF Fits, ListSessions
    <2>3. ASSUME at'[c] = "revoke", job'[c] = [job[c] EXCEPT !.hashes = listed]
          PROVE  Carries(c)
      <3>1. user \in Users
        BY <1>1, <2>2, MadeType DEF Sessions
      <3>2. listed \subseteq 1..Len(made)
        BY <1>1, <3>1 DEF SessionsType, Sessions
      <3> HIDE DEF listed
      <3>3. job'[c] \in Job(Len(made)) /\ job'[c].n = job[c].n
        BY <1>3, <2>3, <3>2 DEF Job
      <3>4. QED
        BY <1>4, <2>2, <2>3, <3>3 DEF Carries, Fits, Sends, Checks
    <2>4. Answer(c) \/ (at'[c] = "revoke" /\ job'[c] = [job[c] EXCEPT !.hashes = listed])
      BY <1>1, <1>13 DEF ListSessions
    <2>5. QED
      BY <1>5, <2>1, <2>3, <2>4, AnswerCarries
  <1>14. CASE RevokeSessions(c)
    <2> DEFINE user == made[job[c].n].user
    <2>1. index' = [index EXCEPT ![user] = {}]
      BY <1>14 DEF RevokeSessions
    <2>2. index' \in [Users -> SUBSET Sessions]
      BY <1>1, <2>1 DEF SessionsType
    <2>3. SessionsType'
      BY <1>4, <1>6, <2>2 DEF SessionsType, Sessions
    <2>4. QED
      BY <1>5, <1>14, <2>3, AnswerCarries DEF RevokeSessions
  <1>15. QED
    BY <1>9, <1>11, <1>12, <1>13, <1>14 DEF Leaving

LEMMA PassingTypes ==
    ASSUME TypeOK, Passing
    PROVE  LimitType' /\ CodesType' /\ StatesType' /\ SessionsType'
  <1>1. /\ LimitType /\ CodesType /\ StatesType /\ SessionsType
    BY TypeParts
  <1>2. CASE BeginAuthorization
    BY <1>1, <1>2, Numbers
    DEF BeginAuthorization, LimitType, CodesType, StatesType, SessionsType, codes,
        sessions, Sessions
  <1>3. CASE \E email \in Spellings : WindowEnds(email)
    <2>1. PICK email \in Spellings : WindowEnds(email)
      BY <1>3
    <2>2. LimitType'
      BY <1>1, <2>1, Numbers DEF WindowEnds, LimitType, NoHits
    <2>3. QED
      BY <1>1, <2>1, <2>2
      DEF WindowEnds, CodesType, StatesType, SessionsType, codes, states, sessions,
          Sessions
  <1>4. CASE \E email \in Spellings : CooldownEnds(email)
    BY <1>1, <1>4
    DEF CooldownEnds, LimitType, CodesType, StatesType, SessionsType, states,
        sessions, Sessions
  <1>5. CASE \E email \in Spellings : CodeExpires(email)
    <2>1. PICK email \in Spellings : CodeExpires(email)
      BY <1>5
    <2>2. otp' \in [Spellings -> Entry]
      BY <1>1, <2>1, EntryType, NoCodeType DEF CodeExpires
    <2>3. QED
      BY <1>1, <2>1, <2>2
      DEF CodeExpires, LimitType, CodesType, StatesType, SessionsType, states,
          sessions, Sessions, Entry
  <1>6. CASE \E s \in oauth : StateExpires(s)
    BY <1>1, <1>6
    DEF StateExpires, LimitType, CodesType, StatesType, SessionsType, codes,
        sessions, Sessions
  <1>7. CASE \E s \in live : SessionExpires(s)
    BY <1>1, <1>7
    DEF SessionExpires, LimitType, CodesType, StatesType, SessionsType, codes,
        states, Sessions
  <1>8. CASE \E user \in Users : IndexLapses(user)
    BY <1>1, <1>8
    DEF IndexLapses, LimitType, CodesType, StatesType, SessionsType, codes,
        states, Sessions
  <1>9. QED
    BY <1>2, <1>3, <1>4, <1>5, <1>6, <1>7, <1>8 DEF Passing

LEMMA StoredStep ==
    ASSUME TypeOK, CallInv, StoredInv, Next
    PROVE  StoredInv'
  <1>1. /\ otp \in [Spellings -> [code : 0..MaxCodes, attempts : Nat]]
        /\ issued \in Nat
    BY Numbers DEF TypeOK
  <1>2. ASSUME UNCHANGED <<otp, issued>> PROVE StoredInv'
    BY <1>2 DEF StoredInv
  <1>3. ASSUME NEW email, otp' = [otp EXCEPT ![email] = NoCode], UNCHANGED issued
        PROVE  StoredInv'
    BY <1>1, <1>3 DEF StoredInv, NoCode
  <1>4. ASSUME NEW c \in Calls, Requesting(c) PROVE StoredInv'
    <2>1. CASE IssueCode(c)
      <3>1. /\ otp' = [otp EXCEPT ![job[c].email] = Stored(job[c].email)]
            /\ issued' = issued + 1 /\ Stored(job[c].email).code = issued + 1
        BY <2>1 DEF IssueCode, Stored
      <3>2. QED
        BY <1>1, <3>1 DEF StoredInv
    <2>2. CASE ~IssueCode(c)
      BY <1>2, <1>4, <2>2
      DEF Requesting, RequestCode, StartWindow, LimiterCut, CheckCooldown, SendMail,
          codes
    <2>3. QED
      BY <2>1, <2>2
  <1>5. ASSUME NEW c \in Calls, Verifying(c) PROVE StoredInv'
    <2>1. issued' = issued
      BY <1>5, TypeCalls, VerifyingFrame
    <2>2. CASE \E email \in Spellings, code \in 0..issued : VerifyCode(c, email, code)
      BY <1>2, <2>2 DEF VerifyCode, codes
    <2>3. CASE CountAttempt(c)
      <3>1. PICK n : otp' = [otp EXCEPT ![job[c].email].attempts = n]
        BY <2>3 DEF CountAttempt
      <3>2. QED
        BY <1>1, <2>1, <3>1 DEF StoredInv
    <2>4. CASE BurnCode(c) \/ SpendCode(c)
      BY <1>3, <2>1, <2>4 DEF BurnCode, SpendCode, Spent
    <2>5. QED
      BY <1>5, <2>2, <2>3, <2>4 DEF Verifying
  <1>6. CASE Passing
    <2>1. UNCHANGED issued
      BY <1>6, PassingFrame
    <2>2. UNCHANGED otp \/ \E email : otp' = [otp EXCEPT ![email] = NoCode]
      BY <1>6
      DEF Passing, BeginAuthorization, WindowEnds, CooldownEnds, CodeExpires,
          StateExpires, SessionExpires, IndexLapses, codes
    <2>3. QED
      BY <1>2, <1>3, <2>1, <2>2
  <1>7. ASSUME NEW c \in Calls, Returning(c) \/ Joining(c) \/ Leaving(c)
        PROVE  StoredInv'
    BY <1>2, <1>7, TypeCalls, ReturningFrame, JoiningFrame, LeavingFrame DEF codes
  <1>8. CASE Crash
    BY <1>2, <1>8 DEF Crash, codes
  <1>9. QED
    BY <1>4, <1>5, <1>6, <1>7, <1>8, NextParts DEF Serving

\* Every step keeps the types and what fits.
LEMMA TypeStep ==
    ASSUME TypeOK, CallInv, StoredInv, PeopleInv, Next
    PROVE  TypeOK' /\ CallInv' /\ PeopleInv'
  <1>1. PeopleType' /\ PeopleInv' /\ PeopleGrow
    BY PeopleStep
  <1>2. /\ LimitType /\ CodesType /\ StatesType /\ SessionsType
        /\ faults \in 0..MaxFaults /\ Counts
    BY TypeParts, CountsType
  <1>3. ASSUME UNCHANGED hits PROVE LimitType'
    BY <1>2, <1>3 DEF LimitType
  <1>4. ASSUME UNCHANGED codes PROVE CodesType'
    BY <1>2, <1>4 DEF CodesType, codes
  <1>5. ASSUME UNCHANGED states PROVE StatesType'
    BY <1>2, <1>5 DEF StatesType, states
  <1>6. ASSUME UNCHANGED sessions PROVE SessionsType'
    BY <1>2, <1>6 DEF SessionsType, Sessions, sessions
  <1> DEFINE Types == /\ LimitType' /\ CodesType' /\ StatesType' /\ SessionsType'
                      /\ faults' \in 0..MaxFaults
                      /\ issued <= issued' /\ begun <= begun'
                      /\ Len(made) <= Len(made')
  <1>7. ASSUME Types PROVE Counts' /\ Grow
    BY <1>1, <1>7, CountsType DEF Grow
  <1>8. ASSUME Types, NEW c \in Calls, NEW from, NEW to, Moves(c, from, to), Carries(c)
        PROVE  JobType' /\ CallInv'
    <2> HIDE DEF Types
    <2>1. QED
      BY <1>7, <1>8, CallStep DEF Carries
  <1>9. ASSUME Types, UNCHANGED calls PROVE JobType' /\ CallInv'
    <2> HIDE DEF Types
    <2>1. QED
      BY <1>7, <1>9, CallsStay
  <1> DEFINE Goal == Types /\ JobType' /\ CallInv'
  <1>10. ASSUME NEW c \in Calls, Requesting(c) PROVE Goal
    <2>1. /\ UNCHANGED <<states, people, sessions>>
          /\ UNCHANGED calls \/ Moves(c, {"idle"} \cup Sends, {"idle"} \cup Sends)
      BY <1>10, TypeCalls, RequestingFrame
    <2>2. /\ LimitType' /\ CodesType' /\ faults' \in 0..MaxFaults /\ issued <= issued'
          /\ UNCHANGED calls \/ Carries(c)
      BY <1>10, RequestingTypes
    <2>3. Types
      BY <1>2, <1>5, <1>6, <2>1, <2>2 DEF Counts, states, sessions
    <2> HIDE DEF Types
    <2>4. QED
      BY <1>8, <1>9, <2>1, <2>2, <2>3
  <1>11. ASSUME NEW c \in Calls, Verifying(c) PROVE Goal
    <2>1. /\ UNCHANGED <<hits, cooldown, issued, inbox, states, people, sessions,
                         faults>>
          /\ Moves(c, {"idle"} \cup Checks, {"idle", "identity"} \cup Checks)
      BY <1>11, TypeCalls, VerifyingFrame
    <2>2. CodesType' /\ Carries(c)
      BY <1>11, VerifyingTypes
    <2>3. Types
      BY <1>2, <1>3, <1>5, <1>6, <2>1, <2>2 DEF Counts, states, sessions
    <2> HIDE DEF Types
    <2>4. QED
      BY <1>8, <2>1, <2>2, <2>3
  <1>12. ASSUME NEW c \in Calls, Returning(c) PROVE Goal
    <2>1. /\ UNCHANGED <<hits, codes, begun, people, sessions, faults>>
          /\ Moves(c, {"idle"} \cup Returns, {"idle", "identity"} \cup Returns)
      BY <1>12, TypeCalls, ReturningFrame
    <2>2. StatesType' /\ Carries(c)
      BY <1>12, ReturningTypes
    <2>3. Types
      BY <1>2, <1>3, <1>4, <1>6, <2>1, <2>2 DEF Counts, codes, sessions
    <2> HIDE DEF Types
    <2>4. QED
      BY <1>8, <2>1, <2>2, <2>3
  <1>13. ASSUME NEW c \in Calls, Joining(c) PROVE Goal
    <2>1. /\ UNCHANGED <<hits, codes, states, faults>>
          /\ Moves(c, Joins, {"idle"} \cup Joins)
      BY <1>13, TypeCalls, JoiningFrame
    <2>2. SessionsType' /\ Carries(c) /\ Len(made) <= Len(made')
      BY <1>1, <1>13, JoiningTypes
    <2>3. Types
      BY <1>2, <1>3, <1>4, <1>5, <2>1, <2>2 DEF Counts, codes, states
    <2> HIDE DEF Types
    <2>4. QED
      BY <1>8, <2>1, <2>2, <2>3
  <1>14. ASSUME NEW c \in Calls, Leaving(c) PROVE Goal
    <2>1. /\ UNCHANGED <<hits, codes, states, people, made, faults>>
          /\ Moves(c, {"idle"} \cup Leaves, {"idle"} \cup Leaves)
      BY <1>14, TypeCalls, LeavingFrame
    <2>2. SessionsType' /\ Carries(c)
      BY <1>14, LeavingTypes
    <2>3. Types
      BY <1>2, <1>3, <1>4, <1>5, <2>1, <2>2 DEF Counts, codes, states
    <2> HIDE DEF Types
    <2>4. QED
      BY <1>8, <2>1, <2>2, <2>3
  <1>15. ASSUME Passing PROVE Goal
    <2>1. UNCHANGED <<issued, people, made, calls, faults>>
      BY <1>15, PassingFrame
    <2>2. LimitType' /\ CodesType' /\ StatesType' /\ SessionsType'
      BY <1>15, PassingTypes
    <2>3. begun <= begun'
      BY <1>2, <1>15
      DEF Counts, Passing, BeginAuthorization, WindowEnds, CooldownEnds, CodeExpires,
          StateExpires, SessionExpires, IndexLapses, states
    <2>4. Types
      BY <1>2, <2>1, <2>2, <2>3 DEF Counts
    <2> HIDE DEF Types
    <2>5. QED
      BY <1>9, <2>1, <2>4
  <1>16. ASSUME Crash PROVE Goal
    <2>1. UNCHANGED <<hits, codes, states, people, sessions>> /\ faults' \in 0..MaxFaults
      BY <1>2, <1>16, Numbers DEF Crash
    <2>2. Types
      BY <1>2, <1>3, <1>4, <1>5, <1>6, <2>1 DEF Counts, codes, states, sessions
    <2>3. Counts'
      BY <1>7, <2>2
    <2>4. at' = [c \in Calls |-> "idle"] /\ job' = [c \in Calls |-> NoJob]
      BY <1>16 DEF Crash
    <2>5. JobType'
      BY <2>3, <2>4, NoJobType DEF JobType, Counts, Steps
    <2>6. CallInv'
      BY <2>4, IdleFits DEF CallInv
    <2>7. QED
      BY <2>2, <2>5, <2>6
  <1> HIDE DEF Goal
  <1>17. Goal
    BY <1>10, <1>11, <1>12, <1>13, <1>14, <1>15, <1>16, NextParts DEF Serving
  <1>18. QED
    BY <1>1, <1>17, TypePartsNext DEF Goal

-----------------------------------------------------------------------------
(* The rate limit's counters.                                              *)

LEMMA BusyStill ==
    ASSUME NEW steps, NEW email, Still(steps), Busy(steps, email)
    PROVE  Busy(steps, email)'
  BY DEF Busy, Still

\* A counter that was there is looked after as before, unless a request was
\* just told to or the counter is new.
LEMMA CounterStep ==
    ASSUME TypeOK, CallInv, CounterExpires, Next
    PROVE  CounterExpires'
  <1> DEFINE Own == {"expire"}
  <1>1. /\ hits \in [Spellings -> [n : 0..(Limit + 1), ends : BOOLEAN]]
        /\ at \in [Calls -> Steps] /\ faults \in Nat
    BY Numbers DEF TypeOK
  <1>2. ASSUME UNCHANGED <<hits, faults>>, Still(Own) PROVE CounterExpires'
    <2>1. ASSUME NEW email \in Spellings, Busy(Own, email) PROVE Busy(Own, email)'
      BY <1>2, <2>1, BusyStill
    <2>2. QED
      BY <1>2, <2>1 DEF CounterExpires
  <1>3. ASSUME faults' # 0 PROVE CounterExpires'
    BY <1>3 DEF CounterExpires
  <1>4. ASSUME NEW c \in Calls, NEW typed \in Spellings, RequestCode(c, typed)
        PROVE  CounterExpires'
    <2> DEFINE mail == NormalizeEmail(typed)
    <2>1. mail \in Spellings
      BY PlainIsSpelled
    <2>2. /\ hits' = [hits EXCEPT ![mail].n = hits[mail].n + 1]
          /\ faults' = faults
          /\ at[c] = "idle"
      BY <1>4 DEF RequestCode, Begin
    <2>3. \/ Still(Own)
          \/ /\ at' = [at EXCEPT ![c] = "expire"]
             /\ job' = [job EXCEPT ![c] = [NoJob EXCEPT !.email = mail]]
      BY <1>1, <1>4, TypeCalls DEF RequestCode, Begin, Still, calls, CallsType
    <2>4. FirstHit(hits[mail].n + 1) =>
             /\ at' = [at EXCEPT ![c] = "expire"]
             /\ job' = [job EXCEPT ![c] = [NoJob EXCEPT !.email = mail]]
      BY <1>4 DEF RequestCode, Begin
    <2> HIDE DEF mail
    <2>5. ASSUME at' = [at EXCEPT ![c] = "expire"],
                 job' = [job EXCEPT ![c] = [NoJob EXCEPT !.email = mail]]
          PROVE  Busy(Own, mail)'
      BY <1>1, <2>5, TypeCalls DEF Busy, CallsType, NoJob
    <2>6. ASSUME NEW email, Busy(Own, email) PROVE Busy(Own, email)'
      <3>1. PICK d \in Calls : at[d] \in Own /\ job[d].email = email
        BY <2>6 DEF Busy
      <3>2. d # c
        BY <2>2, <3>1
      <3>3. CASE Still(Own)
        BY <2>6, <3>3, BusyStill
      <3>4. CASE /\ at' = [at EXCEPT ![c] = "expire"]
                 /\ job' = [job EXCEPT ![c] = [NoJob EXCEPT !.email = mail]]
        <4>1. at'[d] = at[d] /\ job'[d] = job[d]
          BY <1>1, <3>2, <3>4, TypeCalls DEF CallsType
        <4>2. QED
          BY <3>1, <4>1 DEF Busy
      <3>5. QED
        BY <2>3, <3>3, <3>4
    <2>7. ASSUME faults' = 0, NEW email \in Spellings, hits'[email].n > 0
          PROVE  hits'[email].ends \/ Busy(Own, email)'
      <3>1. CASE email # mail
        BY <1>1, <2>2, <2>6, <2>7, <3>1 DEF CounterExpires
      <3>2. CASE email = mail /\ hits[mail].n = 0
        BY <2>4, <2>5, <3>2 DEF FirstHit
      <3>3. CASE email = mail /\ hits[mail].n # 0
        <4>1. hits[mail].n > 0 /\ hits'[mail].ends = hits[mail].ends
          BY <1>1, <2>1, <2>2, <3>3
        <4>2. QED
          BY <2>1, <2>2, <2>6, <2>7, <3>3, <4>1 DEF CounterExpires
      <3>4. QED
        BY <3>1, <3>2, <3>3
    <2>8. QED
      BY <2>7 DEF CounterExpires
  <1>5. ASSUME NEW c \in Calls, StartWindow(c) PROVE CounterExpires'
    <2> DEFINE mail == job[c].email
    <2>1. /\ hits' = [hits EXCEPT ![mail].ends = TRUE]
          /\ faults' = faults
      BY <1>5 DEF StartWindow
    <2>2. ASSUME NEW d \in Calls, d # c PROVE at'[d] = at[d] /\ job'[d] = job[d]
      BY <1>5, <2>2, TypeCalls DEF StartWindow, Allowed, Goto, Answer, CallsType
    <2>3. ASSUME NEW email, email # mail, Busy(Own, email) PROVE Busy(Own, email)'
      BY <2>2, <2>3 DEF Busy
    <2> HIDE DEF mail
    <2>4. ASSUME faults' = 0, NEW email \in Spellings, hits'[email].n > 0
          PROVE  hits'[email].ends \/ Busy(Own, email)'
      BY <1>1, <2>1, <2>3, <2>4 DEF CounterExpires
    <2>5. QED
      BY <2>4 DEF CounterExpires
  <1>6. ASSUME NEW c \in Calls, Requesting(c) PROVE CounterExpires'
    <2>1. CASE LimiterCut(c)
      BY <1>1, <1>3, <2>1 DEF LimiterCut
    <2>2. CASE CheckCooldown(c) \/ IssueCode(c) \/ SendMail(c)
      <3>1. UNCHANGED <<hits, faults>>
        BY <2>2 DEF CheckCooldown, IssueCode, SendMail
      <3>2. Still(Own)
        BY <2>2, TypeCalls
        DEF CheckCooldown, IssueCode, SendMail, Goto, Answer, Still, CallsType
      <3>3. QED
        BY <1>2, <3>1, <3>2
    <2>3. QED
      BY <1>4, <1>5, <1>6, <2>1, <2>2 DEF Requesting
  <1>7. ASSUME NEW c \in Calls,
               Verifying(c) \/ Returning(c) \/ Joining(c) \/ Leaving(c)
        PROVE  CounterExpires'
    <2>1. UNCHANGED <<hits, faults>>
      BY <1>7, TypeCalls, VerifyingFrame, ReturningFrame, JoiningFrame, LeavingFrame
    <2>2. /\ ({"idle"} \cup Checks) \cap Own = {}
          /\ ({"idle", "identity"} \cup Checks) \cap Own = {}
          /\ ({"idle"} \cup Returns) \cap Own = {}
          /\ ({"idle", "identity"} \cup Returns) \cap Own = {}
          /\ Joins \cap Own = {} /\ ({"idle"} \cup Joins) \cap Own = {}
          /\ ({"idle"} \cup Leaves) \cap Own = {}
      BY DEF Checks, Returns, Joins, Leaves
    <2>3. Still(Own)
      <3> HIDE DEF Own
      <3>1. QED
        BY <1>7, <2>2, StillMoves, TypeCalls, VerifyingFrame, ReturningFrame,
           JoiningFrame, LeavingFrame
    <2>4. QED
      BY <1>2, <2>1, <2>3
  <1>8. CASE Passing
    <2>1. UNCHANGED <<calls, faults>>
      BY <1>8, PassingFrame
    <2>2. CASE UNCHANGED hits
      BY <1>2, <2>1, <2>2, StillCalls
    <2>3. CASE \E mail \in Spellings : hits' = [hits EXCEPT ![mail] = NoHits]
      <3>1. PICK mail \in Spellings : hits' = [hits EXCEPT ![mail] = NoHits]
        BY <2>3
      <3>2. ASSUME NEW email \in Spellings, Busy(Own, email) PROVE Busy(Own, email)'
        BY <2>1, <3>2, StillCalls, BusyStill
      <3>3. QED
        BY <1>1, <2>1, <3>1, <3>2 DEF CounterExpires, NoHits
    <2>4. QED
      BY <1>8, <2>2, <2>3
      DEF Passing, BeginAuthorization, WindowEnds, CooldownEnds, CodeExpires,
          StateExpires, SessionExpires, IndexLapses
  <1>9. CASE Crash
    BY <1>1, <1>3, <1>9 DEF Crash
  <1>10. QED
    BY <1>6, <1>7, <1>8, <1>9, NextParts DEF Serving

-----------------------------------------------------------------------------
(* What holds of every instance.                                           *)

LEMMA EmptyIsSpelled == <<>> \in Seq(Spellings) /\ <<>> \in Seq(Plain)
  OBVIOUS

LEMMA InitInv == Init => IInv
  <1> SUFFICES ASSUME Init PROVE IInv
    OBVIOUS
  <1> USE Numbers DEF Init
  <1>1. LimitType /\ StatesType /\ PeopleType /\ faults \in 0..MaxFaults
    BY EmptyIsSpelled DEF LimitType, StatesType, PeopleType, NoHits
  <1>2. CodesType
    BY DEF CodesType, NoCode
  <1>3. SessionsType
    BY DEF SessionsType, Sessions
  <1>4. JobType
    BY NoJobType DEF JobType, Steps
  <1>5. CallInv
    BY IdleFits DEF CallInv
  <1>6. StoredInv /\ CounterExpires
    BY DEF StoredInv, CounterExpires, NoCode, NoHits
  <1>7. PeopleInv
    BY EmptyIsSpelled DEF PeopleInv, Sessions
  <1>8. QED
    BY <1>1, <1>2, <1>3, <1>4, <1>5, <1>6, <1>7, TypeParts DEF IInv

LEMMA StepInv == IInv /\ [Next]_vars => IInv'
  <1>1. ASSUME IInv, Next PROVE IInv'
    BY <1>1, TypeStep, StoredStep, CounterStep DEF IInv
  <1>2. ASSUME IInv, UNCHANGED vars PROVE IInv'
    <2>1. /\ UNCHANGED <<hits, otp, cooldown, issued, inbox, compared, accepted>>
          /\ UNCHANGED <<oauth, begun, landed, users, identity, live, made, index>>
          /\ UNCHANGED <<at, job, faults>>
      BY <1>2 DEF vars, codes, states, people, sessions, calls
    <2>2. TypeOK'
      BY <1>2, <2>1 DEF IInv, TypeOK, Sessions
    <2>3. QED
      BY <1>2, <2>1, <2>2
      DEF IInv, CallInv, StoredInv, PeopleInv, CounterExpires, Sessions, Busy
  <1>3. QED
    BY <1>1, <1>2

\* The inductive invariant holds throughout, whatever races there are.
THEOREM Invariance == Spec => []IInv
  BY InitInv, StepInv, PTL DEF Spec

\* Every variable has its type.
THEOREM TypeCorrect == Spec => []TypeOK
  BY Invariance, PTL DEF IInv

\* identity.ts and otp.ts: whatever requests, verifications and callbacks race,
\* and whatever fails, an inbox has one user, a key has one, and a session is of
\* the user its key leads to.
THEOREM OnePerson == Spec => []OnePersonPerInbox
  <1>1. IInv => OnePersonPerInbox
    BY DEF IInv, PeopleInv, OnePersonPerInbox
  <1>2. QED
    BY <1>1, Invariance, PTL

\* rate-limit.ts: whatever races, while nothing has failed every counter expires
\* or is about to be told to.
THEOREM CountersExpire == Spec => []CounterExpires
  BY Invariance, PTL DEF IInv

\* session.ts: no step, of no request, brings back a session that has ended.
THEOREM EndedStaysEnded == Spec => SignedOutStaysOut
  <1>1. ASSUME IInv, Next, NEW s \in Sessions, s \notin live PROVE s \notin live'
    <2>1. Len(made) \in Nat /\ TypeOK
      BY <1>1, CountsType DEF IInv, Counts
    <2>2. ASSUME NEW c \in Calls, CreateSession(c) PROVE s \notin live'
      BY <1>1, <2>1, <2>2 DEF CreateSession, Sessions
    <2>3. ASSUME NEW c \in Calls, Joining(c), ~CreateSession(c) PROVE UNCHANGED live
      BY <2>3 DEF Joining, FindIdentity, FindByEmail, Link, CreateUser, sessions
    <2>4. ASSUME NEW c \in Calls, Serving(c), ~Joining(c) PROVE live' \subseteq live
      BY <2>1, <2>4, TypeCalls, RequestingFrame, VerifyingFrame, ReturningFrame,
         LeavingFrame DEF Serving, sessions
    <2>5. ASSUME Passing \/ Crash PROVE live' \subseteq live
      BY <2>5, PassingFrame DEF Crash, sessions
    <2>6. QED
      BY <1>1, <2>2, <2>3, <2>4, <2>5, NextParts
  <1>2. IInv /\ [Next]_vars => [\A s \in Sessions : s \notin live => s \notin live']_vars
    BY <1>1
  <1>3. QED
    BY <1>2, Invariance, PTL DEF Spec, SignedOutStaysOut

-----------------------------------------------------------------------------
(* OAuth states.                                                           *)

LEMMA StateStep ==
    ASSUME "callbacks" \notin Races, TypeOK, CallInv, StateInv, Next
    PROVE  StateInv'
  <1> DEFINE Own == {"drop"}
  <1>1. /\ oauth \subseteq 1..begun /\ begun \in 0..MaxStates
        /\ landed \in [1..MaxStates -> Nat]
        /\ at \in [Calls -> Steps] /\ CallsType
    BY TypeCalls DEF TypeOK
  <1>2. ASSUME UNCHANGED <<begun, landed>>, oauth' \subseteq oauth, Still(Own)
        PROVE  StateInv'
    BY <1>2 DEF StateInv, StateWorksOnce, Still
  <1>3. ASSUME NEW c \in Calls, NEW s \in oauth, FindState(c, s) PROVE StateInv'
    <2>1. /\ UNCHANGED <<oauth, begun, landed>>
          /\ at[c] = "idle" /\ at'[c] = "drop" /\ job'[c].n = s
          /\ \A d \in Calls : d # c => at'[d] = at[d] /\ job'[d] = job[d]
          /\ \A d \in Calls : ~(at[d] = "drop" /\ job[d].n = s)
      BY <1>1, <1>3 DEF FindState, Begin, states, CallsType, NoJob
    <2>2. QED
      BY <2>1 DEF StateInv, StateWorksOnce
  <1>4. ASSUME NEW c \in Calls, DropState(c) PROVE StateInv'
    <2> DEFINE s == job[c].n
    <2>1. s \in 1..begun
      BY <1>4 DEF CallInv, Fits, DropState
    <2>2. s \in 1..MaxStates /\ landed[s] = 0
      BY <1>1, <1>4, <2>1, Numbers DEF StateInv, DropState
    <2>3. /\ oauth' = oauth \ {s} /\ begun' = begun
          /\ landed' = [landed EXCEPT ![s] = 1]
          /\ at[c] = "drop" /\ at'[c] # "drop"
          /\ \A d \in Calls : d # c => at'[d] = at[d] /\ job'[d] = job[d]
      BY <1>1, <1>4, <2>2 DEF DropState, Consumed, Goto, Answer, CallsType
    <2>4. \A d \in Calls : d # c /\ at[d] = "drop" => job[d].n # s
      BY <2>3 DEF StateInv
    <2> HIDE DEF s
    <2>5. /\ landed'[s] = 1
          /\ \A r : r # s => landed'[r] = landed[r]
      BY <1>1, <2>2, <2>3
    <2>6. QED
      BY <1>1, <2>1, <2>3, <2>4, <2>5 DEF StateInv, StateWorksOnce
  <1>5. ASSUME NEW c \in Calls, Returning(c) PROVE StateInv'
    <2>1. CASE ExchangeFails(c) \/ FetchProfile(c)
      <3>1. UNCHANGED states
        BY <2>1 DEF ExchangeFails, FetchProfile
      <3>2. Still(Own)
        BY <1>1, <2>1 DEF ExchangeFails, FetchProfile, Answer, Still, CallsType
      <3>3. QED
        BY <1>2, <3>1, <3>2 DEF states
    <2>2. QED
      BY <1>3, <1>4, <1>5, <2>1 DEF Returning
  <1>6. ASSUME NEW c \in Calls,
               Requesting(c) \/ Verifying(c) \/ Joining(c) \/ Leaving(c)
        PROVE  StateInv'
    <2>1. UNCHANGED states
      BY <1>1, <1>6, RequestingFrame, VerifyingFrame, JoiningFrame, LeavingFrame
    <2>2. /\ ({"idle"} \cup Sends) \cap Own = {}
          /\ ({"idle"} \cup Checks) \cap Own = {}
          /\ ({"idle", "identity"} \cup Checks) \cap Own = {}
          /\ Joins \cap Own = {} /\ ({"idle"} \cup Joins) \cap Own = {}
          /\ ({"idle"} \cup Leaves) \cap Own = {}
      BY DEF Sends, Checks, Joins, Leaves
    <2>3. Still(Own)
      <3> HIDE DEF Own
      <3>1. QED
        BY <1>1, <1>6, <2>2, StillMoves, StillCalls, RequestingFrame, VerifyingFrame,
           JoiningFrame, LeavingFrame
    <2>4. QED
      BY <1>2, <2>1, <2>3 DEF states
  <1>7. CASE BeginAuthorization
    <2>1. /\ begun' = begun + 1 /\ oauth' = oauth \cup {begun + 1}
          /\ UNCHANGED <<landed, at, job>> /\ begun + 1 \in 1..MaxStates
      BY <1>1, <1>7, Numbers DEF BeginAuthorization, calls
    <2>2. begun \in Nat /\ landed[begun + 1] = 0
      BY <1>1, <2>1 DEF StateInv
    <2>3. QED
      BY <1>1, <2>1, <2>2 DEF StateInv, StateWorksOnce
  <1>8. CASE Passing /\ ~BeginAuthorization
    <2>1. UNCHANGED <<begun, landed>> /\ oauth' \subseteq oauth /\ UNCHANGED calls
      BY <1>8
      DEF Passing, WindowEnds, CooldownEnds, CodeExpires, StateExpires,
          SessionExpires, IndexLapses, states
    <2>2. QED
      BY <1>2, <2>1, StillCalls
  <1>9. CASE Crash
    BY <1>1, <1>9 DEF Crash, states, StateInv, StateWorksOnce
  <1>10. QED
    BY <1>3, <1>4, <1>5, <1>6, <1>7, <1>8, <1>9, NextParts DEF Serving

\* flow.ts and identity.ts: unless two callbacks for one state race, a state is
\* accepted once; and whoever comes in, by whichever way, is one user.
THEOREM OneWay ==
    ASSUME "callbacks" \notin Races
    PROVE  Spec => []OneWayIn
  <1>1. Init => StateInv
    BY Numbers DEF Init, StateInv, StateWorksOnce
  <1>2. IInv /\ StateInv /\ [Next]_vars => StateInv'
    <2>1. ASSUME IInv, StateInv, Next PROVE StateInv'
      BY <2>1, StateStep DEF IInv
    <2>2. ASSUME StateInv, UNCHANGED vars PROVE StateInv'
      BY <2>2 DEF vars, states, calls, StateInv, StateWorksOnce
    <2>3. QED
      BY <2>1, <2>2
  <1>3. IInv /\ StateInv => OneWayIn
    BY DEF IInv, PeopleInv, StateInv, OnePersonPerInbox, OneWayIn
  <1>4. QED
    BY <1>1, <1>2, <1>3, Invariance, PTL DEF Spec

-----------------------------------------------------------------------------
(* Codes.                                                                  *)

\* A step that no verification takes and that leaves the codes alone.
CodesRest ==
    /\ UNCHANGED <<otp, issued, compared, accepted>>
    /\ Still(Checks)
    /\ faults' \in Nat /\ faults <= faults'

LEMMA CodesFrame ==
    ASSUME TypeOK, Next
    PROVE  \/ CodesRest
           \/ \E c \in Calls : IssueCode(c) \/ Verifying(c)
           \/ \E email \in Spellings : CodeExpires(email)
           \/ Crash
  <1>1. CallsType /\ faults \in Nat
    <2>1. faults \in 0..MaxFaults
      BY DEF TypeOK
    <2>2. QED
      BY <2>1, TypeCalls, Numbers
  <1>2. ASSUME NEW c \in Calls, Requesting(c) PROVE CodesRest \/ IssueCode(c)
    <2>1. /\ UNCHANGED <<compared, accepted>>
          /\ UNCHANGED calls \/ Moves(c, {"idle"} \cup Sends, {"idle"} \cup Sends)
      BY <1>1, <1>2, RequestingFrame
    <2>2. ({"idle"} \cup Sends) \cap Checks = {}
      BY DEF Sends, Checks
    <2>3. Still(Checks)
      BY <2>1, <2>2, StillMoves, StillCalls
    <2>4. IssueCode(c) \/ (UNCHANGED <<otp, issued>> /\ faults' \in {faults, faults + 1})
      BY <1>2
      DEF Requesting, RequestCode, StartWindow, LimiterCut, CheckCooldown, SendMail,
          codes
    <2>5. QED
      BY <1>1, <2>1, <2>3, <2>4 DEF CodesRest
  <1>3. ASSUME NEW c \in Calls, Returning(c) \/ Joining(c) \/ Leaving(c)
        PROVE  CodesRest
    <2>1. UNCHANGED <<codes, faults>>
      BY <1>1, <1>3, ReturningFrame, JoiningFrame, LeavingFrame
    <2>2. /\ ({"idle"} \cup Returns) \cap Checks = {}
          /\ ({"idle", "identity"} \cup Returns) \cap Checks = {}
          /\ Joins \cap Checks = {} /\ ({"idle"} \cup Joins) \cap Checks = {}
          /\ ({"idle"} \cup Leaves) \cap Checks = {}
      BY DEF Checks, Returns, Joins, Leaves
    <2>3. Still(Checks)
      BY <1>1, <1>3, <2>2, StillMoves, ReturningFrame, JoiningFrame, LeavingFrame
    <2>4. QED
      BY <1>1, <2>1, <2>3 DEF CodesRest, codes
  <1>4. ASSUME Passing PROVE CodesRest \/ \E email \in Spellings : CodeExpires(email)
    <2>1. UNCHANGED <<issued, compared, accepted, calls, faults>>
      BY <1>4, PassingFrame
    <2>2. Still(Checks)
      BY <2>1, StillCalls
    <2>3. UNCHANGED otp \/ \E email \in Spellings : CodeExpires(email)
      BY <1>4
      DEF Passing, BeginAuthorization, WindowEnds, CooldownEnds, StateExpires,
          SessionExpires, IndexLapses, codes
    <2>4. QED
      BY <1>1, <2>1, <2>2, <2>3 DEF CodesRest
  <1>5. QED
    BY <1>2, <1>3, <1>4, NextParts DEF Serving

\* What the steps of a verification need to know.
CodeFacts ==
    /\ otp \in [Spellings -> [code : 0..MaxCodes, attempts : Nat]]
    /\ compared \in [1..MaxCodes -> Nat]
    /\ accepted \in [1..MaxCodes -> Nat]
    /\ issued \in 0..MaxCodes /\ MaxCodes \in Nat /\ faults \in Nat
    /\ MaxAttempts \in Nat \ {0}
    /\ at \in [Calls -> Steps] /\ job = [c \in Calls |-> job[c]]
    /\ \A email \in Spellings : otp[email].code \in 0..issued
    /\ \A c \in Calls : at[c] \in Checks => job[c].email \in Spellings
    /\ \A c \in Calls : Holds(c) => job[c].stored \in 1..issued

LEMMA CodeFactsHold == ASSUME TypeOK, CallInv, StoredInv PROVE CodeFacts
  <1>1. \A c \in Calls : at[c] \in Checks => job[c].email \in Spellings
    BY PlainIsSpelled DEF CallInv, Fits
  <1>2. \A c \in Calls : Holds(c) => job[c].stored \in 1..issued
    BY DEF CallInv, Fits, Holds
  <1>3. QED
    BY <1>1, <1>2, TypeCalls, Numbers DEF TypeOK, StoredInv, CodeFacts, CallsType

LEMMA BusyStays ==
    ASSUME NEW email, Still(Checks), Busy({"burn", "spend"}, email)
    PROVE  Busy({"burn", "spend"}, email)'
  BY DEF Busy, Still, Checks

LEMMA RestKeepsCodes ==
    ASSUME CodeFacts, CodeInv, CodesRest
    PROVE  CodeInv'
  <1>1. \A c \in Calls : at'[c] \in Checks =>
            at[c] = at'[c] /\ job'[c] = job[c]
    BY DEF CodesRest, Still
  <1>2. \A c \in Calls : Holds(c)' => Holds(c) /\ job'[c] = job[c]
    BY <1>1 DEF Holds, Checks
  <1>3. CheckInv'
    BY <1>1, <1>2 DEF CodesRest, CodeInv, CheckInv
  <1>4. FreshInv'
    BY <1>2 DEF CodesRest, CodeInv, FreshInv, CodeWorksOnce
  <1>5. faults' = 0 => faults = 0
    BY DEF CodeFacts, CodesRest
  <1>6. \A email \in Spellings :
            Busy({"burn", "spend"}, email) => Busy({"burn", "spend"}, email)'
    BY BusyStays DEF CodesRest
  <1>7. ASSUME NEW c \in Calls, at'[c] = "count",
               otp'[job'[c].email].code # job'[c].stored
        PROVE  compared'[job'[c].stored] + 1 <= MaxAttempts + faults'
    <2>1. at[c] = "count" /\ job'[c] = job[c] /\ job[c].stored \in 1..MaxCodes
      BY <1>1, <1>7 DEF Checks, CodeFacts, Holds
    <2>2. compared[job[c].stored] + 1 <= MaxAttempts + faults
      BY <1>7, <2>1 DEF CodesRest, CodeInv, GuessInv
    <2>3. QED
      BY <2>1, <2>2 DEF CodesRest, CodeFacts
  <1>8. GuessesAreCounted'
    <2>1. ASSUME NEW code \in 1..MaxCodes PROVE compared[code] <= MaxAttempts + faults'
      <3>1. compared[code] \in Nat /\ compared[code] <= MaxAttempts + faults
        BY DEF CodeFacts, CodeInv, GuessInv, GuessesAreCounted
      <3>2. QED
        BY <3>1 DEF CodesRest, CodeFacts
    <2>2. QED
      BY <2>1 DEF CodesRest, GuessesAreCounted
  <1>9. GuessInv'
    BY <1>5, <1>6, <1>7, <1>8 DEF CodesRest, CodeInv, GuessInv
  <1>10. QED
    BY <1>3, <1>4, <1>9 DEF CodeInv

\* A request about to count may still compare the code it read: either the code
\* is stored with attempts left, or it is gone and that was seen to.
LEMMA RoomToCompare ==
    ASSUME CodeFacts, CodeInv, NEW c \in Calls, at[c] = "count"
    PROVE  compared[job[c].stored] + 1 <= MaxAttempts + faults
  <1> DEFINE email == job[c].email
             code == job[c].stored
  <1>1. /\ email \in Spellings /\ code \in 1..issued /\ code \in 1..MaxCodes
        /\ compared[code] \in Nat /\ otp[email].attempts \in Nat
    BY DEF CodeFacts, Checks, Holds
  <1>2. CASE otp[email].code # code
    BY <1>2 DEF CodeInv, GuessInv
  <1>3. CASE otp[email].code = code
    <2>1. compared[code] <= otp[email].attempts /\ compared[code] <= MaxAttempts
      BY <1>1, <1>3 DEF CodeInv, GuessInv, CodeFacts
    <2>2. ~Busy({"burn", "spend"}, email)
      BY DEF CodeInv, CheckInv, Busy, Checks
    <2>3. faults = 0 => otp[email].attempts < MaxAttempts
      BY <1>1, <1>3, <2>2 DEF CodeInv, GuessInv, CodeFacts
    <2> DEFINE n == compared[code]
               tries == otp[email].attempts
    <2>4. /\ n \in Nat /\ tries \in Nat /\ faults \in Nat /\ MaxAttempts \in Nat
          /\ n <= tries /\ n <= MaxAttempts /\ (faults = 0 => tries < MaxAttempts)
      BY <1>1, <2>1, <2>3 DEF CodeFacts
    <2> HIDE DEF n, tries
    <2>5. n + 1 <= MaxAttempts + faults
      BY <2>4
    <2>6. QED
      BY <2>5 DEF n
  <1>4. QED
    BY <1>2, <1>3

\* A code may be replaced by a newer one or go while requests check it.
Replaced(email, entry) ==
    /\ otp' = [otp EXCEPT ![email] = entry]
    /\ issued' \in Nat /\ issued <= issued'
    /\ \/ entry.code = 0
       \/ /\ issued' = issued + 1 /\ issued' <= MaxCodes
          /\ entry.code = issued' /\ entry.attempts = 0
    /\ UNCHANGED <<compared, faults>>
    /\ \A c \in Calls : at'[c] \in Checks => at[c] = at'[c] /\ job'[c] = job[c]
    /\ \A e \in Spellings : e # email /\ Busy({"burn", "spend"}, e) =>
          Busy({"burn", "spend"}, e)'

LEMMA ReplacedKeepsCodes ==
    ASSUME CodeFacts, CodeInv, NEW email \in Spellings, NEW entry,
           Replaced(email, entry),
           \/ UNCHANGED accepted
           \/ \E c \in Calls :
                 /\ at[c] = "spend" /\ at'[c] \notin Checks /\ job[c].email = email
                 /\ accepted' = [accepted EXCEPT ![job[c].stored] = @ + 1]
                 /\ entry.code = 0
    PROVE  CodeInv'
  <1>1. /\ issued' \in Nat /\ issued <= issued'
        /\ UNCHANGED <<compared, faults>>
    BY DEF Replaced
  <1>2. \A c \in Calls : at'[c] \in Checks => at[c] = at'[c] /\ job'[c] = job[c]
    BY DEF Replaced
  <1>3. \A c \in Calls :
            Holds(c)' => Holds(c) /\ job'[c] = job[c] /\ job[c].stored \in 1..issued
    BY <1>2 DEF Holds, Checks, CodeFacts
  <1>4. \A e \in Spellings : otp'[e] = IF e = email THEN entry ELSE otp[e]
    BY DEF CodeFacts, Replaced
  <1>5. /\ issued \in Nat /\ entry.code # 0 => entry.code > issued
        /\ \A e \in Spellings : otp[e].code \in 0..issued
    BY DEF CodeFacts, Replaced
  <1> DEFINE new == entry.code
  <1> HIDE DEF new
  <1>6. /\ new # 0 => \A e \in Spellings : otp[e].code # new
        /\ new # 0 => \A c \in Calls : Holds(c)' => job[c].stored # new
        /\ \A code \in 1..MaxCodes : code > issued' => code > issued
    BY <1>1, <1>3, <1>5 DEF CodeFacts, new
  <1>7. \A e \in Spellings : otp'[e].code = IF e = email THEN new ELSE otp[e].code
    BY <1>4 DEF new
  <1>8. CheckInv'
    <2>1. ASSUME NEW e \in Spellings, NEW f \in Spellings,
                 otp'[e].code = otp'[f].code, otp'[e].code # 0
          PROVE  e = f
      BY <1>6, <1>7, <2>1 DEF CodeInv, CheckInv
    <2>2. ASSUME NEW c \in Calls, NEW e \in Spellings, Holds(c)',
                 otp'[e].code = job'[c].stored
          PROVE  job'[c].email = e
      <3>1. job[c].stored # 0 /\ Holds(c) /\ job'[c] = job[c]
        BY <1>3, <2>2 DEF CodeFacts
      <3>2. e # email
        BY <1>6, <1>7, <2>2, <3>1
      <3>3. QED
        BY <1>7, <2>2, <3>1, <3>2 DEF CodeInv, CheckInv
    <2>3. QED
      BY <1>2, <1>3, <2>1, <2>2 DEF CodeInv, CheckInv
  <1>9. FreshInv'
    <2>1. CASE UNCHANGED accepted
      <3>1. ASSUME NEW e \in Spellings, otp'[e].code # 0
            PROVE  accepted[otp'[e].code] = 0
        <4>1. CASE e # email
          BY <1>4, <3>1, <4>1 DEF CodeInv, FreshInv
        <4>2. CASE e = email
          BY <1>4, <1>5, <3>1, <4>2 DEF CodeInv, FreshInv, CodeFacts, Replaced
        <4>3. QED
          BY <4>1, <4>2
      <3>2. \A code \in 1..MaxCodes : code > issued' => accepted[code] = 0
        BY <1>6 DEF CodeInv, FreshInv
      <3>3. QED
        BY <1>3, <2>1, <3>1, <3>2 DEF CodeInv, FreshInv, CodeWorksOnce
    <2>2. ASSUME NEW c \in Calls, at[c] = "spend", at'[c] \notin Checks,
                 job[c].email = email, new = 0,
                 accepted' = [accepted EXCEPT ![job[c].stored] = @ + 1]
          PROVE  FreshInv'
      <3> DEFINE spent == job[c].stored
      <3>1. Holds(c) /\ ~Holds(c)' /\ spent \in 1..issued /\ spent \in 1..MaxCodes
        BY <2>2 DEF Holds, Checks, CodeFacts
      <3>2. accepted[spent] = 0
        BY <3>1 DEF CodeInv, FreshInv
      <3>3. /\ accepted'[spent] = 1
            /\ \A code \in 1..MaxCodes : code # spent => accepted'[code] = accepted[code]
        BY <2>2, <3>1, <3>2 DEF CodeFacts
      <3>4. \A d \in Calls : Holds(d)' => job'[d].stored # spent
        BY <1>3, <3>1 DEF CodeInv, CheckInv
      <3>5. \A e \in Spellings : otp'[e].code # spent
        BY <1>7, <2>2, <3>1 DEF CodeInv, CheckInv
      <3>6. \A code \in 1..MaxCodes : code > issued' => code # spent
        BY <1>6, <3>1 DEF CodeFacts
      <3> HIDE DEF spent
      <3>7. ASSUME NEW e \in Spellings, otp'[e].code # 0
            PROVE  accepted'[otp'[e].code] = 0
        <4>1. otp'[e].code = otp[e].code /\ otp[e].code \in 1..MaxCodes
          BY <1>5, <1>7, <2>2, <3>7 DEF CodeFacts
        <4>2. QED
          BY <3>3, <3>5, <3>7, <4>1 DEF CodeInv, FreshInv
      <3>8. ASSUME NEW d \in Calls, Holds(d)' PROVE accepted'[job'[d].stored] = 0
        <4>1. job'[d].stored \in 1..MaxCodes
          BY <1>3, <3>8 DEF CodeFacts
        <4>2. QED
          BY <1>3, <3>3, <3>4, <3>8, <4>1 DEF CodeInv, FreshInv
      <3>9. \A code \in 1..MaxCodes : code > issued' => accepted'[code] = 0
        BY <1>6, <3>3, <3>6 DEF CodeInv, FreshInv
      <3>10. CodeWorksOnce'
        BY <3>3 DEF CodeInv, FreshInv, CodeWorksOnce
      <3>11. QED
        BY <3>7, <3>8, <3>9, <3>10 DEF FreshInv
    <2>3. QED
      BY <2>1, <2>2 DEF new
  <1>10. GuessInv'
    <2>1. ASSUME NEW e \in Spellings, otp'[e].code # 0
          PROVE  /\ compared[otp'[e].code] <= otp'[e].attempts
                 /\ compared[otp'[e].code] <= MaxAttempts
      <3>1. CASE e # email
        BY <1>4, <2>1, <3>1 DEF CodeInv, GuessInv
      <3>2. CASE e = email
        BY <1>4, <1>5, <2>1, <3>2 DEF CodeInv, GuessInv, CodeFacts, Replaced
      <3>3. QED
        BY <3>1, <3>2
    <2>2. ASSUME NEW c \in Calls, at'[c] = "count"
          PROVE  compared[job'[c].stored] + 1 <= MaxAttempts + faults
      BY <1>2, <2>2, RoomToCompare DEF Checks
    <2>3. ASSUME faults = 0, NEW e \in Spellings, otp'[e].code # 0,
                 otp'[e].attempts >= MaxAttempts
          PROVE  Busy({"burn", "spend"}, e)'
      <3>1. e # email
        BY <1>4, <2>3 DEF CodeFacts, Replaced
      <3>2. Busy({"burn", "spend"}, e)
        BY <1>4, <2>3, <3>1 DEF CodeInv, GuessInv
      <3>3. QED
        BY <3>1, <3>2 DEF Replaced
    <2>4. \A code \in 1..MaxCodes : code > issued' => compared[code] = 0
      BY <1>6 DEF CodeInv, GuessInv
    <2>5. QED
      BY <1>1, <2>1, <2>2, <2>3, <2>4 DEF CodeInv, GuessInv, GuessesAreCounted
  <1>11. QED
    BY <1>8, <1>9, <1>10 DEF CodeInv

LEMMA IssueKeepsCodes ==
    ASSUME CodeFacts, CodeInv, NEW c \in Calls, job[c].email \in Spellings, IssueCode(c)
    PROVE  CodeInv'
  <1> DEFINE email == job[c].email
             entry == [code |-> issued + 1, attempts |-> 0]
  <1>1. /\ otp' = [otp EXCEPT ![email] = entry] /\ issued' = issued + 1
        /\ issued + 1 <= MaxCodes
        /\ UNCHANGED <<compared, accepted, faults>>
    BY DEF IssueCode, Stored, CodeFacts
  <1>2. Still(Checks)
    BY DEF IssueCode, Still, Checks, CodeFacts
  <1>3. issued' \in Nat /\ issued <= issued' /\ entry.code = issued' /\ entry.attempts = 0
    BY <1>1 DEF CodeFacts
  <1> HIDE DEF entry, email
  <1>4. Replaced(email, entry)
    BY <1>1, <1>2, <1>3, BusyStays DEF Replaced, Still
  <1>5. QED
    BY <1>1, <1>4, ReplacedKeepsCodes DEF email

LEMMA ExpiryKeepsCodes ==
    ASSUME CodeFacts, CodeInv, NEW email \in Spellings, CodeExpires(email)
    PROVE  CodeInv'
  <1>1. /\ otp' = [otp EXCEPT ![email] = NoCode] /\ NoCode.code = 0
        /\ UNCHANGED <<issued, compared, accepted, calls, faults>>
    BY DEF CodeExpires, NoCode
  <1>2. Still(Checks) /\ issued' \in Nat /\ issued <= issued'
    BY <1>1, StillCalls DEF CodeFacts
  <1>3. Replaced(email, NoCode)
    BY <1>1, <1>2, BusyStays DEF Replaced, Still
  <1>4. QED
    BY <1>1, <1>3, ReplacedKeepsCodes

LEMMA CrashKeepsCodes ==
    ASSUME CodeFacts, CodeInv, Crash
    PROVE  CodeInv'
  <1>1. /\ UNCHANGED <<otp, issued, compared, accepted>>
        /\ faults' = faults + 1
        /\ \A c \in Calls : at'[c] = "idle"
    BY DEF Crash, codes
  <1>2. CheckInv' /\ FreshInv'
    BY <1>1 DEF CodeInv, CheckInv, FreshInv, CodeWorksOnce, Holds, Checks
  <1>3. \A code \in 1..MaxCodes : compared[code] <= MaxAttempts + (faults + 1)
    <2>1. ASSUME NEW code \in 1..MaxCodes PROVE compared[code] <= MaxAttempts + (faults + 1)
      <3>1. compared[code] \in Nat /\ compared[code] <= MaxAttempts + faults
        BY DEF CodeFacts, CodeInv, GuessInv, GuessesAreCounted
      <3>2. QED
        BY <3>1 DEF CodeFacts
    <2>2. QED
      BY <2>1
  <1>4. faults' # 0
    BY <1>1 DEF CodeFacts
  <1>5. GuessInv'
    BY <1>1, <1>3, <1>4 DEF CodeInv, GuessInv, GuessesAreCounted
  <1>6. QED
    BY <1>2, <1>5 DEF CodeInv

\* A request takes the code it checks from where it is stored.
LEMMA VerifyKeepsCodes ==
    ASSUME "verifies" \notin Races, CodeFacts, CodeInv, NEW c \in Calls,
           NEW typed \in Spellings, NEW code, VerifyCode(c, typed, code)
    PROVE  CodeInv'
  <1> DEFINE email == NormalizeEmail(typed)
  <1>1. email \in Spellings
    BY PlainIsSpelled
  <1>2. /\ UNCHANGED <<otp, issued, compared, accepted, faults>>
        /\ ~Busy(Checks, email) /\ otp[email].code # 0
        /\ at[c] = "idle" /\ at'[c] = "count"
        /\ job'[c].email = email /\ job'[c].stored = otp[email].code
        /\ \A d \in Calls : d # c => at'[d] = at[d] /\ job'[d] = job[d]
    BY DEF VerifyCode, Begin, CodeFacts, NoJob, codes
  <1> HIDE DEF email
  <1>3. \A d \in Calls : d # c /\ at'[d] \in Checks => job'[d].email # email
    BY <1>2 DEF Busy
  <1>4. \A d \in Calls : d # c /\ Holds(d)' => job'[d].stored # otp[email].code
    BY <1>1, <1>2, <1>3 DEF CodeInv, CheckInv, Holds, Checks
  <1>5. CheckInv'
    <2>1. ASSUME NEW d \in Calls, NEW e \in Spellings, Holds(d)',
                 otp[e].code = job'[d].stored
          PROVE  job'[d].email = e
      <3>1. CASE d = c
        BY <1>1, <1>2, <2>1, <3>1 DEF CodeInv, CheckInv
      <3>2. CASE d # c
        BY <1>2, <2>1, <3>2 DEF CodeInv, CheckInv, Holds
      <3>3. QED
        BY <3>1, <3>2
    <2>2. ASSUME NEW d \in Calls, NEW e \in Calls, Holds(d)', Holds(e)',
                 job'[d].stored = job'[e].stored
          PROVE  d = e
      BY <1>2, <1>4, <2>2 DEF CodeInv, CheckInv, Holds
    <2>3. ASSUME NEW d \in Calls, NEW e \in Calls, at'[d] \in Checks,
                 at'[e] \in Checks, job'[d].email = job'[e].email
          PROVE  d = e
      BY <1>2, <1>3, <2>3 DEF CodeInv, CheckInv
    <2>4. QED
      BY <1>2, <2>1, <2>2, <2>3 DEF CodeInv, CheckInv
  <1>6. FreshInv'
    BY <1>1, <1>2 DEF CodeInv, FreshInv, CodeWorksOnce, Holds
  <1>7. GuessInv'
    <2>1. ASSUME NEW d \in Calls, at'[d] = "count",
                 otp[job'[d].email].code # job'[d].stored
          PROVE  compared[job'[d].stored] + 1 <= MaxAttempts + faults
      BY <1>2, <2>1 DEF CodeInv, GuessInv
    <2>2. ASSUME NEW e, Busy({"burn", "spend"}, e)
          PROVE  Busy({"burn", "spend"}, e)'
      BY <1>2, <2>2 DEF Busy
    <2>3. QED
      BY <1>2, <2>1, <2>2 DEF CodeInv, GuessInv, GuessesAreCounted
  <1>8. QED
    BY <1>5, <1>6, <1>7 DEF CodeInv

\* A code that is burnt or spent goes with the request that checked it.
LEMMA TakenKeepsCodes ==
    ASSUME CodeFacts, CodeInv, NEW c \in Calls, BurnCode(c) \/ SpendCode(c)
    PROVE  CodeInv'
  <1> DEFINE email == job[c].email
  <1>1. /\ otp' = [otp EXCEPT ![email] = NoCode] /\ NoCode.code = 0
        /\ UNCHANGED <<issued, compared, faults>>
        /\ at[c] \in {"burn", "spend"} /\ at'[c] \in {"idle", "identity"}
        /\ \A d \in Calls : d # c => at'[d] = at[d] /\ job'[d] = job[d]
    BY DEF BurnCode, SpendCode, Spent, Answer, CodeFacts, NoCode
  <1>2. \/ UNCHANGED accepted
        \/ /\ at[c] = "spend"
           /\ accepted' = [accepted EXCEPT ![job[c].stored] = @ + 1]
    BY DEF BurnCode, SpendCode
  <1>3. email \in Spellings /\ at'[c] \notin Checks
    BY <1>1 DEF CodeFacts, Checks
  <1>4. \A d \in Calls : at'[d] \in Checks => at[d] = at'[d] /\ job'[d] = job[d]
    BY <1>1, <1>3
  <1>5. ASSUME NEW e \in Spellings, e # email, Busy({"burn", "spend"}, e)
        PROVE  Busy({"burn", "spend"}, e)'
    BY <1>1, <1>5 DEF Busy
  <1>6. Replaced(email, NoCode)
    BY <1>1, <1>4, <1>5 DEF Replaced, CodeFacts
  <1>7. QED
    BY <1>1, <1>2, <1>3, <1>6, ReplacedKeepsCodes

\* An attempt is counted before the comparison, and the comparison is made only
\* when the count allows it.
LEMMA CountKeepsCodes ==
    ASSUME CodeFacts, CodeInv, NEW c \in Calls, CountAttempt(c)
    PROVE  CodeInv'
  <1> DEFINE email == job[c].email
             code == job[c].stored
             tries == otp[email].attempts
  <1>1. /\ at[c] = "count" /\ email \in Spellings
        /\ code \in 1..issued /\ code \in 1..MaxCodes /\ tries \in Nat
    BY DEF CountAttempt, CodeFacts, Checks, Holds
  <1>2. /\ otp' = [otp EXCEPT ![email].attempts = tries + 1]
        /\ UNCHANGED <<issued, accepted, faults>>
        /\ \A d \in Calls : d # c => at'[d] = at[d] /\ job'[d] = job[d]
        /\ \/ at'[c] \in {"burn", "spend"} /\ job'[c] = job[c]
           \/ at'[c] = "idle" /\ tries + 1 < MaxAttempts
    BY <1>1 DEF CountAttempt, Counted, Goto, Answer, CodeFacts
  <1>3. \/ UNCHANGED compared
        \/ /\ compared' = [compared EXCEPT ![code] = @ + 1]
           /\ tries + 1 <= MaxAttempts
    BY <1>1 DEF CountAttempt, Counted, CodeFacts
  <1>4. compared[code] + 1 <= MaxAttempts + faults
    BY <1>1, RoomToCompare
  <1> HIDE DEF email, code, tries
  <1>5. /\ \A e \in Spellings : otp'[e].code = otp[e].code
        /\ \A e \in Spellings : otp'[e].attempts =
              IF e = email THEN tries + 1 ELSE otp[e].attempts
    BY <1>1, <1>2 DEF CodeFacts
  <1>6. \A d \in Calls : at'[d] \in Checks => at[d] \in Checks /\ job'[d] = job[d]
    BY <1>1, <1>2 DEF Checks
  <1>7. \A d \in Calls : Holds(d)' => Holds(d) /\ job'[d] = job[d]
    BY <1>1, <1>2 DEF Holds
  <1>8. CheckInv'
    BY <1>2, <1>5, <1>6, <1>7 DEF CodeInv, CheckInv
  <1>9. FreshInv'
    BY <1>2, <1>5, <1>7 DEF CodeInv, FreshInv, CodeWorksOnce
  <1>10. /\ compared[code] \in Nat /\ compared'[code] \in {compared[code], compared[code] + 1}
         /\ compared'[code] = compared[code] + 1 => tries + 1 <= MaxAttempts
         /\ \A k \in 1..MaxCodes : k # code => compared'[k] = compared[k]
    BY <1>1, <1>3 DEF CodeFacts
  <1>11. GuessInv'
    <2>1. ASSUME NEW e \in Spellings, otp'[e].code # 0
          PROVE  /\ compared'[otp'[e].code] <= otp'[e].attempts
                 /\ compared'[otp'[e].code] <= MaxAttempts
      <3>1. /\ otp'[e].code = otp[e].code /\ otp[e].code \in 1..MaxCodes
            /\ otp[e].attempts \in Nat /\ compared[otp[e].code] \in Nat
            /\ compared[otp[e].code] <= otp[e].attempts
            /\ compared[otp[e].code] <= MaxAttempts
        BY <1>5, <2>1 DEF CodeInv, GuessInv, CodeFacts
      <3>2. CASE otp[e].code # code
        <4>1. compared'[otp[e].code] = compared[otp[e].code]
          BY <1>10, <3>1, <3>2
        <4>2. otp'[e].attempts \in {otp[e].attempts, otp[e].attempts + 1}
          BY <1>5 DEF tries
        <4>3. compared[otp[e].code] <= otp'[e].attempts
          BY <3>1, <4>2
        <4>4. QED
          BY <3>1, <4>1, <4>3
      <3>3. CASE otp[e].code = code
        <4>1. e = email
          BY <1>1, <3>3 DEF CodeInv, CheckInv, Holds, email, code
        <4>2. compared[code] <= tries /\ compared[code] <= MaxAttempts
          BY <3>1, <3>3, <4>1 DEF tries
        <4>3. compared'[code] <= tries + 1 /\ compared'[code] <= MaxAttempts
          BY <1>1, <1>10, <4>2 DEF CodeFacts
        <4>4. QED
          BY <1>5, <3>1, <3>3, <4>1, <4>3
      <3>4. QED
        BY <3>2, <3>3
    <2>2. ASSUME NEW d \in Calls, at'[d] = "count",
                 otp'[job'[d].email].code # job'[d].stored
          PROVE  compared'[job'[d].stored] + 1 <= MaxAttempts + faults
      <3>1. d # c /\ at[d] = "count" /\ job'[d] = job[d]
        BY <1>2, <2>2
      <3>2. /\ job[d].email \in Spellings /\ job[d].stored \in 1..MaxCodes
            /\ job[d].stored # code
        BY <1>1, <3>1 DEF CodeInv, CheckInv, CodeFacts, Holds, Checks, code
      <3>3. compared[job[d].stored] + 1 <= MaxAttempts + faults
        BY <3>1, RoomToCompare
      <3>4. QED
        BY <1>10, <3>1, <3>2, <3>3
    <2>3. ASSUME faults = 0, NEW e \in Spellings, otp'[e].code # 0,
                 otp'[e].attempts >= MaxAttempts
          PROVE  Busy({"burn", "spend"}, e)'
      <3>1. CASE e = email
        <4>1. at'[c] \in {"burn", "spend"} /\ job'[c] = job[c]
          BY <1>1, <1>2, <1>5, <2>3, <3>1 DEF CodeFacts
        <4>2. QED
          BY <3>1, <4>1 DEF Busy, email
      <3>2. CASE e # email
        <4>1. Busy({"burn", "spend"}, e)
          BY <1>5, <2>3, <3>2 DEF CodeInv, GuessInv
        <4>2. QED
          BY <1>1, <1>2, <4>1 DEF Busy
      <3>3. QED
        BY <3>1, <3>2
    <2>4. \A k \in 1..MaxCodes : k > issued => compared'[k] = 0
      <3>1. \A k \in 1..MaxCodes : k > issued => k # code
        BY <1>1 DEF CodeFacts
      <3>2. QED
        BY <1>10, <3>1 DEF CodeInv, GuessInv
    <2>5. ASSUME NEW k \in 1..MaxCodes PROVE compared'[k] <= MaxAttempts + faults
      <3>1. compared[k] <= MaxAttempts + faults
        BY DEF CodeInv, GuessInv, GuessesAreCounted
      <3>2. CASE k = code
        BY <1>4, <1>10, <3>1, <3>2
      <3>3. CASE k # code
        BY <1>10, <3>1, <3>3
      <3>4. QED
        BY <3>2, <3>3
    <2>6. QED
      BY <1>2, <2>1, <2>2, <2>3, <2>4, <2>5 DEF GuessInv, GuessesAreCounted
  <1>12. QED
    BY <1>8, <1>9, <1>11 DEF CodeInv

LEMMA CodeStep ==
    ASSUME "verifies" \notin Races, TypeOK, CallInv, StoredInv, CodeInv, Next
    PROVE  CodeInv'
  <1>1. CodeFacts
    BY CodeFactsHold
  <1>2. CASE CodesRest
    BY <1>1, <1>2, RestKeepsCodes
  <1>3. ASSUME NEW c \in Calls, IssueCode(c) PROVE CodeInv'
    <2>1. job[c].email \in Spellings
      BY <1>3, PlainIsSpelled DEF CallInv, Fits, IssueCode, Sends
    <2>2. QED
      BY <1>1, <1>3, <2>1, IssueKeepsCodes
  <1>4. ASSUME NEW c \in Calls, Verifying(c) PROVE CodeInv'
    BY <1>1, <1>4, VerifyKeepsCodes, CountKeepsCodes, TakenKeepsCodes DEF Verifying
  <1>5. ASSUME NEW email \in Spellings, CodeExpires(email) PROVE CodeInv'
    BY <1>1, <1>5, ExpiryKeepsCodes
  <1>6. CASE Crash
    BY <1>1, <1>6, CrashKeepsCodes
  <1>7. QED
    BY <1>2, <1>3, <1>4, <1>5, <1>6, CodesFrame

-----------------------------------------------------------------------------
(* Mails.                                                                  *)

\* A step that no request for a code takes, which at most makes codes go.
MailsRest ==
    /\ UNCHANGED <<issued, inbox>>
    /\ \A email \in Spellings : otp'[email].code \in {0, otp[email].code}
    /\ \A c \in Calls : at'[c] = "mail" => at[c] = "mail"
    /\ \A c \in Calls : at'[c] \in Sends => at[c] \in Sends /\ job'[c] = job[c]

LEMMA MailsFrame ==
    ASSUME TypeOK, CallInv, Next
    PROVE  \/ MailsRest
           \/ \E c \in Calls, email \in Spellings : RequestCode(c, email)
           \/ \E c \in Calls : IssueCode(c) \/ SendMail(c)
  <1>1. /\ CallsType
        /\ otp \in [Spellings -> [code : 0..MaxCodes, attempts : Nat]]
    BY TypeCalls DEF TypeOK
  <1>2. ASSUME UNCHANGED <<issued, inbox>>,
               \A email \in Spellings : otp'[email].code \in {0, otp[email].code},
               Still(Sends)
        PROVE  MailsRest
    BY <1>2 DEF MailsRest, Still, Sends
  <1>3. ASSUME NEW c \in Calls, StartWindow(c) \/ LimiterCut(c) \/ CheckCooldown(c)
        PROVE  MailsRest
    BY <1>1, <1>3
    DEF StartWindow, Allowed, LimiterCut, CheckCooldown, Goto, Answer, codes, MailsRest,
        Still, Sends, CallsType
  <1>4. ASSUME NEW c \in Calls, Verifying(c) PROVE MailsRest
    <2>1. /\ UNCHANGED <<issued, inbox>>
          /\ Moves(c, {"idle"} \cup Checks, {"idle", "identity"} \cup Checks)
      BY <1>1, <1>4, VerifyingFrame
    <2>2. /\ ({"idle"} \cup Checks) \cap Sends = {}
          /\ ({"idle", "identity"} \cup Checks) \cap Sends = {}
      BY DEF Checks, Sends
    <2>3. Still(Sends)
      BY <2>1, <2>2, StillMoves
    <2>4. CASE \E email \in Spellings, code \in 0..issued : VerifyCode(c, email, code)
      BY <1>2, <2>1, <2>3, <2>4 DEF VerifyCode, codes
    <2>5. CASE CountAttempt(c)
      <3>1. PICK n : otp' = [otp EXCEPT ![job[c].email].attempts = n]
        BY <2>5 DEF CountAttempt
      <3>2. \A email \in Spellings : otp'[email].code = otp[email].code
        BY <1>1, <3>1
      <3>3. QED
        BY <1>2, <2>1, <2>3, <3>2
    <2>6. CASE BurnCode(c) \/ SpendCode(c)
      <3>1. otp' = [otp EXCEPT ![job[c].email] = NoCode]
        BY <2>6 DEF BurnCode, SpendCode, Spent
      <3>2. \A email \in Spellings : otp'[email].code \in {0, otp[email].code}
        BY <1>1, <3>1 DEF NoCode
      <3>3. QED
        BY <1>2, <2>1, <2>3, <3>2
    <2>7. QED
      BY <1>4, <2>4, <2>5, <2>6 DEF Verifying
  <1>5. ASSUME NEW c \in Calls, Returning(c) \/ Joining(c) \/ Leaving(c)
        PROVE  MailsRest
    <2>1. UNCHANGED codes
      BY <1>1, <1>5, ReturningFrame, JoiningFrame, LeavingFrame
    <2>2. /\ ({"idle"} \cup Returns) \cap Sends = {}
          /\ ({"idle", "identity"} \cup Returns) \cap Sends = {}
          /\ Joins \cap Sends = {} /\ ({"idle"} \cup Joins) \cap Sends = {}
          /\ ({"idle"} \cup Leaves) \cap Sends = {}
      BY DEF Sends, Returns, Joins, Leaves
    <2>3. Still(Sends)
      BY <1>1, <1>5, <2>2, StillMoves, ReturningFrame, JoiningFrame, LeavingFrame
    <2>4. QED
      BY <1>2, <2>1, <2>3 DEF codes
  <1>6. ASSUME Passing PROVE MailsRest
    <2>1. UNCHANGED <<issued, inbox, calls>>
      BY <1>6, PassingFrame
    <2>2. UNCHANGED otp \/ \E email : otp' = [otp EXCEPT ![email] = NoCode]
      BY <1>6
      DEF Passing, BeginAuthorization, WindowEnds, CooldownEnds, CodeExpires,
          StateExpires, SessionExpires, IndexLapses, codes
    <2>3. \A email \in Spellings : otp'[email].code \in {0, otp[email].code}
      BY <1>1, <2>2 DEF NoCode
    <2>4. QED
      BY <1>2, <2>1, <2>3, StillCalls
  <1>7. ASSUME Crash PROVE MailsRest
    BY <1>7 DEF Crash, codes, MailsRest, Sends
  <1>8. QED
    BY <1>3, <1>4, <1>5, <1>6, <1>7, NextParts DEF Serving, Requesting

LEMMA MailStep ==
    ASSUME "requests" \notin Races, TypeOK, CallInv, StoredInv, MailInv, Next
    PROVE  MailInv'
  <1>1. /\ CallsType /\ issued \in 0..MaxCodes /\ MaxCodes \in Nat
        /\ otp \in [Spellings -> [code : 0..MaxCodes, attempts : Nat]]
        /\ inbox \in [Spellings -> Seq(1..MaxCodes)]
        /\ \A email \in Spellings : otp[email].code \in 0..issued
        /\ \A c \in Calls : at[c] \in Sends => job[c].email \in Spellings
    <2>1. \A c \in Calls : at[c] \in Sends => job[c].email \in Spellings
      BY PlainIsSpelled DEF CallInv, Fits
    <2>2. QED
      BY <2>1, TypeCalls, Numbers DEF TypeOK, StoredInv
  <1>2. ASSUME MailsRest PROVE MailInv'
    <2>1. ASSUME NEW c \in Calls, at'[c] = "mail"
          PROVE  /\ otp'[job'[c].email].code \in {0, job'[c].code}
                 /\ \A i \in DOMAIN inbox[job'[c].email] :
                        inbox[job'[c].email][i] # job'[c].code
      <3>1. at[c] = "mail" /\ job'[c] = job[c] /\ job[c].email \in Spellings
        BY <1>1, <1>2, <2>1 DEF MailsRest, Sends
      <3>2. QED
        BY <1>2, <3>1 DEF MailsRest, MailInv
    <2>2. ASSUME NEW email \in Spellings, NEW i \in DOMAIN inbox[email],
                 inbox[email][i] = otp'[email].code
          PROVE  i = Len(inbox[email])
      <3>1. inbox[email][i] # 0
        BY <1>1 DEF MailInv
      <3>2. inbox[email][i] = otp[email].code
        BY <1>2, <2>2, <3>1 DEF MailsRest
      <3>3. QED
        BY <3>2 DEF MailInv, LatestMailWorks
    <2>3. QED
      BY <1>2, <2>1, <2>2 DEF MailsRest, MailInv, LatestMailWorks
  <1>3. ASSUME NEW c \in Calls, NEW typed \in Spellings, RequestCode(c, typed)
        PROVE  MailInv'
    <2> DEFINE email == NormalizeEmail(typed)
    <2>1. /\ UNCHANGED <<otp, issued, inbox>>
          /\ ~Busy(Sends, email)
          /\ \/ UNCHANGED calls
             \/ at'[c] \in {"expire", "cooldown"} /\ job'[c].email = email
          /\ \A d \in Calls : d # c => at'[d] = at[d] /\ job'[d] = job[d]
      BY <1>1, <1>3 DEF RequestCode, Begin, codes, calls, CallsType, NoJob
    <2> HIDE DEF email
    <2>2. CASE UNCHANGED calls
      BY <2>1, <2>2 DEF MailInv, LatestMailWorks, calls
    <2>3. CASE at'[c] \in {"expire", "cooldown"} /\ job'[c].email = email
      <3>1. \A d \in Calls : d # c /\ at'[d] \in Sends => job'[d].email # email
        BY <2>1 DEF Busy
      <3>2. ASSUME NEW d \in Calls, NEW e \in Calls, at'[d] \in Sends, at'[e] \in Sends,
                   job'[d].email = job'[e].email
            PROVE  d = e
        BY <2>1, <2>3, <3>1, <3>2 DEF MailInv
      <3>3. \A d \in Calls : at'[d] = "mail" => at[d] = "mail" /\ job'[d] = job[d]
        BY <2>1, <2>3
      <3>4. QED
        BY <2>1, <3>2, <3>3 DEF MailInv, LatestMailWorks
    <2>4. QED
      BY <2>1, <2>2, <2>3
  <1>4. ASSUME NEW c \in Calls, IssueCode(c) PROVE MailInv'
    <2> DEFINE email == job[c].email
    <2>1. /\ at[c] = "issue" /\ email \in Spellings
          /\ UNCHANGED inbox /\ issued' = issued + 1
          /\ \A e \in Spellings : otp'[e].code =
                IF e = email THEN issued + 1 ELSE otp[e].code
          /\ at'[c] = "mail" /\ job'[c].email = email /\ job'[c].code = issued + 1
          /\ \A d \in Calls : d # c => at'[d] = at[d] /\ job'[d] = job[d]
      <3>1. at[c] = "issue" /\ email \in Spellings
        BY <1>1, <1>4 DEF IssueCode, Sends
      <3>2. otp' = [otp EXCEPT ![email] = [code |-> issued + 1, attempts |-> 0]]
        BY <1>4 DEF IssueCode, Stored
      <3>3. \A e \in Spellings : otp'[e].code =
                IF e = email THEN issued + 1 ELSE otp[e].code
        BY <1>1, <3>2
      <3>4. job[c] \in Job(Len(made))
        BY TypeParts DEF JobType
      <3>5. job'[c] = [job[c] EXCEPT !.code = issued + 1]
        BY <1>1, <1>4 DEF IssueCode, CallsType
      <3>6. job'[c].email = email /\ job'[c].code = issued + 1
        BY <3>4, <3>5 DEF Job
      <3>7. QED
        BY <1>1, <1>4, <3>1, <3>3, <3>6 DEF IssueCode, CallsType
    <2> HIDE DEF email
    <2>2. \A d \in Calls : at[d] \in Sends /\ job[d].email = email => d = c
      BY <2>1 DEF MailInv, email, Sends
    <2>3. \A e \in Spellings : \A i \in DOMAIN inbox[e] :
              inbox[e][i] # issued + 1 /\ inbox[e][i] \in 1..(issued + 1)
      BY <1>1 DEF MailInv
    <2>4. ASSUME NEW d \in Calls, NEW e \in Calls, at'[d] \in Sends, at'[e] \in Sends,
                 job'[d].email = job'[e].email
          PROVE  d = e
      <3>1. \A b \in Calls : at'[b] \in Sends => at[b] \in Sends /\ job'[b].email = job[b].email
        BY <2>1 DEF Sends, email
      <3>2. QED
        BY <2>4, <3>1 DEF MailInv
    <2>5. ASSUME NEW d \in Calls, at'[d] = "mail"
          PROVE  /\ otp'[job'[d].email].code \in {0, job'[d].code}
                 /\ \A i \in DOMAIN inbox[job'[d].email] :
                        inbox[job'[d].email][i] # job'[d].code
      <3>1. CASE d = c
        BY <2>1, <2>3, <3>1
      <3>2. CASE d # c
        <4>1. /\ at[d] = "mail" /\ job'[d] = job[d] /\ job[d].email \in Spellings
              /\ job[d].email # email
          BY <1>1, <2>1, <2>2, <2>5, <3>2 DEF Sends
        <4>2. QED
          BY <2>1, <4>1 DEF MailInv
      <3>3. QED
        BY <3>1, <3>2
    <2>6. ASSUME NEW e \in Spellings, NEW i \in DOMAIN inbox[e],
                 inbox[e][i] = otp'[e].code
          PROVE  i = Len(inbox[e])
      BY <2>1, <2>3, <2>6 DEF MailInv, LatestMailWorks
    <2>7. QED
      BY <2>1, <2>3, <2>4, <2>5, <2>6 DEF MailInv, LatestMailWorks
  <1>5. ASSUME NEW c \in Calls, SendMail(c) PROVE MailInv'
    <2> DEFINE email == job[c].email
               code == job[c].code
    <2>1. /\ at[c] = "mail" /\ email \in Spellings /\ code \in 1..issued
          /\ UNCHANGED <<otp, issued>>
          /\ at'[c] = "idle"
          /\ \A d \in Calls : d # c => at'[d] = at[d] /\ job'[d] = job[d]
          /\ \/ UNCHANGED inbox
             \/ inbox' = [inbox EXCEPT ![email] = Append(@, code)]
      BY <1>1, <1>5 DEF SendMail, Answer, CallsType, CallInv, Fits, Sends
    <2>2. \A d \in Calls : d # c /\ at[d] \in Sends => job[d].email # email
      BY <2>1 DEF MailInv, Sends
    <2>3. /\ otp[email].code \in {0, code}
          /\ \A i \in DOMAIN inbox[email] : inbox[email][i] # code
      BY <2>1 DEF MailInv
    <2> HIDE DEF email, code
    <2>4. \A d \in Calls : at'[d] \in Sends =>
              d # c /\ at'[d] = at[d] /\ job'[d] = job[d]
      BY <2>1 DEF Sends
    <2>5. CASE UNCHANGED inbox
      BY <2>1, <2>4, <2>5 DEF MailInv, LatestMailWorks, Sends
    <2>6. CASE inbox' = [inbox EXCEPT ![email] = Append(@, code)]
      <3> DEFINE old == inbox[email]
                 new == Append(old, code)
      <3>1. old \in Seq(1..MaxCodes) /\ Len(old) \in Nat
        BY <1>1, <2>1
      <3>2. /\ Len(new) = Len(old) + 1 /\ DOMAIN new = 1..(Len(old) + 1)
            /\ DOMAIN old = 1..Len(old)
            /\ new[Len(old) + 1] = code
            /\ \A i \in 1..Len(old) : new[i] = old[i]
        BY <3>1
      <3>3. \A e \in Spellings : inbox'[e] = IF e = email THEN new ELSE inbox[e]
        BY <1>1, <2>6
      <3> HIDE DEF new
      <3>4. /\ \A i \in DOMAIN old : old[i] \in 1..issued
            /\ \A i \in DOMAIN old : old[i] # code
        BY <2>1, <2>3 DEF MailInv
      <3> HIDE DEF old
      <3>5. \A i \in DOMAIN new : new[i] \in 1..issued
        BY <2>1, <3>1, <3>2, <3>4
      <3>6. \A i \in DOMAIN new : new[i] = otp[email].code => i = Len(new)
        BY <2>3, <3>1, <3>2, <3>4, <3>5
      <3>7. ASSUME NEW d \in Calls, at'[d] = "mail"
            PROVE  /\ otp[job'[d].email].code \in {0, job'[d].code}
                   /\ \A i \in DOMAIN inbox'[job'[d].email] :
                          inbox'[job'[d].email][i] # job'[d].code
        <4>1. /\ at[d] = "mail" /\ job'[d] = job[d] /\ job[d].email \in Spellings
              /\ job[d].email # email
          BY <1>1, <2>2, <2>4, <3>7 DEF Sends
        <4>2. QED
          BY <3>3, <4>1 DEF MailInv
      <3>8. ASSUME NEW d \in Calls, NEW e \in Calls, at'[d] \in Sends, at'[e] \in Sends,
                   job'[d].email = job'[e].email
            PROVE  d = e
        BY <2>4, <3>8 DEF MailInv
      <3>9. ASSUME NEW e \in Spellings
            PROVE  /\ \A i \in DOMAIN inbox'[e] : inbox'[e][i] \in 1..issued
                   /\ \A i \in DOMAIN inbox'[e] :
                          inbox'[e][i] = otp[e].code => i = Len(inbox'[e])
        BY <3>3, <3>5, <3>6 DEF MailInv, LatestMailWorks
      <3>10. QED
        BY <2>1, <3>7, <3>8, <3>9 DEF MailInv, LatestMailWorks
    <2>7. QED
      BY <2>1, <2>5, <2>6
  <1>6. QED
    BY <1>2, <1>3, <1>4, <1>5, MailsFrame

-----------------------------------------------------------------------------
(* Sessions.                                                               *)

Outs == {"logout all", "list", "revoke"}

\* A step after which there are no more sessions, and nobody more signs out
\* everywhere, than before.
SessionsRest ==
    /\ UNCHANGED made /\ live' \subseteq live
    /\ \A c \in Calls : at'[c] \in Outs => at[c] \in Outs /\ job'[c] = job[c]
    /\ \A c \in Calls : at'[c] = "revoke" => at[c] = "revoke"

LEMMA SessionsFrame ==
    ASSUME TypeOK, Next
    PROVE  \/ SessionsRest /\ UNCHANGED index
           \/ \E c \in Calls :
                 \/ CreateSession(c)
                 \/ \E s \in live, what \in {"me", "logout", "logout all"} :
                       ReadSession(c, s, what)
                 \/ DestroySession(c) \/ ListSessions(c) \/ RevokeSessions(c)
           \/ \E user \in Users : IndexLapses(user)
  <1>1. CallsType
    BY TypeCalls
  <1>2. ASSUME UNCHANGED made, live' \subseteq live, Still(Outs) PROVE SessionsRest
    BY <1>2 DEF SessionsRest, Still, Outs
  <1>3. ASSUME NEW c \in Calls, Requesting(c) \/ Verifying(c) \/ Returning(c)
        PROVE  SessionsRest /\ UNCHANGED index
    <2>1. UNCHANGED sessions
      BY <1>1, <1>3, RequestingFrame, VerifyingFrame, ReturningFrame
    <2>2. /\ ({"idle"} \cup Sends) \cap Outs = {}
          /\ ({"idle"} \cup Checks) \cap Outs = {}
          /\ ({"idle", "identity"} \cup Checks) \cap Outs = {}
          /\ ({"idle"} \cup Returns) \cap Outs = {}
          /\ ({"idle", "identity"} \cup Returns) \cap Outs = {}
      BY DEF Outs, Sends, Checks, Returns
    <2>3. Still(Outs)
      BY <1>1, <1>3, <2>2, StillMoves, StillCalls, RequestingFrame, VerifyingFrame,
         ReturningFrame
    <2>4. QED
      BY <1>2, <2>1, <2>3 DEF sessions
  <1>4. ASSUME NEW c \in Calls, Joining(c), ~CreateSession(c)
        PROVE  SessionsRest /\ UNCHANGED index
    <2>1. UNCHANGED sessions
      BY <1>4 DEF Joining, FindIdentity, FindByEmail, Link, CreateUser
    <2>2. Joins \cap Outs = {} /\ ({"idle"} \cup Joins) \cap Outs = {}
      BY DEF Outs, Joins
    <2>3. Still(Outs)
      BY <1>1, <1>4, <2>2, StillMoves, JoiningFrame
    <2>4. QED
      BY <1>2, <2>1, <2>3 DEF sessions
  <1>5. ASSUME NEW c \in Calls, SlideSession(c) PROVE SessionsRest /\ UNCHANGED index
    BY <1>1, <1>5
    DEF SlideSession, Slid, Goto, Answer, SessionsRest, Outs, CallsType
  <1>6. ASSUME Passing
        PROVE  \/ SessionsRest /\ UNCHANGED index
               \/ \E user \in Users : IndexLapses(user)
    <2>1. UNCHANGED <<made, calls>> /\ live' \subseteq live
      BY <1>6, PassingFrame
    <2>2. UNCHANGED index \/ \E user \in Users : IndexLapses(user)
      BY <1>6
      DEF Passing, BeginAuthorization, WindowEnds, CooldownEnds, CodeExpires,
          StateExpires, SessionExpires, sessions
    <2>3. QED
      BY <1>2, <2>1, <2>2, StillCalls
  <1>7. ASSUME Crash PROVE SessionsRest /\ UNCHANGED index
    BY <1>7 DEF Crash, sessions, SessionsRest, Outs
  <1>8. QED
    BY <1>3, <1>4, <1>5, <1>6, <1>7, NextParts DEF Serving, Leaving

\* With sessions and their users as they were, what was so of requests that
\* sign out everywhere still is.
LEMMA RestKeepsSessions ==
    ASSUME SessionInv, SessionsRest, IndexCoversSessions'
    PROVE  SessionInv'
  <1>2. ASSUME NEW c \in Calls, at'[c] = "revoke", NEW s \in live',
               made'[s].user = made'[job'[c].n].user
        PROVE  s \in job'[c].hashes
    <2>1. at[c] = "revoke" /\ job'[c] = job[c] /\ made' = made /\ s \in live
      BY <1>2 DEF SessionsRest, Outs
    <2>2. QED
      BY <1>2, <2>1 DEF SessionInv
  <1>3. ASSUME NEW c \in Calls, at'[c] \in Outs
        PROVE  \A s \in job'[c].before : made'[s].user = made'[job'[c].n].user
    BY <1>3 DEF SessionsRest, SessionInv, Outs
  <1>4. QED
    BY <1>2, <1>3 DEF SessionInv, Outs

LEMMA SessionStep ==
    ASSUME {"everywhere", "lapse"} \cap Races = {}, TypeOK, CallInv, PeopleInv,
           SessionInv, Next
    PROVE  SessionInv'
  <1>1. /\ SessionsType /\ CallsType /\ Len(made) \in Nat
        /\ \A s \in Sessions : made[s].user \in Users
        /\ \A c \in Calls : at[c] \in Leaves => job[c].n \in Sessions
        /\ \A c \in Calls : job[c] \in Job(Len(made))
    <2>1. SessionsType /\ CallsType /\ \A c \in Calls : job[c] \in Job(Len(made))
      BY TypeParts, TypeCalls DEF JobType
    <2>2. \A c \in Calls : at[c] \in Leaves => job[c].n \in Sessions
      BY DEF CallInv, Fits, Leaves, Sessions
    <2>3. QED
      BY <2>1, <2>2, MadeType
  <1>2. CASE SessionsRest /\ UNCHANGED index
    <2>1. IndexCoversSessions'
      BY <1>2 DEF SessionsRest, SessionInv, IndexCoversSessions
    <2>2. QED
      BY <1>2, <2>1, RestKeepsSessions
  <1>3. ASSUME NEW c \in Calls, CreateSession(c) PROVE SessionInv'
    <2> DEFINE user == job[c].n
               s == Len(made) + 1
               m == [user |-> user, key |-> job[c].key]
    <2>1. /\ at[c] = "session" /\ at'[c] = "idle"
          /\ \A d \in Calls : d # c => at'[d] = at[d] /\ job'[d] = job[d]
          /\ made' = Append(made, m)
          /\ live' = live \cup {s}
          /\ index' = [index EXCEPT ![user] = @ \cup {s}]
          /\ \A d \in Calls : ~(at[d] = "revoke" /\ made[job[d].n].user = user)
      BY <1>1, <1>3 DEF CreateSession, Indexed, Answer, CallsType
    <2>2. user \in Users
      BY <1>3, RoomForAll DEF CallInv, Fits, CreateSession, PeopleInv
    <2>3. /\ Sessions' = Sessions \cup {s} /\ s \notin Sessions
          /\ \A r \in Sessions : made'[r] = made[r]
          /\ made'[s].user = user
      <3>1. made \in Seq([user : Users, key : Keys])
        BY <1>1 DEF SessionsType
      <3> HIDE DEF m
      <3>2. /\ Len(made') = s /\ made'[s] = m
            /\ \A r \in 1..Len(made) : made'[r] = made[r]
        BY <1>1, <2>1, <3>1
      <3>3. QED
        BY <1>1, <3>2 DEF Sessions, m
    <2> HIDE DEF m, s
    <2>4. live \subseteq Sessions /\ index \in [Users -> SUBSET Sessions]
      BY <1>1 DEF SessionsType
    <2>5. IndexCoversSessions'
      <3>1. ASSUME NEW r \in live PROVE r \in index'[made'[r].user]
        <4>1. r \in Sessions /\ made'[r] = made[r] /\ r \in index[made[r].user]
          BY <2>3, <2>4 DEF SessionInv, IndexCoversSessions
        <4>2. QED
          BY <1>1, <2>1, <2>4, <4>1
      <3>2. s \in index'[made'[s].user]
        BY <2>1, <2>2, <2>3, <2>4
      <3>3. QED
        BY <2>1, <3>1, <3>2 DEF IndexCoversSessions
    <2>6. ASSUME NEW d \in Calls, at'[d] \in Leaves
          PROVE  /\ at[d] = at'[d] /\ job'[d] = job[d] /\ job[d].n \in Sessions
                 /\ made'[job[d].n] = made[job[d].n]
      BY <1>1, <2>1, <2>3, <2>6 DEF Leaves
    <2>7. ASSUME NEW d \in Calls, at'[d] = "revoke", NEW r \in live',
                 made'[r].user = made'[job'[d].n].user
          PROVE  r \in job'[d].hashes
      <3>1. /\ at[d] = "revoke" /\ job'[d] = job[d]
            /\ made'[job[d].n] = made[job[d].n]
        BY <2>6, <2>7 DEF Leaves
      <3>2. made[job[d].n].user # user
        BY <2>1, <3>1
      <3>3. r \in live /\ made'[r] = made[r]
        BY <2>1, <2>3, <2>4, <2>7, <3>1, <3>2
      <3>4. QED
        BY <2>7, <3>1, <3>3 DEF SessionInv
    <2>8. ASSUME NEW d \in Calls, at'[d] \in Outs, NEW r \in job'[d].before
          PROVE  made'[r].user = made'[job'[d].n].user
      <3>1. /\ at[d] \in Outs /\ job'[d] = job[d]
            /\ made'[job[d].n] = made[job[d].n]
        BY <2>6, <2>8 DEF Leaves, Outs
      <3>2. r \in Sessions
        BY <1>1, <2>8, <3>1 DEF Job, Sessions
      <3>3. QED
        BY <2>3, <2>8, <3>1, <3>2 DEF SessionInv, Outs
    <2>9. QED
      BY <2>5, <2>7, <2>8 DEF SessionInv, Outs
  <1>4. ASSUME NEW c \in Calls, NEW s \in live, NEW what \in {"me", "logout", "logout all"},
               ReadSession(c, s, what)
        PROVE  SessionInv'
    <2>1. /\ UNCHANGED <<live, made, index>>
          /\ at'[c] = what /\ job'[c].n = s
          /\ what = "logout all" => job'[c].before = SessionsOf(made[s].user)
          /\ \A d \in Calls : d # c => at'[d] = at[d] /\ job'[d] = job[d]
      BY <1>1, <1>4 DEF ReadSession, Begin, CallsType, NoJob, sessions
    <2>3. \A d \in Calls : at'[d] = "revoke" => d # c
      BY <2>1
    <2>4. ASSUME NEW d \in Calls, at'[d] \in Outs, NEW r \in job'[d].before
          PROVE  made[r].user = made[job'[d].n].user
      <3>1. CASE d = c
        BY <2>1, <2>4, <3>1 DEF Outs, SessionsOf
      <3>2. CASE d # c
        BY <2>1, <2>4, <3>2 DEF SessionInv, Outs
      <3>3. QED
        BY <3>1, <3>2
    <2>5. ASSUME NEW d \in Calls, at'[d] = "revoke", NEW r \in live,
                 made[r].user = made[job'[d].n].user
          PROVE  r \in job'[d].hashes
      BY <2>1, <2>3, <2>5 DEF SessionInv
    <2>6. QED
      BY <2>1, <2>4, <2>5 DEF SessionInv, IndexCoversSessions, Outs
  <1>5. ASSUME NEW c \in Calls, DestroySession(c) PROVE SessionInv'
    <2> DEFINE s == job[c].n
    <2>1. /\ UNCHANGED made /\ live' = live \ {s}
          /\ index' = [index EXCEPT ![made[s].user] = @ \ {s}]
          /\ SessionsRest
      BY <1>1, <1>5 DEF DestroySession, Answer, CallsType, SessionsRest, Outs
    <2>2. IndexCoversSessions'
      BY <1>1, <2>1 DEF SessionInv, IndexCoversSessions, SessionsType
    <2>3. QED
      BY <2>1, <2>2, RestKeepsSessions
  <1>6. ASSUME NEW c \in Calls, ListSessions(c) PROVE SessionInv'
    <2> DEFINE user == made[job[c].n].user
               listed == index[user]
    <2>1. /\ at[c] = "list" /\ UNCHANGED <<live, made, index>>
          /\ \A d \in Calls : d # c => at'[d] = at[d] /\ job'[d] = job[d]
          /\ \/ at'[c] = "idle"
             \/ at'[c] = "revoke" /\ job'[c] = [job[c] EXCEPT !.hashes = listed]
      BY <1>1, <1>6 DEF ListSessions, Answer, CallsType, sessions
    <2>2. \A r \in live : made[r].user = user => r \in listed
      BY DEF SessionInv, IndexCoversSessions
    <2>3. job[c] \in Job(Len(made))
      BY <1>1
    <2> HIDE DEF listed
    <2>4. ASSUME at'[c] = "revoke"
          PROVE  /\ job'[c].hashes = listed /\ job'[c].n = job[c].n
                 /\ job'[c].before = job[c].before
      BY <2>1, <2>3, <2>4 DEF Job
    <2>6. ASSUME NEW d \in Calls, at'[d] = "revoke", NEW r \in live,
                 made[r].user = made[job'[d].n].user
          PROVE  r \in job'[d].hashes
      <3>1. CASE d = c
        BY <2>2, <2>4, <2>6, <3>1
      <3>2. CASE d # c
        BY <2>1, <2>6, <3>2 DEF SessionInv
      <3>3. QED
        BY <3>1, <3>2
    <2>7. ASSUME NEW d \in Calls, at'[d] \in Outs, NEW r \in job'[d].before
          PROVE  made[r].user = made[job'[d].n].user
      <3>1. CASE d = c
        BY ZenonT(60), <2>1, <2>4, <2>7, <3>1 DEF SessionInv, Outs
      <3>2. CASE d # c
        BY ZenonT(60), <2>1, <2>7, <3>2 DEF SessionInv, Outs
      <3>3. QED
        BY <3>1, <3>2
    <2>8. QED
      BY <2>1, <2>6, <2>7 DEF SessionInv, IndexCoversSessions, Outs
  <1>7. ASSUME NEW c \in Calls, RevokeSessions(c) PROVE SessionInv'
    <2> DEFINE user == made[job[c].n].user
    <2>1. /\ at[c] = "revoke"
          /\ UNCHANGED made /\ live' = live \ job[c].hashes
          /\ index' = [index EXCEPT ![user] = {}]
          /\ SessionsRest
      BY <1>1, <1>7 DEF RevokeSessions, Listed, Answer, CallsType, SessionsRest, Outs
    <2>2. \A s \in live' : made[s].user # user
      BY <2>1 DEF SessionInv
    <2>3. IndexCoversSessions'
      BY <1>1, <2>1, <2>2 DEF SessionInv, IndexCoversSessions, SessionsType
    <2>4. QED
      BY <2>1, <2>3, RestKeepsSessions
  <1>8. ASSUME NEW user \in Users, IndexLapses(user) PROVE SessionInv'
    <2>1. /\ UNCHANGED <<live, made, calls>> /\ SessionsOf(user) = {}
          /\ index' = [index EXCEPT ![user] = {}]
      BY <1>8 DEF IndexLapses
    <2>2. SessionsRest
      BY <2>1 DEF SessionsRest, calls
    <2>3. IndexCoversSessions'
      BY <1>1, <2>1 DEF SessionInv, IndexCoversSessions, SessionsType, SessionsOf
    <2>4. QED
      BY <2>2, <2>3, RestKeepsSessions
  <1>9. QED
    BY <1>2, <1>3, <1>4, <1>5, <1>6, <1>7, <1>8, SessionsFrame

\* Only a request itself leaves "list" and "revoke", by the step that waits
\* there.
LEMMA OnlyOuts ==
    ASSUME TypeOK, Next, faults' = faults, NEW c \in Calls,
           at[c] \in {"list", "revoke"}, at'[c] = "idle"
    PROVE  ListSessions(c) \/ RevokeSessions(c)
  <1>1. CallsType
    BY TypeCalls
  <1>2. ASSUME NEW d \in Calls, Requesting(d) \/ Verifying(d) \/ Returning(d) \/ Joining(d)
        PROVE  at'[c] = at[c]
    <2>1. /\ {"list", "revoke"} \cap ({"idle"} \cup Sends) = {}
          /\ {"list", "revoke"} \cap ({"idle"} \cup Checks) = {}
          /\ {"list", "revoke"} \cap ({"idle"} \cup Returns) = {}
          /\ {"list", "revoke"} \cap Joins = {}
      BY DEF Sends, Checks, Returns, Joins
    <2>2. CASE UNCHANGED calls
      BY <2>2 DEF calls
    <2>3. CASE c # d
      BY <1>1, <1>2, <2>3, <2>2, RequestingFrame, VerifyingFrame, ReturningFrame,
         JoiningFrame DEF Moves
    <2>4. CASE c = d
      BY <1>1, <1>2, <2>1, <2>2, <2>4, RequestingFrame, VerifyingFrame,
         ReturningFrame, JoiningFrame DEF Moves
    <2>5. QED
      BY <2>3, <2>4
  <1>3. ASSUME NEW d \in Calls, Leaving(d)
        PROVE  ListSessions(c) \/ RevokeSessions(c)
    <2>1. c = d
      BY <1>1, <1>3, LeavingFrame DEF Moves
    <2>2. QED
      BY <1>1, <1>3, <2>1
      DEF Leaving, ReadSession, Begin, SlideSession, DestroySession
  <1>4. ~Passing
    BY PassingFrame DEF calls
  <1>5. ~Crash
    BY Numbers DEF Crash, TypeOK
  <1>6. QED
    BY <1>2, <1>3, <1>4, <1>5, NextParts DEF Serving

\* The sessions there were when a request began to sign its user out are all
\* that user's, so all of them are indexed, listed or gone.
LEMMA NoneIsLeft ==
    ASSUME TypeOK, CallInv, SessionInv, Next, faults' = faults, NEW c \in Calls,
           at[c] \in {"list", "revoke"}, at'[c] = "idle"
    PROVE  job[c].before \cap live' = {}
  <1> DEFINE user == made[job[c].n].user
  <1>1. \A s \in job[c].before : made[s].user = user
    BY DEF SessionInv
  <1>2. CASE ListSessions(c)
    <2>1. index[user] = {} /\ UNCHANGED live
      BY <1>2, TypeCalls DEF ListSessions, sessions, CallsType
    <2>2. \A s \in live : made[s].user # user
      BY <2>1 DEF SessionInv, IndexCoversSessions
    <2>3. QED
      BY <1>1, <2>1, <2>2
  <1>3. CASE RevokeSessions(c)
    <2>1. at[c] = "revoke" /\ live' = live \ job[c].hashes
      BY <1>3 DEF RevokeSessions, Listed
    <2>2. QED
      BY <1>1, <2>1 DEF SessionInv
  <1>4. QED
    BY <1>2, <1>3, OnlyOuts

-----------------------------------------------------------------------------
(* What holds while some races are left out.                               *)

\* otp.ts: unless two verifications of an address race, a code lets one person
\* in, and is compared with no more guesses than it may be.
THEOREM CodesAreSingleUse ==
    ASSUME "verifies" \notin Races
    PROVE  Spec => [](CodeWorksOnce /\ GuessesAreCounted)
  <1>1. Init => CodeInv
    BY Numbers
    DEF Init, CodeInv, CheckInv, FreshInv, GuessInv, CodeWorksOnce,
        GuessesAreCounted, NoCode, Checks, Holds
  <1>2. IInv /\ CodeInv /\ [Next]_vars => CodeInv'
    <2>1. ASSUME IInv, CodeInv, Next PROVE CodeInv'
      BY <2>1, CodeStep DEF IInv
    <2>2. ASSUME CodeInv, UNCHANGED vars PROVE CodeInv'
      BY <2>2
      DEF vars, codes, calls, CodeInv, CheckInv, FreshInv, GuessInv, CodeWorksOnce,
          GuessesAreCounted, Holds, Busy
    <2>3. QED
      BY <2>1, <2>2
  <1>3. CodeInv => CodeWorksOnce /\ GuessesAreCounted
    BY DEF CodeInv, FreshInv, GuessInv
  <1>4. QED
    BY <1>1, <1>2, <1>3, Invariance, PTL DEF Spec

\* routes/auth.ts: unless two requests for an address race, the code that is
\* stored is the one mailed last, if its mail arrived.
THEOREM LastMailCounts ==
    ASSUME "requests" \notin Races
    PROVE  Spec => []LatestMailWorks
  <1>1. Init => MailInv
    BY DEF Init, MailInv, LatestMailWorks, Sends
  <1>2. IInv /\ MailInv /\ [Next]_vars => MailInv'
    <2>1. ASSUME IInv, MailInv, Next PROVE MailInv'
      BY <2>1, MailStep DEF IInv
    <2>2. ASSUME MailInv, UNCHANGED vars PROVE MailInv'
      BY <2>2 DEF vars, codes, calls, MailInv, LatestMailWorks
    <2>3. QED
      BY <2>1, <2>2
  <1>3. MailInv => LatestMailWorks
    BY DEF MailInv
  <1>4. QED
    BY <1>1, <1>2, <1>3, Invariance, PTL DEF Spec

\* All that is said of codes, while neither kind of race happens.
THEOREM CodesSound ==
    ASSUME {"requests", "verifies"} \cap Races = {}
    PROVE  Spec => []CodesAreSound
  <1>1. "requests" \notin Races /\ "verifies" \notin Races
    OBVIOUS
  <1>2. Spec => [](CodeWorksOnce /\ GuessesAreCounted)
    BY <1>1, CodesAreSingleUse
  <1>3. Spec => []LatestMailWorks
    BY <1>1, LastMailCounts
  <1>4. QED
    BY <1>2, <1>3, Invariance, PTL DEF IInv, CodesAreSound

\* session.ts: unless a session is made while its user signs out everywhere, or
\* outlives the index, the index has every live session, what has ended stays
\* ended, and signing out everywhere ends all the sessions there were.
THEOREM SessionsEndForAll ==
    ASSUME {"everywhere", "lapse"} \cap Races = {}
    PROVE  Spec => SessionsEnd
  <1>1. Init => SessionInv
    BY DEF Init, SessionInv, IndexCoversSessions
  <1>2. IInv /\ SessionInv /\ [Next]_vars => SessionInv'
    <2>1. ASSUME IInv, SessionInv, Next PROVE SessionInv'
      BY <2>1, SessionStep DEF IInv
    <2>2. ASSUME SessionInv, UNCHANGED vars PROVE SessionInv'
      BY <2>2 DEF vars, sessions, calls, SessionInv, IndexCoversSessions
    <2>3. QED
      BY <2>1, <2>2
  <1>3. Spec => []SessionInv
    BY <1>1, <1>2, Invariance, PTL DEF Spec
  <1>4. SessionInv => IndexCoversSessions
    BY DEF SessionInv
  <1>5. IInv /\ SessionInv /\ [Next]_vars
          => [\A c \in Calls :
                 /\ at[c] \in {"list", "revoke"}
                 /\ at'[c] = "idle"
                 /\ faults' = faults
                 => job[c].before \cap live' = {}]_vars
    BY NoneIsLeft DEF IInv
  <1>6. QED
    BY <1>3, <1>4, <1>5, Invariance, EndedStaysEnded, PTL
    DEF Spec, SessionsEnd, EverywhereMeansEverywhere
=============================================================================
