----------------------------- MODULE Awareness ------------------------------
(***************************************************************************)
(* Cursors, names and selections: the Yjs awareness protocol between the   *)
(* pages of a board (front-end realtime/board-session.ts, presence.ts) and *)
(* the server, which says who may speak for a client id and retracts it    *)
(* when its last socket is gone (realtime/awareness.ts, gateway.ts).       *)
(*                                                                         *)
(* A page keeps its client id, its key and what it has heard of the others *)
(* across reconnects; each connection is a new socket <<page, n>>, and the *)
(* server may notice long after the page that one is dead.  A state is one *)
(* value: every announcement carries the whole of it.                      *)
(***************************************************************************)
EXTENDS Naturals, Sequences

CONSTANTS
    Pages,       \* open pages: a client id and a presence key each
    Values,      \* what a page can say of itself
    Null,        \* the state of a page that has none, or nobody
    MaxSays,     \* bound: announcements other than a joining page's
    Returning,   \* bound: the pages that connect twice, others do once
    MaxFaults    \* bound: announcements over the rate limit, 30 seconds without
                 \* news of a page that is there, sockets the server drops first

ASSUME AwarenessAssumption ==
    /\ Null \notin Pages \cup Values
    /\ Returning \subseteq Pages /\ {MaxSays, MaxFaults} \subseteq Nat

MaxSockets(p) == IF p \in Returning THEN 2 ELSE 1
Sockets == {s \in Pages \X (1..2) : s[2] <= MaxSockets(s[1])}

VARIABLES
    socket,    \* a page's connection, 0 when it has none
    tries,     \* how many it has had
    closed,    \* the pages that have been destroyed
    view,      \* what a page knows of each client id, its own among them
    seat,      \* a socket at the server: "new", in the room ("in") or "out"
    up, down,  \* frames on the way to the server and from it
    owner,     \* who may speak for a client id, and through which sockets
    clients,   \* a socket's awarenessClients
    states,    \* the server's Awareness
    unheard,   \* history: pages with news not accepted, or let go as silent
    muted,     \* history: pages the server let go as silent, or of which it
               \* relayed late word that it did not apply
    stale,     \* history: what a page still shows that left while it was away
    says, faults

past   == <<unheard, muted, stale>>
page   == <<socket, tries, closed, view>>
server == <<seat, owner, clients, states>>
bounds == <<says, faults>>
vars   == <<page, up, down, server, past, bounds>>

Fault == faults < MaxFaults /\ faults' = faults + 1 /\ UNCHANGED says

live == {s \in Sockets : seat[s] = "in"}

Nobody  == [key |-> Null, sockets |-> {}]
Unknown == [clock |-> 0, state |-> Null]
Entry(p, known) == [id |-> p, clock |-> known.clock, state |-> known.state]
Entries(known) == {Entry(p, known[p]) : p \in {q \in Pages : known[q].state # Null}}

\* A frame is a set of entries; "joined" is board:joined with the frame of
\* everyone present behind it.
Frame(what, entries) == [what |-> what, entries |-> entries]

-----------------------------------------------------------------------------
(* y-protocols.                                                            *)

\* applyAwarenessUpdate takes an entry that is newer, or a retraction of the
\* same clock.
News(known, e) ==
    \/ known.clock < e.clock
    \/ known.clock = e.clock /\ e.state = Null /\ known.state # Null

\* A page never lets go of its own state: it outbids the retraction.
Heard(self, known, e) ==
    IF ~News(known, e) THEN known
    ELSE IF e.state = Null /\ e.id = self /\ known.state # Null
         THEN [known EXCEPT !.clock = e.clock + 1]
    ELSE [clock |-> e.clock, state |-> e.state]

Apply(self, known, entries) ==
    [p \in Pages |->
        LET about == {e \in entries : e.id = p} IN
        IF about = {} THEN known[p]
        ELSE Heard(self, known[p], CHOOSE e \in about : TRUE)]

-----------------------------------------------------------------------------
(* A page.                                                                 *)

\* onAwarenessUpdate relays what did not come from the server, while there is
\* a connection; a socket the server has dropped carries nothing.
Emit(p, entry) ==
    LET s == <<p, socket[p]>> IN
    IF socket[p] = 0 \/ seat[s] = "out" THEN UNCHANGED up
    ELSE up' = [up EXCEPT ![s] = Append(@, {entry})]

Own(p) == view[p][p]

\* publish of a cursor, setSelection, setRole, and the announcement that
\* y-protocols repeats every 15 seconds: setLocalState, with the whole of the
\* page's state and one clock on.
Say(p, v) ==
    LET now == [clock |-> Own(p).clock + 1, state |-> v] IN
    /\ p \notin closed /\ says < MaxSays
    /\ says' = says + 1
    /\ view' = [view EXCEPT ![p][p] = now]
    /\ Emit(p, Entry(p, now))
    /\ UNCHANGED <<socket, tries, closed, down, server, past, faults>>

Connect(p) ==
    /\ p \notin closed /\ socket[p] = 0 /\ tries[p] < MaxSockets(p)
    /\ tries' = [tries EXCEPT ![p] = @ + 1]
    /\ socket' = [socket EXCEPT ![p] = tries[p] + 1]
    /\ UNCHANGED <<closed, view, up, down, server, past, bounds>>

\* The page loses its connection: some of what it sent arrives, nothing of
\* what it was sent.
LoseConnection(p) ==
    LET s == <<p, socket[p]>> IN
    /\ socket[p] # 0
    /\ \E n \in 0..Len(up[s]) : up' = [up EXCEPT ![s] = SubSeq(@, 1, n)]
    /\ down' = [down EXCEPT ![s] = <<>>]
    /\ socket' = [socket EXCEPT ![p] = 0]
    /\ UNCHANGED <<tries, closed, view, server, past, bounds>>

\* destroy: the page retracts itself and disconnects.
Leave(p) ==
    /\ p \notin closed
    /\ view' = [view EXCEPT ![p][p] = [clock |-> @.clock + 1, state |-> Null]]
    /\ Emit(p, Entry(p, view'[p][p]))
    /\ down' = [s \in Sockets |-> IF s[1] = p THEN <<>> ELSE down[s]]
    /\ socket' = [socket EXCEPT ![p] = 0]
    /\ closed' = closed \cup {p}
    /\ UNCHANGED <<tries, server, past, bounds>>

Visible(b) == {c \in Pages \ {b} : view[b][c].state # Null}

\* The handlers of board:joined, which republishes everything this page says
\* of itself (its colour may have changed), and of awareness:update, which
\* does not echo what it applies.
Receive(b) ==
    LET s == <<b, socket[b]>>  frame == Head(down[s]) IN
    /\ socket[b] # 0 /\ down[s] # <<>>
    /\ down' = [down EXCEPT ![s] = Tail(@)]
    /\ LET heard == Apply(b, view[b], frame.entries)
           told  == {e.id : e \in {f \in frame.entries : f.clock >= view[b][f.id].clock}} IN
       IF frame.what = "joined"
       THEN /\ \E v \in Values :
                LET now == [clock |-> Own(b).clock + 1, state |-> v] IN
                /\ view' = [view EXCEPT ![b] = Apply(b, [@ EXCEPT ![b] = now], frame.entries)]
                /\ Emit(b, Entry(b, now))
            /\ stale' = [stale EXCEPT ![b] = Visible(b) \ told]
       ELSE /\ view' = [view EXCEPT ![b] = heard]
            /\ stale' = [stale EXCEPT ![b] = @ \ {c \in told : heard[c] # view[b][c]}]
            /\ UNCHANGED up
    /\ UNCHANGED <<socket, tries, closed, server, unheard, muted, bounds>>

\* 30 seconds without news: y-protocols removes the peer, and the page relays
\* that like anything else it did not hear from the server.
PeerTimesOut(b, c) ==
    /\ b \notin closed /\ c \in Visible(b)
    /\ IF socket[c] # 0
       THEN Fault ELSE UNCHANGED bounds
    /\ view' = [view EXCEPT ![b][c].state = Null]
    /\ Emit(b, Entry(c, view'[b][c]))
    /\ stale' = [stale EXCEPT ![b] = @ \ {c}]
    /\ unheard' = unheard \cup {c}
    /\ UNCHANGED <<socket, tries, closed, down, server, muted>>

-----------------------------------------------------------------------------
(* The server.                                                             *)

Broadcast(to, frame) ==
    down' = [s \in Sockets |->
                IF s \in to /\ socket[s[1]] = s[2] THEN Append(down[s], frame) ELSE down[s]]

\* joinBoard from socket.join on.  A frame sent before the listeners were on
\* may have come too early.
Join(s) ==
    /\ seat[s] = "new" /\ s[2] <= tries[s[1]]
    /\ seat' = [seat EXCEPT ![s] = "in"]
    /\ Broadcast({s}, Frame("joined", Entries(states)))
    /\ \E n \in 0..Len(up[s]) : up' = [up EXCEPT ![s] = SubSeq(@, n + 1, Len(@))]
    /\ UNCHANGED <<page, owner, clients, states, past, bounds>>

\* claim: an owned id goes by its key, a free one to who first says something
\* of it, and not to who retracts it.
MayClaim(s, e) ==
    IF owner[e.id] # Nobody THEN owner[e.id].key = s[1] ELSE e.state # Null

\* Mutant: an update is relayed as it came.
AsItArrived(own, entries) == entries

\* What is applied and relayed: the sender's own part of the update.
Allowed(own, entries) == own

\* The AWARENESS_UPDATE listener with applyClientAwareness: the entries this
\* socket has no claim to are cut out.
Accept(s) ==
    LET entries == Head(up[s])
        own     == {e \in entries : MayClaim(s, e)}
        ids     == {e.id : e \in own}
        allowed == Allowed(own, entries) IN
    /\ s \in live /\ up[s] # <<>>
    /\ up' = [up EXCEPT ![s] = Tail(@)]
    /\ owner' = [p \in Pages |->
                    IF p \in ids THEN [key     |-> s[1],
                                       sockets |-> owner[p].sockets \cup {s}]
                    ELSE owner[p]]
    /\ clients' = [clients EXCEPT ![s] = @ \cup ids]
    /\ states' = Apply(Null, states, allowed)
    /\ IF allowed = {} THEN UNCHANGED down ELSE Broadcast(live \ {s}, Frame("update", allowed))
    /\ LET news == {p \in ids : Entry(p, Own(p)) \in own}
           late == {e.id : e \in {f \in own : f.state # Null /\ ~News(states[f.id], f)}} IN
       /\ unheard' = unheard \ news
       /\ muted' = (muted \ news) \cup late
    /\ UNCHANGED <<page, seat, stale, bounds>>

\* Over the rate limit: dropped, and not asked for again.
Drop(s) ==
    /\ s \in live /\ up[s] # <<>> /\ Fault
    /\ up' = [up EXCEPT ![s] = Tail(@)]
    /\ unheard' = unheard \cup {e.id : e \in Head(up[s])}
    /\ UNCHANGED <<page, down, server, muted, stale>>

\* Mutants: a socket that goes takes all its client ids away, or none.
AllOf(s) == clients[s]
NoneOf(s) == {}

\* The client ids that nobody else holds, and what the room is told of them by
\* the listener on the awareness itself.
Gone(s) == {p \in clients[s] : owner[p].sockets = {s}}

Retractions(gone) ==
    {Entry(p, [states[p] EXCEPT !.state = Null]) : p \in {q \in gone : states[q].state # Null}}

\* The disconnect listener: releaseClients, untrackSocket.  The server may learn of it before the
\* page does, or long after the page has come back.
ServerNotices(s) ==
    LET current == socket[s[1]] = s[2]
        gone == Gone(s)
        out  == Retractions(gone) IN
    /\ s \in live
    /\ IF current THEN Fault ELSE up[s] = <<>> /\ UNCHANGED bounds
    /\ seat' = [seat EXCEPT ![s] = "out"]
    /\ up' = [up EXCEPT ![s] = <<>>]
    /\ owner' = [p \in Pages |->
                    IF p \in gone THEN Nobody
                    ELSE IF p \in clients[s] THEN [owner[p] EXCEPT !.sockets = @ \ {s}]
                    ELSE owner[p]]
    /\ clients' = [clients EXCEPT ![s] = {}]
    /\ states' = [p \in Pages |-> IF p \in gone THEN [states[p] EXCEPT !.state = Null]
                                  ELSE states[p]]
    /\ IF out = {} THEN UNCHANGED down ELSE Broadcast(live \ {s}, Frame("update", out))
    /\ UNCHANGED <<page, past>>

\* The server's own 30 seconds: the removal does not come from SERVER_ORIGIN,
\* so nobody is told; nor will they be when its socket goes.
ServerTimesOut(c) ==
    /\ states[c].state # Null /\ Fault
    /\ states' = [states EXCEPT ![c].state = Null]
    /\ unheard' = unheard \cup {c}
    /\ muted' = muted \cup {c}
    /\ UNCHANGED <<page, up, down, seat, owner, clients, stale>>

\* releaseAwareness, at the end of releaseBoard: the next join starts afresh.
ReleaseRoom ==
    /\ live = {}
    /\ states' = [p \in Pages |-> Unknown]
    /\ owner' = [p \in Pages |-> Nobody]
    /\ states' # states
    /\ UNCHANGED <<page, up, down, seat, clients, past, bounds>>

-----------------------------------------------------------------------------
Init ==
    /\ socket = [p \in Pages |-> 0]
    /\ tries = [p \in Pages |-> 0]
    /\ closed = {}
    /\ \E v \in Values : view = [p \in Pages |-> [q \in Pages |->
            IF q = p THEN [clock |-> 1, state |-> v] ELSE Unknown]]
    /\ seat = [s \in Sockets |-> "new"]
    /\ up = [s \in Sockets |-> <<>>] /\ down = [s \in Sockets |-> <<>>]
    /\ owner = [p \in Pages |-> Nobody]
    /\ clients = [s \in Sockets |-> {}]
    /\ states = [p \in Pages |-> Unknown]
    /\ unheard = {} /\ muted = {} /\ stale = [p \in Pages |-> {}]
    /\ says = 0 /\ faults = 0

Next ==
    \/ \E p \in Pages :
        \/ \E v \in Values : Say(p, v)
        \/ Connect(p) \/ LoseConnection(p) \/ Leave(p) \/ Receive(p)
        \/ \E c \in Pages : PeerTimesOut(p, c)
        \/ ServerTimesOut(p)
    \/ \E s \in Sockets : Join(s) \/ Accept(s) \/ Drop(s) \/ ServerNotices(s)
    \/ ReleaseRoom

Spec == Init /\ [][Next]_vars

\* Frames arrive, the ping timeout comes, and so do y-protocols' 30 seconds
\* for a page that no longer says anything.
Fairness ==
    /\ \A p \in Pages : WF_vars(Receive(p))
    /\ \A s \in Sockets : /\ WF_vars(Join(s))
                          /\ WF_vars(Accept(s))
                          /\ WF_vars(socket[s[1]] # s[2] /\ ServerNotices(s))
    /\ \A b, c \in Pages : WF_vars(c \in closed /\ PeerTimesOut(b, c))

FairSpec == Spec /\ Fairness

-----------------------------------------------------------------------------
(* Properties.                                                             *)

States  == [clock : Nat, state : Values \cup {Null}]
FrameOf == [id : Pages, clock : Nat, state : Values \cup {Null}]

\* Every variable keeps its shape.
TypeOK ==
    /\ socket \in [Pages -> 0..2] /\ tries \in [Pages -> 0..2]
    /\ closed \subseteq Pages
    /\ view \in [Pages -> [Pages -> States]]
    /\ seat \in [Sockets -> {"new", "in", "out"}]
    /\ up \in [Sockets -> Seq(SUBSET FrameOf)]
    /\ down \in [Sockets -> Seq([what : {"joined", "update"}, entries : SUBSET FrameOf])]
    /\ owner \in [Pages -> [key : Pages \cup {Null}, sockets : SUBSET Sockets]]
    /\ clients \in [Sockets -> SUBSET Pages]
    /\ states \in [Pages -> States]
    /\ unheard \cup muted \subseteq Pages /\ stale \in [Pages -> SUBSET Pages]
    /\ says \in 0..MaxSays /\ faults \in 0..MaxFaults

\* awareness.ts claim: whatever the pages relay about each other, a client id
\* is never held under another page's key, so nobody is locked out of their
\* own cursor.
NobodyLockedOut == \A p \in Pages : owner[p].key \in {p, Null}

\* awareness.ts, the ghost cursors: whoever the server still shows is held by
\* a socket in the room, and each holder will let go of it.
ShownIsHeld ==
    \A p \in Pages :
        /\ states[p].state # Null => owner[p] # Nobody
        /\ owner[p] # Nobody =>
            /\ owner[p].sockets # {}
            /\ owner[p].sockets = {s \in live : p \in clients[s]}

Connected(p) == socket[p] # 0 /\ <<p, socket[p]>> \in live
Quiet == /\ \A s \in Sockets : up[s] = <<>> /\ down[s] = <<>>
         /\ \A p \in Pages : socket[p] # 0 => seat[<<p, socket[p]>>] # "new"

\* Once the frames have arrived, two connected pages agree on what one of them
\* last said of itself, through reconnects and through the old socket's late
\* timeout; unless its last word was dropped or it fell silent.
QuietViewsAgree ==
    Quiet => \A b, c \in Pages :
        Connected(b) /\ Connected(c) /\ c \notin unheard
            => view[b][c] = Own(c)

\* Once the frames have arrived, nobody connected shows a page the server has
\* no socket of; unless it went while they were away themselves, or the server
\* had taken it off its own list before it told the others.
GoneIsUnseen ==
    Quiet => \A b, c \in Pages :
        Connected(b) /\ b # c /\ ~(\E s \in live : s[1] = c)
            => view[b][c].state = Null \/ c \in muted \cup stale[b]

\* The server's books on client ids: everybody has their own, and whoever is
\* shown has a socket that will let go of it.
CursorsAreHeld == TypeOK /\ NobodyLockedOut /\ ShownIsHeld

\* What the screens show once the frames have arrived: everybody who is there, as
\* they last said, and nobody who has gone.
ScreensAgree == QuietViewsAgree /\ GoneIsUnseen

\* A page that is there is withdrawn by nobody else: only by itself, by the
\* end of its last socket, or by 30 seconds of silence.
NobodyElseRetracts ==
    [][\A c \in Pages :
        states[c].state # Null /\ states'[c].state = Null
            => c \in closed \/ owner'[c] = Nobody \/ faults' # faults]_vars

\* A page that has gone is sooner or later shown by nobody.
GhostsFade ==
    \A b, c \in Pages :
        (c \in closed /\ b # c) ~> (b \in closed \/ view[b][c].state = Null)
=============================================================================
