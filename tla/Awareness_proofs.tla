--------------------------- MODULE Awareness_proofs ---------------------------
(***************************************************************************)
(* Proofs about Awareness, for any pages, values and bounds.               *)
(***************************************************************************)
EXTENDS Awareness, TLAPS

-----------------------------------------------------------------------------
(* The inductive invariant.                                                *)

\* A connection is one of the sockets its page may have.
SocketInv ==
    \A p \in Pages : socket[p] <= MaxSockets(p) /\ tries[p] <= MaxSockets(p)

\* What a page says of another is at most that it is gone, and that it is gone
\* itself only when it is.
Honest(s, entries, left) ==
    \A e \in entries :
        IF e.id = s[1] THEN e.state = Null => s[1] \in left ELSE e.state = Null

UpInv == \A s \in Sockets : \A i \in DOMAIN up[s] : Honest(s, up[s][i], closed)

\* Owners and sockets keep the same books: a client id is owned through the
\* sockets that list it, by nobody when none does, and only a socket in the
\* room lists any.
BooksInv ==
    \A p \in Pages :
        /\ owner[p].sockets = {s \in Sockets : p \in clients[s]}
        /\ owner[p].sockets = {} => owner[p] = Nobody

SeatInv == \A s \in Sockets : clients[s] # {} => seat[s] = "in"

\* Whoever is shown is owned.
ShownInv == \A p \in Pages : states[p].state # Null => owner[p] # Nobody

IInv ==
    /\ TypeOK
    /\ SocketInv
    /\ UpInv
    /\ BooksInv
    /\ SeatInv
    /\ ShownInv
    /\ NobodyLockedOut

-----------------------------------------------------------------------------
(* Sockets, frames and the rules of y-protocols.                           *)

Packets == [what : {"joined", "update"}, entries : SUBSET FrameOf]

\* The socket a page is connected through is one of its sockets.
LEMMA SocketFacts ==
    ASSUME TypeOK, SocketInv, NEW p \in Pages, socket[p] # 0
    PROVE  <<p, socket[p]>> \in Sockets
  BY DEF TypeOK, SocketInv, Sockets

LEMMA SocketType == \A s \in Sockets : s[1] \in Pages /\ s[2] \in 1..2
  BY DEF Sockets

\* Applying entries leaves states.
LEMMA ApplyType ==
    ASSUME NEW self, NEW known \in [Pages -> States], NEW entries \in SUBSET FrameOf
    PROVE  Apply(self, known, entries) \in [Pages -> States]
  <1> SUFFICES ASSUME NEW p \in Pages
               PROVE  Apply(self, known, entries)[p] \in States
    BY DEF Apply
  <1> DEFINE about == {e \in entries : e.id = p}
  <1>1. CASE about = {}
    BY <1>1 DEF Apply
  <1>2. CASE about # {}
    <2> DEFINE e == CHOOSE x \in about : TRUE
    <2>1. e \in FrameOf
      BY <1>2
    <2>2. Apply(self, known, entries)[p] = Heard(self, known[p], e)
      BY <1>2 DEF Apply
    <2> HIDE DEF e
    <2>3. known[p] \in States
      OBVIOUS
    <2>4. Heard(self, known[p], e) \in States
      BY <2>1, <2>3 DEF Heard, States, FrameOf
    <2>5. QED
      BY <2>2, <2>4
  <1>3. QED
    BY <1>1, <1>2

\* A state that applying entries takes away is retracted by one of them.
LEMMA ApplyRetracts ==
    ASSUME NEW self, NEW known \in [Pages -> States], NEW entries \in SUBSET FrameOf,
           NEW p \in Pages, Apply(self, known, entries)[p].state # known[p].state
    PROVE  \E e \in entries : e.id = p /\ e.state = Apply(self, known, entries)[p].state
  <1> DEFINE about == {e \in entries : e.id = p}
             new   == Apply(self, known, entries)[p]
  <1>1. CASE about = {}
    BY <1>1 DEF Apply
  <1>2. CASE about # {}
    <2> DEFINE e == CHOOSE x \in about : TRUE
    <2>1. e \in FrameOf /\ e \in entries /\ e.id = p
      BY <1>2
    <2>2. new = Heard(self, known[p], e)
      BY <1>2 DEF Apply
    <2> HIDE DEF e, new
    <2>3. known[p] \in States /\ new.state # known[p].state
      BY DEF new
    <2>4. new.state = e.state
      BY <2>1, <2>2, <2>3 DEF Heard, States, FrameOf
    <2>5. QED
      BY <2>1, <2>4 DEF new
  <1>3. QED
    BY <1>1, <1>2

\* Entries of known states are well formed.
LEMMA EntriesType ==
    ASSUME NEW known \in [Pages -> States]
    PROVE  /\ Entries(known) \in SUBSET FrameOf
           /\ \A p \in Pages : Entry(p, known[p]) \in FrameOf
  <1>1. \A p \in Pages : Entry(p, known[p]) \in FrameOf
    BY DEF Entry, FrameOf, States
  <1>2. QED
    BY <1>1 DEF Entries

\* A broadcast keeps the channels' type.
LEMMA BroadcastType ==
    ASSUME down \in [Sockets -> Seq(Packets)], NEW to, NEW f \in Packets, Broadcast(to, f)
    PROVE  down' \in [Sockets -> Seq(Packets)]
  BY DEF Broadcast

\* A page that speaks honestly keeps the lines honest.
LEMMA EmitFacts ==
    ASSUME TypeOK, SocketInv, UpInv, closed \subseteq closed',
           NEW p \in Pages, NEW e \in FrameOf, Emit(p, e),
           IF e.id = p THEN e.state = Null => p \in closed' ELSE e.state = Null
    PROVE  up' \in [Sockets -> Seq(SUBSET FrameOf)] /\ UpInv'
  <1> DEFINE s == <<p, socket[p]>>
  <1>1. up \in [Sockets -> Seq(SUBSET FrameOf)]
    BY DEF TypeOK
  <1>2. CASE UNCHANGED up
    BY <1>1, <1>2 DEF UpInv, Honest
  <1>3. CASE socket[p] # 0 /\ up' = [up EXCEPT ![s] = Append(@, {e})]
    <2>1. s \in Sockets /\ s[1] = p
      BY <1>3, SocketFacts
    <2> HIDE DEF s
    <2>2. up[s] \in Seq(SUBSET FrameOf) /\ {e} \in SUBSET FrameOf
      BY <1>1, <2>1
    <2>3. /\ Append(up[s], {e}) \in Seq(SUBSET FrameOf)
          /\ \A i \in DOMAIN Append(up[s], {e}) :
                \/ i \in DOMAIN up[s] /\ Append(up[s], {e})[i] = up[s][i]
                \/ Append(up[s], {e})[i] = {e}
      BY <2>2
    <2>4. up' \in [Sockets -> Seq(SUBSET FrameOf)]
      BY <1>1, <1>3, <2>3
    <2>5. ASSUME NEW t \in Sockets, NEW i \in DOMAIN up'[t] PROVE Honest(t, up'[t][i], closed')
      <3>1. CASE t = s
        <4>1. \/ i \in DOMAIN up[s] /\ up'[t][i] = up[s][i]
              \/ up'[t][i] = {e}
          BY <1>1, <1>3, <2>3, <2>5, <3>1
        <4>2. QED
          BY <2>1, <3>1, <4>1 DEF UpInv, Honest
      <3>2. CASE t # s
        BY <1>1, <1>3, <2>5, <3>2 DEF UpInv, Honest
      <3>3. QED
        BY <3>1, <3>2
    <2>6. QED
      BY <2>4, <2>5 DEF UpInv
  <1>4. QED
    BY <1>2, <1>3 DEF Emit

\* So does a line of which something is lost or taken.
LEMMA FewerFrames ==
    ASSUME TypeOK, UpInv, closed \subseteq closed', NEW s \in Sockets,
           NEW q \in Seq(SUBSET FrameOf),
           \A i \in DOMAIN q : \E j \in DOMAIN up[s] : q[i] = up[s][j],
           up' = [up EXCEPT ![s] = q]
    PROVE  up' \in [Sockets -> Seq(SUBSET FrameOf)] /\ UpInv'
  <1>1. up \in [Sockets -> Seq(SUBSET FrameOf)]
    BY DEF TypeOK
  <1>2. up' \in [Sockets -> Seq(SUBSET FrameOf)]
    BY <1>1
  <1>3. ASSUME NEW t \in Sockets, NEW i \in DOMAIN up'[t] PROVE Honest(t, up'[t][i], closed')
    BY <1>1, <1>3 DEF UpInv, Honest
  <1>4. QED
    BY <1>2, <1>3 DEF UpInv

\* Parts of a line.
LEMMA PartsOfLine ==
    ASSUME NEW q \in Seq(SUBSET FrameOf), NEW n \in 0..Len(q)
    PROVE  /\ SubSeq(q, 1, n) \in Seq(SUBSET FrameOf)
           /\ \A i \in DOMAIN SubSeq(q, 1, n) :
                 \E j \in DOMAIN q : SubSeq(q, 1, n)[i] = q[j]
           /\ SubSeq(q, n + 1, Len(q)) \in Seq(SUBSET FrameOf)
           /\ \A i \in DOMAIN SubSeq(q, n + 1, Len(q)) :
                 \E j \in DOMAIN q : SubSeq(q, n + 1, Len(q))[i] = q[j]
           /\ q # <<>> =>
                 /\ Head(q) \in SUBSET FrameOf
                 /\ 1 \in DOMAIN q /\ Head(q) = q[1]
                 /\ Tail(q) \in Seq(SUBSET FrameOf)
                 /\ \A i \in DOMAIN Tail(q) : \E j \in DOMAIN q : Tail(q)[i] = q[j]
  <1>1. /\ SubSeq(q, 1, n) \in Seq(SUBSET FrameOf)
        /\ \A i \in DOMAIN SubSeq(q, 1, n) : i \in DOMAIN q /\ SubSeq(q, 1, n)[i] = q[i]
    OBVIOUS
  <1>2. SubSeq(q, n + 1, Len(q)) \in Seq(SUBSET FrameOf)
    OBVIOUS
  <1>3. \A i \in DOMAIN SubSeq(q, n + 1, Len(q)) :
            i + n \in DOMAIN q /\ SubSeq(q, n + 1, Len(q))[i] = q[i + n]
    OBVIOUS
  <1>4. ASSUME q # <<>>
        PROVE  /\ Head(q) \in SUBSET FrameOf
               /\ 1 \in DOMAIN q /\ Head(q) = q[1]
               /\ Tail(q) \in Seq(SUBSET FrameOf)
               /\ \A i \in DOMAIN Tail(q) : i + 1 \in DOMAIN q /\ Tail(q)[i] = q[i + 1]
    BY <1>4
  <1>5. QED
    BY <1>1, <1>2, <1>3, <1>4

-----------------------------------------------------------------------------
(* Every action preserves the invariant.                                   *)

BooksStand == BooksInv /\ SeatInv /\ ShownInv /\ NobodyLockedOut

\* TypeOK, by who owns the variables.
PageTypes ==
    /\ socket \in [Pages -> 0..2] /\ tries \in [Pages -> 0..2]
    /\ closed \subseteq Pages
    /\ view \in [Pages -> [Pages -> States]]

LineTypes ==
    /\ up \in [Sockets -> Seq(SUBSET FrameOf)]
    /\ down \in [Sockets -> Seq(Packets)]

ServerTypes ==
    /\ seat \in [Sockets -> {"new", "in", "out"}]
    /\ owner \in [Pages -> [key : Pages \cup {Null}, sockets : SUBSET Sockets]]
    /\ clients \in [Sockets -> SUBSET Pages]
    /\ states \in [Pages -> States]

PastTypes  == unheard \cup muted \subseteq Pages /\ stale \in [Pages -> SUBSET Pages]
BoundTypes == says \in 0..MaxSays /\ faults \in 0..MaxFaults

LEMMA TypeParts ==
    TypeOK <=> PageTypes /\ LineTypes /\ ServerTypes /\ PastTypes /\ BoundTypes
  BY DEF TypeOK, PageTypes, LineTypes, ServerTypes, PastTypes, BoundTypes, Packets

LEMMA TypePartsNext ==
    TypeOK' <=> PageTypes' /\ LineTypes' /\ ServerTypes' /\ PastTypes' /\ BoundTypes'
  BY DEF TypeOK, PageTypes, LineTypes, ServerTypes, PastTypes, BoundTypes, Packets

LEMMA InitInv == Init => IInv
  <1> SUFFICES ASSUME Init PROVE IInv
    OBVIOUS
  <1>1. Unknown \in States /\ Nobody \in [key : Pages \cup {Null}, sockets : SUBSET Sockets]
    BY DEF Unknown, Nobody, States
  <1>2. view \in [Pages -> [Pages -> States]]
    <2>1. PICK v \in Values : view = [p \in Pages |-> [q \in Pages |->
            IF q = p THEN [clock |-> 1, state |-> v] ELSE Unknown]]
      BY DEF Init
    <2>2. [clock |-> 1, state |-> v] \in States
      BY DEF States
    <2>3. QED
      BY <1>1, <2>1, <2>2
  <1>3. TypeOK
    BY <1>1, <1>2, AwarenessAssumption DEF Init, TypeOK
  <1>4. SocketInv /\ UpInv /\ SeatInv
    BY DEF Init, SocketInv, MaxSockets, UpInv, SeatInv
  <1>5. BooksInv /\ ShownInv /\ NobodyLockedOut
    BY DEF Init, BooksInv, ShownInv, NobodyLockedOut, Nobody, Unknown
  <1>6. QED
    BY <1>3, <1>4, <1>5 DEF IInv

\* What a page does leaves the server's books alone.
LEMMA BooksUntouched ==
    ASSUME IInv, UNCHANGED server
    PROVE  BooksStand' /\ ServerTypes'
  BY TypeParts DEF ServerTypes, server, IInv, BooksStand, BooksInv, SeatInv, ShownInv, NobodyLockedOut

\* A page's view, once its own entry or another has been put in place.
LEMMA ViewType ==
    ASSUME TypeOK, NEW b \in Pages, NEW known \in [Pages -> States],
           view' = [view EXCEPT ![b] = known]
    PROVE  view' \in [Pages -> [Pages -> States]]
  BY DEF TypeOK

LEMMA SayInv == ASSUME IInv, NEW p \in Pages, NEW v \in Values, Say(p, v) PROVE IInv'
  <1> DEFINE now == [clock |-> Own(p).clock + 1, state |-> v]
  <1>1. /\ says < MaxSays /\ says' = says + 1
        /\ view' = [view EXCEPT ![p][p] = now]
        /\ Emit(p, Entry(p, now))
        /\ UNCHANGED <<socket, tries, closed, down, server, past, faults>>
    BY DEF Say
  <1>2. view \in [Pages -> [Pages -> States]]
    BY DEF IInv, TypeOK
  <1>3. view[p][p] \in States
    BY <1>2
  <1>4. now \in States /\ Entry(p, now) \in FrameOf
    BY <1>3 DEF States, FrameOf, Entry, Own
  <1>5. view' \in [Pages -> [Pages -> States]]
    BY <1>1, <1>2, <1>4
  <1>6. Entry(p, now).id = p /\ Entry(p, now).state = v /\ v # Null
    BY AwarenessAssumption DEF Entry
  <1>7. up' \in [Sockets -> Seq(SUBSET FrameOf)] /\ UpInv'
    <2> HIDE DEF now
    <2>1. QED
      BY <1>1, <1>4, <1>6, EmitFacts DEF IInv
  <1>8. BoundTypes' /\ PastTypes' /\ PageTypes' /\ LineTypes'
    <2> HIDE DEF now
    <2>1. BoundTypes'
      BY <1>1, TypeParts, AwarenessAssumption DEF IInv, BoundTypes
    <2>2. QED
      BY <1>1, <1>5, <1>7, <2>1, TypeParts DEF IInv, PastTypes, PageTypes, LineTypes, past
  <1>9. QED
    BY <1>1, <1>7, <1>8, BooksUntouched, TypePartsNext DEF IInv, BooksStand, SocketInv

LEMMA ConnectInv == ASSUME IInv, NEW p \in Pages, Connect(p) PROVE IInv'
  <1>1. /\ tries[p] < MaxSockets(p)
        /\ tries' = [tries EXCEPT ![p] = @ + 1]
        /\ socket' = [socket EXCEPT ![p] = tries[p] + 1]
        /\ UNCHANGED <<closed, view, up, down, server, past, bounds>>
    BY DEF Connect
  <1>2. tries[p] \in 0..2 /\ tries[p] + 1 \in 0..2
    BY <1>1 DEF IInv, TypeOK, MaxSockets
  <1>3. BoundTypes' /\ PastTypes' /\ PageTypes' /\ LineTypes'
    BY <1>1, <1>2, TypeParts DEF IInv, PastTypes, PageTypes, LineTypes, BoundTypes, past, bounds
  <1>4. SocketInv' /\ UpInv'
    BY <1>1, <1>2 DEF IInv, TypeOK, SocketInv, MaxSockets, UpInv
  <1>5. QED
    BY <1>1, <1>3, <1>4, BooksUntouched, TypePartsNext DEF IInv, BooksStand

LEMMA LoseConnectionInv == ASSUME IInv, NEW p \in Pages, LoseConnection(p) PROVE IInv'
  <1> DEFINE s == <<p, socket[p]>>
  <1>1. PICK n \in 0..Len(up[s]) : up' = [up EXCEPT ![s] = SubSeq(@, 1, n)]
    BY DEF LoseConnection
  <1>2. /\ socket[p] # 0 /\ down' = [down EXCEPT ![s] = <<>>]
        /\ socket' = [socket EXCEPT ![p] = 0]
        /\ UNCHANGED <<tries, closed, view, server, past, bounds>>
    BY DEF LoseConnection
  <1>3. s \in Sockets
    BY <1>2, SocketFacts DEF IInv
  <1> HIDE DEF s
  <1>4. up[s] \in Seq(SUBSET FrameOf) /\ up' = [up EXCEPT ![s] = SubSeq(up[s], 1, n)]
    BY <1>1, <1>3 DEF IInv, TypeOK
  <1>5. up' \in [Sockets -> Seq(SUBSET FrameOf)] /\ UpInv'
    <2> DEFINE q == SubSeq(up[s], 1, n)
    <2>1. q \in Seq(SUBSET FrameOf) /\ \A i \in DOMAIN q : \E j \in DOMAIN up[s] : q[i] = up[s][j]
      BY <1>4, PartsOfLine
    <2> HIDE DEF q
    <2>2. up' = [up EXCEPT ![s] = q]
      BY <1>4 DEF q
    <2>3. QED
      BY <1>2, <1>3, <2>1, <2>2, FewerFrames DEF IInv
  <1>6. BoundTypes' /\ PastTypes' /\ PageTypes' /\ LineTypes'
    <2>1. down' \in [Sockets -> Seq(Packets)]
      BY <1>2, <1>3, TypeParts DEF IInv, LineTypes
    <2>2. QED
      BY <1>2, <1>5, <2>1, TypeParts DEF IInv, PastTypes, PageTypes, LineTypes, BoundTypes,
         past, bounds
  <1>7. SocketInv'
    BY <1>2 DEF IInv, TypeOK, SocketInv, MaxSockets
  <1>8. QED
    BY <1>2, <1>5, <1>6, <1>7, BooksUntouched, TypePartsNext DEF IInv, BooksStand

LEMMA LeaveInv == ASSUME IInv, NEW p \in Pages, Leave(p) PROVE IInv'
  <1> DEFINE own == [clock |-> view[p][p].clock + 1, state |-> Null]
  <1>1. /\ view' = [view EXCEPT ![p][p] = own]
        /\ Emit(p, Entry(p, view'[p][p]))
        /\ down' = [s \in Sockets |-> IF s[1] = p THEN <<>> ELSE down[s]]
        /\ socket' = [socket EXCEPT ![p] = 0]
        /\ closed' = closed \cup {p}
        /\ UNCHANGED <<tries, server, past, bounds>>
    BY DEF Leave
  <1>2. view \in [Pages -> [Pages -> States]] /\ view[p][p] \in States
    BY DEF IInv, TypeOK
  <1>3. own \in States
    BY <1>2 DEF States
  <1>4. view' \in [Pages -> [Pages -> States]] /\ view'[p][p] = own
    BY <1>1, <1>2, <1>3
  <1>5. Entry(p, own) \in FrameOf /\ Entry(p, own).id = p
    BY <1>3 DEF States, FrameOf, Entry
  <1>6. up' \in [Sockets -> Seq(SUBSET FrameOf)] /\ UpInv'
    <2> HIDE DEF own
    <2>1. QED
      BY <1>1, <1>4, <1>5, EmitFacts DEF IInv
  <1>7. BoundTypes' /\ PastTypes' /\ PageTypes' /\ LineTypes'
    <2> HIDE DEF own
    <2>1. down' \in [Sockets -> Seq(Packets)]
      BY <1>1, TypeParts DEF IInv, LineTypes
    <2>2. QED
      BY <1>1, <1>4, <1>6, <2>1, TypeParts DEF IInv, PastTypes, PageTypes, LineTypes,
         BoundTypes, past, bounds
  <1>8. SocketInv'
    BY <1>1 DEF IInv, TypeOK, SocketInv, MaxSockets
  <1>9. QED
    BY <1>1, <1>6, <1>7, <1>8, BooksUntouched, TypePartsNext DEF IInv, BooksStand

LEMMA ReceiveInv == ASSUME IInv, NEW b \in Pages, Receive(b) PROVE IInv'
  <1> DEFINE s == <<b, socket[b]>>
             frame == Head(down[s])
  <1>1. /\ socket[b] # 0 /\ down[s] # <<>>
        /\ down' = [down EXCEPT ![s] = Tail(@)]
        /\ UNCHANGED <<socket, tries, closed, server, unheard, muted, bounds>>
    BY DEF Receive
  <1>2. s \in Sockets
    BY <1>1, SocketFacts DEF IInv
  <1>3. down[s] \in Seq(Packets) /\ down \in [Sockets -> Seq(Packets)]
    BY <1>2 DEF IInv, TypeOK, Packets
  <1>4. frame \in Packets /\ Tail(down[s]) \in Seq(Packets)
    BY <1>1, <1>3
  <1>5. frame.entries \in SUBSET FrameOf /\ view[b] \in [Pages -> States]
    BY <1>4 DEF Packets, IInv, TypeOK
  <1>6. down' \in [Sockets -> Seq(Packets)]
    BY <1>1, <1>2, <1>3, <1>4
  <1>7. stale' \in [Pages -> SUBSET Pages]
    <2>1. stale \in [Pages -> SUBSET Pages] /\ Visible(b) \subseteq Pages
      BY DEF IInv, TypeOK, Visible
    <2>2. QED
      BY <2>1 DEF Receive
  <1>8. /\ view' \in [Pages -> [Pages -> States]]
        /\ up' \in [Sockets -> Seq(SUBSET FrameOf)] /\ UpInv'
    <2>1. CASE frame.what = "joined"
      <3>1. PICK v \in Values :
                LET now == [clock |-> Own(b).clock + 1, state |-> v] IN
                /\ view' = [view EXCEPT ![b] = Apply(b, [view[b] EXCEPT ![b] = now],
                                                      frame.entries)]
                /\ Emit(b, Entry(b, now))
        BY <2>1 DEF Receive, IInv, TypeOK
      <3> DEFINE now == [clock |-> Own(b).clock + 1, state |-> v]
      <3>2. view[b][b] \in States
        BY <1>5
      <3>3. now \in States /\ Entry(b, now) \in FrameOf
        BY <3>2 DEF States, FrameOf, Entry, Own
      <3>4. Entry(b, now).id = b /\ Entry(b, now).state = v /\ v # Null
        BY AwarenessAssumption DEF Entry
      <3>5. /\ view' = [view EXCEPT ![b] = Apply(b, [view[b] EXCEPT ![b] = now],
                                                 frame.entries)]
            /\ Emit(b, Entry(b, now))
        BY <3>1
      <3> HIDE DEF now, frame
      <3>6. [view[b] EXCEPT ![b] = now] \in [Pages -> States]
        BY <1>5, <3>3
      <3>7. Apply(b, [view[b] EXCEPT ![b] = now], frame.entries) \in [Pages -> States]
        BY <1>5, <3>6, ApplyType
      <3>8. view' \in [Pages -> [Pages -> States]]
        BY <3>5, <3>7, ViewType DEF IInv
      <3>9. up' \in [Sockets -> Seq(SUBSET FrameOf)] /\ UpInv'
        BY <1>1, <3>3, <3>4, <3>5, EmitFacts DEF IInv
      <3>10. QED
        BY <3>8, <3>9
    <2>2. CASE frame.what # "joined"
      <3>1. /\ view' = [view EXCEPT ![b] = Apply(b, view[b], frame.entries)]
            /\ UNCHANGED up
        BY <2>2 DEF Receive
      <3> HIDE DEF frame
      <3>2. view' \in [Pages -> [Pages -> States]]
        BY <1>5, <3>1, ApplyType, ViewType DEF IInv
      <3>3. QED
        BY <1>1, <3>1, <3>2 DEF IInv, TypeOK, UpInv
    <2>3. QED
      BY <2>1, <2>2
  <1>9. TypeOK'
    BY <1>1, <1>6, <1>7, <1>8 DEF IInv, TypeOK, Packets, server, bounds
  <1>10. QED
    BY <1>1, <1>8, <1>9, BooksUntouched DEF IInv, BooksStand, SocketInv

LEMMA PeerTimesOutInv ==
    ASSUME IInv, NEW b \in Pages, NEW c \in Pages, PeerTimesOut(b, c)
    PROVE  IInv'
  <1>1. /\ c # b
        /\ (faults' = faults /\ says' = says) \/ Fault
        /\ view' = [view EXCEPT ![b][c].state = Null]
        /\ Emit(b, Entry(c, view'[b][c]))
        /\ stale' = [stale EXCEPT ![b] = @ \ {c}]
        /\ unheard' = unheard \cup {c}
        /\ UNCHANGED <<socket, tries, closed, down, server, muted>>
    BY DEF PeerTimesOut, Visible, bounds
  <1>2. view \in [Pages -> [Pages -> States]] /\ view[b][c] \in States
    BY DEF IInv, TypeOK
  <1>3. [view[b][c] EXCEPT !.state = Null] \in States
    BY <1>2 DEF States
  <1>4. /\ view' \in [Pages -> [Pages -> States]]
        /\ view'[b][c] = [view[b][c] EXCEPT !.state = Null]
    BY <1>1, <1>2, <1>3
  <1>5. /\ Entry(c, view'[b][c]) \in FrameOf
        /\ Entry(c, view'[b][c]).id = c /\ Entry(c, view'[b][c]).state = Null
    BY <1>2, <1>3, <1>4 DEF States, FrameOf, Entry
  <1>6. up' \in [Sockets -> Seq(SUBSET FrameOf)] /\ UpInv'
    BY <1>1, <1>5, EmitFacts DEF IInv
  <1>7. faults' \in 0..MaxFaults /\ says' \in 0..MaxSays
    BY <1>1, AwarenessAssumption DEF Fault, IInv, TypeOK
  <1>8. TypeOK'
    BY <1>1, <1>4, <1>6, <1>7 DEF IInv, TypeOK, server
  <1>9. QED
    BY <1>1, <1>6, <1>8, BooksUntouched DEF IInv, BooksStand, SocketInv

LEMMA JoinInv == ASSUME IInv, NEW s \in Sockets, Join(s) PROVE IInv'
  <1>1. PICK n \in 0..Len(up[s]) : up' = [up EXCEPT ![s] = SubSeq(@, n + 1, Len(@))]
    BY DEF Join
  <1>2. /\ seat' = [seat EXCEPT ![s] = "in"]
        /\ Broadcast({s}, Frame("joined", Entries(states)))
        /\ UNCHANGED <<page, owner, clients, states, past, bounds>>
    BY DEF Join
  <1>3. up[s] \in Seq(SUBSET FrameOf) /\ up' = [up EXCEPT ![s] = SubSeq(up[s], n + 1, Len(up[s]))]
    BY <1>1 DEF IInv, TypeOK
  <1>4. up' \in [Sockets -> Seq(SUBSET FrameOf)] /\ UpInv'
    <2> DEFINE q == SubSeq(up[s], n + 1, Len(up[s]))
    <2>1. q \in Seq(SUBSET FrameOf) /\ \A i \in DOMAIN q : \E j \in DOMAIN up[s] : q[i] = up[s][j]
      BY <1>3, PartsOfLine
    <2> HIDE DEF q
    <2>2. up' = [up EXCEPT ![s] = q] /\ closed' = closed
      BY <1>2, <1>3 DEF q, page
    <2>3. QED
      BY <2>1, <2>2, FewerFrames DEF IInv
  <1>5. down' \in [Sockets -> Seq(Packets)]
    <2>1. Frame("joined", Entries(states)) \in Packets
      BY EntriesType, TypeParts DEF IInv, ServerTypes, Frame, Packets
    <2>2. QED
      BY <1>2, <2>1, BroadcastType, TypeParts DEF IInv, LineTypes
  <1>6. PageTypes' /\ LineTypes' /\ PastTypes' /\ BoundTypes' /\ ServerTypes'
    BY <1>2, <1>4, <1>5, TypeParts DEF IInv, PageTypes, LineTypes, PastTypes, BoundTypes,
       ServerTypes, page, past, bounds
  <1>7. BooksInv' /\ ShownInv' /\ NobodyLockedOut' /\ SocketInv'
    BY <1>2 DEF IInv, BooksInv, ShownInv, NobodyLockedOut, SocketInv, page
  <1>8. SeatInv'
    BY <1>2 DEF IInv, TypeOK, SeatInv
  <1>9. QED
    BY <1>4, <1>6, <1>7, <1>8, TypePartsNext DEF IInv

\* The frame at the head of a line, and the line without it.
LEMMA HeadOfLine ==
    ASSUME IInv, NEW s \in Sockets, up[s] # <<>>, closed' = closed,
           up' = [up EXCEPT ![s] = Tail(@)]
    PROVE  /\ Head(up[s]) \in SUBSET FrameOf
           /\ Honest(s, Head(up[s]), closed)
           /\ up' \in [Sockets -> Seq(SUBSET FrameOf)] /\ UpInv'
  <1>1. up[s] \in Seq(SUBSET FrameOf) /\ 0 \in 0..Len(up[s])
    BY DEF IInv, TypeOK
  <1> DEFINE q == Tail(up[s])
  <1>2. /\ Head(up[s]) \in SUBSET FrameOf /\ 1 \in DOMAIN up[s] /\ Head(up[s]) = up[s][1]
        /\ q \in Seq(SUBSET FrameOf)
        /\ \A i \in DOMAIN q : \E j \in DOMAIN up[s] : q[i] = up[s][j]
    BY <1>1, PartsOfLine
  <1>3. up' = [up EXCEPT ![s] = q]
    BY DEF IInv, TypeOK
  <1> HIDE DEF q
  <1>4. up' \in [Sockets -> Seq(SUBSET FrameOf)] /\ UpInv'
    <2>1. /\ closed \subseteq closed' /\ TypeOK /\ UpInv
          /\ q \in Seq(SUBSET FrameOf)
          /\ \A i \in DOMAIN q : \E j \in DOMAIN up[s] : q[i] = up[s][j]
      BY <1>2 DEF IInv
    <2>2. QED
      BY <1>3, <2>1, FewerFrames
  <1>5. QED
    BY <1>2, <1>4 DEF IInv, UpInv

LEMMA DropInv == ASSUME IInv, NEW s \in Sockets, Drop(s) PROVE IInv'
  <1>1. /\ up[s] # <<>> /\ Fault
        /\ up' = [up EXCEPT ![s] = Tail(@)]
        /\ unheard' = unheard \cup {e.id : e \in Head(up[s])}
        /\ UNCHANGED <<page, down, server, muted, stale>>
    BY DEF Drop
  <1>2. /\ Head(up[s]) \in SUBSET FrameOf
        /\ up' \in [Sockets -> Seq(SUBSET FrameOf)] /\ UpInv'
    BY <1>1, HeadOfLine DEF page
  <1>3. {e.id : e \in Head(up[s])} \subseteq Pages
    BY <1>2 DEF FrameOf
  <1>4. faults' \in 0..MaxFaults /\ says' \in 0..MaxSays
    BY <1>1, AwarenessAssumption, TypeParts DEF Fault, IInv, BoundTypes
  <1>5. PageTypes' /\ LineTypes' /\ PastTypes' /\ BoundTypes' /\ SocketInv'
    BY <1>1, <1>2, <1>3, <1>4, TypeParts DEF IInv, PageTypes, LineTypes, PastTypes, BoundTypes,
       SocketInv, page
  <1>6. QED
    BY <1>1, <1>2, <1>5, BooksUntouched, TypePartsNext DEF IInv, BooksStand

\* What a socket may say of a client id, and what follows from it: a page that
\* is owned speaks for itself, and nobody else claims the id of one that is not.
LEMMA ClaimFacts ==
    ASSUME IInv, NEW s \in Sockets, NEW e \in FrameOf, Honest(s, {e}, closed), MayClaim(s, e)
    PROVE  e.id = s[1] /\ (e.state = Null => e.id \in closed)
  <1>1. s[1] \in Pages /\ e.id \in Pages
    BY SocketType DEF FrameOf
  <1>2. CASE owner[e.id] # Nobody
    BY <1>1, <1>2, AwarenessAssumption DEF MayClaim, IInv, NobodyLockedOut, Honest
  <1>3. CASE owner[e.id] = Nobody
    BY <1>1, <1>3 DEF MayClaim, Honest
  <1>4. QED
    BY <1>2, <1>3

LEMMA AcceptInv == ASSUME IInv, NEW s \in Sockets, Accept(s) PROVE IInv'
  <1> DEFINE entries == Head(up[s])
             own     == {e \in entries : MayClaim(s, e)}
             ids     == {e.id : e \in own}
  <1>1. /\ s \in live /\ up[s] # <<>>
        /\ up' = [up EXCEPT ![s] = Tail(@)]
        /\ owner' = [p \in Pages |->
                        IF p \in ids THEN [key     |-> s[1],
                                           sockets |-> owner[p].sockets \cup {s}]
                        ELSE owner[p]]
        /\ clients' = [clients EXCEPT ![s] = @ \cup ids]
        /\ states' = Apply(Null, states, own)
        /\ UNCHANGED down \/ Broadcast(live \ {s}, Frame("update", own))
        /\ unheard' \subseteq unheard
        /\ \E late \in SUBSET ids : muted' \subseteq muted \cup late
        /\ UNCHANGED <<page, seat, stale, bounds>>
    <2>1. \E late \in SUBSET ids : muted' \subseteq muted \cup late
      <3> DEFINE news == {p \in ids : Entry(p, Own(p)) \in own}
                 late == {e.id : e \in {f \in own : f.state # Null /\ ~News(states[f.id], f)}}
      <3>1. muted' = (muted \ news) \cup late
        BY DEF Accept
      <3>2. late \in SUBSET ids
        OBVIOUS
      <3>3. muted' \subseteq muted \cup late
        BY <3>1
      <3>4. QED
        BY <3>2, <3>3
    <2>2. QED
      BY <2>1 DEF Accept, Allowed
  <1>2. /\ entries \in SUBSET FrameOf /\ Honest(s, entries, closed)
        /\ up' \in [Sockets -> Seq(SUBSET FrameOf)] /\ UpInv'
    BY <1>1, HeadOfLine DEF page
  <1> HIDE DEF entries
  <1>3. ASSUME NEW e \in own
        PROVE  e \in FrameOf /\ e.id = s[1] /\ e.id \in Pages
    BY <1>2, <1>3, ClaimFacts DEF Honest, FrameOf
  <1>4. own \in SUBSET FrameOf /\ ids \subseteq {s[1]} /\ ids \subseteq Pages
    BY <1>3
  <1>5. s[1] \in Pages /\ states \in [Pages -> States] /\ seat[s] = "in"
    BY <1>1, SocketType, TypeParts DEF IInv, ServerTypes, live
  <1>6. states' \in [Pages -> States]
    <2> HIDE DEF own
    <2>1. QED
      BY <1>1, <1>4, <1>5, ApplyType
  <1>7. down' \in [Sockets -> Seq(Packets)]
    <2>1. Frame("update", own) \in Packets
      BY <1>4 DEF Frame, Packets
    <2> HIDE DEF own
    <2>2. QED
      BY <1>1, <2>1, BroadcastType, TypeParts DEF IInv, LineTypes
  <1>8. ASSUME NEW p \in Pages, states[p].state = Null, states'[p].state # Null
        PROVE  p \in ids
    <2>1. \E e \in own : e.id = p
      <3> HIDE DEF own
      <3>1. QED
        BY <1>1, <1>4, <1>5, <1>8, ApplyRetracts
    <2>2. QED
      BY <2>1
  <1> HIDE DEF ids
  <1>9. owner \in [Pages -> [key : Pages \cup {Null}, sockets : SUBSET Sockets]]
    BY TypeParts DEF IInv, ServerTypes
  <1>10. ServerTypes'
    <2>1. owner' \in [Pages -> [key : Pages \cup {Null}, sockets : SUBSET Sockets]]
      BY <1>1, <1>5, <1>9
    <2>2. QED
      BY <1>1, <1>4, <1>6, <2>1, TypeParts DEF IInv, ServerTypes
  <1>11. PageTypes' /\ LineTypes' /\ PastTypes' /\ BoundTypes' /\ SocketInv'
    BY <1>1, <1>2, <1>4, <1>7, TypeParts DEF IInv, PageTypes, LineTypes, PastTypes, BoundTypes,
       SocketInv, page, bounds
  <1>12. BooksInv'
    <2>1. ASSUME NEW p \in Pages
          PROVE  /\ owner'[p].sockets = {t \in Sockets : p \in clients'[t]}
                 /\ owner'[p].sockets = {} => owner'[p] = Nobody
      <3>1. /\ owner[p].sockets = {t \in Sockets : p \in clients[t]}
            /\ owner[p].sockets = {} => owner[p] = Nobody
            /\ clients \in [Sockets -> SUBSET Pages]
        BY TypeParts DEF IInv, BooksInv, ServerTypes
      <3>2. CASE p \in ids
        <4>1. owner'[p].sockets = owner[p].sockets \cup {s}
          BY <1>1, <3>2
        <4>2. {t \in Sockets : p \in clients'[t]} = {t \in Sockets : p \in clients[t]} \cup {s}
          BY <1>1, <3>1, <3>2
        <4>3. QED
          BY <3>1, <4>1, <4>2
      <3>3. CASE p \notin ids
        BY <1>1, <3>1, <3>3
      <3>4. QED
        BY <3>2, <3>3
    <2>2. QED
      BY <2>1 DEF BooksInv, Nobody
  <1>13. SeatInv'
    BY <1>1, <1>5, TypeParts DEF IInv, SeatInv, ServerTypes
  <1>14. ShownInv'
    <2>1. ASSUME NEW p \in Pages, states'[p].state # Null PROVE owner'[p] # Nobody
      <3>1. CASE p \in ids
        BY <1>1, <3>1 DEF Nobody
      <3>2. CASE p \notin ids
        BY <1>1, <1>8, <2>1, <3>2 DEF IInv, ShownInv
      <3>3. QED
        BY <3>1, <3>2
    <2>2. QED
      BY <2>1 DEF ShownInv, Nobody
  <1>15. NobodyLockedOut'
    BY <1>1, <1>4 DEF IInv, NobodyLockedOut
  <1>16. QED
    BY <1>2, <1>10, <1>11, <1>12, <1>13, <1>14, <1>15, TypePartsNext DEF IInv

LEMMA ServerNoticesInv == ASSUME IInv, NEW s \in Sockets, ServerNotices(s) PROVE IInv'
  <1> DEFINE gone == Gone(s)
             out  == Retractions(gone)
  <1>1. /\ s \in live
        /\ UNCHANGED bounds \/ Fault
        /\ seat' = [seat EXCEPT ![s] = "out"]
        /\ up' = [up EXCEPT ![s] = <<>>]
        /\ owner' = [p \in Pages |->
                        IF p \in gone THEN Nobody
                        ELSE IF p \in clients[s] THEN [owner[p] EXCEPT !.sockets = @ \ {s}]
                        ELSE owner[p]]
        /\ clients' = [clients EXCEPT ![s] = {}]
        /\ states' = [p \in Pages |-> IF p \in gone THEN [states[p] EXCEPT !.state = Null]
                                      ELSE states[p]]
        /\ UNCHANGED down \/ Broadcast(live \ {s}, Frame("update", out))
        /\ UNCHANGED <<page, past>>
    BY DEF ServerNotices
  <1>2. /\ clients \in [Sockets -> SUBSET Pages] /\ states \in [Pages -> States]
        /\ owner \in [Pages -> [key : Pages \cup {Null}, sockets : SUBSET Sockets]]
    BY TypeParts DEF IInv, ServerTypes
  <1>3. \A p \in Pages : [states[p] EXCEPT !.state = Null] \in States
    BY <1>2 DEF States
  <1>4. /\ gone \subseteq clients[s] /\ gone \subseteq Pages
        /\ \A p \in clients[s] : p \in gone <=> owner[p].sockets = {s}
    BY <1>2 DEF Gone
  <1>5. out \in SUBSET FrameOf
    <2>1. \A p \in Pages : Entry(p, [states[p] EXCEPT !.state = Null]) \in FrameOf
      BY <1>3 DEF Entry, FrameOf, States
    <2>2. QED
      BY <1>4, <2>1 DEF Retractions
  <1> HIDE DEF gone, out
  <1>6. down' \in [Sockets -> Seq(Packets)]
    <2>1. Frame("update", out) \in Packets
      BY <1>5 DEF Frame, Packets
    <2>2. QED
      BY <1>1, <2>1, BroadcastType, TypeParts DEF IInv, LineTypes
  <1>7. up' \in [Sockets -> Seq(SUBSET FrameOf)] /\ UpInv'
    <2> DEFINE q == <<>>
    <2>1. q \in Seq(SUBSET FrameOf) /\ \A i \in DOMAIN q : \E j \in DOMAIN up[s] : q[i] = up[s][j]
      OBVIOUS
    <2> HIDE DEF q
    <2>2. /\ closed \subseteq closed' /\ TypeOK /\ UpInv
          /\ up' = [up EXCEPT ![s] = q]
      BY <1>1 DEF IInv, page, q
    <2>3. QED
      BY <2>1, <2>2, FewerFrames
  <1>8. Nobody \in [key : Pages \cup {Null}, sockets : SUBSET Sockets]
    BY DEF Nobody
  <1>9. ASSUME NEW p \in Pages
        PROVE  /\ owner'[p] \in [key : Pages \cup {Null}, sockets : SUBSET Sockets]
               /\ owner'[p].key \in {p, Null}
               /\ owner'[p].sockets = {t \in Sockets : p \in clients'[t]}
               /\ owner'[p].sockets = {} => owner'[p] = Nobody
               /\ states'[p].state # Null => owner'[p] # Nobody
    <2>1. /\ owner[p].sockets = {t \in Sockets : p \in clients[t]}
          /\ owner[p].sockets = {} => owner[p] = Nobody
          /\ owner[p].key \in {p, Null}
          /\ states[p].state # Null => owner[p] # Nobody
      BY DEF IInv, BooksInv, NobodyLockedOut, ShownInv
    <2>2. {t \in Sockets : p \in clients'[t]} = {t \in Sockets : p \in clients[t]} \ {s}
      BY <1>1, <1>2
    <2>3. CASE p \in gone
      <3>1. owner'[p] = Nobody /\ states'[p].state = Null
        BY <1>1, <1>2, <2>3 DEF States
      <3>2. owner[p].sockets = {s}
        BY <1>4, <2>3
      <3>3. {t \in Sockets : p \in clients'[t]} = {}
        BY <2>1, <2>2, <3>2
      <3>4. QED
        BY <1>8, <3>1, <3>3 DEF Nobody
    <2>4. CASE p \notin gone /\ p \in clients[s]
      <3>1. owner'[p] = [owner[p] EXCEPT !.sockets = @ \ {s}] /\ states'[p] = states[p]
        BY <1>1, <2>4
      <3>2. /\ owner'[p].key = owner[p].key
            /\ owner'[p].sockets = owner[p].sockets \ {s}
            /\ owner'[p] \in [key : Pages \cup {Null}, sockets : SUBSET Sockets]
        BY <1>2, <3>1
      <3>3. s \in owner[p].sockets /\ owner[p].sockets # {s}
        BY <1>4, <2>1, <2>4
      <3>4. owner'[p].sockets # {}
        BY <3>2, <3>3
      <3>5. QED
        BY <2>1, <2>2, <3>2, <3>4 DEF Nobody
    <2>5. CASE p \notin gone /\ p \notin clients[s]
      <3>1. owner'[p] = owner[p] /\ states'[p] = states[p]
        BY <1>1, <2>5
      <3>2. s \notin owner[p].sockets
        BY <2>1, <2>5
      <3>3. QED
        BY <1>2, <2>1, <2>2, <3>1, <3>2
    <2>6. QED
      BY <2>3, <2>4, <2>5
  <1>10. BooksInv' /\ NobodyLockedOut' /\ ShownInv'
    BY <1>9 DEF BooksInv, NobodyLockedOut, ShownInv, Nobody
  <1>11. SeatInv'
    BY <1>1, <1>2, TypeParts DEF IInv, SeatInv, ServerTypes
  <1>12. ServerTypes'
    <2>1. states' \in [Pages -> States]
      BY <1>1, <1>2, <1>3
    <2>2. owner' \in [Pages -> [key : Pages \cup {Null}, sockets : SUBSET Sockets]]
      BY <1>1, <1>9
    <2>3. clients' \in [Sockets -> SUBSET Pages]
      BY <1>1, <1>2
    <2>4. seat' \in [Sockets -> {"new", "in", "out"}]
      BY <1>1, TypeParts DEF IInv, ServerTypes
    <2>5. QED
      BY <2>1, <2>2, <2>3, <2>4 DEF ServerTypes
  <1>13. BoundTypes'
    BY <1>1, AwarenessAssumption, TypeParts DEF Fault, IInv, BoundTypes, bounds
  <1>14. PageTypes' /\ LineTypes' /\ PastTypes' /\ SocketInv'
    BY <1>1, <1>6, <1>7, TypeParts DEF IInv, PageTypes, LineTypes, PastTypes, SocketInv, page, past
  <1>15. QED
    BY <1>7, <1>10, <1>11, <1>12, <1>13, <1>14, TypePartsNext DEF IInv

LEMMA ServerTimesOutInv == ASSUME IInv, NEW c \in Pages, ServerTimesOut(c) PROVE IInv'
  <1>1. /\ Fault
        /\ states' = [states EXCEPT ![c].state = Null]
        /\ unheard' = unheard \cup {c} /\ muted' = muted \cup {c}
        /\ UNCHANGED <<page, up, down, seat, owner, clients, stale>>
    BY DEF ServerTimesOut
  <1>2. states \in [Pages -> States]
    BY TypeParts DEF IInv, ServerTypes
  <1>3. [states[c] EXCEPT !.state = Null] \in States
    BY <1>2 DEF States
  <1>4. /\ states' \in [Pages -> States]
        /\ \A p \in Pages : states'[p].state # Null => states[p].state # Null
    BY <1>1, <1>2, <1>3 DEF States
  <1>5. BoundTypes'
    BY <1>1, AwarenessAssumption, TypeParts DEF Fault, IInv, BoundTypes
  <1>6. PageTypes' /\ LineTypes' /\ PastTypes' /\ ServerTypes' /\ SocketInv' /\ UpInv'
    BY <1>1, <1>4, TypeParts DEF IInv, PageTypes, LineTypes, PastTypes, ServerTypes, SocketInv,
       UpInv, page
  <1>7. BooksStand'
    BY <1>1, <1>4 DEF IInv, BooksStand, BooksInv, SeatInv, ShownInv, NobodyLockedOut
  <1>8. QED
    BY <1>5, <1>6, <1>7, TypePartsNext DEF IInv, BooksStand

LEMMA ReleaseRoomInv == ASSUME IInv, ReleaseRoom PROVE IInv'
  <1>1. /\ live = {}
        /\ states' = [p \in Pages |-> Unknown]
        /\ owner' = [p \in Pages |-> Nobody]
        /\ UNCHANGED <<page, up, down, seat, clients, past, bounds>>
    BY DEF ReleaseRoom
  <1>2. Unknown \in States /\ Nobody \in [key : Pages \cup {Null}, sockets : SUBSET Sockets]
    BY DEF Unknown, Nobody, States
  <1>3. \A s \in Sockets : clients[s] = {}
    BY <1>1 DEF live, IInv, SeatInv
  <1>4. PageTypes' /\ LineTypes' /\ PastTypes' /\ BoundTypes' /\ ServerTypes'
    BY <1>1, <1>2, TypeParts DEF IInv, PageTypes, LineTypes, PastTypes, BoundTypes, ServerTypes,
       page, past, bounds
  <1>5. SocketInv' /\ UpInv' /\ SeatInv'
    BY <1>1 DEF IInv, SocketInv, UpInv, SeatInv, page
  <1>6. BooksInv' /\ ShownInv' /\ NobodyLockedOut'
    BY <1>1, <1>3 DEF BooksInv, ShownInv, NobodyLockedOut, Nobody, Unknown
  <1>7. QED
    BY <1>4, <1>5, <1>6, TypePartsNext DEF IInv

LEMMA NextInv == IInv /\ [Next]_vars => IInv'
  <1> SUFFICES ASSUME IInv, [Next]_vars PROVE IInv'
    OBVIOUS
  <1>1. ASSUME NEW p \in Pages, NEW v \in Values, Say(p, v) PROVE IInv'
    BY <1>1, SayInv
  <1>2. ASSUME NEW p \in Pages,
               Connect(p) \/ LoseConnection(p) \/ Leave(p) \/ Receive(p) \/ ServerTimesOut(p)
        PROVE  IInv'
    BY <1>2, ConnectInv, LoseConnectionInv, LeaveInv, ReceiveInv, ServerTimesOutInv
  <1>3. ASSUME NEW p \in Pages, NEW c \in Pages, PeerTimesOut(p, c) PROVE IInv'
    BY <1>3, PeerTimesOutInv
  <1>4. ASSUME NEW s \in Sockets, Join(s) \/ Accept(s) \/ Drop(s) \/ ServerNotices(s)
        PROVE  IInv'
    BY <1>4, JoinInv, AcceptInv, DropInv, ServerNoticesInv
  <1>5. CASE ReleaseRoom
    BY <1>5, ReleaseRoomInv
  <1>6. CASE UNCHANGED vars
    <2>1. PageTypes' /\ LineTypes' /\ PastTypes' /\ BoundTypes' /\ SocketInv' /\ UpInv'
      BY <1>6, TypeParts DEF vars, page, past, bounds, IInv, PageTypes, LineTypes, PastTypes,
         BoundTypes, SocketInv, UpInv
    <2>2. BooksStand' /\ ServerTypes'
      BY <1>6, BooksUntouched DEF vars
    <2>3. QED
      BY <2>1, <2>2, TypePartsNext DEF IInv, BooksStand
  <1>7. QED
    BY <1>1, <1>2, <1>3, <1>4, <1>5, <1>6 DEF Next

-----------------------------------------------------------------------------
(* What is on the way: entry e is in the i-th frame of a line up, or of a  *)
(* line down, whose i-th frame answers a join.                             *)

Sent(line, i, e) == i \in DOMAIN line /\ e \in line[i]
Told(line, i, e) == i \in DOMAIN line /\ e \in line[i].entries
Joined(line, i)  == i \in DOMAIN line /\ line[i].what = "joined"

\* What sending, taking and losing do to a line up.
LEMMA SentFacts ==
    ASSUME NEW q \in Seq(SUBSET FrameOf)
    PROVE  /\ \A i, e : Sent(q, i, e) => i \in 1..Len(q) /\ e \in FrameOf
           /\ \A f \in SUBSET FrameOf : \A i, e :
                 Sent(Append(q, f), i, e) <=> Sent(q, i, e) \/ (i = Len(q) + 1 /\ e \in f)
           /\ \A n \in 0..Len(q) : \A i, e :
                 /\ Sent(SubSeq(q, 1, n), i, e) => Sent(q, i, e)
                 /\ Sent(SubSeq(q, n + 1, Len(q)), i, e) => Sent(q, i + n, e)
           /\ q # <<>> => \A i, e :
                 /\ Sent(Tail(q), i, e) => Sent(q, i + 1, e)
                 /\ Sent(q, i, e) =>
                       \/ i = 1 /\ e \in Head(q)
                       \/ i > 1 /\ Sent(Tail(q), i - 1, e)
                 /\ e \in Head(q) => Sent(q, 1, e)
           /\ \A i, e : ~Sent(<<>>, i, e)
  <1>1. \A i, e : Sent(q, i, e) => i \in 1..Len(q) /\ e \in FrameOf
    BY DEF Sent
  <1>2. ASSUME NEW f \in SUBSET FrameOf, NEW i, NEW e
        PROVE  Sent(Append(q, f), i, e) <=> Sent(q, i, e) \/ (i = Len(q) + 1 /\ e \in f)
    BY DEF Sent
  <1>3. ASSUME NEW n \in 0..Len(q), NEW i, NEW e
        PROVE  /\ Sent(SubSeq(q, 1, n), i, e) => Sent(q, i, e)
               /\ Sent(SubSeq(q, n + 1, Len(q)), i, e) => Sent(q, i + n, e)
    <2>1. Sent(SubSeq(q, 1, n), i, e) => Sent(q, i, e)
      BY DEF Sent
    <2>2. Sent(SubSeq(q, n + 1, Len(q)), i, e) => Sent(q, i + n, e)
      BY DEF Sent
    <2>3. QED
      BY <2>1, <2>2
  <1>4. ASSUME q # <<>>, NEW i, NEW e
        PROVE  /\ Sent(Tail(q), i, e) => Sent(q, i + 1, e)
               /\ Sent(q, i, e) =>
                     \/ i = 1 /\ e \in Head(q)
                     \/ i > 1 /\ Sent(Tail(q), i - 1, e)
               /\ e \in Head(q) => Sent(q, 1, e)
    <2>1. Sent(Tail(q), i, e) => Sent(q, i + 1, e)
      BY <1>4 DEF Sent
    <2>2. Sent(q, i, e) => (i = 1 /\ e \in Head(q)) \/ (i > 1 /\ Sent(Tail(q), i - 1, e))
      BY <1>4 DEF Sent
    <2>3. e \in Head(q) => Sent(q, 1, e)
      BY <1>4 DEF Sent
    <2>4. QED
      BY <2>1, <2>2, <2>3
  <1>5. \A i, e : ~Sent(<<>>, i, e)
    BY DEF Sent
  <1>6. QED
    BY <1>1, <1>2, <1>3, <1>4, <1>5

\* The same for a line down.
LEMMA ToldFacts ==
    ASSUME NEW q \in Seq(Packets)
    PROVE  /\ \A i, e : Told(q, i, e) => i \in 1..Len(q) /\ e \in FrameOf
           /\ \A i : Joined(q, i) => i \in 1..Len(q)
           /\ \A f \in Packets :
                 /\ \A i, e : Told(Append(q, f), i, e)
                                 <=> Told(q, i, e) \/ (i = Len(q) + 1 /\ e \in f.entries)
                 /\ \A i : Joined(Append(q, f), i)
                                 <=> Joined(q, i) \/ (i = Len(q) + 1 /\ f.what = "joined")
           /\ q # <<>> =>
                 /\ \A i, e :
                       /\ Told(Tail(q), i, e) => Told(q, i + 1, e)
                       /\ Told(q, i, e) =>
                             \/ i = 1 /\ e \in Head(q).entries
                             \/ i > 1 /\ Told(Tail(q), i - 1, e)
                       /\ e \in Head(q).entries => Told(q, 1, e)
                 /\ \A i :
                       /\ Joined(Tail(q), i) => Joined(q, i + 1)
                       /\ Joined(q, i) =>
                             \/ i = 1 /\ Head(q).what = "joined"
                             \/ i > 1 /\ Joined(Tail(q), i - 1)
           /\ \A i, e : ~Told(<<>>, i, e) /\ ~Joined(<<>>, i)
  <1>1. ASSUME NEW i, NEW e, Told(q, i, e) PROVE i \in 1..Len(q) /\ e \in FrameOf
    <2>1. i \in 1..Len(q) /\ q[i] \in Packets /\ e \in q[i].entries
      BY <1>1 DEF Told
    <2>2. q[i].entries \subseteq FrameOf
      BY <2>1 DEF Packets
    <2>3. QED
      BY <2>1, <2>2
  <1>2. \A i : Joined(q, i) => i \in 1..Len(q)
    BY DEF Joined
  <1>3. ASSUME NEW f \in Packets, NEW i, NEW e
        PROVE  Told(Append(q, f), i, e) <=> Told(q, i, e) \/ (i = Len(q) + 1 /\ e \in f.entries)
    BY DEF Told
  <1>4. ASSUME NEW f \in Packets, NEW i
        PROVE  Joined(Append(q, f), i) <=> Joined(q, i) \/ (i = Len(q) + 1 /\ f.what = "joined")
    BY DEF Joined
  <1>5. ASSUME q # <<>>, NEW i, NEW e
        PROVE  /\ Told(Tail(q), i, e) => Told(q, i + 1, e)
               /\ Told(q, i, e) =>
                     \/ i = 1 /\ e \in Head(q).entries
                     \/ i > 1 /\ Told(Tail(q), i - 1, e)
               /\ e \in Head(q).entries => Told(q, 1, e)
    <2>1. Told(Tail(q), i, e) => Told(q, i + 1, e)
      BY <1>5 DEF Told
    <2>2. Told(q, i, e) => (i = 1 /\ e \in Head(q).entries) \/ (i > 1 /\ Told(Tail(q), i - 1, e))
      BY <1>5 DEF Told
    <2>3. e \in Head(q).entries => Told(q, 1, e)
      BY <1>5 DEF Told
    <2>4. QED
      BY <2>1, <2>2, <2>3
  <1>6. ASSUME q # <<>>, NEW i
        PROVE  /\ Joined(Tail(q), i) => Joined(q, i + 1)
               /\ Joined(q, i) =>
                     \/ i = 1 /\ Head(q).what = "joined"
                     \/ i > 1 /\ Joined(Tail(q), i - 1)
    BY <1>6 DEF Joined
  <1>7. \A i, e : ~Told(<<>>, i, e) /\ ~Joined(<<>>, i)
    BY DEF Told, Joined
  <1>8. QED
    BY <1>1, <1>2, <1>3, <1>4, <1>5, <1>6, <1>7

-----------------------------------------------------------------------------
(* The invariant behind the screens.                                       *)

At(p)     == <<p, socket[p]>>
Said(p)   == Entry(p, Own(p))
Spoken(p) == Connected(p) /\ \A i : ~Joined(down[At(p)], i)

\* A frame says one thing of a client id.  A socket that has not joined yet has
\* been sent nothing and one that was never opened has not joined; it may let
\* go of nobody but its page, and whoever is owned is so under their own key.
UpOnce ==
    \A s \in Sockets : \A i, e, d :
       Sent(up[s], i, e) /\ Sent(up[s], i, d) /\ e.id = d.id => e = d

DownOnce ==
    \A s \in Sockets : \A i, e, d :
       Told(down[s], i, e) /\ Told(down[s], i, d) /\ e.id = d.id => e = d

PlaceInv ==
    /\ \A s \in Sockets :
          /\ seat[s] = "new" => down[s] = <<>>
          /\ clients[s] \subseteq {s[1]}
          /\ s[2] > tries[s[1]] => seat[s] = "new"
    /\ \A p \in Pages : owner[p].sockets # {} => owner[p].key = p

LineInv == UpOnce /\ DownOnce /\ PlaceInv

\* A page has its own state until it is destroyed, and no connection then.
LifeInv ==
    \A p \in Pages : /\ p \in closed => socket[p] = 0
                     /\ Own(p).state = Null => p \in closed
                     /\ socket[p] <= tries[p]

\* The clocks at which anybody but c itself knows of c: the server, another
\* page, a frame on the way down.
Knows(c, n) ==
    \/ n = states[c].clock
    \/ \E b \in Pages \ {c} : n = view[b][c].clock
    \/ \E t \in Sockets : \E i, e : Told(down[t], i, e) /\ e.id = c /\ e.clock = n

\* Nobody is ahead of c on itself; what it says of itself with its own clock, or
\* of its end, is what it last said.
Clocks(c) ==
    /\ \A n : Knows(c, n) => n <= Own(c).clock
    /\ \A s \in Sockets : s[1] = c => \A i, e : Sent(up[s], i, e) /\ e.id = c =>
          /\ e.clock <= Own(c).clock
          /\ e.clock = Own(c).clock \/ e.state = Null => e = Said(c)

\* While c's last word is on its way up nobody knows of it.
Fresh(c) ==
    \A s \in Sockets : \A i, e, n :
       s[1] = c /\ Sent(up[s], i, e) /\ e.id = c /\ e.clock = Own(c).clock /\ Knows(c, n)
          => n < Own(c).clock

\* And it is there once.
Single(c) ==
    \A s, r \in Sockets : \A i, e, j, d :
       (/\ s[1] = c /\ Sent(up[s], i, e) /\ e.id = c /\ e.clock = Own(c).clock
        /\ r[1] = c /\ Sent(up[r], j, d) /\ d.id = c /\ d.clock = Own(c).clock)
          => r = s /\ j = i

\* A page is not told that it is gone itself with its own clock, but behind the
\* answer to its join, before which it speaks again.
Echo(c) ==
    socket[c] # 0 =>
       \A i, e : Told(down[At(c)], i, e) /\ e.id = c /\ e.state = Null /\ e.clock = Own(c).clock
          => \E j \in 1..(i - 1) : Joined(down[At(c)], j)

\* The word of a page is spread: the server holds it and every page in the room
\* knows of it or is about to be told.
Spread(c) ==
    /\ states[c] = Own(c) /\ At(c) \in owner[c].sockets
    /\ \A b \in Pages \ {c} :
          Connected(b) => view[b][c] = Own(c) \/ \E i : Told(down[At(b)], i, Said(c))

\* What a page last said once it has joined is in nothing an older socket still
\* carries.  Unless it was not accepted, who knows of its clock knows of its
\* state, and it is on the way up or spread.
Speaks(c) ==
    Spoken(c) =>
       /\ \A s \in Sockets : s[1] = c /\ s # At(c) =>
             \A i, e : Sent(up[s], i, e) /\ e.id = c => e.clock < Own(c).clock
       /\ At(c) \notin owner[c].sockets => states[c].clock < Own(c).clock
       /\ c \notin unheard =>
             /\ \A b \in Pages \ {c} : view[b][c].clock = Own(c).clock => view[b][c] = Own(c)
             /\ \A t \in Sockets : t[1] # c =>
                   \A i, e : Told(down[t], i, e) /\ e.id = c /\ e.clock = Own(c).clock => e = Said(c)
             /\ (\E i : Sent(up[At(c)], i, Said(c))) \/ Spread(c)

\* What a page in the room has been told of another, and is about to be, ends
\* with what the server holds.
Follows(b, c) ==
    b # c /\ c \notin muted /\ Connected(b) =>
       /\ \A i, e : Told(down[At(b)], i, e) /\ e.id = c =>
             /\ e.clock <= states[c].clock
             /\ (\A j, d : Told(down[At(b)], j, d) /\ j > i => d.id # c) => e = Entry(c, states[c])
       /\ Spoken(b) /\ c \notin stale[b] /\ view[b][c].state # Null =>
             /\ view[b][c].clock <= states[c].clock
             /\ (\A i, e : Told(down[At(b)], i, e) => e.id # c) => states[c].state # Null

WordInv ==
    /\ LineInv
    /\ LifeInv
    /\ \A c \in Pages : Clocks(c) /\ Fresh(c) /\ Single(c) /\ Echo(c) /\ Speaks(c)
    /\ \A b, c \in Pages : Follows(b, c)

ScreenInv == IInv /\ WordInv

-----------------------------------------------------------------------------
(* What the invariant is for.                                              *)

\* What the invariant says once the frames have arrived.
LEMMA ScreensFollow == ScreenInv => ScreensAgree
  <1> SUFFICES ASSUME ScreenInv, Quiet, NEW b \in Pages, NEW c \in Pages, Connected(b)
               PROVE  /\ Connected(c) /\ c \notin unheard => view[b][c] = Own(c)
                      /\ b # c /\ ~(\E s \in live : s[1] = c)
                            => view[b][c].state = Null \/ c \in muted \cup stale[b]
    BY DEF ScreensAgree, QuietViewsAgree, GoneIsUnseen
  <1>1. \A s \in Sockets : up[s] = <<>> /\ down[s] = <<>>
    BY DEF Quiet
  <1>2. ASSUME NEW p \in Pages, Connected(p) PROVE At(p) \in Sockets /\ Spoken(p)
    <2>1. At(p) \in Sockets
      BY <1>2 DEF Connected, live, At
    <2>2. QED
      BY <1>1, <1>2, <2>1 DEF Spoken, Joined
  <1>3. ASSUME Connected(c), c \notin unheard PROVE view[b][c] = Own(c)
    <2>1. CASE b = c
      BY <2>1 DEF Own
    <2>2. CASE b # c
      <3>1. Spread(c)
        BY <1>1, <1>2, <1>3 DEF ScreenInv, WordInv, Speaks, Sent
      <3>2. QED
        BY <1>1, <1>2, <2>2, <3>1 DEF Spread, Told
    <2>3. QED
      BY <2>1, <2>2
  <1>4. ASSUME b # c, view[b][c].state # Null, c \notin muted, c \notin stale[b]
        PROVE  \E s \in live : s[1] = c
    <2>1. states[c].state # Null
      <3>1. Follows(b, c) /\ Spoken(b) /\ At(b) \in Sockets
        BY <1>2 DEF ScreenInv, WordInv
      <3>2. QED
        BY <1>1, <1>4, <3>1 DEF Follows, Told
    <2>2. PICK s \in Sockets : c \in clients[s]
      BY <2>1 DEF ScreenInv, IInv, ShownInv, BooksInv
    <2>3. s[1] = c /\ s \in live
      BY <2>2 DEF ScreenInv, WordInv, LineInv, PlaceInv, IInv, SeatInv, live
    <2>4. QED
      BY <2>3
  <1>5. QED
    BY <1>3, <1>4

\* Nobody has said anything to anybody.
LEMMA WordInit == Init => WordInv
  <1> SUFFICES ASSUME Init PROVE WordInv
    OBVIOUS
  <1>1. IInv
    BY InitInv
  <1>2. /\ \A s \in Sockets : up[s] = <<>> /\ down[s] = <<>> /\ seat[s] = "new" /\ clients[s] = {}
        /\ \A p \in Pages : socket[p] = 0 /\ tries[p] = 0 /\ owner[p] = Nobody /\ states[p] = Unknown
        /\ closed = {}
    BY DEF Init
  <1>3. \A p \in Pages : ~Connected(p) /\ ~Spoken(p)
    BY <1>2 DEF Connected, Spoken
  <1>4. \A i, e : ~Sent(<<>>, i, e) /\ ~Told(<<>>, i, e) /\ ~Joined(<<>>, i)
    BY DEF Sent, Told, Joined
  <1>5. PICK v \in Values : view = [p \in Pages |-> [q \in Pages |->
            IF q = p THEN [clock |-> 1, state |-> v] ELSE Unknown]]
    BY DEF Init
  <1>6. \A p \in Pages : /\ Own(p) = [clock |-> 1, state |-> v]
                         /\ \A b \in Pages \ {p} : view[b][p] = Unknown
    BY <1>5 DEF Own
  <1>7. v # Null
    BY AwarenessAssumption
  <1>8. ASSUME NEW c \in Pages
        PROVE  /\ Clocks(c) /\ Fresh(c) /\ Single(c) /\ Echo(c) /\ Speaks(c)
               /\ \A b \in Pages : Follows(b, c)
    <2>1. \A n : Knows(c, n) => n = 0
      BY <1>2, <1>4, <1>6, <1>8 DEF Knows, Unknown
    <2>2. Own(c).clock = 1
      BY <1>6
    <2>3. Clocks(c)
      BY <1>2, <1>4, <2>1, <2>2 DEF Clocks
    <2>4. Fresh(c) /\ Single(c)
      BY <1>2, <1>4 DEF Fresh, Single
    <2>5. Echo(c)
      BY <1>2 DEF Echo
    <2>6. Speaks(c) /\ \A b \in Pages : Follows(b, c)
      BY <1>3 DEF Speaks, Follows
    <2>7. QED
      BY <2>3, <2>4, <2>5, <2>6
  <1>9. LineInv
    BY <1>2, <1>4, SocketType DEF LineInv, UpOnce, DownOnce, PlaceInv, Nobody
  <1>10. LifeInv
    <2>1. ASSUME NEW p \in Pages PROVE Own(p).state # Null
      BY <1>6, <1>7
    <2>2. ASSUME NEW p \in Pages PROVE socket[p] <= tries[p]
      BY <1>2
    <2>3. QED
      BY <1>2, <2>1, <2>2 DEF LifeInv
  <1>11. QED
    BY <1>8, <1>9, <1>10 DEF WordInv

-----------------------------------------------------------------------------
(* What a step leaves alone.                                               *)

\* An entry tells a page, or the server, what it says if it is news, when a
\* frame says one thing of a client id.
Once(entries) == \A e, d \in entries : e.id = d.id => e = d

LEMMA ApplyExact ==
    ASSUME NEW self, NEW known \in [Pages -> States], NEW entries, NEW p \in Pages,
           Once(entries)
    PROVE  /\ (\A e \in entries : e.id # p) => Apply(self, known, entries)[p] = known[p]
           /\ \A e \in entries : e.id = p =>
                 Apply(self, known, entries)[p] = Heard(self, known[p], e)
  <1> DEFINE about == {e \in entries : e.id = p}
  <1>1. ASSUME \A e \in entries : e.id # p
        PROVE  Apply(self, known, entries)[p] = known[p]
    BY <1>1 DEF Apply
  <1>2. ASSUME NEW e \in entries, e.id = p
        PROVE  Apply(self, known, entries)[p] = Heard(self, known[p], e)
    <2>1. about = {e}
      BY <1>2 DEF Once
    <2>2. (CHOOSE x \in about : TRUE) = e
      BY <2>1
    <2>3. Apply(self, known, entries)[p] = Heard(self, known[p], CHOOSE x \in about : TRUE)
      BY <2>1 DEF Apply
    <2>4. QED
      BY <2>2, <2>3
  <1>3. QED
    BY <1>1, <1>2

\* What a page sends, in terms of what is on the way.
Open(p) == socket[p] # 0 /\ seat[At(p)] # "out"

LEMMA EmitSends ==
    ASSUME TypeOK, SocketInv, NEW p \in Pages, NEW x \in FrameOf, Emit(p, x)
    PROVE  \A s \in Sockets : \A i, e :
              Sent(up'[s], i, e) <=>
                 \/ Sent(up[s], i, e)
                 \/ s = At(p) /\ Open(p) /\ i = Len(up[s]) + 1 /\ e = x
  <1>1. up \in [Sockets -> Seq(SUBSET FrameOf)]
    BY DEF TypeOK
  <1>2. CASE ~Open(p)
    <2>1. up' = up
      BY <1>2 DEF Emit, Open, At
    <2>2. QED
      BY <1>2, <2>1
  <1>3. CASE Open(p)
    <2>1. At(p) \in Sockets
      BY <1>3, SocketFacts DEF Open, At
    <2>2. up' = [up EXCEPT ![At(p)] = Append(up[At(p)], {x})]
      BY <1>1, <1>3, <2>1 DEF Emit, Open, At
    <2>3. ASSUME NEW s \in Sockets, NEW i, NEW e
          PROVE  Sent(up'[s], i, e) <=>
                    \/ Sent(up[s], i, e)
                    \/ s = At(p) /\ Open(p) /\ i = Len(up[s]) + 1 /\ e = x
      <3>1. CASE s # At(p)
        BY <1>1, <2>2, <3>1
      <3>2. CASE s = At(p)
        <4>1. up'[s] = Append(up[s], {x}) /\ up[s] \in Seq(SUBSET FrameOf)
          BY <1>1, <2>1, <2>2, <3>2
        <4>2. Sent(up'[s], i, e) <=> Sent(up[s], i, e) \/ (i = Len(up[s]) + 1 /\ e \in {x})
          BY <4>1, SentFacts
        <4>3. QED
          BY <1>3, <3>2, <4>2
      <3>3. QED
        BY <3>1, <3>2
    <2>4. QED
      BY <2>3
  <1>4. QED
    BY <1>2, <1>3

\* What a broadcast tells.
LEMMA BroadcastTells ==
    ASSUME TypeOK, NEW to, NEW f \in Packets, Broadcast(to, f)
    PROVE  \A t \in Sockets :
              /\ \A i, e : Told(down'[t], i, e) <=>
                    \/ Told(down[t], i, e)
                    \/ t \in to /\ socket[t[1]] = t[2] /\ i = Len(down[t]) + 1 /\ e \in f.entries
              /\ \A i : Joined(down'[t], i) <=>
                    \/ Joined(down[t], i)
                    \/ t \in to /\ socket[t[1]] = t[2] /\ i = Len(down[t]) + 1 /\ f.what = "joined"
              /\ ~(t \in to /\ socket[t[1]] = t[2]) => down'[t] = down[t]
  <1>1. down \in [Sockets -> Seq(Packets)]
    BY DEF TypeOK, Packets
  <1>2. ASSUME NEW t \in Sockets
        PROVE  /\ \A i, e : Told(down'[t], i, e) <=>
                    \/ Told(down[t], i, e)
                    \/ t \in to /\ socket[t[1]] = t[2] /\ i = Len(down[t]) + 1 /\ e \in f.entries
               /\ \A i : Joined(down'[t], i) <=>
                    \/ Joined(down[t], i)
                    \/ t \in to /\ socket[t[1]] = t[2] /\ i = Len(down[t]) + 1 /\ f.what = "joined"
               /\ ~(t \in to /\ socket[t[1]] = t[2]) => down'[t] = down[t]
    <2>1. down[t] \in Seq(Packets)
      BY <1>1
    <2>2. CASE t \in to /\ socket[t[1]] = t[2]
      <3>1. down'[t] = Append(down[t], f)
        BY <2>2 DEF Broadcast
      <3>2. QED
        BY <2>1, <2>2, <3>1, ToldFacts
    <2>3. CASE ~(t \in to /\ socket[t[1]] = t[2])
      <3>1. down'[t] = down[t]
        BY <2>3 DEF Broadcast
      <3>2. QED
        BY <2>3, <3>1
    <2>4. QED
      BY <2>2, <2>3
  <1>3. QED
    BY <1>2

\* Nobody learns of a clock that was not known, and what goes up is what went
\* up, some of it gone.
Unlearned(c) == \A n : Knows(c, n)' => Knows(c, n) \/ n = 0

Unsent(c) ==
    \A s \in Sockets : s[1] = c =>
       \E k \in Nat : \A i, e : Sent(up'[s], i, e) /\ e.id = c => Sent(up[s], i + k, e)

\* Clocks are numbers.
LEMMA OwnFacts ==
    ASSUME TypeOK, NEW c \in Pages
    PROVE  /\ Own(c) \in States /\ Own(c).clock \in Nat
           /\ Said(c).id = c /\ Said(c).clock = Own(c).clock /\ Said(c).state = Own(c).state
           /\ states[c] \in States /\ states[c].clock \in Nat
           /\ \A b \in Pages : view[b][c] \in States /\ view[b][c].clock \in Nat
  BY DEF TypeOK, Own, States, Said, Entry

LEMMA KnowsNat ==
    ASSUME TypeOK, NEW c \in Pages, NEW n, Knows(c, n)
    PROVE  n \in Nat
  <1>1. CASE \E t \in Sockets : \E i, e : Told(down[t], i, e) /\ e.id = c /\ e.clock = n
    <2>1. PICK t \in Sockets : \E i, e : Told(down[t], i, e) /\ e.id = c /\ e.clock = n
      BY <1>1
    <2>2. down[t] \in Seq(Packets)
      BY DEF TypeOK, Packets
    <2>3. PICK e \in FrameOf : e.clock = n
      BY <2>1, <2>2, ToldFacts
    <2>4. QED
      BY <2>3 DEF FrameOf
  <1>2. QED
    BY <1>1, OwnFacts DEF Knows

\* Then c's last word is still in one place.
LEMMA SingleStands ==
    ASSUME TypeOK, TypeOK', NEW c \in Pages, Own(c)' = Own(c), Unsent(c), Single(c)
    PROVE  Single(c)'
  <1>1. ASSUME NEW s \in Sockets, NEW r \in Sockets, NEW i, NEW e, NEW j, NEW d,
               s[1] = c, Sent(up'[s], i, e), e.id = c, e.clock = Own(c).clock,
               r[1] = c, Sent(up'[r], j, d), d.id = c, d.clock = Own(c).clock
        PROVE  r = s /\ j = i
    <2>1. PICK k \in Nat : \A m, x : Sent(up'[s], m, x) /\ x.id = c => Sent(up[s], m + k, x)
      BY <1>1 DEF Unsent
    <2>2. PICK l \in Nat : \A m, x : Sent(up'[r], m, x) /\ x.id = c => Sent(up[r], m + l, x)
      BY <1>1 DEF Unsent
    <2>3. Sent(up[s], i + k, e) /\ Sent(up[r], j + l, d)
      BY <1>1, <2>1, <2>2
    <2>4. r = s
      BY <1>1, <2>3 DEF Single
    <2>5. Sent(up[s], j + k, d)
      BY <1>1, <2>1, <2>4
    <2>6. i \in Nat /\ j \in Nat
      <3>1. up'[s] \in Seq(SUBSET FrameOf) /\ up'[r] \in Seq(SUBSET FrameOf)
        BY <1>1 DEF TypeOK
      <3>2. i \in 1..Len(up'[s]) /\ j \in 1..Len(up'[r])
        BY <1>1, <3>1, SentFacts
      <3>3. QED
        BY <3>2
    <2>7. j + k = i + k
      BY <1>1, <2>3, <2>5 DEF Single
    <2>8. QED
      BY <2>4, <2>6, <2>7
  <1>2. QED
    BY <1>1 DEF Single

\* Then c's own word keeps its place.
LEMMA WordStands ==
    ASSUME TypeOK, TypeOK', NEW c \in Pages, Own(c)' = Own(c), Unlearned(c), Unsent(c)
    PROVE  Clocks(c) /\ Fresh(c) /\ Single(c) => Clocks(c)' /\ Fresh(c)' /\ Single(c)'
  <1>1. Own(c).clock \in Nat /\ Said(c)' = Said(c)
    BY OwnFacts DEF Said
  <1>2. Knows(c, states[c].clock) /\ states[c].clock \in Nat
    BY OwnFacts DEF Knows
  <1>3. ASSUME Clocks(c) PROVE Clocks(c)'
    <2>1. \A n : Knows(c, n)' => n <= Own(c).clock
      BY <1>1, <1>3 DEF Unlearned, Clocks
    <2>2. ASSUME NEW s \in Sockets, s[1] = c, NEW i, NEW e, Sent(up'[s], i, e), e.id = c
          PROVE  /\ e.clock <= Own(c).clock
                 /\ e.clock = Own(c).clock \/ e.state = Null => e = Said(c)
      BY <1>3, <2>2 DEF Unsent, Clocks
    <2>3. QED
      BY <1>1, <2>1, <2>2 DEF Clocks
  <1>4. ASSUME Fresh(c) PROVE Fresh(c)'
    <2>1. ASSUME NEW s \in Sockets, s[1] = c, NEW i, NEW e, Sent(up'[s], i, e),
                 e.id = c, e.clock = Own(c).clock, NEW n, Knows(c, n)'
          PROVE  n < Own(c).clock
      <3>1. \A m : Knows(c, m) => m < Own(c).clock
        BY <1>4, <2>1 DEF Unsent, Fresh
      <3>2. 0 < Own(c).clock
        BY <1>1, <1>2, <3>1
      <3>3. QED
        BY <2>1, <3>1, <3>2 DEF Unlearned
    <2>2. QED
      BY <2>1 DEF Fresh
  <1>5. Single(c) => Single(c)'
    BY SingleStands
  <1>6. QED
    BY <1>3, <1>4, <1>5

\* Nothing new is on its way about c, to a socket and to any.
UntoldAt(t, c) == \A i, e : Told(down'[t], i, e) /\ e.id = c => Told(down[t], i, e)

Untold(c) == \A t \in Sockets : UntoldAt(t, c)

\* A page in the room was there before, and what it is about to be told it still
\* is.
Stays(b) ==
    Connected(b)' =>
       /\ Connected(b) /\ At(b)' = At(b)
       /\ \A i : Joined(down'[At(b)], i) <=> Joined(down[At(b)], i)
       /\ \A i, e : Told(down[At(b)], i, e) => Told(down'[At(b)], i, e)

\* Where a page that is connected is, and that it stays there as it speaks.
LEMMA AtSocket ==
    ASSUME NEW b \in Pages, Connected(b)
    PROVE  At(b) \in Sockets /\ At(b)[1] = b /\ seat[At(b)] = "in" /\ socket[b] # 0
  BY DEF Connected, live, At

LEMMA StaysSpoken ==
    ASSUME NEW b \in Pages, Stays(b)
    PROVE  Spoken(b)' => Spoken(b) /\ Connected(b)' /\ At(b)' = At(b)
  <1> SUFFICES ASSUME Spoken(b)' PROVE Spoken(b) /\ Connected(b)' /\ At(b)' = At(b)
    OBVIOUS
  <1>1. Connected(b)' /\ \A i : ~Joined(down'[At(b)'], i)
    BY DEF Spoken
  <1>2. /\ Connected(b) /\ At(b)' = At(b)
        /\ \A i : Joined(down'[At(b)], i) <=> Joined(down[At(b)], i)
    BY <1>1 DEF Stays
  <1>3. QED
    BY <1>1, <1>2 DEF Spoken

\* What keeps each of the rest of a page's word.
LEMMA EchoStands ==
    ASSUME NEW c \in Pages, Own(c)' = Own(c),
           socket'[c] # 0 => \/ down'[At(c)'] = <<>>
                             \/ /\ socket'[c] = socket[c] /\ UntoldAt(At(c), c)
                                /\ \A i : Joined(down[At(c)], i) => Joined(down'[At(c)], i)
    PROVE  Echo(c) => Echo(c)'
  <1> SUFFICES ASSUME Echo(c), socket'[c] # 0,
                      NEW i, NEW e, Told(down'[At(c)'], i, e), e.id = c, e.state = Null,
                      e.clock = Own(c).clock
               PROVE  \E j \in 1..(i - 1) : Joined(down'[At(c)'], j)
    BY DEF Echo
  <1>1. /\ At(c)' = At(c) /\ socket[c] # 0 /\ UntoldAt(At(c), c)
        /\ \A j : Joined(down[At(c)], j) => Joined(down'[At(c)], j)
    <2>1. CASE down'[At(c)'] = <<>>
      BY <2>1 DEF Told
    <2>2. CASE down'[At(c)'] # <<>>
      BY <2>2 DEF At
    <2>3. QED
      BY <2>1, <2>2
  <1>2. Told(down[At(c)], i, e)
    BY <1>1 DEF UntoldAt
  <1>3. PICK j \in 1..(i - 1) : Joined(down[At(c)], j)
    BY <1>1, <1>2 DEF Echo
  <1>4. QED
    BY <1>1, <1>3

\* What anybody else is told of c they were about to be told.
Retold(c) ==
    \A t \in Sockets : t[1] # c =>
       \A i, e : Told(down'[t], i, e) /\ e.id = c => \E j : Told(down[t], j, e)

LEMMA SpeaksStands ==
    ASSUME TypeOK, NEW c \in Pages, Own(c)' = Own(c), Unsent(c),
           \A b \in Pages \ {c} : Stays(b),
           Spoken(c)' => Spoken(c) /\ Connected(c)' /\ At(c)' = At(c),
           states'[c].clock = states[c].clock, owner'[c] = owner[c],
           c \notin unheard' =>
              /\ c \notin unheard
              /\ states'[c] = states[c]
              /\ \A b \in Pages \ {c} : view'[b][c] = view[b][c]
              /\ Retold(c)
              /\ Connected(c)' => \A i : Sent(up[At(c)], i, Said(c))
                                           => \E j : Sent(up'[At(c)], j, Said(c))
    PROVE  Speaks(c) => Speaks(c)'
  <1> SUFFICES ASSUME Speaks(c), Spoken(c)'
               PROVE  /\ \A s \in Sockets : s[1] = c /\ s # At(c)' =>
                           \A i, e : Sent(up'[s], i, e) /\ e.id = c => e.clock < Own(c).clock
                      /\ At(c)' \notin owner'[c].sockets => states'[c].clock < Own(c).clock
                      /\ c \notin unheard' =>
                           /\ \A b \in Pages \ {c} :
                                 view'[b][c].clock = Own(c).clock => view'[b][c] = Own(c)
                           /\ \A t \in Sockets : t[1] # c =>
                                 \A i, e : Told(down'[t], i, e) /\ e.id = c /\ e.clock = Own(c).clock
                                              => e = Said(c)
                           /\ (\E i : Sent(up'[At(c)'], i, Said(c))) \/ Spread(c)'
    <2>1. Said(c)' = Said(c)
      BY DEF Said
    <2>2. QED
      BY <2>1 DEF Speaks
  <1>1. Spoken(c) /\ Connected(c)' /\ At(c)' = At(c)
    OBVIOUS
  <1>2. \A s \in Sockets : s[1] = c /\ s # At(c)' =>
           \A i, e : Sent(up'[s], i, e) /\ e.id = c => e.clock < Own(c).clock
    BY <1>1 DEF Speaks, Unsent
  <1>3. At(c)' \notin owner'[c].sockets => states'[c].clock < Own(c).clock
    BY <1>1 DEF Speaks
  <1>4. ASSUME c \notin unheard'
        PROVE  /\ \A b \in Pages \ {c} :
                     view'[b][c].clock = Own(c).clock => view'[b][c] = Own(c)
               /\ \A t \in Sockets : t[1] # c =>
                     \A i, e : Told(down'[t], i, e) /\ e.id = c /\ e.clock = Own(c).clock
                                  => e = Said(c)
               /\ (\E i : Sent(up'[At(c)'], i, Said(c))) \/ Spread(c)'
    <2>1. /\ c \notin unheard /\ states'[c] = states[c]
          /\ \A b \in Pages \ {c} : view'[b][c] = view[b][c]
          /\ Retold(c)
          /\ \A i : Sent(up[At(c)], i, Said(c)) => \E j : Sent(up'[At(c)], j, Said(c))
      BY <1>1, <1>4
    <2>2. /\ \A b \in Pages \ {c} : view[b][c].clock = Own(c).clock => view[b][c] = Own(c)
          /\ \A t \in Sockets : t[1] # c =>
                \A i, e : Told(down[t], i, e) /\ e.id = c /\ e.clock = Own(c).clock => e = Said(c)
          /\ (\E i : Sent(up[At(c)], i, Said(c))) \/ Spread(c)
      BY <1>1, <2>1 DEF Speaks
    <2>3. \A b \in Pages \ {c} : view'[b][c].clock = Own(c).clock => view'[b][c] = Own(c)
      BY <2>1, <2>2
    <2>4. \A t \in Sockets : t[1] # c =>
             \A i, e : Told(down'[t], i, e) /\ e.id = c /\ e.clock = Own(c).clock => e = Said(c)
      BY <2>1, <2>2 DEF Retold
    <2>5. ASSUME Spread(c) PROVE Spread(c)'
      <3>1. states'[c] = Own(c)' /\ At(c)' \in owner'[c].sockets
        BY <1>1, <2>1, <2>5 DEF Spread
      <3>2. ASSUME NEW b \in Pages \ {c}, Connected(b)'
            PROVE  view'[b][c] = Own(c)' \/ \E i : Told(down'[At(b)'], i, Said(c)')
        <4>1. /\ Connected(b) /\ At(b)' = At(b)
              /\ \A i, e : Told(down[At(b)], i, e) => Told(down'[At(b)], i, e)
          BY <3>2 DEF Stays
        <4>2. view[b][c] = Own(c) \/ \E i : Told(down[At(b)], i, Said(c))
          BY <2>5, <4>1 DEF Spread
        <4>3. Said(c)' = Said(c)
          BY DEF Said
        <4>4. QED
          BY <2>1, <4>1, <4>2, <4>3
      <3>3. QED
        BY <3>1, <3>2 DEF Spread
    <2>6. (\E i : Sent(up'[At(c)'], i, Said(c))) \/ Spread(c)'
      BY <1>1, <2>1, <2>2, <2>5
    <2>7. QED
      BY <2>3, <2>4, <2>6
  <1>5. QED
    BY <1>2, <1>3, <1>4

\* What a page follows of another it still follows.
LEMMA FollowsKept ==
    ASSUME TypeOK, NEW b \in Pages, NEW c \in Pages, Stays(b),
           Connected(b)' => UntoldAt(At(b), c), states'[c] = states[c],
           (c \in muted => c \in muted'),
           \/ view'[b][c].state = Null
           \/ view'[b][c] = view[b][c] /\ (c \in stale[b] => c \in stale'[b])
    PROVE  Follows(b, c) => Follows(b, c)'
  <1> SUFFICES ASSUME Follows(b, c), b # c, c \notin muted', Connected(b)'
               PROVE  /\ \A i, e : Told(down'[At(b)'], i, e) /\ e.id = c =>
                            /\ e.clock <= states'[c].clock
                            /\ (\A j, d : Told(down'[At(b)'], j, d) /\ j > i => d.id # c)
                                  => e = Entry(c, states'[c])
                      /\ Spoken(b)' /\ c \notin stale'[b] /\ view'[b][c].state # Null =>
                            /\ view'[b][c].clock <= states'[c].clock
                            /\ (\A i, e : Told(down'[At(b)'], i, e) => e.id # c)
                                  => states'[c].state # Null
    <2>1. Entry(c, states[c])' = Entry(c, states'[c])
      BY DEF Entry
    <2>2. QED
      BY <2>1 DEF Follows
  <1>1. /\ Connected(b) /\ At(b)' = At(b) /\ At(b) \in Sockets
        /\ \A i, e : Told(down[At(b)], i, e) => Told(down'[At(b)], i, e)
    BY AtSocket DEF Stays
  <1>2. \A i, e : e.id = c => (Told(down'[At(b)'], i, e) <=> Told(down[At(b)], i, e))
    BY <1>1 DEF UntoldAt
  <1>3. c \notin muted
    OBVIOUS
  <1>4. ASSUME NEW i, NEW e, Told(down'[At(b)'], i, e), e.id = c
        PROVE  /\ e.clock <= states'[c].clock
               /\ (\A j, d : Told(down'[At(b)'], j, d) /\ j > i => d.id # c)
                     => e = Entry(c, states'[c])
    <2>1. /\ e.clock <= states[c].clock
          /\ (\A j, d : Told(down[At(b)], j, d) /\ j > i => d.id # c) => e = Entry(c, states[c])
      BY <1>1, <1>2, <1>3, <1>4 DEF Follows
    <2>2. QED
      BY <1>1, <2>1
  <1>5. ASSUME Spoken(b)', c \notin stale'[b], view'[b][c].state # Null
        PROVE  /\ view'[b][c].clock <= states'[c].clock
               /\ (\A i, e : Told(down'[At(b)'], i, e) => e.id # c) => states'[c].state # Null
    <2>1. Spoken(b) /\ c \notin stale[b] /\ view'[b][c] = view[b][c]
      BY <1>5, StaysSpoken
    <2>2. /\ view[b][c].clock <= states[c].clock
          /\ (\A i, e : Told(down[At(b)], i, e) => e.id # c) => states[c].state # Null
      BY <1>1, <1>3, <1>5, <2>1 DEF Follows
    <2>3. QED
      BY <1>1, <2>1, <2>2
  <1>6. QED
    BY <1>4, <1>5

LEMMA FollowsStands ==
    ASSUME TypeOK, NEW b \in Pages, NEW c \in Pages, Stays(b), Untold(c), states'[c] = states[c],
           (c \in muted => c \in muted'),
           \/ view'[b][c].state = Null
           \/ view'[b][c] = view[b][c] /\ (c \in stale[b] => c \in stale'[b])
    PROVE  Follows(b, c) => Follows(b, c)'
  <1>1. Connected(b)' => UntoldAt(At(b), c)
    BY AtSocket DEF Stays, Untold
  <1>2. QED
    BY <1>1, FollowsKept

\* A step that leaves c's word where it is.
Aside(c) ==
    /\ Own(c)' = Own(c) /\ Unlearned(c) /\ Unsent(c) /\ Untold(c)
    /\ socket'[c] # 0 => \/ down'[At(c)'] = <<>>
                         \/ /\ socket'[c] = socket[c]
                            /\ \A i : Joined(down[At(c)], i) => Joined(down'[At(c)], i)
    /\ states'[c].clock = states[c].clock /\ owner'[c] = owner[c]
    /\ c \notin unheard' =>
          /\ c \notin unheard
          /\ states'[c] = states[c]
          /\ \A b \in Pages \ {c} : view'[b][c] = view[b][c]
          /\ Connected(c)' => \A i : Sent(up[At(c)], i, Said(c))
                                       => \E j : Sent(up'[At(c)], j, Said(c))

LEMMA AsideStands ==
    ASSUME ScreenInv, IInv', NEW c \in Pages, Aside(c), \A b \in Pages : Stays(b)
    PROVE  Clocks(c)' /\ Fresh(c)' /\ Single(c)' /\ Echo(c)' /\ Speaks(c)'
  <1>1. /\ TypeOK /\ TypeOK' /\ SocketInv
        /\ Clocks(c) /\ Fresh(c) /\ Single(c) /\ Echo(c) /\ Speaks(c)
    BY DEF ScreenInv, IInv, WordInv
  <1>2. Clocks(c)' /\ Fresh(c)' /\ Single(c)'
    BY <1>1, WordStands DEF Aside
  <1>3. Echo(c)'
    <2>1. socket'[c] # 0 /\ socket'[c] = socket[c] => UntoldAt(At(c), c)
      BY <1>1, SocketFacts DEF Aside, Untold, At
    <2>2. QED
      BY <1>1, <2>1, EchoStands DEF Aside
  <1>4. Speaks(c)'
    <2>1. Retold(c)
      BY DEF Aside, Untold, UntoldAt, Retold
    <2>2. Spoken(c)' => Spoken(c) /\ Connected(c)' /\ At(c)' = At(c)
      BY StaysSpoken
    <2>3. QED
      BY <1>1, <2>1, <2>2, SpeaksStands DEF Aside
  <1>5. QED
    BY <1>2, <1>3, <1>4

\* Lines of which something is lost or taken, and lines on which a page speaks.
Cuts ==
    \A s \in Sockets : \E k \in Nat : \A i, e : Sent(up'[s], i, e) => Sent(up[s], i + k, e)

LEMMA CutsFacts ==
    ASSUME UpOnce, Cuts
    PROVE  UpOnce' /\ \A c \in Pages : Unsent(c)
  <1>1. ASSUME NEW s \in Sockets, NEW i, NEW e, NEW d,
               Sent(up'[s], i, e), Sent(up'[s], i, d), e.id = d.id
        PROVE  e = d
    <2>1. PICK k \in Nat : \A j, x : Sent(up'[s], j, x) => Sent(up[s], j + k, x)
      BY DEF Cuts
    <2>2. Sent(up[s], i + k, e) /\ Sent(up[s], i + k, d)
      BY <1>1, <2>1
    <2>3. QED
      BY <1>1, <2>2 DEF UpOnce
  <1>2. QED
    BY <1>1 DEF UpOnce, Cuts, Unsent

LEMMA EmitOnce ==
    ASSUME TypeOK, SocketInv, UpOnce, NEW p \in Pages, NEW x \in FrameOf, Emit(p, x)
    PROVE  /\ UpOnce'
           /\ \A c \in Pages : c # p \/ c # x.id => Unsent(c)
           /\ \A s \in Sockets : \A i, e : Sent(up[s], i, e) => Sent(up'[s], i, e)
  <1>1. \A s \in Sockets : \A i, e :
              Sent(up'[s], i, e) <=>
                 \/ Sent(up[s], i, e)
                 \/ s = At(p) /\ Open(p) /\ i = Len(up[s]) + 1 /\ e = x
    BY EmitSends
  <1>2. ASSUME NEW s \in Sockets, NEW i, NEW e, NEW d,
               Sent(up'[s], i, e), Sent(up'[s], i, d), e.id = d.id
        PROVE  e = d
    <2>1. up[s] \in Seq(SUBSET FrameOf)
      BY DEF TypeOK
    <2>2. \A y : ~Sent(up[s], Len(up[s]) + 1, y)
      <3>1. Len(up[s]) \in Nat /\ ~(Len(up[s]) + 1 \in 1..Len(up[s]))
        BY <2>1
      <3>2. QED
        BY <2>1, <3>1, SentFacts
    <2>3. CASE Sent(up[s], i, e) /\ Sent(up[s], i, d)
      BY <1>2, <2>3 DEF UpOnce
    <2>4. CASE ~(Sent(up[s], i, e) /\ Sent(up[s], i, d))
      <3>1. /\ Sent(up[s], i, e) \/ (i = Len(up[s]) + 1 /\ e = x)
            /\ Sent(up[s], i, d) \/ (i = Len(up[s]) + 1 /\ d = x)
        BY <1>1, <1>2
      <3>2. i = Len(up[s]) + 1
        BY <2>4, <3>1
      <3>3. e = x /\ d = x
        BY <2>2, <3>1, <3>2
      <3>4. QED
        BY <3>3
    <2>5. QED
      BY <2>3, <2>4
  <1>3. ASSUME NEW c \in Pages, c # p \/ c # x.id PROVE Unsent(c)
    <2>1. ASSUME NEW s \in Sockets, s[1] = c
          PROVE  \A i, e : Sent(up'[s], i, e) /\ e.id = c => Sent(up[s], i + 0, e)
      <3>1. ASSUME NEW i, NEW e, Sent(up'[s], i, e), e.id = c PROVE Sent(up[s], i + 0, e)
        <4>1. At(p)[1] = p
          BY DEF At
        <4>2. Sent(up[s], i, e)
          BY <1>1, <1>3, <2>1, <3>1, <4>1
        <4>3. i + 0 = i
          <5>1. up[s] \in Seq(SUBSET FrameOf)
            BY DEF TypeOK
          <5>2. i \in 1..Len(up[s])
            BY <4>2, <5>1, SentFacts
          <5>3. QED
            BY <5>2
        <4>4. QED
          BY <4>2, <4>3
      <3>2. QED
        BY <3>1
    <2>2. QED
      BY <2>1 DEF Unsent
  <1>4. QED
    BY <1>1, <1>2, <1>3 DEF UpOnce

\* What a broadcast says it says once.
LEMMA TellOnce ==
    ASSUME TypeOK, DownOnce, NEW to, NEW f \in Packets, Broadcast(to, f),
           \A e, d \in f.entries : e.id = d.id => e = d
    PROVE  DownOnce'
  <1>1. ASSUME NEW s \in Sockets, NEW i, NEW e, NEW d,
               Told(down'[s], i, e), Told(down'[s], i, d), e.id = d.id
        PROVE  e = d
    <2>1. down[s] \in Seq(Packets)
      BY DEF TypeOK, Packets
    <2>2. \A y : ~Told(down[s], Len(down[s]) + 1, y)
      <3>1. Len(down[s]) \in Nat /\ ~(Len(down[s]) + 1 \in 1..Len(down[s]))
        BY <2>1
      <3>2. QED
        BY <2>1, <3>1, ToldFacts
    <2>3. /\ Told(down[s], i, e) \/ (i = Len(down[s]) + 1 /\ e \in f.entries)
          /\ Told(down[s], i, d) \/ (i = Len(down[s]) + 1 /\ d \in f.entries)
      BY <1>1, BroadcastTells
    <2>4. QED
      BY <1>1, <2>2, <2>3 DEF DownOnce
  <1>2. QED
    BY <1>1 DEF DownOnce

\* Lines down and sockets that do not change.
LEMMA SameLines ==
    ASSUME UNCHANGED <<down, seat, socket>>
    PROVE  (\A b \in Pages : Stays(b)) /\ (\A c \in Pages : Untold(c))
  BY DEF Stays, Untold, UntoldAt, Connected, live, At

\* A page speaks of itself: its clock is one on, nobody learns of it, and what
\* it said goes up behind all else while it is in the room.
Raises(p, own) ==
    /\ own \in States /\ Own(p)' = own /\ own.clock = Own(p).clock + 1
    /\ p \notin closed /\ Unlearned(p)
    /\ \A s \in Sockets : s[1] = p => \A i, e : Sent(up'[s], i, e) /\ e.id = p =>
          \/ Sent(up[s], i, e)
          \/ s = At(p) /\ i = Len(up[s]) + 1 /\ e = Entry(p, own)
    /\ Connected(p)' =>
          /\ At(p)' = At(p)
          /\ Sent(up'[At(p)], Len(up[At(p)]) + 1, Entry(p, own))

\* Then it is ahead of everybody, and of what it said before.
LEMMA WordRaised ==
    ASSUME IInv, IInv', NEW p \in Pages, Clocks(p), NEW own, Raises(p, own)
    PROVE  Clocks(p)' /\ Fresh(p)' /\ Single(p)' /\ Echo(p)' /\ Speaks(p)'
  <1> DEFINE n == Own(p)'.clock
  <1>1. Own(p)' = own /\ Said(p)' = Entry(p, own) /\ Entry(p, own).id = p
    BY DEF Raises, Said, Entry
  <1>2. /\ Own(p).clock \in Nat /\ n \in Nat /\ Own(p).clock < n
        /\ Entry(p, own).clock = n
    BY OwnFacts DEF IInv, Raises, Entry, States
  <1>3. n = Own(p)'.clock
    OBVIOUS
  <1> HIDE DEF n
  <1>4. ASSUME NEW m, Knows(p, m)' PROVE m < n /\ m <= n
    <2>1. Knows(p, m) \/ m = 0
      BY <1>4 DEF Raises, Unlearned
    <2>2. CASE m = 0
      BY <1>2, <2>2
    <2>3. CASE Knows(p, m)
      <3>1. m \in Nat /\ m <= Own(p).clock
        BY <2>3, KnowsNat DEF IInv, Clocks
      <3>2. QED
        BY <1>2, <3>1
    <2>4. QED
      BY <2>1, <2>2, <2>3
  <1>5. ASSUME NEW s \in Sockets, s[1] = p, NEW i, NEW e, Sent(up'[s], i, e), e.id = p
        PROVE  \/ e.clock < n /\ e.clock <= n /\ e.clock # n /\ e.state # Null
               \/ s = At(p) /\ i = Len(up[s]) + 1 /\ e = Entry(p, own)
    <2>1. CASE Sent(up[s], i, e)
      <3>1. e \in FrameOf /\ e.clock <= Own(p).clock
        <4>1. up[s] \in Seq(SUBSET FrameOf)
          BY DEF IInv, TypeOK
        <4>2. QED
          BY <1>5, <2>1, <4>1, SentFacts DEF Clocks
      <3>2. e.clock < n /\ e.clock <= n /\ e.clock # n
        BY <1>2, <3>1 DEF FrameOf
      <3>3. e.state # Null
        BY <1>5, <2>1 DEF IInv, UpInv, Honest, Sent, Raises
      <3>4. QED
        BY <3>2, <3>3
    <2>2. CASE s = At(p) /\ i = Len(up[s]) + 1 /\ e = Entry(p, own)
      BY <2>2
    <2>3. QED
      BY <1>5, <2>1, <2>2 DEF Raises
  <1>6. ASSUME NEW t \in Sockets, NEW i, NEW e, Told(down'[t], i, e), e.id = p
        PROVE  e.clock < n /\ e.clock # n
    <2>1. Knows(p, e.clock)' /\ e.clock < n
      BY <1>4, <1>6 DEF Knows
    <2>2. ~(n < n)
      BY <1>2
    <2>3. QED
      BY <2>1, <2>2
  <1>7. Clocks(p)'
    <2>1. \A m : Knows(p, m)' => m <= n
      BY <1>4
    <2>2. n <= n
      BY <1>2
    <2>3. ASSUME NEW s \in Sockets, s[1] = p, NEW i, NEW e, Sent(up'[s], i, e), e.id = p
          PROVE  /\ e.clock <= n
                 /\ e.clock = n \/ e.state = Null => e = Entry(p, own)
      <3>1. \/ e.clock < n /\ e.clock <= n /\ e.clock # n /\ e.state # Null
            \/ e = Entry(p, own)
        <4>1. s \in Sockets /\ s[1] = p /\ Sent(up'[s], i, e) /\ e.id = p
          BY <2>3
        <4>2. \/ e.clock < n /\ e.clock <= n /\ e.clock # n /\ e.state # Null
              \/ s = At(p) /\ i = Len(up[s]) + 1 /\ e = Entry(p, own)
          BY <1>5, <4>1
        <4>3. QED
          BY <4>2
      <3>2. CASE e = Entry(p, own)
        <4>1. e.clock = n
          BY <1>2, <3>2
        <4>2. e.clock <= n
          BY <2>2, <4>1
        <4>3. QED
          BY <3>2, <4>2
      <3>3. CASE e.clock <= n /\ e.clock # n /\ e.state # Null
        BY <3>3
      <3>4. QED
        BY <3>1, <3>2, <3>3
    <2>4. QED
      BY <1>1, <1>3, <2>1, <2>3 DEF Clocks
  <1>8. Fresh(p)'
    BY <1>3, <1>4 DEF Fresh
  <1>9. Single(p)'
    <2> SUFFICES ASSUME NEW s \in Sockets, NEW r \in Sockets, NEW i, NEW e, NEW j, NEW d,
                        s[1] = p, Sent(up'[s], i, e), e.id = p, e.clock = n,
                        r[1] = p, Sent(up'[r], j, d), d.id = p, d.clock = n
                 PROVE  r = s /\ j = i
      BY <1>3 DEF Single
    <2>1. s = At(p) /\ i = Len(up[s]) + 1
      BY <1>5
    <2>2. r = At(p) /\ j = Len(up[r]) + 1
      BY <1>5
    <2>3. QED
      BY <2>1, <2>2
  <1>10. Echo(p)'
    <2> SUFFICES ASSUME socket'[p] # 0, NEW i, NEW e, Told(down'[At(p)'], i, e), e.id = p,
                        e.clock = n
                 PROVE  FALSE
      BY <1>3 DEF Echo
    <2>1. At(p)' \in Sockets
      BY DEF At, IInv, TypeOK, SocketInv, Sockets
    <2>2. QED
      BY <1>6, <2>1
  <1>11. Speaks(p)'
    <2> SUFFICES ASSUME Spoken(p)'
                 PROVE  /\ \A s \in Sockets : s[1] = p /\ s # At(p)' =>
                             \A i, e : Sent(up'[s], i, e) /\ e.id = p => e.clock < n
                        /\ states'[p].clock < n
                        /\ \A b \in Pages \ {p} : view'[b][p].clock # n
                        /\ \A t \in Sockets : \A i, e : Told(down'[t], i, e) /\ e.id = p
                                                           => e.clock # n
                        /\ \E i : Sent(up'[At(p)'], i, Entry(p, own))
      BY <1>1, <1>3 DEF Speaks
    <2>1. At(p)' = At(p) /\ Sent(up'[At(p)], Len(up[At(p)]) + 1, Entry(p, own))
      BY DEF Spoken, Raises
    <2>2. ~(n < n)
      BY <1>2
    <2>3. states'[p].clock < n
      BY <1>4 DEF Knows
    <2>4. ASSUME NEW b \in Pages \ {p} PROVE view'[b][p].clock # n
      <3>1. view'[b][p].clock < n
        BY <1>4 DEF Knows
      <3>2. QED
        BY <2>2, <3>1
    <2>5. \A s \in Sockets : s[1] = p /\ s # At(p)' =>
             \A i, e : Sent(up'[s], i, e) /\ e.id = p => e.clock < n
      BY <1>5, <2>1
    <2>6. QED
      BY <1>6, <2>1, <2>3, <2>4, <2>5
  <1>12. QED
    BY <1>7, <1>8, <1>9, <1>10, <1>11

-----------------------------------------------------------------------------
(* Every action keeps the invariant: what a page does.                     *)

\* The steps of a page, one by one: what it says, the retraction of a peer, its
\* connection and its end.
LEMMA SayWord ==
    ASSUME ScreenInv, IInv', NEW p \in Pages, NEW v \in Values, Say(p, v)
    PROVE  WordInv'
  <1> DEFINE now == [clock |-> Own(p).clock + 1, state |-> v]
  <1>1. /\ p \notin closed
        /\ view' = [view EXCEPT ![p][p] = now]
        /\ Emit(p, Entry(p, now))
        /\ UNCHANGED <<socket, tries, closed, down, server, past, faults>>
    BY DEF Say
  <1>2. /\ TypeOK /\ SocketInv /\ LineInv /\ LifeInv
        /\ view \in [Pages -> [Pages -> States]]
    BY DEF ScreenInv, WordInv, IInv, TypeOK
  <1>3. /\ now \in States /\ now.clock = Own(p).clock + 1 /\ now.state # Null
        /\ Entry(p, now) \in FrameOf /\ Entry(p, now).id = p
    BY <1>2, OwnFacts, AwarenessAssumption DEF States, FrameOf, Entry
  <1> HIDE DEF now
  <1>4. /\ Own(p)' = now
        /\ \A c \in Pages : \A b \in Pages : b # p \/ c # p => view'[b][c] = view[b][c]
        /\ \A c \in Pages : c # p => Own(c)' = Own(c)
    BY <1>1, <1>2, <1>3 DEF Own
  <1>5. /\ UpOnce' /\ \A c \in Pages : c # p => Unsent(c)
        /\ \A s \in Sockets : \A i, e : Sent(up[s], i, e) => Sent(up'[s], i, e)
    BY <1>1, <1>2, <1>3, EmitOnce DEF LineInv
  <1>6. (\A b \in Pages : Stays(b)) /\ (\A c \in Pages : Untold(c))
    BY <1>1, SameLines DEF server
  <1>7. \A c \in Pages : Unlearned(c)
    BY <1>1, <1>4 DEF Unlearned, Knows, server
  <1>8. LineInv'
    BY <1>1, <1>2, <1>5 DEF LineInv, DownOnce, PlaceInv, server
  <1>9. LifeInv'
    BY <1>1, <1>2, <1>3, <1>4 DEF LifeInv
  <1>10. ASSUME NEW c \in Pages
         PROVE  Clocks(c)' /\ Fresh(c)' /\ Single(c)' /\ Echo(c)' /\ Speaks(c)'
    <2>1. CASE c = p
      <3>1. Raises(p, now)
        <4>1. \A s \in Sockets : \A i, e :
                 Sent(up'[s], i, e) <=>
                    \/ Sent(up[s], i, e)
                    \/ s = At(p) /\ Open(p) /\ i = Len(up[s]) + 1 /\ e = Entry(p, now)
          BY <1>1, <1>2, <1>3, EmitSends
        <4>2. ASSUME Connected(p)'
              PROVE  At(p)' = At(p) /\ Sent(up'[At(p)], Len(up[At(p)]) + 1, Entry(p, now))
          <5>1. Connected(p) /\ At(p)' = At(p)
            BY <1>6, <4>2 DEF Stays
          <5>2. At(p) \in Sockets /\ Open(p)
            BY <5>1, AtSocket DEF Open
          <5>3. QED
            BY <4>1, <5>1, <5>2
        <4>3. QED
          BY <1>1, <1>3, <1>4, <1>7, <4>1, <4>2 DEF Raises
      <3>2. QED
        BY <2>1, <3>1, WordRaised DEF ScreenInv, WordInv
    <2>2. CASE c # p
      <3>1. Aside(c)
        <4>1. /\ Own(c)' = Own(c) /\ Unlearned(c) /\ Unsent(c) /\ Untold(c)
              /\ \A b \in Pages \ {c} : view'[b][c] = view[b][c]
          BY <1>4, <1>5, <1>6, <1>7, <2>2
        <4>2. Connected(c)' => \A i : Sent(up[At(c)], i, Said(c)) => Sent(up'[At(c)], i, Said(c))
          <5>1. Connected(c)' => At(c) \in Sockets
            BY <1>6, AtSocket DEF Stays
          <5>2. QED
            BY <1>5, <5>1
        <4>3. QED
          BY <1>1, <4>1, <4>2 DEF Aside, server, past
      <3>2. QED
        BY <1>6, <3>1, AsideStands
    <2>3. QED
      BY <2>1, <2>2
  <1>11. ASSUME NEW b \in Pages, NEW c \in Pages PROVE Follows(b, c)'
    <2>1. CASE b = c
      BY <2>1 DEF Follows
    <2>2. CASE b # c
      <3>1. view'[b][c] = view[b][c] /\ states' = states /\ muted' = muted /\ stale' = stale
        BY <1>1, <1>4, <2>2 DEF server, past
      <3>2. QED
        BY <1>2, <1>6, <3>1, FollowsStands DEF ScreenInv, WordInv
    <2>3. QED
      BY <2>1, <2>2
  <1>12. QED
    BY <1>8, <1>9, <1>10, <1>11 DEF WordInv

LEMMA PeerTimesOutWord ==
    ASSUME ScreenInv, IInv', NEW b \in Pages, NEW c \in Pages, PeerTimesOut(b, c)
    PROVE  WordInv'
  <1>1. /\ c # b
        /\ view' = [view EXCEPT ![b][c].state = Null]
        /\ Emit(b, Entry(c, view'[b][c]))
        /\ stale' = [stale EXCEPT ![b] = @ \ {c}]
        /\ unheard' = unheard \cup {c}
        /\ UNCHANGED <<socket, tries, closed, down, server, muted>>
    BY DEF PeerTimesOut, Visible
  <1>2. /\ TypeOK /\ SocketInv /\ LineInv /\ LifeInv
        /\ view \in [Pages -> [Pages -> States]]
        /\ stale \in [Pages -> SUBSET Pages]
    BY DEF ScreenInv, WordInv, IInv, TypeOK
  <1>3. /\ view'[b][c] = [view[b][c] EXCEPT !.state = Null]
        /\ \A x, d \in Pages : x # b \/ d # c => view'[x][d] = view[x][d]
    BY <1>1, <1>2
  <1>4. /\ view'[b][c].clock = view[b][c].clock /\ view'[b][c].state = Null
        /\ Entry(c, view'[b][c]) \in FrameOf /\ Entry(c, view'[b][c]).id = c
    <2>1. view[b][c] \in States
      BY <1>2
    <2>2. QED
      BY <1>3, <2>1 DEF States, FrameOf, Entry
  <1>5. /\ UpOnce' /\ \A d \in Pages : Unsent(d)
        /\ \A s \in Sockets : \A i, e : Sent(up[s], i, e) => Sent(up'[s], i, e)
    BY <1>1, <1>2, <1>4, EmitOnce DEF LineInv
  <1>6. (\A x \in Pages : Stays(x)) /\ (\A d \in Pages : Untold(d))
    BY <1>1, SameLines DEF server
  <1>7. \A x, d \in Pages : view'[x][d].clock = view[x][d].clock
    BY <1>3, <1>4
  <1>8. \A d \in Pages : Unlearned(d)
    BY <1>1, <1>7 DEF Unlearned, Knows, server
  <1>9. LineInv'
    BY <1>1, <1>2, <1>5 DEF LineInv, DownOnce, PlaceInv, server
  <1>10. \A d \in Pages : Own(d)' = Own(d)
    BY <1>1, <1>3 DEF Own
  <1>11. LifeInv'
    BY <1>1, <1>2, <1>10 DEF LifeInv
  <1>12. ASSUME NEW d \in Pages
         PROVE  Clocks(d)' /\ Fresh(d)' /\ Single(d)' /\ Echo(d)' /\ Speaks(d)'
    <2>1. Aside(d)
      <3>1. Own(d)' = Own(d) /\ Unlearned(d) /\ Unsent(d) /\ Untold(d)
        BY <1>5, <1>6, <1>8, <1>10
      <3>2. Connected(d)' => \A i : Sent(up[At(d)], i, Said(d)) => Sent(up'[At(d)], i, Said(d))
        <4>1. Connected(d)' => At(d) \in Sockets
          BY <1>6, AtSocket DEF Stays
        <4>2. QED
          BY <1>5, <4>1
      <3>3. d \notin unheard' =>
               d \notin unheard /\ \A x \in Pages \ {d} : view'[x][d] = view[x][d]
        BY <1>1, <1>3
      <3>4. QED
        BY <1>1, <3>1, <3>2, <3>3 DEF Aside, server
    <2>2. QED
      BY <1>6, <2>1, AsideStands
  <1>13. ASSUME NEW x \in Pages, NEW d \in Pages PROVE Follows(x, d)'
    <2>1. \/ view'[x][d].state = Null
          \/ view'[x][d] = view[x][d] /\ (d \in stale[x] => d \in stale'[x])
      <3>1. CASE x = b /\ d = c
        BY <1>4, <3>1
      <3>2. CASE ~(x = b /\ d = c)
        BY <1>1, <1>2, <1>3, <3>2
      <3>3. QED
        BY <3>1, <3>2
    <2>2. states' = states /\ muted' = muted
      BY <1>1 DEF server
    <2>3. QED
      BY <1>2, <1>6, <2>1, <2>2, FollowsStands DEF ScreenInv, WordInv
  <1>14. QED
    BY <1>9, <1>11, <1>12, <1>13 DEF WordInv

\* A page's new socket has not joined.
LEMMA ConnectWord == ASSUME ScreenInv, IInv', NEW p \in Pages, Connect(p) PROVE WordInv'
  <1>1. /\ p \notin closed /\ socket[p] = 0
        /\ tries' = [tries EXCEPT ![p] = @ + 1]
        /\ socket' = [socket EXCEPT ![p] = tries[p] + 1]
        /\ UNCHANGED <<closed, view, up, down, server, past, bounds>>
    BY DEF Connect
  <1>2. /\ TypeOK /\ SocketInv /\ LineInv /\ LifeInv
        /\ socket \in [Pages -> 0..2] /\ tries \in [Pages -> 0..2]
    BY DEF ScreenInv, WordInv, IInv, TypeOK
  <1>3. /\ At(p)' \in Sockets /\ At(p)'[1] = p /\ At(p)'[2] = tries[p] + 1
        /\ At(p)' = <<p, tries[p] + 1>>
        /\ \A c \in Pages : c # p => At(c)' = At(c) /\ socket'[c] = socket[c]
    <2>1. socket'[p] = tries[p] + 1 /\ \A c \in Pages : c # p => socket'[c] = socket[c]
      BY <1>1, <1>2
    <2>2. At(p)' = <<p, tries[p] + 1>> /\ \A c \in Pages : c # p => At(c)' = At(c)
      BY <2>1 DEF At
    <2>3. socket'[p] # 0
      BY <1>2, <2>1
    <2>4. socket'[p] \in 0..2 /\ socket'[p] <= MaxSockets(p)
      BY DEF IInv, TypeOK, SocketInv
    <2>5. socket'[p] \in 1..2
      BY <2>3, <2>4
    <2>6. <<p, socket'[p]>> \in Sockets
      BY <2>4, <2>5 DEF Sockets
    <2>7. QED
      BY <2>1, <2>2, <2>6
  <1>4. seat[At(p)'] = "new" /\ down[At(p)'] = <<>>
    BY <1>2, <1>3 DEF LineInv, PlaceInv
  <1>5. ~Connected(p)'
    BY <1>1, <1>4 DEF Connected, live, server, At
  <1>6. \A b \in Pages : Stays(b)
    <2>1. Stays(p)
      BY <1>5 DEF Stays
    <2>2. ASSUME NEW b \in Pages, b # p PROVE Stays(b)
      BY <1>1, <1>3, <2>2 DEF Stays, Connected, live, server, At
    <2>3. QED
      BY <2>1, <2>2
  <1>7. \A c \in Pages : /\ Own(c)' = Own(c) /\ Untold(c) /\ Unlearned(c)
    BY <1>1 DEF Own, Untold, UntoldAt, Unlearned, Knows, server
  <1>8. UpOnce' /\ \A c \in Pages : Unsent(c)
    <2>1. Cuts
      <3>1. ASSUME NEW s \in Sockets, NEW i, NEW e, Sent(up[s], i, e) PROVE Sent(up[s], i + 0, e)
        <4>1. up[s] \in Seq(SUBSET FrameOf)
          BY <1>2 DEF TypeOK
        <4>2. i \in 1..Len(up[s])
          BY <3>1, <4>1, SentFacts
        <4>3. i + 0 = i
          BY <4>2
        <4>4. QED
          BY <3>1, <4>3
      <3>2. QED
        BY <1>1, <3>1 DEF Cuts
    <2>2. QED
      BY <1>2, <2>1, CutsFacts DEF LineInv
  <1>9. LineInv'
    <2>1. ASSUME NEW s \in Sockets, s[2] > tries'[s[1]] PROVE s[2] > tries[s[1]]
      <3>1. s[1] \in Pages /\ s[2] \in 1..2
        BY SocketType
      <3>2. tries[s[1]] \in 0..2 /\ tries'[s[1]] \in {tries[s[1]], tries[s[1]] + 1}
        BY <1>1, <1>2, <3>1
      <3>3. QED
        BY <2>1, <3>1, <3>2
    <2>2. QED
      BY <1>1, <1>2, <1>8, <2>1 DEF LineInv, DownOnce, PlaceInv, server
  <1>10. LifeInv'
    <2>1. ASSUME NEW c \in Pages
          PROVE  /\ c \in closed' => socket'[c] = 0
                 /\ Own(c)'.state = Null => c \in closed'
                 /\ socket'[c] <= tries'[c]
      <3>1. CASE c = p
        BY <1>1, <1>2, <1>7, <3>1 DEF LifeInv
      <3>2. CASE c # p
        BY <1>1, <1>2, <1>7, <3>2 DEF LifeInv
      <3>3. QED
        BY <3>1, <3>2
    <2>2. QED
      BY <2>1 DEF LifeInv
  <1>11. ASSUME NEW c \in Pages
         PROVE  Clocks(c)' /\ Fresh(c)' /\ Single(c)' /\ Echo(c)' /\ Speaks(c)'
    <2>1. Aside(c)
      <3>1. Own(c)' = Own(c) /\ Unlearned(c) /\ Unsent(c) /\ Untold(c)
        BY <1>7, <1>8
      <3>2. \/ down'[At(c)'] = <<>>
            \/ /\ socket'[c] = socket[c]
               /\ \A i : Joined(down[At(c)], i) => Joined(down'[At(c)], i)
        BY <1>1, <1>3, <1>4
      <3>3. QED
        BY <1>1, <3>1, <3>2 DEF Aside, server, past
    <2>2. QED
      BY <1>6, <2>1, AsideStands
  <1>12. ASSUME NEW b \in Pages, NEW c \in Pages PROVE Follows(b, c)'
    <2>1. view' = view /\ states' = states /\ muted' = muted /\ stale' = stale
      BY <1>1 DEF server, past
    <2>2. QED
      BY <1>2, <1>6, <1>7, <2>1, FollowsStands DEF ScreenInv, WordInv
  <1>13. QED
    BY <1>9, <1>10, <1>11, <1>12 DEF WordInv

\* A line that is left alone is one of which nothing is taken.
LEMMA ShiftZero ==
    ASSUME TypeOK, NEW s \in Sockets, NEW i, NEW e, Sent(up[s], i, e)
    PROVE  i + 0 = i
  <1>1. up[s] \in Seq(SUBSET FrameOf)
    BY DEF TypeOK
  <1>2. i \in 1..Len(up[s])
    BY <1>1, SentFacts
  <1>3. QED
    BY <1>2

LEMMA LoseConnectionWord ==
    ASSUME ScreenInv, IInv', NEW p \in Pages, LoseConnection(p)
    PROVE  WordInv'
  <1>1. PICK n \in 0..Len(up[At(p)]) : up' = [up EXCEPT ![At(p)] = SubSeq(@, 1, n)]
    BY DEF LoseConnection, At
  <1>2. /\ socket[p] # 0 /\ down' = [down EXCEPT ![At(p)] = <<>>]
        /\ socket' = [socket EXCEPT ![p] = 0]
        /\ UNCHANGED <<tries, closed, view, server, past, bounds>>
    BY DEF LoseConnection, At
  <1>3. /\ TypeOK /\ SocketInv /\ LineInv /\ LifeInv
        /\ socket \in [Pages -> 0..2] /\ up \in [Sockets -> Seq(SUBSET FrameOf)]
        /\ down \in [Sockets -> Seq(Packets)] /\ tries \in [Pages -> 0..2]
    BY DEF ScreenInv, WordInv, IInv, TypeOK, Packets
  <1>4. At(p) \in Sockets
    BY <1>2, <1>3, SocketFacts DEF At
  <1>5. /\ socket'[p] = 0 /\ ~Connected(p)'
        /\ \A c \in Pages : c # p => /\ socket'[c] = socket[c] /\ At(c)' = At(c)
                                     /\ At(c) # At(p)
        /\ down'[At(p)] = <<>> /\ \A t \in Sockets : t # At(p) => down'[t] = down[t]
        /\ up'[At(p)] = SubSeq(up[At(p)], 1, n)
        /\ \A s \in Sockets : s # At(p) => up'[s] = up[s]
    <2>1. socket'[p] = 0 /\ \A c \in Pages : c # p => socket'[c] = socket[c]
      BY <1>2, <1>3
    <2>2. /\ ~Connected(p)'
          /\ \A c \in Pages : c # p => At(c)' = At(c) /\ At(c) # At(p)
      BY <2>1 DEF Connected, At
    <2>3. down'[At(p)] = <<>> /\ \A t \in Sockets : t # At(p) => down'[t] = down[t]
      BY <1>2, <1>3, <1>4
    <2>4. /\ up'[At(p)] = SubSeq(up[At(p)], 1, n)
          /\ \A s \in Sockets : s # At(p) => up'[s] = up[s]
      BY <1>1, <1>3, <1>4
    <2>5. QED
      BY <2>1, <2>2, <2>3, <2>4
  <1>6. \A b \in Pages : Stays(b)
    <2>1. Stays(p)
      BY <1>5 DEF Stays
    <2>2. ASSUME NEW b \in Pages, b # p, Connected(b)'
          PROVE  Connected(b) /\ At(b)' = At(b) /\ down'[At(b)] = down[At(b)]
      <3>1. Connected(b)
        BY <1>2, <1>5, <2>2 DEF Connected, live, server
      <3>2. QED
        BY <1>5, <2>2, <3>1, AtSocket
    <2>3. QED
      BY <2>1, <2>2 DEF Stays
  <1>7. \A c \in Pages : Untold(c)
    <2>1. ASSUME NEW t \in Sockets, NEW i, NEW e, Told(down'[t], i, e) PROVE Told(down[t], i, e)
      <3>1. t # At(p)
        BY <1>5, <2>1 DEF Told
      <3>2. QED
        BY <1>5, <2>1, <3>1
    <2>2. QED
      BY <2>1 DEF Untold, UntoldAt
  <1>8. \A c \in Pages : Unlearned(c)
    BY <1>2, <1>7 DEF Unlearned, Knows, Untold, UntoldAt, server
  <1>9. UpOnce' /\ \A c \in Pages : Unsent(c)
    <2>1. Cuts
      <3>1. ASSUME NEW s \in Sockets, NEW i, NEW e, Sent(up'[s], i, e) PROVE Sent(up[s], i + 0, e)
        <4>1. Sent(up[s], i, e)
          <5>1. CASE s = At(p)
            <6>1. up[At(p)] \in Seq(SUBSET FrameOf)
              BY <1>3, <1>4
            <6>2. \A j, x : Sent(SubSeq(up[At(p)], 1, n), j, x) => Sent(up[At(p)], j, x)
              BY <6>1, SentFacts
            <6>3. QED
              BY <1>5, <3>1, <5>1, <6>2
          <5>2. CASE s # At(p)
            BY <1>5, <3>1, <5>2
          <5>3. QED
            BY <5>1, <5>2
        <4>2. QED
          BY <1>3, <4>1, ShiftZero
      <3>2. QED
        BY <3>1 DEF Cuts
    <2>2. QED
      BY <1>3, <2>1, CutsFacts DEF LineInv
  <1>10. LineInv'
    <2>1. DownOnce'
      <3>1. ASSUME NEW t \in Sockets, NEW i, NEW e, Told(down'[t], i, e) PROVE Told(down[t], i, e)
        <4>1. t # At(p)
          BY <1>5, <3>1 DEF Told
        <4>2. QED
          BY <1>5, <3>1, <4>1
      <3>2. QED
        BY <1>3, <3>1 DEF LineInv, DownOnce
    <2>2. PlaceInv'
      BY <1>2, <1>3, <1>5 DEF LineInv, PlaceInv, server
    <2>3. QED
      BY <1>9, <2>1, <2>2 DEF LineInv
  <1>11. LifeInv'
    <2>1. \A c \in Pages : Own(c)' = Own(c) /\ (socket'[c] = socket[c] \/ socket'[c] = 0)
      BY <1>2, <1>5 DEF Own
    <2>2. ASSUME NEW c \in Pages PROVE 0 <= tries[c]
      <3>1. tries[c] \in 0..2
        BY <1>3
      <3>2. QED
        BY <3>1
    <2>3. QED
      BY <1>2, <1>3, <2>1, <2>2 DEF LifeInv
  <1>12. ASSUME NEW c \in Pages
         PROVE  Clocks(c)' /\ Fresh(c)' /\ Single(c)' /\ Echo(c)' /\ Speaks(c)'
    <2>1. Aside(c)
      <3>1. Own(c)' = Own(c) /\ Unlearned(c) /\ Unsent(c) /\ Untold(c)
        BY <1>2, <1>7, <1>8, <1>9 DEF Own
      <3>2. ASSUME socket'[c] # 0 PROVE socket'[c] = socket[c] /\ down'[At(c)] = down[At(c)]
        <4>1. c # p
          BY <1>5, <3>2
        <4>2. At(c) \in Sockets
          BY <1>3, <1>5, <3>2, <4>1, SocketFacts DEF At
        <4>3. QED
          BY <1>5, <4>1, <4>2
      <3>3. ASSUME Connected(c)' PROVE up'[At(c)] = up[At(c)]
        <4>1. c # p /\ Connected(c)
          BY <1>5, <1>6, <3>3 DEF Stays
        <4>2. QED
          BY <1>5, <4>1, AtSocket
      <3>4. QED
        BY <1>2, <3>1, <3>2, <3>3 DEF Aside, server, past
    <2>2. QED
      BY <1>6, <2>1, AsideStands
  <1>13. ASSUME NEW b \in Pages, NEW c \in Pages PROVE Follows(b, c)'
    <2>1. view' = view /\ states' = states /\ muted' = muted /\ stale' = stale
      BY <1>2 DEF server, past
    <2>2. QED
      BY <1>3, <1>6, <1>7, <2>1, FollowsStands DEF ScreenInv, WordInv
  <1>14. QED
    BY <1>10, <1>11, <1>12, <1>13 DEF WordInv

LEMMA LeaveWord == ASSUME ScreenInv, IInv', NEW p \in Pages, Leave(p) PROVE WordInv'
  <1> DEFINE own == [clock |-> view[p][p].clock + 1, state |-> Null]
  <1>1. /\ p \notin closed
        /\ view' = [view EXCEPT ![p][p] = own]
        /\ Emit(p, Entry(p, view'[p][p]))
        /\ down' = [s \in Sockets |-> IF s[1] = p THEN <<>> ELSE down[s]]
        /\ socket' = [socket EXCEPT ![p] = 0]
        /\ closed' = closed \cup {p}
        /\ UNCHANGED <<tries, server, past, bounds>>
    BY DEF Leave
  <1>2. /\ TypeOK /\ SocketInv /\ LineInv /\ LifeInv
        /\ view \in [Pages -> [Pages -> States]] /\ socket \in [Pages -> 0..2]
        /\ tries \in [Pages -> 0..2]
    BY DEF ScreenInv, WordInv, IInv, TypeOK
  <1>3. /\ own \in States /\ own.clock = Own(p).clock + 1
        /\ Entry(p, own) \in FrameOf /\ Entry(p, own).id = p
    BY <1>2, OwnFacts DEF States, FrameOf, Entry, Own
  <1> HIDE DEF own
  <1>4. /\ Own(p)' = own
        /\ \A c \in Pages : \A b \in Pages : b # p \/ c # p => view'[b][c] = view[b][c]
        /\ \A c \in Pages : c # p => Own(c)' = Own(c)
    BY <1>1, <1>2, <1>3 DEF Own
  <1>5. Emit(p, Entry(p, own))
    <2>1. view'[p][p] = own
      BY <1>4 DEF Own
    <2>2. QED
      BY <1>1, <2>1
  <1>6. /\ UpOnce' /\ \A c \in Pages : c # p => Unsent(c)
        /\ \A s \in Sockets : \A i, e : Sent(up[s], i, e) => Sent(up'[s], i, e)
    BY <1>2, <1>3, <1>5, EmitOnce DEF LineInv
  <1>7. /\ socket'[p] = 0 /\ ~Connected(p)'
        /\ \A c \in Pages : c # p => socket'[c] = socket[c] /\ At(c)' = At(c)
        /\ \A c \in Pages : At(c)[1] = c
        /\ \A t \in Sockets : down'[t] = IF t[1] = p THEN <<>> ELSE down[t]
    BY <1>1, <1>2 DEF Connected, At
  <1>8. \A b \in Pages : Stays(b)
    <2>1. Stays(p)
      BY <1>7 DEF Stays
    <2>2. ASSUME NEW b \in Pages, b # p, Connected(b)'
          PROVE  Connected(b) /\ At(b)' = At(b) /\ down'[At(b)] = down[At(b)]
      <3>1. Connected(b)
        BY <1>1, <1>7, <2>2 DEF Connected, live, server
      <3>2. QED
        BY <1>7, <2>2, <3>1, AtSocket
    <2>3. QED
      BY <2>1, <2>2 DEF Stays
  <1>9. \A t \in Sockets : \A i, e : Told(down'[t], i, e) => Told(down[t], i, e)
    <2>1. ASSUME NEW t \in Sockets, NEW i, NEW e, Told(down'[t], i, e) PROVE Told(down[t], i, e)
      <3>1. t[1] # p
        BY <1>7, <2>1 DEF Told
      <3>2. QED
        BY <1>7, <2>1, <3>1
    <2>2. QED
      BY <2>1
  <1>10. \A c \in Pages : Untold(c) /\ Unlearned(c)
    <2>1. \A c \in Pages : Untold(c)
      BY <1>9 DEF Untold, UntoldAt
    <2>2. states' = states
      BY <1>1 DEF server
    <2>3. ASSUME NEW c \in Pages PROVE Unlearned(c)
      <3>1. \A b \in Pages \ {c} : view'[b][c] = view[b][c]
        BY <1>4
      <3>2. QED
        BY <1>9, <2>2, <3>1 DEF Unlearned, Knows
    <2>4. QED
      BY <2>1, <2>3
  <1>11. LineInv'
    <2>1. DownOnce'
      BY <1>2, <1>9 DEF LineInv, DownOnce
    <2>2. PlaceInv'
      BY <1>1, <1>2, <1>7 DEF LineInv, PlaceInv, server
    <2>3. QED
      BY <1>6, <2>1, <2>2 DEF LineInv
  <1>12. LifeInv'
    <2>1. ASSUME NEW c \in Pages
          PROVE  /\ c \in closed' => socket'[c] = 0
                 /\ Own(c)'.state = Null => c \in closed'
                 /\ socket'[c] <= tries'[c]
      <3>1. CASE c = p
        <4>1. 0 <= tries[c]
          BY <1>2
        <4>2. QED
          BY <1>1, <1>7, <3>1, <4>1
      <3>2. CASE c # p
        BY <1>1, <1>2, <1>4, <1>7, <3>2 DEF LifeInv
      <3>3. QED
        BY <3>1, <3>2
    <2>2. QED
      BY <2>1 DEF LifeInv
  <1>13. ASSUME NEW c \in Pages
         PROVE  Clocks(c)' /\ Fresh(c)' /\ Single(c)' /\ Echo(c)' /\ Speaks(c)'
    <2>1. CASE c = p
      <3>1. Raises(p, own)
        <4>1. \A s \in Sockets : \A i, e :
                 Sent(up'[s], i, e) <=>
                    \/ Sent(up[s], i, e)
                    \/ s = At(p) /\ Open(p) /\ i = Len(up[s]) + 1 /\ e = Entry(p, own)
          BY <1>2, <1>3, <1>5, EmitSends
        <4>2. QED
          BY <1>1, <1>3, <1>4, <1>7, <1>10, <4>1 DEF Raises
      <3>2. QED
        BY <2>1, <3>1, WordRaised DEF ScreenInv, WordInv
    <2>2. CASE c # p
      <3>1. Aside(c)
        <4>1. /\ Own(c)' = Own(c) /\ Unlearned(c) /\ Unsent(c) /\ Untold(c)
              /\ \A b \in Pages \ {c} : view'[b][c] = view[b][c]
          BY <1>4, <1>6, <1>10, <2>2
        <4>2. Connected(c)' => \A i : Sent(up[At(c)], i, Said(c)) => Sent(up'[At(c)], i, Said(c))
          <5>1. Connected(c)' => At(c) \in Sockets
            BY <1>8, AtSocket DEF Stays
          <5>2. QED
            BY <1>6, <5>1
        <4>3. ASSUME socket'[c] # 0 PROVE socket'[c] = socket[c] /\ down'[At(c)] = down[At(c)]
          <5>1. At(c) \in Sockets
            BY <1>2, <1>7, <2>2, <4>3, SocketFacts DEF At
          <5>2. QED
            BY <1>7, <2>2, <5>1
        <4>4. QED
          BY <1>1, <4>1, <4>2, <4>3 DEF Aside, server, past
      <3>2. QED
        BY <1>8, <3>1, AsideStands
    <2>3. QED
      BY <2>1, <2>2
  <1>14. ASSUME NEW b \in Pages, NEW c \in Pages PROVE Follows(b, c)'
    <2>1. CASE b = c
      BY <2>1 DEF Follows
    <2>2. CASE b # c
      <3>1. view'[b][c] = view[b][c] /\ states' = states /\ muted' = muted /\ stale' = stale
        BY <1>1, <1>4, <2>2 DEF server, past
      <3>2. QED
        BY <1>2, <1>8, <1>10, <3>1, FollowsStands DEF ScreenInv, WordInv
    <2>3. QED
      BY <2>1, <2>2
  <1>15. QED
    BY <1>11, <1>12, <1>13, <1>14 DEF WordInv

-----------------------------------------------------------------------------
(* A page takes the first frame of its line.                               *)

First(b) == Head(down[At(b)])

Takes(b) ==
    /\ socket[b] # 0 /\ At(b) \in Sockets /\ down[At(b)] # <<>>
    /\ down'[At(b)] = Tail(down[At(b)])
    /\ \A t \in Sockets : t # At(b) => down'[t] = down[t]
    /\ \A x \in Pages \ {b} : \A c \in Pages : view'[x][c] = view[x][c]
    /\ \A c \in Pages \ {b} :
          /\ (\A e \in First(b).entries : e.id # c) => view'[b][c] = view[b][c]
          /\ \A e \in First(b).entries : e.id = c =>
                /\ News(view[b][c], e) => view'[b][c] = [clock |-> e.clock, state |-> e.state]
                /\ ~News(view[b][c], e) => view'[b][c] = view[b][c]
    /\ \A x \in Pages \ {b} : stale'[x] = stale[x]
    /\ UNCHANGED <<socket, tries, closed, server, unheard, muted>>

\* What is in the line and what was.
LEMMA TakesLines ==
    ASSUME TypeOK, NEW b \in Pages, Takes(b)
    PROVE  /\ down[At(b)] \in Seq(Packets) /\ First(b) \in Packets
           /\ \A e \in First(b).entries : Told(down[At(b)], 1, e) /\ e \in FrameOf
           /\ \A i, e :
                 /\ Told(down'[At(b)], i, e) => Told(down[At(b)], i + 1, e)
                 /\ Told(down[At(b)], i, e) =>
                       \/ i = 1 /\ e \in First(b).entries
                       \/ i > 1 /\ Told(down'[At(b)], i - 1, e)
           /\ \A i :
                 /\ Joined(down'[At(b)], i) => Joined(down[At(b)], i + 1)
                 /\ Joined(down[At(b)], i) =>
                       \/ i = 1 /\ First(b).what = "joined"
                       \/ i > 1 /\ Joined(down'[At(b)], i - 1)
           /\ \A t \in Sockets : \A i, e :
                 Told(down'[t], i, e) => \E j : Told(down[t], j, e)
  <1>1. /\ At(b) \in Sockets /\ down[At(b)] # <<>>
        /\ down'[At(b)] = Tail(down[At(b)])
        /\ \A t \in Sockets : t # At(b) => down'[t] = down[t]
    BY DEF Takes
  <1>2. down[At(b)] \in Seq(Packets)
    BY <1>1 DEF TypeOK, Packets
  <1>3. First(b) \in Packets
    BY <1>1, <1>2 DEF First
  <1>4. /\ \A i, e :
              /\ Told(down'[At(b)], i, e) => Told(down[At(b)], i + 1, e)
              /\ Told(down[At(b)], i, e) =>
                    \/ i = 1 /\ e \in First(b).entries
                    \/ i > 1 /\ Told(down'[At(b)], i - 1, e)
              /\ e \in First(b).entries => Told(down[At(b)], 1, e)
        /\ \A i :
              /\ Joined(down'[At(b)], i) => Joined(down[At(b)], i + 1)
              /\ Joined(down[At(b)], i) =>
                    \/ i = 1 /\ First(b).what = "joined"
                    \/ i > 1 /\ Joined(down'[At(b)], i - 1)
    <2> DEFINE q == down[At(b)]
    <2>1. /\ q \in Seq(Packets) /\ q # <<>> /\ down'[At(b)] = Tail(q)
          /\ First(b) = Head(q) /\ q = down[At(b)]
      BY <1>1, <1>2 DEF First
    <2> HIDE DEF q
    <2>2. \A i, e :
             /\ Told(Tail(q), i, e) => Told(q, i + 1, e)
             /\ Told(q, i, e) =>
                   \/ i = 1 /\ e \in Head(q).entries
                   \/ i > 1 /\ Told(Tail(q), i - 1, e)
             /\ e \in Head(q).entries => Told(q, 1, e)
      BY <2>1, ToldFacts
    <2>3. \A i :
             /\ Joined(Tail(q), i) => Joined(q, i + 1)
             /\ Joined(q, i) =>
                   \/ i = 1 /\ Head(q).what = "joined"
                   \/ i > 1 /\ Joined(Tail(q), i - 1)
      BY <2>1, ToldFacts
    <2>4. QED
      BY <2>1, <2>2, <2>3
  <1>5. \A e \in First(b).entries : e \in FrameOf
    BY <1>3 DEF Packets
  <1>6. ASSUME NEW t \in Sockets, NEW i, NEW e, Told(down'[t], i, e)
        PROVE  \E j : Told(down[t], j, e)
    BY <1>1, <1>4, <1>6
  <1>7. QED
    BY <1>2, <1>3, <1>4, <1>5, <1>6

\* Nobody learns of a clock by it that was not on its way.
LEMMA TakesUnlearned ==
    ASSUME TypeOK, NEW b \in Pages, Takes(b), NEW c \in Pages
    PROVE  Unlearned(c)
  <1> SUFFICES ASSUME NEW n, Knows(c, n)' PROVE Knows(c, n)
    BY DEF Unlearned
  <1>1. states' = states
    BY DEF Takes, server
  <1>2. CASE n = states'[c].clock
    BY <1>1, <1>2 DEF Knows
  <1>3. ASSUME NEW x \in Pages \ {c}, n = view'[x][c].clock PROVE Knows(c, n)
    <2>1. CASE view'[x][c] = view[x][c]
      BY <1>3, <2>1 DEF Knows
    <2>2. CASE view'[x][c] # view[x][c]
      <3>1. x = b /\ c # b
        BY <1>3, <2>2 DEF Takes
      <3>2. PICK e \in First(b).entries : e.id = c
        BY <2>2, <3>1 DEF Takes
      <3>3. view'[b][c] = [clock |-> e.clock, state |-> e.state]
        BY <2>2, <3>1, <3>2 DEF Takes
      <3>4. n = e.clock
        BY <1>3, <3>1, <3>3
      <3>5. Told(down[At(b)], 1, e) /\ At(b) \in Sockets
        BY TakesLines DEF Takes
      <3>6. QED
        BY <3>2, <3>4, <3>5 DEF Knows
    <2>3. QED
      BY <2>1, <2>2
  <1>4. ASSUME NEW t \in Sockets, NEW i, NEW e, Told(down'[t], i, e), e.id = c, e.clock = n
        PROVE  Knows(c, n)
    BY <1>4, TakesLines DEF Knows
  <1>5. QED
    BY <1>2, <1>3, <1>4 DEF Knows

\* Of the others, the page knows what they last said if it was told of it.
LEMMA TakesWord ==
    ASSUME ScreenInv, IInv', NEW b \in Pages, Takes(b), NEW c \in Pages, c # b, Unsent(c),
           Own(c)' = Own(c),
           \A s \in Sockets : \A i, e : Sent(up[s], i, e) => Sent(up'[s], i, e)
    PROVE  Clocks(c)' /\ Fresh(c)' /\ Single(c)' /\ Echo(c)' /\ Speaks(c)'
  <1>1. /\ TypeOK /\ TypeOK' /\ SocketInv /\ DownOnce
        /\ Clocks(c) /\ Fresh(c) /\ Single(c) /\ Echo(c) /\ Speaks(c)
    BY DEF ScreenInv, IInv, WordInv, LineInv
  <1>2. /\ socket' = socket /\ seat' = seat /\ states' = states /\ owner' = owner
        /\ unheard' = unheard /\ Said(c)' = Said(c)
        /\ \A x \in Pages : At(x)' = At(x) /\ (Connected(x)' <=> Connected(x))
    BY DEF Takes, server, Said, At, Connected, live
  <1>3. Clocks(c)' /\ Fresh(c)' /\ Single(c)'
    BY <1>1, TakesUnlearned, WordStands
  <1>4. socket[c] # 0 => down'[At(c)] = down[At(c)]
    <2>1. ASSUME socket[c] # 0 PROVE At(c) \in Sockets /\ At(c) # At(b)
      BY <1>1, <2>1, SocketFacts DEF At
    <2>2. QED
      BY <2>1 DEF Takes
  <1>5. Echo(c)'
    BY <1>1, <1>2, <1>4 DEF Echo
  <1>6. Speaks(c)'
    <2> SUFFICES ASSUME Spoken(c)'
                 PROVE  /\ \A s \in Sockets : s[1] = c /\ s # At(c) =>
                             \A i, e : Sent(up'[s], i, e) /\ e.id = c => e.clock < Own(c).clock
                        /\ At(c) \notin owner[c].sockets => states[c].clock < Own(c).clock
                        /\ c \notin unheard =>
                             /\ \A x \in Pages \ {c} :
                                   view'[x][c].clock = Own(c).clock => view'[x][c] = Own(c)
                             /\ \A t \in Sockets : t[1] # c =>
                                   \A i, e : Told(down'[t], i, e) /\ e.id = c
                                               /\ e.clock = Own(c).clock => e = Said(c)
                             /\ (\E i : Sent(up'[At(c)], i, Said(c))) \/ Spread(c)'
      BY <1>2 DEF Speaks
    <2>1. Spoken(c) /\ At(c) \in Sockets
      <3>1. Connected(c) /\ At(c) \in Sockets /\ socket[c] # 0
        BY <1>2, AtSocket DEF Spoken
      <3>2. QED
        BY <1>2, <1>4, <3>1 DEF Spoken
    <2>2. \A s \in Sockets : s[1] = c /\ s # At(c) =>
             \A i, e : Sent(up'[s], i, e) /\ e.id = c => e.clock < Own(c).clock
      BY <1>1, <2>1 DEF Speaks, Unsent
    <2>3. At(c) \notin owner[c].sockets => states[c].clock < Own(c).clock
      BY <1>1, <2>1 DEF Speaks
    <2>4. ASSUME c \notin unheard
          PROVE  /\ \A x \in Pages \ {c} :
                       view'[x][c].clock = Own(c).clock => view'[x][c] = Own(c)
                 /\ \A t \in Sockets : t[1] # c =>
                       \A i, e : Told(down'[t], i, e) /\ e.id = c
                                   /\ e.clock = Own(c).clock => e = Said(c)
                 /\ (\E i : Sent(up'[At(c)], i, Said(c))) \/ Spread(c)'
      <3>1. /\ \A x \in Pages \ {c} : view[x][c].clock = Own(c).clock => view[x][c] = Own(c)
            /\ \A t \in Sockets : t[1] # c =>
                  \A i, e : Told(down[t], i, e) /\ e.id = c /\ e.clock = Own(c).clock => e = Said(c)
            /\ (\E i : Sent(up[At(c)], i, Said(c))) \/ Spread(c)
        BY <1>1, <2>1, <2>4 DEF Speaks
      <3>2. At(b)[1] # c /\ At(b) \in Sockets
        BY DEF At, Takes
      <3>3. \A t \in Sockets : t[1] # c =>
               \A i, e : Told(down'[t], i, e) /\ e.id = c /\ e.clock = Own(c).clock => e = Said(c)
        BY <1>1, <3>1, TakesLines
      <3>4. ASSUME NEW e \in First(b).entries, e.id = c, e.clock = Own(c).clock
            PROVE  e = Said(c) /\ [clock |-> e.clock, state |-> e.state] = Own(c)
        <4>1. e = Said(c)
          BY <1>1, <3>1, <3>2, <3>4, TakesLines
        <4>2. Said(c).clock = Own(c).clock /\ Said(c).state = Own(c).state /\ Own(c) \in States
          BY <1>1, OwnFacts
        <4>3. QED
          BY <4>1, <4>2 DEF States
      <3>5. ASSUME NEW x \in Pages \ {c}, view'[x][c].clock = Own(c).clock
            PROVE  view'[x][c] = Own(c)
        <4>1. CASE view'[x][c] = view[x][c]
          BY <3>1, <3>5, <4>1
        <4>2. CASE view'[x][c] # view[x][c]
          <5>1. x = b
            BY <3>5, <4>2 DEF Takes
          <5>2. PICK e \in First(b).entries : e.id = c
            BY <4>2, <5>1 DEF Takes
          <5>3. view'[b][c] = [clock |-> e.clock, state |-> e.state]
            BY <4>2, <5>1, <5>2 DEF Takes
          <5>4. e.clock = Own(c).clock
            BY <3>5, <5>1, <5>3
          <5>5. QED
            BY <3>4, <5>1, <5>2, <5>3, <5>4
        <4>3. QED
          BY <4>1, <4>2
      <3>6. ASSUME Spread(c) PROVE Spread(c)'
        <4>1. states'[c] = Own(c)' /\ At(c)' \in owner'[c].sockets
          BY <1>2, <3>6 DEF Spread
        <4>2. ASSUME NEW x \in Pages \ {c}, Connected(x)
              PROVE  view'[x][c] = Own(c) \/ \E i : Told(down'[At(x)], i, Said(c))
          <5>1. view[x][c] = Own(c) \/ \E i : Told(down[At(x)], i, Said(c))
            BY <3>6, <4>2 DEF Spread
          <5>2. CASE x # b
            <6>1. At(x) \in Sockets /\ At(x) # At(b)
              BY <4>2, <5>2, AtSocket DEF At
            <6>2. QED
              BY <5>1, <5>2, <6>1 DEF Takes
          <5>3. CASE x = b /\ Said(c) \notin First(b).entries
            <6>1. ASSUME view[b][c] = Own(c) PROVE view'[b][c] = Own(c)
              <7>1. CASE view'[b][c] = view[b][c]
                BY <6>1, <7>1
              <7>2. CASE view'[b][c] # view[b][c]
                <8>1. PICK e \in First(b).entries : e.id = c /\ News(view[b][c], e)
                  BY <5>3, <7>2 DEF Takes
                <8>2. e.clock <= Own(c).clock /\ e \in FrameOf
                  <9>1. Told(down[At(b)], 1, e) /\ e \in FrameOf
                    BY <1>1, TakesLines
                  <9>2. Knows(c, e.clock)
                    BY <3>2, <8>1, <9>1 DEF Knows
                  <9>3. QED
                    BY <1>1, <9>1, <9>2 DEF Clocks
                <8>3. e.clock = Own(c).clock
                  <9>1. Own(c).clock \in Nat /\ e.clock \in Nat
                    BY <1>1, <8>2, OwnFacts DEF FrameOf
                  <9>2. ~(Own(c).clock < e.clock)
                    BY <8>2, <9>1
                  <9>3. QED
                    BY <6>1, <8>1, <9>2 DEF News
                <8>4. QED
                  BY <3>4, <5>3, <8>1, <8>3
              <7>3. QED
                BY <7>1, <7>2
            <6>2. ASSUME NEW i, Told(down[At(b)], i, Said(c))
                  PROVE  \E j : Told(down'[At(b)], j, Said(c))
              BY <1>1, <5>3, <6>2, TakesLines
            <6>3. QED
              BY <5>1, <5>3, <6>1, <6>2
          <5>4. CASE x = b /\ Said(c) \in First(b).entries
            <6>1. Said(c).id = c /\ Said(c).clock = Own(c).clock
              BY <1>1, OwnFacts
            <6>2. CASE News(view[b][c], Said(c))
              <7>1. view'[b][c] = [clock |-> Said(c).clock, state |-> Said(c).state]
                BY <5>4, <6>1, <6>2 DEF Takes
              <7>2. QED
                BY <3>4, <5>4, <6>1, <7>1
            <6>3. CASE ~News(view[b][c], Said(c))
              <7>1. view'[b][c] = view[b][c]
                BY <5>4, <6>1, <6>3 DEF Takes
              <7>2. view[b][c].clock = Own(c).clock
                <8>1. Own(c).clock \in Nat /\ view[b][c].clock \in Nat
                  BY <1>1, OwnFacts
                <8>2. ~(view[b][c].clock < Own(c).clock)
                  BY <6>1, <6>3 DEF News
                <8>3. view[b][c].clock <= Own(c).clock
                  BY <1>1, <5>4, <4>2 DEF Clocks, Knows
                <8>4. QED
                  BY <8>1, <8>2, <8>3
              <7>3. QED
                BY <3>1, <4>2, <5>4, <7>1, <7>2
            <6>4. QED
              BY <6>2, <6>3
          <5>5. QED
            BY <5>2, <5>3, <5>4
        <4>3. QED
          BY <1>2, <4>1, <4>2 DEF Spread
      <3>7. (\E i : Sent(up'[At(c)], i, Said(c))) \/ Spread(c)'
        BY <2>1, <3>1, <3>6
      <3>8. QED
        BY <3>3, <3>5, <3>7
    <2>5. QED
      BY <2>2, <2>3, <2>4
  <1>7. QED
    BY <1>3, <1>5, <1>6

\* Whom a page is told of, as far as it does not know better.
ToldOf(b) == {e.id : e \in {f \in First(b).entries : f.clock >= view[b][f.id].clock}}

Quietly(b) ==
    /\ First(b).what # "joined" /\ Own(b)' = Own(b) /\ up' = up
    /\ stale'[b] = stale[b] \ {c \in ToldOf(b) : view'[b][c] # view[b][c]}

Announces(b, now) ==
    /\ First(b).what = "joined"
    /\ now \in States /\ now.state # Null /\ now.clock = Own(b).clock + 1
    /\ Own(b)' = now /\ Emit(b, Entry(b, now))
    /\ stale'[b] = Visible(b) \ ToldOf(b)

\* Receive, in these terms: of itself the page is told nothing it would believe.
LEMMA ReceiveTakes ==
    ASSUME ScreenInv, NEW b \in Pages, Receive(b)
    PROVE  Takes(b) /\ (Quietly(b) \/ \E now : Announces(b, now))
  <1> DEFINE frame == Head(down[At(b)])
             heard == Apply(b, view[b], frame.entries)
             told  == {e.id : e \in {f \in frame.entries : f.clock >= view[b][f.id].clock}}
  <1>1. /\ socket[b] # 0 /\ down[At(b)] # <<>>
        /\ down' = [down EXCEPT ![At(b)] = Tail(@)]
        /\ UNCHANGED <<socket, tries, closed, server, unheard, muted, bounds>>
    BY DEF Receive, At
  <1>2. /\ TypeOK /\ SocketInv /\ DownOnce /\ Clocks(b) /\ Echo(b)
        /\ view \in [Pages -> [Pages -> States]] /\ stale \in [Pages -> SUBSET Pages]
        /\ down \in [Sockets -> Seq(Packets)]
    BY DEF ScreenInv, WordInv, LineInv, IInv, TypeOK, Packets
  <1>3. At(b) \in Sockets
    BY <1>1, <1>2, SocketFacts DEF At
  <1>4. /\ frame.what = "joined" =>
              \E v \in Values :
                LET now == [clock |-> Own(b).clock + 1, state |-> v] IN
                /\ view' = [view EXCEPT ![b] = Apply(b, [view[b] EXCEPT ![b] = now],
                                                     frame.entries)]
                /\ Emit(b, Entry(b, now))
                /\ stale' = [stale EXCEPT ![b] = Visible(b) \ told]
        /\ frame.what # "joined" =>
                /\ view' = [view EXCEPT ![b] = heard]
                /\ stale' = [stale EXCEPT ![b] = stale[b] \ {c \in told : heard[c] # view[b][c]}]
                /\ UNCHANGED up
    BY <1>2 DEF Receive, At
  <1>5. frame = First(b) /\ told = ToldOf(b)
    BY DEF First, ToldOf
  <1>6. /\ Once(frame.entries)
        /\ \A e \in frame.entries : Told(down[At(b)], 1, e) /\ e \in FrameOf
    <2>1. down[At(b)] \in Seq(Packets)
      BY <1>2, <1>3
    <2>2. \A e \in frame.entries : Told(down[At(b)], 1, e)
      BY <1>1, <2>1, ToldFacts
    <2>3. QED
      BY <1>2, <1>3, <2>1, <2>2, ToldFacts DEF DownOnce, Once
  <1>7. /\ down'[At(b)] = Tail(down[At(b)])
        /\ \A t \in Sockets : t # At(b) => down'[t] = down[t]
    BY <1>1, <1>2, <1>3
  <1> HIDE DEF frame, heard, told
  <1>8. ASSUME NEW e \in frame.entries, e.id = b PROVE e.clock <= Own(b).clock
    BY <1>2, <1>3, <1>6, <1>8 DEF Clocks, Knows
  <1>9. ASSUME NEW known \in [Pages -> States], \A c \in Pages \ {b} : known[c] = view[b][c],
               view' = [view EXCEPT ![b] = Apply(b, known, frame.entries)]
        PROVE  /\ \A x \in Pages \ {b} : \A c \in Pages : view'[x][c] = view[x][c]
               /\ \A c \in Pages \ {b} :
                     /\ (\A e \in frame.entries : e.id # c) => view'[b][c] = view[b][c]
                     /\ \A e \in frame.entries : e.id = c =>
                           /\ News(view[b][c], e)
                                 => view'[b][c] = [clock |-> e.clock, state |-> e.state]
                           /\ ~News(view[b][c], e) => view'[b][c] = view[b][c]
               /\ view'[b] = Apply(b, known, frame.entries)
               /\ (\A e \in frame.entries : e.id # b) => Own(b)' = known[b]
               /\ \A e \in frame.entries : e.id = b => Own(b)' = Heard(b, known[b], e)
    <2>1. /\ view'[b] = Apply(b, known, frame.entries)
          /\ \A x \in Pages \ {b} : view'[x] = view[x]
      BY <1>2, <1>9
    <2>2. ASSUME NEW c \in Pages
          PROVE  /\ (\A e \in frame.entries : e.id # c) => view'[b][c] = known[c]
                 /\ \A e \in frame.entries : e.id = c => view'[b][c] = Heard(b, known[c], e)
      <3>1. /\ (\A e \in frame.entries : e.id # c) => Apply(b, known, frame.entries)[c] = known[c]
            /\ \A e \in frame.entries : e.id = c =>
                  Apply(b, known, frame.entries)[c] = Heard(b, known[c], e)
        <4> DEFINE q == frame.entries
        <4>1. known \in [Pages -> States] /\ Once(q) /\ c \in Pages
          BY <1>6, <1>9, <2>2
        <4> HIDE DEF q
        <4>2. (\A e \in q : e.id # c) => Apply(b, known, q)[c] = known[c]
          BY <4>1, ApplyExact
        <4>3. ASSUME NEW e \in q, e.id = c PROVE Apply(b, known, q)[c] = Heard(b, known[c], e)
          <5>1. {x \in q : x.id = c} = {e}
            BY <4>1, <4>3 DEF Once
          <5>2. Apply(b, known, q)[c] = Heard(b, known[c], CHOOSE x \in {e} : TRUE)
            BY <4>1, <5>1 DEF Apply
          <5>3. QED
            BY <5>2
        <4>4. QED
          BY <4>2, <4>3 DEF q
      <3>2. view'[b][c] = Apply(b, known, frame.entries)[c]
        BY <2>1
      <3>3. QED
        BY <3>1, <3>2
    <2>3. ASSUME NEW c \in Pages \ {b}
          PROVE  /\ (\A e \in frame.entries : e.id # c) => view'[b][c] = view[b][c]
                 /\ \A e \in frame.entries : e.id = c =>
                       /\ News(view[b][c], e)
                             => view'[b][c] = [clock |-> e.clock, state |-> e.state]
                       /\ ~News(view[b][c], e) => view'[b][c] = view[b][c]
      <3>1. known[c] = view[b][c] /\ c # b
        BY <1>9
      <3>2. ASSUME NEW e \in frame.entries, e.id = c
            PROVE  /\ News(view[b][c], e)
                         => Heard(b, view[b][c], e) = [clock |-> e.clock, state |-> e.state]
                   /\ ~News(view[b][c], e) => Heard(b, view[b][c], e) = view[b][c]
        BY <3>1, <3>2 DEF Heard
      <3>3. \A e \in frame.entries : e.id = c => view'[b][c] = Heard(b, view[b][c], e)
        BY <2>2, <3>1
      <3>4. (\A e \in frame.entries : e.id # c) => view'[b][c] = view[b][c]
        BY <2>2, <3>1
      <3>5. QED
        BY <3>2, <3>3, <3>4
    <2>4. QED
      BY <2>1, <2>2, <2>3 DEF Own
  <1>10. CASE frame.what = "joined"
    <2>1. PICK v \in Values :
                LET now == [clock |-> Own(b).clock + 1, state |-> v] IN
                /\ view' = [view EXCEPT ![b] = Apply(b, [view[b] EXCEPT ![b] = now],
                                                     frame.entries)]
                /\ Emit(b, Entry(b, now))
                /\ stale' = [stale EXCEPT ![b] = Visible(b) \ told]
      BY <1>4, <1>10
    <2> DEFINE now == [clock |-> Own(b).clock + 1, state |-> v]
               known == [view[b] EXCEPT ![b] = now]
    <2>2. /\ now \in States /\ now.state # Null /\ now.clock = Own(b).clock + 1
      BY <1>2, OwnFacts, AwarenessAssumption DEF States
    <2>3. /\ view' = [view EXCEPT ![b] = Apply(b, known, frame.entries)]
          /\ Emit(b, Entry(b, now))
          /\ stale' = [stale EXCEPT ![b] = Visible(b) \ told]
      BY <2>1
    <2> HIDE DEF now
    <2>4. /\ known \in [Pages -> States] /\ known[b] = now
          /\ \A c \in Pages \ {b} : known[c] = view[b][c]
      BY <1>2, <2>2
    <2> HIDE DEF known
    <2>5. Own(b)' = now
      <3>1. ASSUME NEW e \in frame.entries, e.id = b PROVE ~News(now, e)
        <4>1. e.clock <= Own(b).clock /\ e.clock \in Nat /\ Own(b).clock \in Nat
          BY <1>2, <1>6, <1>8, <3>1, OwnFacts DEF FrameOf
        <4>2. ~(now.clock < e.clock) /\ now.clock # e.clock
          BY <2>2, <4>1
        <4>3. QED
          BY <4>2 DEF News
      <3>2. CASE \A e \in frame.entries : e.id # b
        BY <1>9, <2>3, <2>4, <3>2
      <3>3. CASE \E e \in frame.entries : e.id = b
        <4>1. PICK e \in frame.entries : e.id = b
          BY <3>3
        <4>2. Own(b)' = Heard(b, now, e) /\ ~News(now, e)
          BY <1>9, <2>3, <2>4, <3>1, <4>1
        <4>3. QED
          BY <4>2 DEF Heard
      <3>4. QED
        BY <3>2, <3>3
    <2>6. stale'[b] = Visible(b) \ told /\ \A x \in Pages \ {b} : stale'[x] = stale[x]
      BY <1>2, <2>3
    <2>7. Announces(b, now)
      BY <1>5, <1>10, <2>2, <2>3, <2>5, <2>6 DEF Announces
    <2>8. Takes(b)
      BY <1>1, <1>3, <1>5, <1>7, <1>9, <2>3, <2>4, <2>6 DEF Takes
    <2>9. QED
      BY <2>7, <2>8
  <1>11. CASE frame.what # "joined"
    <2>1. /\ view' = [view EXCEPT ![b] = Apply(b, view[b], frame.entries)]
          /\ stale' = [stale EXCEPT ![b] = stale[b] \ {c \in told : heard[c] # view[b][c]}]
          /\ UNCHANGED up
      BY <1>4, <1>11 DEF heard
    <2>2. view[b] \in [Pages -> States] /\ view[b][b] = Own(b)
      BY <1>2 DEF Own
    <2>3. Own(b)' = Own(b)
      <3>1. ASSUME NEW e \in frame.entries, e.id = b PROVE ~News(Own(b), e)
        <4>1. e.clock <= Own(b).clock /\ e.clock \in Nat /\ Own(b).clock \in Nat
          BY <1>2, <1>6, <1>8, <3>1, OwnFacts DEF FrameOf
        <4>2. ~(Own(b).clock < e.clock)
          BY <4>1
        <4>3. ~(Own(b).clock = e.clock /\ e.state = Null)
          <5>1. ASSUME Own(b).clock = e.clock, e.state = Null PROVE FALSE
            <6>1. \E j \in 1..(1 - 1) : Joined(down[At(b)], j)
              BY <1>1, <1>2, <1>6, <3>1, <5>1 DEF Echo
            <6>2. QED
              BY <6>1
          <5>2. QED
            BY <5>1
        <4>4. QED
          BY <4>2, <4>3 DEF News
      <3>2. /\ (\A e \in frame.entries : e.id # b) => Own(b)' = view[b][b]
            /\ \A e \in frame.entries : e.id = b => Own(b)' = Heard(b, view[b][b], e)
        BY <1>9, <2>1, <2>2
      <3>3. CASE \A e \in frame.entries : e.id # b
        BY <2>2, <3>2, <3>3
      <3>4. CASE \E e \in frame.entries : e.id = b
        <4>1. PICK e \in frame.entries : e.id = b
          BY <3>4
        <4>2. Own(b)' = Heard(b, Own(b), e)
          BY <2>2, <3>2, <4>1
        <4>3. ~News(Own(b), e)
          BY <3>1, <4>1
        <4>4. QED
          BY <4>2, <4>3 DEF Heard
      <3>5. QED
        BY <3>3, <3>4
    <2>4. /\ stale'[b] = stale[b] \ {c \in told : heard[c] # view[b][c]}
          /\ \A x \in Pages \ {b} : stale'[x] = stale[x]
          /\ view'[b] = heard
      BY <1>2, <2>1 DEF heard
    <2>5. Quietly(b)
      BY <1>5, <1>11, <2>1, <2>3, <2>4 DEF Quietly
    <2>6. Takes(b)
      BY <1>1, <1>3, <1>5, <1>7, <1>9, <2>1, <2>2, <2>4 DEF Takes
    <2>7. QED
      BY <2>5, <2>6
  <1>12. QED
    BY <1>10, <1>11

\* Of itself a page that was told nothing new still holds what it said.
LEMMA QuietlyWord ==
    ASSUME ScreenInv, IInv', NEW b \in Pages, Takes(b), Quietly(b)
    PROVE  Clocks(b)' /\ Fresh(b)' /\ Single(b)' /\ Echo(b)' /\ Speaks(b)'
  <1>1. /\ TypeOK /\ TypeOK' /\ SocketInv
        /\ Clocks(b) /\ Fresh(b) /\ Single(b) /\ Echo(b) /\ Speaks(b)
    BY DEF ScreenInv, IInv, WordInv
  <1>2. /\ socket' = socket /\ seat' = seat /\ states' = states /\ owner' = owner
        /\ unheard' = unheard
        /\ \A x \in Pages : At(x)' = At(x) /\ (Connected(x)' <=> Connected(x))
    BY DEF Takes, server, At, Connected, live
  <1>3. Own(b)' = Own(b) /\ up' = up /\ First(b).what # "joined"
    BY DEF Quietly
  <1>4. Unsent(b)
    BY <1>1, <1>3, ShiftZero DEF Unsent
  <1>5. Clocks(b)' /\ Fresh(b)' /\ Single(b)'
    BY <1>1, <1>3, <1>4, TakesUnlearned, WordStands
  <1>6. /\ \A i, e : Told(down'[At(b)], i, e) => Told(down[At(b)], i + 1, e)
        /\ \A i : Joined(down[At(b)], i) => i > 1 /\ Joined(down'[At(b)], i - 1)
        /\ At(b) \in Sockets
    BY <1>1, <1>3, TakesLines DEF Takes
  <1>7. Echo(b)'
    <2> SUFFICES ASSUME NEW i, NEW e, socket[b] # 0, Told(down'[At(b)], i, e), e.id = b,
                        e.state = Null, e.clock = Own(b).clock
                 PROVE  \E j \in 1..(i - 1) : Joined(down'[At(b)], j)
      BY <1>2, <1>3 DEF Echo
    <2>1. i \in Nat
      <3>1. down'[At(b)] \in Seq(Packets)
        BY <1>1, <1>6 DEF TypeOK, Packets
      <3>2. i \in 1..Len(down'[At(b)])
        BY <3>1, ToldFacts
      <3>3. QED
        BY <3>2
    <2>2. PICK j \in 1..i : Joined(down[At(b)], j)
      <3>1. Told(down[At(b)], i + 1, e)
        BY <1>6
      <3> DEFINE k == i + 1
      <3>2. Told(down[At(b)], k, e)
        BY <3>1
      <3> HIDE DEF k
      <3>3. \E j \in 1..(k - 1) : Joined(down[At(b)], j)
        BY <1>1, <3>2 DEF Echo
      <3>4. k - 1 = i
        BY <2>1 DEF k
      <3>5. QED
        BY <3>3, <3>4
    <2>3. j > 1 /\ Joined(down'[At(b)], j - 1)
      BY <1>6, <2>2
    <2>4. j - 1 \in 1..(i - 1)
      BY <2>1, <2>2, <2>3
    <2>5. QED
      BY <2>3, <2>4
  <1>8. Speaks(b)'
    <2>1. Spoken(b)' => Spoken(b) /\ Connected(b)' /\ At(b)' = At(b)
      BY <1>2, <1>6 DEF Spoken
    <2>2. ASSUME NEW x \in Pages \ {b} PROVE Stays(x)
      <3>1. Connected(x) => At(x) \in Sockets /\ At(x) # At(b)
        BY <2>2, AtSocket DEF At
      <3>2. QED
        BY <1>2, <3>1 DEF Stays, Takes
    <2>3. Retold(b)
      BY <1>1, TakesLines DEF Retold
    <2>4. \A x \in Pages \ {b} : view'[x][b] = view[x][b]
      BY DEF Takes
    <2>5. QED
      BY <1>1, <1>2, <1>3, <1>4, <2>1, <2>2, <2>3, <2>4, SpeaksStands
  <1>9. QED
    BY <1>5, <1>7, <1>8

\* What a page takes leaves it behind the server, as it was.
LEMMA TakesFollows ==
    ASSUME ScreenInv, NEW b \in Pages, Takes(b), Quietly(b) \/ \E now : Announces(b, now),
           NEW c \in Pages, c # b
    PROVE  Follows(b, c)'
  <1>1. TypeOK /\ SocketInv /\ Follows(b, c) /\ DownOnce
    BY DEF ScreenInv, IInv, WordInv, LineInv
  <1>2. /\ socket' = socket /\ seat' = seat /\ states' = states /\ muted' = muted
        /\ At(b)' = At(b) /\ (Connected(b)' <=> Connected(b))
    BY DEF Takes, server, At, Connected, live
  <1> SUFFICES ASSUME c \notin muted, Connected(b)
               PROVE  /\ \A i, e : Told(down'[At(b)], i, e) /\ e.id = c =>
                           /\ e.clock <= states[c].clock
                           /\ (\A j, d : Told(down'[At(b)], j, d) /\ j > i => d.id # c)
                                 => e = Entry(c, states[c])
                      /\ Spoken(b)' /\ c \notin stale'[b] /\ view'[b][c].state # Null =>
                           /\ view'[b][c].clock <= states[c].clock
                           /\ (\A i, e : Told(down'[At(b)], i, e) => e.id # c)
                                 => states[c].state # Null
    <2>1. Entry(c, states[c])' = Entry(c, states'[c])
      BY DEF Entry
    <2>2. QED
      BY <1>2, <2>1 DEF Follows
  <1>3. /\ \A i, e : Told(down[At(b)], i, e) /\ e.id = c =>
              /\ e.clock <= states[c].clock
              /\ (\A j, d : Told(down[At(b)], j, d) /\ j > i => d.id # c)
                    => e = Entry(c, states[c])
        /\ Spoken(b) /\ c \notin stale[b] /\ view[b][c].state # Null =>
              /\ view[b][c].clock <= states[c].clock
              /\ (\A i, e : Told(down[At(b)], i, e) => e.id # c) => states[c].state # Null
    BY <1>1 DEF Follows
  <1>4. /\ down[At(b)] \in Seq(Packets)
        /\ \A e \in First(b).entries : Told(down[At(b)], 1, e) /\ e \in FrameOf
        /\ \A i, e :
              /\ Told(down'[At(b)], i, e) => Told(down[At(b)], i + 1, e)
              /\ Told(down[At(b)], i, e) =>
                    \/ i = 1 /\ e \in First(b).entries
                    \/ i > 1 /\ Told(down'[At(b)], i - 1, e)
        /\ \A i : Joined(down[At(b)], i) =>
                    \/ i = 1 /\ First(b).what = "joined"
                    \/ i > 1 /\ Joined(down'[At(b)], i - 1)
    BY <1>1, TakesLines
  <1>5. \A i, e : Told(down[At(b)], i, e) => i \in Nat
    BY <1>4, ToldFacts
  <1>6. \A e \in First(b).entries : e.id = c => e.clock <= states[c].clock
    BY <1>3, <1>4
  <1>7. ASSUME \A i, e : Told(down'[At(b)], i, e) => e.id # c
        PROVE  /\ \A e \in First(b).entries : e.id = c => e = Entry(c, states[c])
               /\ (\A e \in First(b).entries : e.id # c)
                     => \A i, e : Told(down[At(b)], i, e) => e.id # c
    <2>1. \A j, d : Told(down[At(b)], j, d) /\ j > 1 => d.id # c
      <3>1. ASSUME NEW j, NEW d, Told(down[At(b)], j, d), j > 1 PROVE d.id # c
        <4>1. j \in Nat /\ j # 1
          BY <1>5, <3>1
        <4>2. Told(down'[At(b)], j - 1, d)
          BY <1>4, <3>1, <4>1
        <4>3. QED
          BY <1>7, <4>2
      <3>2. QED
        BY <3>1
    <2>2. \A e \in First(b).entries : e.id = c => e = Entry(c, states[c])
      BY <1>3, <1>4, <2>1
    <2>3. (\A e \in First(b).entries : e.id # c)
             => \A i, e : Told(down[At(b)], i, e) => e.id # c
      BY <1>4, <1>7
    <2>4. QED
      BY <2>2, <2>3
  <1>8. ASSUME NEW i, NEW e, Told(down'[At(b)], i, e), e.id = c
        PROVE  /\ e.clock <= states[c].clock
               /\ (\A j, d : Told(down'[At(b)], j, d) /\ j > i => d.id # c)
                     => e = Entry(c, states[c])
    <2>1. Told(down[At(b)], i + 1, e)
      BY <1>4, <1>8
    <2>2. i \in Nat
      <3>1. down'[At(b)] \in Seq(Packets)
        BY <1>4 DEF Takes
      <3>2. i \in 1..Len(down'[At(b)])
        BY <1>8, <3>1, ToldFacts
      <3>3. QED
        BY <3>2
    <2>3. ASSUME \A j, d : Told(down'[At(b)], j, d) /\ j > i => d.id # c
          PROVE  \A j, d : Told(down[At(b)], j, d) /\ j > i + 1 => d.id # c
      <3>1. ASSUME NEW j, NEW d, Told(down[At(b)], j, d), j > i + 1 PROVE d.id # c
        <4>1. j \in Nat /\ j # 1 /\ j - 1 > i
          BY <1>5, <2>2, <3>1
        <4>2. Told(down'[At(b)], j - 1, d)
          BY <1>4, <3>1, <4>1
        <4>3. QED
          BY <2>3, <4>1, <4>2
      <3>2. QED
        BY <3>1
    <2>4. QED
      BY <1>3, <1>8, <2>1, <2>3
  <1>9. ASSUME Spoken(b)', c \notin stale'[b], view'[b][c].state # Null
        PROVE  /\ view'[b][c].clock <= states[c].clock
               /\ (\A i, e : Told(down'[At(b)], i, e) => e.id # c) => states[c].state # Null
    <2>1. /\ view[b][c].clock \in Nat /\ states[c].clock \in Nat
          /\ c \in Visible(b) <=> view[b][c].state # Null
      BY <1>1, OwnFacts DEF Visible
    <2>2. Entry(c, states[c]).clock = states[c].clock /\ Entry(c, states[c]).state = states[c].state
      BY DEF Entry
    <2>3. CASE c \in ToldOf(b)
      <3>1. PICK e \in First(b).entries : e.id = c /\ e.clock >= view[b][c].clock
        BY <2>3 DEF ToldOf
      <3>2. e.clock <= states[c].clock /\ e \in FrameOf /\ view[b][c].clock \in Nat /\ e.clock \in Nat
        BY <1>4, <1>6, <2>1, <3>1 DEF FrameOf
      <3>3. view'[b][c].clock <= states[c].clock /\ e.state # Null
        <4>1. CASE News(view[b][c], e)
          <5>1. view'[b][c] = [clock |-> e.clock, state |-> e.state]
            BY <3>1, <4>1 DEF Takes
          <5>2. QED
            BY <1>9, <3>2, <5>1
        <4>2. CASE ~News(view[b][c], e)
          <5>1. view'[b][c] = view[b][c]
            BY <3>1, <4>2 DEF Takes
          <5>2. view[b][c].clock = e.clock
            <6>1. ~(view[b][c].clock < e.clock)
              BY <4>2 DEF News
            <6>2. QED
              BY <3>1, <3>2, <6>1
          <5>3. e.state # Null
            BY <1>9, <4>2, <5>1, <5>2 DEF News
          <5>4. QED
            BY <3>2, <5>1, <5>2, <5>3
        <4>3. QED
          BY <4>1, <4>2
      <3>4. QED
        BY <1>7, <2>2, <3>1, <3>3
    <2>4. CASE c \notin ToldOf(b)
      <3>1. ASSUME NEW e \in First(b).entries, e.id = c
            PROVE  ~News(view[b][c], e) /\ ~(e.clock >= view[b][c].clock)
        <4>1. ~(e.clock >= view[b][c].clock)
          BY <2>4, <3>1 DEF ToldOf
        <4>2. e.clock \in Nat /\ view[b][c].clock \in Nat
          BY <1>4, <2>1, <3>1 DEF FrameOf
        <4>3. ~(view[b][c].clock < e.clock) /\ view[b][c].clock # e.clock
          BY <4>1, <4>2
        <4>4. QED
          BY <4>1, <4>3 DEF News
      <3>2. view'[b][c] = view[b][c]
        BY <3>1 DEF Takes
      <3>3. Quietly(b) /\ c \notin stale[b]
        <4>1. ~\E now : Announces(b, now)
          BY <1>9, <2>1, <2>4, <3>2 DEF Announces
        <4>2. QED
          BY <1>9, <2>4, <4>1 DEF Quietly
      <3>4. Spoken(b)
        <4>1. \A i : ~Joined(down'[At(b)], i)
          BY <1>2, <1>9 DEF Spoken
        <4>2. \A i : ~Joined(down[At(b)], i)
          BY <1>4, <3>3, <4>1 DEF Quietly
        <4>3. QED
          BY <4>2 DEF Spoken
      <3>5. /\ view[b][c].clock <= states[c].clock
            /\ (\A i, e : Told(down[At(b)], i, e) => e.id # c) => states[c].state # Null
        BY <1>3, <1>9, <3>2, <3>3, <3>4
      <3>6. ASSUME \A i, e : Told(down'[At(b)], i, e) => e.id # c
            PROVE  \A e \in First(b).entries : e.id # c
        <4>1. ASSUME NEW e \in First(b).entries, e.id = c PROVE FALSE
          <5>1. e.clock = states[c].clock
            BY <1>7, <2>2, <3>6, <4>1
          <5>2. e.clock >= view[b][c].clock
            BY <2>1, <3>5, <5>1
          <5>3. QED
            BY <3>1, <4>1, <5>2
        <4>2. QED
          BY <4>1
      <3>7. QED
        BY <1>7, <3>2, <3>5, <3>6
    <2>5. QED
      BY <2>3, <2>4
  <1>10. QED
    BY <1>8, <1>9

\* It takes a frame, and answers the one that says it has joined.
LEMMA ReceiveWord == ASSUME ScreenInv, IInv', NEW b \in Pages, Receive(b) PROVE WordInv'
  <1>1. Takes(b) /\ (Quietly(b) \/ \E now : Announces(b, now))
    BY ReceiveTakes
  <1>2. /\ TypeOK /\ SocketInv /\ LineInv /\ LifeInv
        /\ down \in [Sockets -> Seq(Packets)]
    BY DEF ScreenInv, WordInv, IInv, TypeOK, Packets
  <1>3. /\ socket' = socket /\ tries' = tries /\ closed' = closed
        /\ seat' = seat /\ clients' = clients /\ owner' = owner /\ states' = states
        /\ unheard' = unheard /\ muted' = muted
        /\ \A x \in Pages : At(x)' = At(x) /\ (Connected(x)' <=> Connected(x))
    BY <1>1 DEF Takes, server, At, Connected, live
  <1>4. \A c \in Pages : c # b => Own(c)' = Own(c)
    BY <1>1 DEF Takes, Own
  <1>5. ASSUME NEW now, Announces(b, now)
        PROVE  Emit(b, Entry(b, now)) /\ Entry(b, now) \in FrameOf /\ Entry(b, now).id = b
    BY <1>5 DEF Announces, States, FrameOf, Entry
  <1>6. /\ UpOnce' /\ \A c \in Pages : c # b => Unsent(c)
        /\ \A s \in Sockets : \A i, e : Sent(up[s], i, e) => Sent(up'[s], i, e)
    <2>1. CASE Quietly(b)
      <3>1. up' = up
        BY <2>1 DEF Quietly
      <3>2. \A c \in Pages : Unsent(c)
        BY <1>2, <3>1, ShiftZero DEF Unsent
      <3>3. UpOnce'
        BY <1>2, <3>1 DEF LineInv, UpOnce
      <3>4. QED
        BY <3>1, <3>2, <3>3
    <2>2. ASSUME NEW now, Announces(b, now)
          PROVE  /\ UpOnce' /\ \A c \in Pages : c # b => Unsent(c)
                 /\ \A s \in Sockets : \A i, e : Sent(up[s], i, e) => Sent(up'[s], i, e)
      BY <1>2, <1>5, <2>2, EmitOnce DEF LineInv
    <2>3. QED
      BY <1>1, <2>1, <2>2
  <1>7. LineInv'
    <2>1. DownOnce'
      <3>1. ASSUME NEW t \in Sockets, NEW i, NEW e, NEW d,
                   Told(down'[t], i, e), Told(down'[t], i, d), e.id = d.id
            PROVE  e = d
        <4>1. CASE t = At(b)
          <5>1. Told(down[t], i + 1, e) /\ Told(down[t], i + 1, d)
            BY <1>1, <1>2, <3>1, <4>1, TakesLines
          <5>2. QED
            BY <1>2, <3>1, <5>1 DEF LineInv, DownOnce
        <4>2. CASE t # At(b)
          BY <1>1, <1>2, <3>1, <4>2 DEF LineInv, DownOnce, Takes
        <4>3. QED
          BY <4>1, <4>2
      <3>2. QED
        BY <3>1 DEF DownOnce
    <2>2. PlaceInv'
      <3>1. ASSUME NEW s \in Sockets, seat[s] = "new" PROVE down'[s] = <<>>
        <4>1. down[s] = <<>>
          BY <1>2, <3>1 DEF LineInv, PlaceInv
        <4>2. s # At(b)
          BY <1>1, <4>1 DEF Takes
        <4>3. QED
          BY <1>1, <4>1, <4>2 DEF Takes
      <3>2. QED
        BY <1>2, <1>3, <3>1 DEF LineInv, PlaceInv
    <2>3. QED
      BY <1>6, <2>1, <2>2 DEF LineInv
  <1>8. LifeInv'
    <2>1. Own(b)'.state = Null => b \in closed
      <3>1. CASE Quietly(b)
        BY <1>2, <3>1 DEF Quietly, LifeInv
      <3>2. ASSUME NEW now, Announces(b, now) PROVE Own(b)'.state # Null
        BY <3>2 DEF Announces
      <3>3. QED
        BY <1>1, <3>1, <3>2
    <2>2. ASSUME NEW c \in Pages
          PROVE  /\ c \in closed' => socket'[c] = 0
                 /\ Own(c)'.state = Null => c \in closed'
                 /\ socket'[c] <= tries'[c]
      BY <1>2, <1>3, <1>4, <2>1 DEF LifeInv
    <2>3. QED
      BY <2>2 DEF LifeInv
  <1>9. ASSUME NEW c \in Pages
        PROVE  Clocks(c)' /\ Fresh(c)' /\ Single(c)' /\ Echo(c)' /\ Speaks(c)'
    <2>1. CASE c # b
      BY <1>1, <1>4, <1>6, <2>1, TakesWord
    <2>2. CASE c = b /\ Quietly(b)
      BY <1>1, <2>2, QuietlyWord
    <2>3. ASSUME c = b, NEW now, Announces(b, now)
          PROVE  Clocks(b)' /\ Fresh(b)' /\ Single(b)' /\ Echo(b)' /\ Speaks(b)'
      <3>1. Raises(b, now)
        <4>1. \A s \in Sockets : \A i, e :
                 Sent(up'[s], i, e) <=>
                    \/ Sent(up[s], i, e)
                    \/ s = At(b) /\ Open(b) /\ i = Len(up[s]) + 1 /\ e = Entry(b, now)
          BY <1>2, <1>5, <2>3, EmitSends
        <4>2. Unlearned(b) /\ b \notin closed
          BY <1>1, <1>2, TakesUnlearned DEF LifeInv, Takes
        <4>3. ASSUME Connected(b)'
              PROVE  At(b)' = At(b) /\ Sent(up'[At(b)], Len(up[At(b)]) + 1, Entry(b, now))
          <5>1. At(b) \in Sockets /\ Open(b)
            BY <1>3, <4>3, AtSocket DEF Open
          <5>2. QED
            BY <1>3, <4>1, <5>1
        <4>4. now \in States /\ Own(b)' = now /\ now.clock = Own(b).clock + 1
          BY <2>3 DEF Announces
        <4>5. QED
          BY <4>1, <4>2, <4>3, <4>4 DEF Raises
      <3>2. QED
        BY <3>1, WordRaised DEF ScreenInv, WordInv
    <2>4. QED
      BY <1>1, <2>1, <2>2, <2>3
  <1>10. ASSUME NEW x \in Pages, NEW c \in Pages PROVE Follows(x, c)'
    <2>1. CASE x = c
      BY <2>1 DEF Follows
    <2>2. CASE x # c /\ x = b
      BY <1>1, <2>2, TakesFollows
    <2>3. CASE x # c /\ x # b
      <3>1. view'[x][c] = view[x][c] /\ stale'[x] = stale[x]
        BY <1>1, <2>3 DEF Takes
      <3>2. Connected(x) => At(x) \in Sockets /\ down'[At(x)] = down[At(x)]
        <4>1. ASSUME Connected(x) PROVE At(x) \in Sockets /\ At(x) # At(b)
          BY <2>3, <4>1, AtSocket DEF At
        <4>2. QED
          BY <1>1, <4>1 DEF Takes
      <3>3. Stays(x) /\ (Connected(x)' => UntoldAt(At(x), c))
        BY <1>3, <3>2 DEF Stays, UntoldAt
      <3>4. Follows(x, c)
        BY DEF ScreenInv, WordInv
      <3>5. QED
        BY <1>2, <1>3, <3>1, <3>3, <3>4, FollowsKept
    <2>4. QED
      BY <2>1, <2>2, <2>3
  <1>11. QED
    BY <1>7, <1>8, <1>9, <1>10 DEF WordInv

-----------------------------------------------------------------------------
(* What the server does.                                                   *)

\* A socket is its page's or it is not.
LEMMA SocketPair ==
    ASSUME NEW s \in Sockets
    PROVE  /\ s[1] \in Pages /\ At(s[1])[1] = s[1]
           /\ socket[s[1]] = s[2] <=> At(s[1]) = s
           /\ \A b \in Pages : At(b) = s <=> (b = s[1] /\ At(s[1]) = s)
  <1>1. s \in Pages \X (1..2)
    BY DEF Sockets
  <1>2. s = <<s[1], s[2]>> /\ s[1] \in Pages
    BY <1>1
  <1>3. \A b : At(b)[1] = b /\ At(b)[2] = socket[b]
    BY DEF At
  <1>4. socket[s[1]] = s[2] => At(s[1]) = s
    BY <1>2 DEF At
  <1>5. QED
    BY <1>2, <1>3, <1>4

\* Everyone present, in a frame.
LEMMA EntriesFacts ==
    ASSUME NEW known \in [Pages -> States]
    PROVE  /\ \A e \in Entries(known) : /\ e.id \in Pages /\ e = Entry(e.id, known[e.id])
                                        /\ e.clock = known[e.id].clock
                                        /\ e.state = known[e.id].state /\ e.state # Null
           /\ \A p \in Pages : known[p].state # Null => Entry(p, known[p]) \in Entries(known)
           /\ Once(Entries(known))
  <1>1. ASSUME NEW e \in Entries(known)
        PROVE  /\ e.id \in Pages /\ e = Entry(e.id, known[e.id])
               /\ e.clock = known[e.id].clock
               /\ e.state = known[e.id].state /\ e.state # Null
    <2>1. PICK p \in Pages : known[p].state # Null /\ e = Entry(p, known[p])
      BY <1>1 DEF Entries
    <2>2. e.id = p /\ e.clock = known[p].clock /\ e.state = known[p].state
      BY <2>1 DEF Entry
    <2>3. QED
      BY <2>1, <2>2
  <1>2. \A p \in Pages : known[p].state # Null => Entry(p, known[p]) \in Entries(known)
    BY DEF Entries
  <1>3. QED
    BY <1>1, <1>2 DEF Once

\* The steps of the server: a socket is let in, a frame is dropped, a page is let
\* go as silent, the room is released, a socket goes and a frame is accepted.
LEMMA JoinWord == ASSUME ScreenInv, IInv', NEW s \in Sockets, Join(s) PROVE WordInv'
  <1> DEFINE f == Frame("joined", Entries(states))
             p == s[1]
  <1>1. PICK n \in 0..Len(up[s]) : up' = [up EXCEPT ![s] = SubSeq(@, n + 1, Len(@))]
    BY DEF Join
  <1>2. /\ seat[s] = "new" /\ s[2] <= tries[p]
        /\ seat' = [seat EXCEPT ![s] = "in"]
        /\ Broadcast({s}, f)
        /\ UNCHANGED <<page, owner, clients, states, past, bounds>>
    BY DEF Join
  <1>3. /\ TypeOK /\ TypeOK' /\ SocketInv /\ LineInv /\ LifeInv /\ LifeInv'
        /\ up \in [Sockets -> Seq(SUBSET FrameOf)] /\ states \in [Pages -> States]
        /\ seat \in [Sockets -> {"new", "in", "out"}] /\ p \in Pages
        /\ tries \in [Pages -> 0..2]
    BY <1>2, SocketType DEF ScreenInv, WordInv, IInv, TypeOK, LifeInv, page, Own
  <1>4. f \in Packets /\ f.what = "joined" /\ f.entries = Entries(states)
    BY <1>3, EntriesType DEF Frame, Packets
  <1> HIDE DEF f
  <1>5. /\ \A c \in Pages : Own(c)' = Own(c) /\ Said(c)' = Said(c) /\ At(c)' = At(c)
        /\ socket' = socket /\ tries' = tries /\ closed' = closed /\ view' = view
        /\ unheard' = unheard /\ muted' = muted /\ stale' = stale
    BY <1>2 DEF page, past, Own, Said, At
  <1>6. /\ up'[s] = SubSeq(up[s], n + 1, Len(up[s])) /\ up[s] \in Seq(SUBSET FrameOf)
        /\ \A t \in Sockets : t # s => up'[t] = up[t]
        /\ seat'[s] = "in" /\ \A t \in Sockets : t # s => seat'[t] = seat[t]
        /\ down[s] = <<>>
    BY <1>1, <1>2, <1>3 DEF LineInv, PlaceInv
  <1>7. \A t \in Sockets :
           /\ \A i, e : Told(down'[t], i, e) <=>
                 \/ Told(down[t], i, e)
                 \/ t = s /\ At(p) = s /\ i = 1 /\ e \in Entries(states)
           /\ \A i : Joined(down'[t], i) <=>
                 \/ Joined(down[t], i)
                 \/ t = s /\ At(p) = s /\ i = 1
           /\ ~(t = s /\ At(p) = s) => down'[t] = down[t]
    <2>1. ASSUME NEW t \in Sockets
          PROVE  /\ \A i, e : Told(down'[t], i, e) <=>
                       \/ Told(down[t], i, e)
                       \/ t = s /\ At(p) = s /\ i = 1 /\ e \in Entries(states)
                 /\ \A i : Joined(down'[t], i) <=>
                       \/ Joined(down[t], i)
                       \/ t = s /\ At(p) = s /\ i = 1
                 /\ ~(t = s /\ At(p) = s) => down'[t] = down[t]
      <3>1. (t \in {s} /\ socket[t[1]] = t[2]) <=> (t = s /\ At(p) = s)
        BY SocketPair
      <3>2. t = s => Len(down[t]) + 1 = 1
        BY <1>6
      <3>3. /\ \A i, e : Told(down'[t], i, e) <=>
                  \/ Told(down[t], i, e)
                  \/ t \in {s} /\ socket[t[1]] = t[2] /\ i = Len(down[t]) + 1 /\ e \in f.entries
            /\ \A i : Joined(down'[t], i) <=>
                  \/ Joined(down[t], i)
                  \/ t \in {s} /\ socket[t[1]] = t[2] /\ i = Len(down[t]) + 1 /\ f.what = "joined"
            /\ ~(t \in {s} /\ socket[t[1]] = t[2]) => down'[t] = down[t]
        BY <1>2, <1>3, <1>4, BroadcastTells
      <3>4. QED
        BY <1>4, <3>1, <3>2, <3>3
    <2>2. QED
      BY <2>1
  <1>8. /\ \A e \in Entries(states) : /\ e.id \in Pages /\ e = Entry(e.id, states[e.id])
                                      /\ e.clock = states[e.id].clock /\ e.state # Null
        /\ \A c \in Pages : states[c].state # Null => Entry(c, states[c]) \in Entries(states)
        /\ Once(Entries(states))
    BY <1>3, EntriesFacts
  <1>9. UpOnce' /\ \A c \in Pages : Unsent(c)
    <2>1. Cuts
      <3>1. ASSUME NEW t \in Sockets
            PROVE  \E k \in Nat : \A i, e : Sent(up'[t], i, e) => Sent(up[t], i + k, e)
        <4>1. CASE t = s
          <5>1. \A i, e : Sent(SubSeq(up[s], n + 1, Len(up[s])), i, e) => Sent(up[s], i + n, e)
            BY <1>6, SentFacts
          <5>2. n \in Nat
            BY <1>6
          <5>3. QED
            BY <1>6, <4>1, <5>1, <5>2
        <4>2. CASE t # s
          <5>1. \A i, e : Sent(up'[t], i, e) => Sent(up[t], i + 0, e)
            BY <1>3, <1>6, <4>2, ShiftZero
          <5>2. QED
            BY <5>1
        <4>3. QED
          BY <4>1, <4>2
      <3>2. QED
        BY <3>1 DEF Cuts
    <2>2. QED
      BY <1>3, <2>1, CutsFacts DEF LineInv
  <1>10. LineInv'
    <2>1. DownOnce'
      <3>1. \A e, d \in f.entries : e.id = d.id => e = d
        BY <1>4, <1>8 DEF Once
      <3>2. QED
        BY <1>2, <1>3, <1>4, <3>1, TellOnce DEF LineInv
    <2>2. PlaceInv'
      <3>1. ASSUME NEW t \in Sockets
            PROVE  /\ seat[t] = "new" => down[t] = <<>>
                   /\ clients[t] \subseteq {t[1]}
                   /\ (t[2] > tries[t[1]]) => seat[t] = "new"
        BY <1>3 DEF LineInv, PlaceInv
      <3>2. ~(s[2] > tries[s[1]])
        <4>1. s[2] \in 1..2 /\ tries[s[1]] \in 0..2 /\ s[2] <= tries[s[1]]
          BY <1>2, <1>3, SocketType DEF p
        <4>2. QED
          BY <4>1
      <3>3. clients' = clients /\ owner' = owner /\ tries' = tries
        BY <1>2, <1>5
      <3>4. ASSUME NEW t \in Sockets
            PROVE  /\ seat'[t] = "new" => down'[t] = <<>>
                   /\ clients'[t] \subseteq {t[1]}
                   /\ (t[2] > tries'[t[1]]) => seat'[t] = "new"
        <4>1. CASE t = s
          BY <1>6, <3>1, <3>2, <3>3, <4>1
        <4>2. CASE t # s
          <5>1. seat'[t] = seat[t] /\ down'[t] = down[t]
            BY <1>6, <1>7, <4>2
          <5>2. QED
            BY <3>1, <3>3, <5>1
        <4>3. QED
          BY <4>1, <4>2
      <3>5. \A c \in Pages : owner[c].sockets # {} => owner[c].key = c
        BY <1>3 DEF LineInv, PlaceInv
      <3>6. QED
        BY <3>3, <3>4, <3>5 DEF PlaceInv
    <2>3. QED
      BY <1>9, <2>1, <2>2 DEF LineInv
  <1>11. ASSUME NEW c \in Pages, At(c) # s
         PROVE  /\ Stays(c) /\ (Connected(c)' <=> Connected(c)) /\ (Spoken(c)' => Spoken(c))
                /\ Connected(c) => At(c) \in Sockets /\ down'[At(c)] = down[At(c)]
                                   /\ up'[At(c)] = up[At(c)]
    <2>1. Connected(c)' <=> Connected(c)
      BY <1>5, <1>6, <1>11 DEF Connected, live, At
    <2>2. Connected(c) => At(c) \in Sockets /\ down'[At(c)] = down[At(c)]
                          /\ up'[At(c)] = up[At(c)]
      BY <1>6, <1>7, <1>11, AtSocket
    <2>3. QED
      BY <1>5, <2>1, <2>2 DEF Stays, Spoken
  <1>12. ASSUME NEW c \in Pages, At(c) = s
         PROVE  c = p /\ ~Spoken(c)' /\ ~Connected(c)
    <2>1. Joined(down'[At(c)'], 1)
      BY <1>5, <1>7, <1>12, SocketPair
    <2>2. c = p
      BY <1>12, SocketPair
    <2>3. QED
      BY <1>2, <1>12, <2>1, <2>2 DEF Spoken, Connected, live, At
  <1>13. \A c \in Pages : Unlearned(c)
    <2>1. ASSUME NEW c \in Pages, NEW m, Knows(c, m)' PROVE Knows(c, m)
      <3>1. CASE m = states'[c].clock \/ \E b \in Pages \ {c} : m = view'[b][c].clock
        BY <1>2, <1>5, <3>1 DEF Knows
      <3>2. ASSUME NEW t \in Sockets, NEW i, NEW e, Told(down'[t], i, e), e.id = c, e.clock = m
            PROVE  Knows(c, m)
        <4>1. CASE Told(down[t], i, e)
          BY <3>2, <4>1 DEF Knows
        <4>2. CASE e \in Entries(states)
          BY <1>8, <3>2, <4>2 DEF Knows
        <4>3. QED
          BY <1>7, <3>2, <4>1, <4>2
      <3>3. QED
        BY <2>1, <3>1, <3>2 DEF Knows
    <2>2. QED
      BY <2>1 DEF Unlearned
  <1>14. ASSUME NEW c \in Pages
         PROVE  Clocks(c)' /\ Fresh(c)' /\ Single(c)' /\ Echo(c)' /\ Speaks(c)'
    <2>1. Clocks(c) /\ Fresh(c) /\ Single(c) /\ Echo(c) /\ Speaks(c)
      BY DEF ScreenInv, WordInv
    <2>2. Clocks(c)' /\ Fresh(c)' /\ Single(c)'
      BY <1>3, <1>5, <1>9, <1>13, <2>1, WordStands
    <2>3. Echo(c)'
      <3> SUFFICES ASSUME socket[c] # 0, NEW i, NEW e, Told(down'[At(c)], i, e), e.id = c,
                          e.state = Null, e.clock = Own(c).clock
                   PROVE  \E j \in 1..(i - 1) : Joined(down'[At(c)], j)
        BY <1>5 DEF Echo
      <3>1. At(c) \in Sockets
        BY <1>3, SocketFacts DEF At
      <3>2. Told(down[At(c)], i, e)
        BY <1>7, <1>8, <3>1
      <3>3. PICK j \in 1..(i - 1) : Joined(down[At(c)], j)
        BY <2>1, <3>2 DEF Echo
      <3>4. QED
        BY <1>7, <3>1, <3>3
    <2>4. Speaks(c)'
      <3> SUFFICES ASSUME Spoken(c)'
                   PROVE  /\ \A t \in Sockets : t[1] = c /\ t # At(c) =>
                               \A i, e : Sent(up'[t], i, e) /\ e.id = c => e.clock < Own(c).clock
                          /\ At(c) \notin owner[c].sockets => states[c].clock < Own(c).clock
                          /\ c \notin unheard =>
                               /\ \A b \in Pages \ {c} :
                                     view[b][c].clock = Own(c).clock => view[b][c] = Own(c)
                               /\ \A t \in Sockets : t[1] # c =>
                                     \A i, e : Told(down'[t], i, e) /\ e.id = c
                                                 /\ e.clock = Own(c).clock => e = Said(c)
                               /\ (\E i : Sent(up'[At(c)], i, Said(c))) \/ Spread(c)'
        BY <1>2, <1>5 DEF Speaks
      <3>1. /\ Spoken(c) /\ Connected(c) /\ At(c) \in Sockets /\ up'[At(c)] = up[At(c)]
            /\ At(c) # s
        BY <1>11, <1>12 DEF Spoken
      <3>2. \A t \in Sockets : t[1] = c /\ t # At(c) =>
               \A i, e : Sent(up'[t], i, e) /\ e.id = c => e.clock < Own(c).clock
        BY <1>9, <2>1, <3>1 DEF Speaks, Unsent
      <3>3. At(c) \notin owner[c].sockets => states[c].clock < Own(c).clock
        BY <2>1, <3>1 DEF Speaks
      <3>4. ASSUME c \notin unheard
            PROVE  /\ \A b \in Pages \ {c} :
                         view[b][c].clock = Own(c).clock => view[b][c] = Own(c)
                   /\ \A t \in Sockets : t[1] # c =>
                         \A i, e : Told(down'[t], i, e) /\ e.id = c
                                     /\ e.clock = Own(c).clock => e = Said(c)
                   /\ (\E i : Sent(up'[At(c)], i, Said(c))) \/ Spread(c)'
        <4>1. /\ \A b \in Pages \ {c} : view[b][c].clock = Own(c).clock => view[b][c] = Own(c)
              /\ \A t \in Sockets : t[1] # c =>
                    \A i, e : Told(down[t], i, e) /\ e.id = c /\ e.clock = Own(c).clock
                                 => e = Said(c)
              /\ (\E i : Sent(up[At(c)], i, Said(c))) \/ Spread(c)
          BY <2>1, <3>1, <3>4 DEF Speaks
        <4>2. states[c].clock = Own(c).clock => states[c] = Own(c)
          <5>1. ASSUME NEW i, Sent(up[At(c)], i, Said(c)) PROVE states[c].clock # Own(c).clock
            <6>1. /\ Said(c).id = c /\ Said(c).clock = Own(c).clock /\ Own(c).clock \in Nat
                  /\ At(c)[1] = c /\ Knows(c, states[c].clock)
              BY <1>3, OwnFacts DEF At, Knows
            <6>2. states[c].clock < Own(c).clock
              BY <2>1, <3>1, <5>1, <6>1 DEF Fresh
            <6>3. ~(Own(c).clock < Own(c).clock)
              BY <6>1
            <6>4. QED
              BY <6>2, <6>3
          <5>2. QED
            BY <4>1, <5>1 DEF Spread
        <4>3. ASSUME NEW t \in Sockets, t[1] # c, NEW i, NEW e, Told(down'[t], i, e), e.id = c,
                     e.clock = Own(c).clock
              PROVE  e = Said(c)
          <5>1. CASE Told(down[t], i, e)
            BY <4>1, <4>3, <5>1
          <5>2. CASE e \in Entries(states)
            BY <1>8, <4>2, <4>3, <5>2 DEF Said
          <5>3. QED
            BY <1>7, <4>3, <5>1, <5>2
        <4>4. ASSUME Spread(c) PROVE Spread(c)'
          <5>1. states'[c] = Own(c)' /\ At(c)' \in owner'[c].sockets
            BY <1>2, <1>5, <4>4 DEF Spread
          <5>2. ASSUME NEW b \in Pages \ {c}, Connected(b)'
                PROVE  view[b][c] = Own(c) \/ \E i : Told(down'[At(b)], i, Said(c))
            <6>1. CASE At(b) = s
              <7>1. Own(c).state # Null
                BY <1>3, <3>1, AtSocket DEF LifeInv
              <7>2. Said(c) \in Entries(states)
                BY <1>8, <4>4, <7>1 DEF Spread, Said
              <7>3. Told(down'[s], 1, Said(c))
                BY <1>7, <6>1, <7>2, SocketPair
              <7>4. QED
                BY <6>1, <7>3
            <6>2. CASE At(b) # s
              BY <1>11, <4>4, <5>2, <6>2 DEF Spread
            <6>3. QED
              BY <6>1, <6>2
          <5>3. QED
            BY <1>5, <5>1, <5>2 DEF Spread
        <4>5. QED
          BY <3>1, <4>1, <4>3, <4>4
      <3>5. QED
        BY <3>2, <3>3, <3>4
    <2>5. QED
      BY <2>2, <2>3, <2>4
  <1>15. ASSUME NEW b \in Pages, NEW c \in Pages PROVE Follows(b, c)'
    <2>1. CASE b = c
      BY <2>1 DEF Follows
    <2>2. CASE b # c /\ At(b) # s
      <3>1. Stays(b) /\ (Connected(b)' => UntoldAt(At(b), c))
        BY <1>11, <2>2 DEF UntoldAt
      <3>2. Follows(b, c)
        BY DEF ScreenInv, WordInv
      <3>3. QED
        BY <1>2, <1>3, <1>5, <3>1, <3>2, FollowsKept
    <2>3. CASE b # c /\ At(b) = s
      <3>1. ~Spoken(b)'
        BY <1>12, <2>3
      <3>2. ASSUME NEW i, NEW e, Told(down'[s], i, e), e.id = c
            PROVE  e = Entry(c, states[c]) /\ e.clock <= states[c].clock
        <4>1. ~Told(down[s], i, e)
          BY <1>6 DEF Told
        <4>2. e \in Entries(states)
          BY <1>7, <3>2, <4>1
        <4>3. e = Entry(c, states[c]) /\ e.clock = states[c].clock /\ states[c].clock \in Nat
          BY <1>3, <1>8, <3>2, <4>2, OwnFacts
        <4>4. QED
          BY <4>3
      <3>3. At(b)' = s /\ states' = states
        BY <1>2, <1>5, <2>3
      <3>4. Entry(c, states[c])' = Entry(c, states[c])
        BY <3>3 DEF Entry
      <3>5. QED
        BY <3>1, <3>2, <3>3, <3>4 DEF Follows
    <2>4. QED
      BY <2>1, <2>2, <2>3
  <1>16. QED
    BY <1>3, <1>10, <1>14, <1>15 DEF WordInv

\* The server takes the first frame of a line.
LEMMA HeadTaken ==
    ASSUME TypeOK, NEW s \in Sockets, up[s] # <<>>, up' = [up EXCEPT ![s] = Tail(@)]
    PROVE  /\ Cuts
           /\ \A t \in Sockets : t # s => up'[t] = up[t]
           /\ \A i, e :
                 /\ Sent(up'[s], i, e) => Sent(up[s], i + 1, e)
                 /\ Sent(up[s], i, e) =>
                       \/ i = 1 /\ e \in Head(up[s])
                       \/ i > 1 /\ Sent(up'[s], i - 1, e)
           /\ \A e \in Head(up[s]) : Sent(up[s], 1, e) /\ e \in FrameOf
  <1>1. /\ up[s] \in Seq(SUBSET FrameOf) /\ up'[s] = Tail(up[s])
        /\ \A t \in Sockets : t # s => up'[t] = up[t]
    BY DEF TypeOK
  <1>2. /\ \A i, e :
              /\ Sent(up'[s], i, e) => Sent(up[s], i + 1, e)
              /\ Sent(up[s], i, e) =>
                    \/ i = 1 /\ e \in Head(up[s])
                    \/ i > 1 /\ Sent(up'[s], i - 1, e)
        /\ \A e \in Head(up[s]) : Sent(up[s], 1, e)
    <2> DEFINE q == up[s]
    <2>1. q \in Seq(SUBSET FrameOf) /\ q # <<>> /\ up'[s] = Tail(q) /\ q = up[s]
      BY <1>1
    <2> HIDE DEF q
    <2>2. \A i, e :
             /\ Sent(Tail(q), i, e) => Sent(q, i + 1, e)
             /\ Sent(q, i, e) => (i = 1 /\ e \in Head(q)) \/ (i > 1 /\ Sent(Tail(q), i - 1, e))
             /\ e \in Head(q) => Sent(q, 1, e)
      BY <2>1, SentFacts
    <2>3. QED
      BY <2>1, <2>2
  <1>3. \A e \in Head(up[s]) : e \in FrameOf
    BY <1>1
  <1>4. Cuts
    <2>1. ASSUME NEW t \in Sockets
          PROVE  \E k \in Nat : \A i, e : Sent(up'[t], i, e) => Sent(up[t], i + k, e)
      <3>1. CASE t = s
        BY <1>2, <3>1
      <3>2. CASE t # s
        <4>1. \A i, e : Sent(up'[t], i, e) => Sent(up[t], i + 0, e)
          BY <1>1, <3>2, ShiftZero
        <4>2. QED
          BY <4>1
      <3>3. QED
        BY <3>1, <3>2
    <2>2. QED
      BY <2>1 DEF Cuts
  <1>5. QED
    BY <1>1, <1>2, <1>3, <1>4

LEMMA DropWord == ASSUME ScreenInv, IInv', NEW s \in Sockets, Drop(s) PROVE WordInv'
  <1>1. /\ up[s] # <<>> /\ up' = [up EXCEPT ![s] = Tail(@)]
        /\ unheard' = unheard \cup {e.id : e \in Head(up[s])}
        /\ UNCHANGED <<page, down, server, muted, stale>>
    BY DEF Drop
  <1>2. /\ TypeOK /\ SocketInv /\ LineInv /\ LifeInv
    BY DEF ScreenInv, WordInv, IInv
  <1>3. /\ Cuts /\ \A t \in Sockets : t # s => up'[t] = up[t]
        /\ \A i, e : Sent(up[s], i, e) =>
              \/ i = 1 /\ e \in Head(up[s])
              \/ i > 1 /\ Sent(up'[s], i - 1, e)
    BY <1>1, <1>2, HeadTaken
  <1>4. UpOnce' /\ \A c \in Pages : Unsent(c)
    BY <1>2, <1>3, CutsFacts DEF LineInv
  <1>5. (\A b \in Pages : Stays(b)) /\ (\A c \in Pages : Untold(c))
    BY <1>1, SameLines DEF server, page
  <1>6. \A c \in Pages : Own(c)' = Own(c) /\ Unlearned(c)
    BY <1>1 DEF Own, Unlearned, Knows, page, server
  <1>7. LineInv'
    BY <1>1, <1>2, <1>4 DEF LineInv, DownOnce, PlaceInv, server, page
  <1>8. LifeInv'
    BY <1>1, <1>2, <1>6 DEF LifeInv, page
  <1>9. ASSUME NEW c \in Pages
        PROVE  Clocks(c)' /\ Fresh(c)' /\ Single(c)' /\ Echo(c)' /\ Speaks(c)'
    <2>1. ASSUME c \notin unheard', NEW i, Sent(up[At(c)], i, Said(c)), Connected(c)'
          PROVE  \E j : Sent(up'[At(c)], j, Said(c))
      <3>1. At(c) \in Sockets
        BY <1>5, <2>1, AtSocket DEF Stays
      <3>2. CASE At(c) = s
        <4>1. Said(c) \notin Head(up[s])
          <5>1. Said(c).id = c
            BY <1>2, OwnFacts
          <5>2. QED
            BY <1>1, <2>1, <5>1
        <4>2. QED
          BY <1>3, <2>1, <3>2, <4>1
      <3>3. CASE At(c) # s
        BY <1>3, <2>1, <3>1, <3>3
      <3>4. QED
        BY <3>2, <3>3
    <2>2. Aside(c)
      <3>1. Own(c)' = Own(c) /\ Unlearned(c) /\ Unsent(c) /\ Untold(c)
        BY <1>4, <1>5, <1>6
      <3>2. socket' = socket /\ view' = view /\ down' = down /\ states' = states /\ owner' = owner
        BY <1>1 DEF page, server
      <3>3. c \notin unheard' => c \notin unheard
        BY <1>1
      <3>4. QED
        BY <2>1, <3>1, <3>2, <3>3 DEF Aside
    <2>3. QED
      BY <1>5, <2>2, AsideStands
  <1>10. ASSUME NEW b \in Pages, NEW c \in Pages PROVE Follows(b, c)'
    <2>1. view' = view /\ states' = states /\ muted' = muted /\ stale' = stale
      BY <1>1 DEF page, server
    <2>2. QED
      BY <1>2, <1>5, <2>1, FollowsStands DEF ScreenInv, WordInv
  <1>11. QED
    BY <1>7, <1>8, <1>9, <1>10 DEF WordInv

LEMMA ServerTimesOutWord ==
    ASSUME ScreenInv, IInv', NEW p \in Pages, ServerTimesOut(p)
    PROVE  WordInv'
  <1>1. /\ states' = [states EXCEPT ![p].state = Null]
        /\ unheard' = unheard \cup {p} /\ muted' = muted \cup {p}
        /\ UNCHANGED <<page, up, down, seat, owner, clients, stale>>
    BY DEF ServerTimesOut
  <1>2. /\ TypeOK /\ SocketInv /\ LineInv /\ LifeInv /\ states \in [Pages -> States]
    BY DEF ScreenInv, WordInv, IInv, TypeOK
  <1>3. \A c \in Pages : /\ states'[c].clock = states[c].clock
                         /\ c # p => states'[c] = states[c]
    BY <1>1, <1>2 DEF States
  <1>4. (\A b \in Pages : Stays(b)) /\ (\A c \in Pages : Untold(c))
    BY <1>1, SameLines DEF page
  <1>5. \A c \in Pages : Own(c)' = Own(c) /\ Unlearned(c)
    BY <1>1, <1>3 DEF Own, Unlearned, Knows, page
  <1>6. \A c \in Pages : Unsent(c)
    BY <1>1, <1>2, ShiftZero DEF Unsent
  <1>7. LineInv'
    BY <1>1, <1>2 DEF LineInv, UpOnce, DownOnce, PlaceInv, page
  <1>8. LifeInv'
    BY <1>1, <1>2, <1>5 DEF LifeInv, page
  <1>9. ASSUME NEW c \in Pages
        PROVE  Clocks(c)' /\ Fresh(c)' /\ Single(c)' /\ Echo(c)' /\ Speaks(c)'
    <2>1. Aside(c)
      <3>1. Own(c)' = Own(c) /\ Unlearned(c) /\ Unsent(c) /\ Untold(c)
        BY <1>4, <1>5, <1>6
      <3>2. c \notin unheard' => c \notin unheard /\ states'[c] = states[c]
        BY <1>1, <1>3
      <3>3. QED
        BY <1>1, <1>3, <3>1, <3>2 DEF Aside, page
    <2>2. QED
      BY <1>4, <2>1, AsideStands
  <1>10. ASSUME NEW b \in Pages, NEW c \in Pages PROVE Follows(b, c)'
    <2>1. CASE c = p
      BY <1>1, <2>1 DEF Follows
    <2>2. CASE c # p
      <3>1. /\ view' = view /\ states'[c] = states[c] /\ muted \subseteq muted'
            /\ stale' = stale
        BY <1>1, <1>3, <2>2 DEF page
      <3>2. QED
        BY <1>2, <1>4, <3>1, FollowsStands DEF ScreenInv, WordInv
    <2>3. QED
      BY <2>1, <2>2
  <1>11. QED
    BY <1>7, <1>8, <1>9, <1>10 DEF WordInv

LEMMA ReleaseRoomWord == ASSUME ScreenInv, IInv', ReleaseRoom PROVE WordInv'
  <1>1. /\ live = {} /\ states' = [p \in Pages |-> Unknown] /\ owner' = [p \in Pages |-> Nobody]
        /\ UNCHANGED <<page, up, down, seat, clients, past, bounds>>
    BY DEF ReleaseRoom
  <1>2. /\ TypeOK /\ TypeOK' /\ SocketInv /\ LineInv /\ LifeInv
    BY DEF ScreenInv, WordInv, IInv
  <1>3. \A b \in Pages : ~Connected(b)'
    BY <1>1 DEF Connected, live, page
  <1>4. \A c \in Pages : /\ Own(c)' = Own(c) /\ At(c)' = At(c)
                         /\ states'[c].clock = 0 /\ owner'[c].sockets = {}
    BY <1>1 DEF Own, At, page, Unknown, Nobody
  <1>5. \A c \in Pages : Unlearned(c)
    BY <1>1, <1>4 DEF Unlearned, Knows, page
  <1>6. \A c \in Pages : Unsent(c) /\ UntoldAt(At(c), c)
    BY <1>1, <1>2, ShiftZero DEF Unsent, UntoldAt
  <1>7. LineInv'
    BY <1>1, <1>2, <1>4 DEF LineInv, UpOnce, DownOnce, PlaceInv, page
  <1>8. LifeInv'
    BY <1>1, <1>2, <1>4 DEF LifeInv, page
  <1>9. ASSUME NEW c \in Pages
        PROVE  Clocks(c)' /\ Fresh(c)' /\ Single(c)' /\ Echo(c)' /\ Speaks(c)'
    <2>1. Clocks(c) /\ Fresh(c) /\ Single(c) /\ Echo(c)
      BY DEF ScreenInv, WordInv
    <2>2. Clocks(c)' /\ Fresh(c)' /\ Single(c)'
      BY <1>2, <1>4, <1>5, <1>6, <2>1, WordStands
    <2>3. Echo(c)'
      <3>1. socket' = socket /\ down' = down
        BY <1>1 DEF page
      <3>2. QED
        BY <1>4, <1>6, <2>1, <3>1, EchoStands
    <2>4. Speaks(c)'
      BY <1>3 DEF Speaks, Spoken
    <2>5. QED
      BY <2>2, <2>3, <2>4
  <1>10. \A b, c \in Pages : Follows(b, c)'
    BY <1>3 DEF Follows
  <1>11. QED
    BY <1>7, <1>8, <1>9, <1>10 DEF WordInv

LEMMA StutterWord == ASSUME ScreenInv, IInv', UNCHANGED vars PROVE WordInv'
  <1>1. UNCHANGED <<socket, tries, closed, view, up, down, seat, owner, clients, states,
                    unheard, muted, stale>>
    BY DEF vars, page, server, past
  <1>2. /\ TypeOK /\ SocketInv /\ LineInv /\ LifeInv
    BY DEF ScreenInv, WordInv, IInv
  <1>3. (\A b \in Pages : Stays(b)) /\ (\A c \in Pages : Untold(c))
    BY <1>1, SameLines
  <1>4. \A c \in Pages : Own(c)' = Own(c) /\ Unlearned(c)
    BY <1>1 DEF Own, Unlearned, Knows
  <1>5. \A c \in Pages : Unsent(c)
    BY <1>1, <1>2, ShiftZero DEF Unsent
  <1>6. LineInv'
    BY <1>1, <1>2 DEF LineInv, UpOnce, DownOnce, PlaceInv
  <1>7. LifeInv'
    BY <1>1, <1>2, <1>4 DEF LifeInv
  <1>8. ASSUME NEW c \in Pages
        PROVE  Clocks(c)' /\ Fresh(c)' /\ Single(c)' /\ Echo(c)' /\ Speaks(c)'
    <2>1. Own(c)' = Own(c) /\ Unlearned(c) /\ Unsent(c) /\ Untold(c)
      BY <1>3, <1>4, <1>5
    <2>2. Aside(c)
      BY <1>1, <2>1 DEF Aside
    <2>3. QED
      BY <1>3, <2>2, AsideStands
  <1>9. ASSUME NEW b \in Pages, NEW c \in Pages PROVE Follows(b, c)'
    BY <1>1, <1>2, <1>3, FollowsStands DEF ScreenInv, WordInv
  <1>10. QED
    BY <1>6, <1>7, <1>8, <1>9 DEF WordInv

\* A frame that nobody is sent, if it says nothing, and else everybody in the
\* room but one socket.
Relays(s, entries) ==
    IF entries = {} THEN UNCHANGED down ELSE Broadcast(live \ {s}, Frame("update", entries))

\* What that tells the room, once.
LEMMA RelaysTells ==
    ASSUME TypeOK, UNCHANGED socket, NEW s \in Sockets, NEW entries \in SUBSET FrameOf,
           Relays(s, entries)
    PROVE  \A t \in Sockets :
              /\ \A i, e : Told(down'[t], i, e) <=>
                    \/ Told(down[t], i, e)
                    \/ (/\ t # s /\ seat[t] = "in" /\ At(t[1]) = t
                        /\ i = Len(down[t]) + 1 /\ e \in entries)
              /\ \A i : Joined(down'[t], i) <=> Joined(down[t], i)
              /\ seat[t] # "in" => down'[t] = down[t]
  <1>1. CASE entries = {}
    BY <1>1 DEF Relays
  <1>2. CASE entries # {}
    <2> DEFINE f == Frame("update", entries)
    <2>1. f \in Packets /\ f.what = "update" /\ f.entries = entries /\ Broadcast(live \ {s}, f)
      BY <1>2 DEF Frame, Packets, Relays
    <2> HIDE DEF f
    <2>2. ASSUME NEW t \in Sockets
          PROVE  /\ \A i, e : Told(down'[t], i, e) <=>
                      \/ Told(down[t], i, e)
                      \/ (/\ t # s /\ seat[t] = "in" /\ At(t[1]) = t
                          /\ i = Len(down[t]) + 1 /\ e \in entries)
                 /\ \A i : Joined(down'[t], i) <=> Joined(down[t], i)
                 /\ seat[t] # "in" => down'[t] = down[t]
      <3>1. (t \in live \ {s} /\ socket[t[1]] = t[2]) <=> (t # s /\ seat[t] = "in" /\ At(t[1]) = t)
        BY SocketPair DEF live
      <3>2. /\ \A i, e : Told(down'[t], i, e) <=>
                  \/ Told(down[t], i, e)
                  \/ t \in live \ {s} /\ socket[t[1]] = t[2] /\ i = Len(down[t]) + 1 /\ e \in f.entries
            /\ \A i : Joined(down'[t], i) <=>
                  \/ Joined(down[t], i)
                  \/ t \in live \ {s} /\ socket[t[1]] = t[2] /\ i = Len(down[t]) + 1 /\ f.what = "joined"
            /\ ~(t \in live \ {s} /\ socket[t[1]] = t[2]) => down'[t] = down[t]
        BY <2>1, BroadcastTells
      <3>3. \A i, e : Told(down'[t], i, e) <=>
               \/ Told(down[t], i, e)
               \/ (/\ t # s /\ seat[t] = "in" /\ At(t[1]) = t
                   /\ i = Len(down[t]) + 1 /\ e \in entries)
        BY <2>1, <3>1, <3>2
      <3>4. \A i : Joined(down'[t], i) <=> Joined(down[t], i)
        BY <2>1, <3>2
      <3>5. QED
        BY <3>1, <3>2, <3>3, <3>4
    <2>3. QED
      BY <2>2
  <1>3. QED
    BY <1>1, <1>2

LEMMA RelaysOnce ==
    ASSUME TypeOK, DownOnce, NEW s, NEW entries \in SUBSET FrameOf, Once(entries),
           Relays(s, entries)
    PROVE  DownOnce'
  <1>1. CASE entries = {}
    BY <1>1 DEF Relays, DownOnce
  <1>2. CASE entries # {}
    <2> DEFINE f == Frame("update", entries)
    <2>1. f \in Packets /\ f.entries = entries /\ Broadcast(live \ {s}, f)
      BY <1>2 DEF Frame, Packets, Relays
    <2> HIDE DEF f
    <2>2. \A e, d \in f.entries : e.id = d.id => e = d
      BY <2>1 DEF Once
    <2>3. QED
      BY <2>1, <2>2, TellOnce
  <1>3. QED
    BY <1>1, <1>2

\* A socket goes, and with it what its page is the last to hold: itself.
Departs(s, out) ==
    /\ seat[s] = "in" /\ seat' = [seat EXCEPT ![s] = "out"]
    /\ up' = [up EXCEPT ![s] = <<>>]
    /\ UNCHANGED <<socket, tries, closed, view, unheard, muted, stale>>
    /\ \A c \in Pages : c # s[1] => owner'[c] = owner[c] /\ states'[c] = states[c]
    /\ owner'[s[1]].sockets = owner[s[1]].sockets \ {s}
    /\ owner'[s[1]].key \in {owner[s[1]].key, Null}
    /\ owner'[s[1]].sockets # {} => owner'[s[1]].key = owner[s[1]].key
    /\ states'[s[1]].clock = states[s[1]].clock
    /\ states'[s[1]] # states[s[1]] =>
          /\ owner[s[1]].sockets = {s}
          /\ out = {Entry(s[1], states'[s[1]])} /\ states'[s[1]].state = Null
    /\ states'[s[1]] = states[s[1]] => out = {}
    /\ \A t \in Sockets : clients'[t] \subseteq clients[t]
    /\ out \in SUBSET FrameOf /\ Relays(s, out)

\* The disconnect listener does that.
LEMMA NoticeFacts ==
    ASSUME IInv, IInv', PlaceInv, NEW s \in Sockets, ServerNotices(s)
    PROVE  \E out : Departs(s, out)
  <1> DEFINE gone == Gone(s)
             out  == Retractions(gone)
             p    == s[1]
  <1>1. /\ s \in live
        /\ seat' = [seat EXCEPT ![s] = "out"]
        /\ up' = [up EXCEPT ![s] = <<>>]
        /\ owner' = [c \in Pages |->
                        IF c \in gone THEN Nobody
                        ELSE IF c \in clients[s] THEN [owner[c] EXCEPT !.sockets = @ \ {s}]
                        ELSE owner[c]]
        /\ clients' = [clients EXCEPT ![s] = {}]
        /\ states' = [c \in Pages |-> IF c \in gone THEN [states[c] EXCEPT !.state = Null]
                                      ELSE states[c]]
        /\ Relays(s, out)
        /\ UNCHANGED <<page, past>>
    BY DEF ServerNotices, Relays
  <1>2. /\ clients \in [Sockets -> SUBSET Pages] /\ states \in [Pages -> States]
        /\ owner \in [Pages -> [key : Pages \cup {Null}, sockets : SUBSET Sockets]]
        /\ p \in Pages /\ states' \in [Pages -> States]
    BY SocketType, TypeParts, TypePartsNext DEF IInv, ServerTypes
  <1>3. gone \subseteq {p} /\ gone \subseteq clients[s] /\ clients[s] \subseteq {p}
    BY <1>2 DEF Gone, PlaceInv
  <1>4. \A c \in Pages : c # p => owner'[c] = owner[c] /\ states'[c] = states[c]
    <2> HIDE DEF gone, p
    <2>1. ASSUME NEW c \in Pages, c # p PROVE c \notin gone /\ c \notin clients[s]
      BY <1>3, <2>1
    <2>2. QED
      BY <1>1, <2>1
  <1>5. /\ owner'[p].sockets = owner[p].sockets \ {s}
        /\ owner'[p].key \in {owner[p].key, Null}
        /\ owner'[p].sockets # {} => owner'[p].key = owner[p].key
    <2>1. p \in gone => owner[p].sockets = {s}
      BY <1>2 DEF Gone
    <2>2. p \in clients[s] <=> s \in owner[p].sockets
      BY <1>2 DEF IInv, BooksInv
    <2> HIDE DEF gone, p
    <2>3. CASE p \in gone
      BY <1>1, <1>2, <2>1, <2>3 DEF Nobody
    <2>4. CASE p \notin gone /\ p \in clients[s]
      <3>1. owner'[p] = [owner[p] EXCEPT !.sockets = @ \ {s}]
        BY <1>1, <1>2, <2>4
      <3>2. owner'[p].sockets = owner[p].sockets \ {s} /\ owner'[p].key = owner[p].key
        BY <1>2, <3>1
      <3>3. QED
        BY <3>2
    <2>5. CASE p \notin gone /\ p \notin clients[s]
      BY <1>1, <1>2, <2>2, <2>5
    <2>6. QED
      BY <2>3, <2>4, <2>5
  <1>6. /\ states'[p].clock = states[p].clock
        /\ states'[p] # states[p] => p \in gone /\ states'[p].state = Null /\ states[p].state # Null
        /\ p \in gone => states'[p] = [states[p] EXCEPT !.state = Null]
    <2> HIDE DEF gone, p
    <2>1. CASE p \in gone
      <3>1. states'[p] = [states[p] EXCEPT !.state = Null] /\ states[p] \in States
        BY <1>1, <1>2, <2>1
      <3>2. /\ states'[p].clock = states[p].clock /\ states'[p].state = Null
            /\ states[p].state = Null => states'[p] = states[p]
        BY <3>1 DEF States
      <3>3. QED
        BY <2>1, <3>1, <3>2
    <2>2. CASE p \notin gone
      BY <1>1, <1>2, <2>2
    <2>3. QED
      BY <2>1, <2>2
  <1>7. /\ states'[p] # states[p] => out = {Entry(p, states'[p])}
        /\ states'[p] = states[p] => out = {}
    <2>1. out = {Entry(c, [states[c] EXCEPT !.state = Null]) :
                    c \in {q \in gone : states[q].state # Null}}
      BY DEF Retractions
    <2> HIDE DEF gone, out, p
    <2>2. ASSUME states'[p] # states[p] PROVE out = {Entry(p, states'[p])}
      <3>1. {q \in gone : states[q].state # Null} = {p}
        BY <1>3, <1>6, <2>2
      <3>2. out = {Entry(p, [states[p] EXCEPT !.state = Null])}
        BY <2>1, <3>1
      <3>3. QED
        BY <1>6, <2>2, <3>2
    <2>3. ASSUME states'[p] = states[p] PROVE out = {}
      <3>1. {q \in gone : states[q].state # Null} = {}
        <4>1. p \in gone => states[p].state = Null
          <5>1. ASSUME p \in gone PROVE states[p].state = Null
            <6>1. states[p] \in States /\ states'[p] = [states[p] EXCEPT !.state = Null]
              BY <1>2, <1>6, <5>1
            <6>2. states'[p].state = Null
              BY <6>1 DEF States
            <6>3. QED
              BY <2>3, <6>2
          <5>2. QED
            BY <5>1
        <4>2. QED
          BY <1>3, <4>1
      <3>2. QED
        BY <2>1, <3>1
    <2>4. QED
      BY <2>2, <2>3
  <1>8. out \in SUBSET FrameOf
    <2> HIDE DEF out, gone, p
    <2>1. Entry(p, states'[p]) \in FrameOf
      BY <1>2, EntriesType
    <2>2. QED
      BY <1>7, <2>1
  <1>9. p \in gone => owner[p].sockets = {s}
    BY <1>2 DEF Gone
  <1>10. \A t \in Sockets : clients'[t] \subseteq clients[t]
    BY <1>1, <1>2
  <1>11. Departs(s, out)
    <2> HIDE DEF out, gone
    <2>1. seat[s] = "in"
      BY <1>1 DEF live
    <2>2. UNCHANGED <<socket, tries, closed, view, unheard, muted, stale>>
      BY <1>1 DEF page, past
    <2>3. states'[p] # states[p] =>
             /\ owner[p].sockets = {s}
             /\ out = {Entry(p, states'[p])} /\ states'[p].state = Null
      BY <1>6, <1>7, <1>9
    <2>4. QED
      BY <1>1, <1>4, <1>5, <1>6, <1>7, <1>8, <1>10, <2>1, <2>2, <2>3 DEF Departs
  <1>12. QED
    BY <1>11

LEMMA ServerNoticesWord ==
    ASSUME ScreenInv, IInv', NEW s \in Sockets, ServerNotices(s)
    PROVE  WordInv'
  <1> DEFINE p == s[1]
  <1>1. PICK out : Departs(s, out)
    BY NoticeFacts DEF ScreenInv, WordInv, LineInv
  <1>2. /\ TypeOK /\ TypeOK' /\ SocketInv /\ LineInv /\ LifeInv /\ p \in Pages
        /\ up \in [Sockets -> Seq(SUBSET FrameOf)]
        /\ seat \in [Sockets -> {"new", "in", "out"}]
    BY SocketType DEF ScreenInv, WordInv, IInv, TypeOK
  <1>3. /\ seat[s] = "in" /\ seat'[s] = "out" /\ up'[s] = <<>>
        /\ \A t \in Sockets : t # s => seat'[t] = seat[t] /\ up'[t] = up[t]
        /\ UNCHANGED <<socket, tries, closed, view, unheard, muted, stale>>
    BY <1>1, <1>2 DEF Departs
  <1>4. /\ \A c \in Pages : c # p => owner'[c] = owner[c] /\ states'[c] = states[c]
        /\ owner'[p].sockets = owner[p].sockets \ {s}
        /\ owner'[p].key \in {owner[p].key, Null}
        /\ owner'[p].sockets # {} => owner'[p].key = owner[p].key
        /\ states'[p].clock = states[p].clock
        /\ states'[p] # states[p] =>
              owner[p].sockets = {s} /\ out = {Entry(p, states'[p])} /\ states'[p].state = Null
        /\ states'[p] = states[p] => out = {}
        /\ \A t \in Sockets : clients'[t] \subseteq clients[t]
        /\ out \in SUBSET FrameOf /\ Relays(s, out)
    BY <1>1 DEF Departs
  <1> HIDE DEF p
  <1>5. \A e \in out : /\ e.id = p /\ e = Entry(p, states'[p]) /\ e.clock = states[p].clock
                       /\ states'[p] # states[p] /\ owner[p].sockets = {s}
    BY <1>4 DEF Entry
  <1>6. \A t \in Sockets :
           /\ \A i, e : Told(down'[t], i, e) <=>
                 \/ Told(down[t], i, e)
                 \/ (/\ t # s /\ seat[t] = "in" /\ At(t[1]) = t
                     /\ i = Len(down[t]) + 1 /\ e \in out)
           /\ \A i : Joined(down'[t], i) <=> Joined(down[t], i)
           /\ seat[t] # "in" => down'[t] = down[t]
    BY <1>2, <1>3, <1>4, RelaysTells
  <1>7. \A c \in Pages : Own(c)' = Own(c) /\ Said(c)' = Said(c) /\ At(c)' = At(c)
    BY <1>3 DEF Own, Said, At
  <1>8. UpOnce' /\ \A c \in Pages : Unsent(c)
    <2>1. ASSUME NEW t \in Sockets, NEW i, NEW e, Sent(up'[t], i, e) PROVE Sent(up[t], i + 0, e)
      <3>1. t # s
        BY <1>3, <2>1 DEF Sent
      <3>2. QED
        BY <1>2, <1>3, <2>1, <3>1, ShiftZero
    <2>2. Cuts
      BY <2>1 DEF Cuts
    <2>3. QED
      BY <1>2, <2>2, CutsFacts DEF LineInv
  <1>9. LineInv'
    <2>1. DownOnce'
      <3>1. Once(out)
        BY <1>5 DEF Once
      <3>2. QED
        BY <1>2, <1>4, <3>1, RelaysOnce DEF LineInv
    <2>2. PlaceInv'
      <3>1. ASSUME NEW t \in Sockets
            PROVE  /\ seat[t] = "new" => down[t] = <<>>
                   /\ clients[t] \subseteq {t[1]}
                   /\ (t[2] > tries[t[1]]) => seat[t] = "new"
        BY <1>2 DEF LineInv, PlaceInv
      <3>2. ASSUME NEW t \in Sockets
            PROVE  /\ seat'[t] = "new" => down'[t] = <<>>
                   /\ clients'[t] \subseteq {t[1]}
                   /\ (t[2] > tries'[t[1]]) => seat'[t] = "new"
        <4>1. CASE t = s
          <5>1. seat'[t] # "new" /\ ~(t[2] > tries[t[1]])
            BY <1>3, <3>1, <4>1
          <5>2. QED
            BY <1>3, <1>4, <3>1, <5>1
        <4>2. CASE t # s
          <5>1. seat'[t] = seat[t] /\ (seat[t] = "new" => down'[t] = down[t])
            BY <1>3, <1>6, <4>2
          <5>2. QED
            BY <1>3, <1>4, <3>1, <5>1
        <4>3. QED
          BY <4>1, <4>2
      <3>3. ASSUME NEW c \in Pages, owner'[c].sockets # {} PROVE owner'[c].key = c
        <4>1. owner[c].sockets # {} => owner[c].key = c
          BY <1>2 DEF LineInv, PlaceInv
        <4>2. QED
          BY <1>4, <3>3, <4>1
      <3>4. QED
        BY <3>2, <3>3 DEF PlaceInv
    <2>3. QED
      BY <1>8, <2>1, <2>2 DEF LineInv
  <1>10. LifeInv'
    BY <1>2, <1>3, <1>7 DEF LifeInv
  <1>11. ASSUME NEW b \in Pages, Connected(b)' PROVE Connected(b) /\ At(b) # s /\ At(b) \in Sockets
    BY <1>3, <1>11 DEF Connected, live, At
  <1>12. \A b \in Pages : Stays(b)
    <2>1. ASSUME NEW b \in Pages, Connected(b)'
          PROVE  /\ Connected(b) /\ At(b)' = At(b)
                 /\ \A i : Joined(down'[At(b)], i) <=> Joined(down[At(b)], i)
                 /\ \A i, e : Told(down[At(b)], i, e) => Told(down'[At(b)], i, e)
      BY <1>6, <1>7, <1>11, <2>1
    <2>2. QED
      BY <2>1 DEF Stays
  <1>13. \A c \in Pages : Unlearned(c)
    <2>1. ASSUME NEW c \in Pages, NEW m, Knows(c, m)' PROVE Knows(c, m)
      <3>1. CASE m = states'[c].clock \/ \E b \in Pages \ {c} : m = view'[b][c].clock
        <4>1. states'[c].clock = states[c].clock
          BY <1>4
        <4>2. QED
          BY <1>3, <3>1, <4>1 DEF Knows
      <3>2. ASSUME NEW t \in Sockets, NEW i, NEW e, Told(down'[t], i, e), e.id = c, e.clock = m
            PROVE  Knows(c, m)
        <4>1. CASE Told(down[t], i, e)
          BY <3>2, <4>1 DEF Knows
        <4>2. CASE e \in out
          BY <1>5, <3>2, <4>2 DEF Knows
        <4>3. QED
          BY <1>6, <3>2, <4>1, <4>2
      <3>3. QED
        BY <2>1, <3>1, <3>2 DEF Knows
    <2>2. QED
      BY <2>1 DEF Unlearned
  <1>14. ASSUME NEW c \in Pages, c # p
         PROVE  Clocks(c)' /\ Fresh(c)' /\ Single(c)' /\ Echo(c)' /\ Speaks(c)'
    <2>1. Untold(c)
      BY <1>5, <1>6, <1>14 DEF Untold, UntoldAt
    <2>2. Own(c)' = Own(c) /\ Unlearned(c) /\ Unsent(c) /\ Untold(c)
      BY <1>7, <1>8, <1>13, <2>1
    <2>3. socket[c] # 0 => \A i : Joined(down[At(c)], i) => Joined(down'[At(c)], i)
      BY <1>2, <1>6, SocketFacts DEF At
    <2>4. Connected(c)' => up'[At(c)] = up[At(c)]
      BY <1>3, <1>11
    <2>5. Aside(c)
      BY <1>3, <1>4, <1>14, <2>2, <2>3, <2>4 DEF Aside
    <2>6. QED
      BY <1>12, <2>5, AsideStands
  <1>15. Clocks(p)' /\ Fresh(p)' /\ Single(p)' /\ Echo(p)' /\ Speaks(p)'
    <2>1. Clocks(p) /\ Fresh(p) /\ Single(p) /\ Echo(p) /\ Speaks(p)
      BY <1>2 DEF ScreenInv, WordInv
    <2>2. Clocks(p)' /\ Fresh(p)' /\ Single(p)'
      BY <1>2, <1>7, <1>8, <1>13, <2>1, WordStands
    <2>3. ASSUME Spoken(p), At(p) # s, owner[p].sockets = {s} PROVE states[p].clock # Own(p).clock
      <3>1. states[p].clock < Own(p).clock
        BY <2>1, <2>3 DEF Speaks
      <3>2. states[p].clock \in Nat /\ Own(p).clock \in Nat
        BY <1>2, OwnFacts
      <3>3. QED
        BY <3>1, <3>2
    <2>4. Echo(p)'
      <3> SUFFICES ASSUME socket[p] # 0, NEW i, NEW e, Told(down'[At(p)], i, e), e.id = p,
                          e.state = Null, e.clock = Own(p).clock
                   PROVE  \E j \in 1..(i - 1) : Joined(down[At(p)], j)
        <4>1. socket[p] # 0 => At(p) \in Sockets
          BY <1>2, SocketFacts DEF At
        <4>2. socket[p] # 0 => \A j : Joined(down'[At(p)], j) <=> Joined(down[At(p)], j)
          BY <1>6, <4>1
        <4>3. socket' = socket /\ Own(p)' = Own(p) /\ At(p)' = At(p)
          BY <1>2, <1>3, <1>7
        <4>4. QED
          BY <4>2, <4>3 DEF Echo
      <3>1. At(p) \in Sockets
        BY <1>2, SocketFacts DEF At
      <3>2. CASE Told(down[At(p)], i, e)
        BY <2>1, <3>2 DEF Echo
      <3>3. CASE ~Told(down[At(p)], i, e)
        <4>1. At(p) # s /\ seat[At(p)] = "in" /\ i = Len(down[At(p)]) + 1 /\ e \in out
          BY <1>6, <3>1, <3>3
        <4>2. states[p].clock = Own(p).clock /\ owner[p].sockets = {s}
          BY <1>5, <4>1
        <4>3. ~Spoken(p)
          BY <2>3, <4>1, <4>2
        <4>4. PICK j : Joined(down[At(p)], j)
          BY <3>1, <4>1, <4>3 DEF Spoken, Connected, live, At
        <4>5. j \in 1..Len(down[At(p)]) /\ Len(down[At(p)]) \in Nat
          <5>1. down[At(p)] \in Seq(Packets)
            BY <1>2, <3>1 DEF TypeOK, Packets
          <5>2. QED
            BY <4>4, <5>1, ToldFacts
        <4>6. j \in 1..(i - 1)
          BY <4>1, <4>5
        <4>7. QED
          BY <4>4, <4>6
      <3>4. QED
        BY <3>2, <3>3
    <2>5. Speaks(p)'
      <3> SUFFICES ASSUME Spoken(p)'
                   PROVE  /\ \A t \in Sockets : t[1] = p /\ t # At(p) =>
                               \A i, e : Sent(up'[t], i, e) /\ e.id = p => e.clock < Own(p).clock
                          /\ At(p) \notin owner'[p].sockets => states[p].clock < Own(p).clock
                          /\ p \notin unheard =>
                               /\ \A b \in Pages \ {p} :
                                     view[b][p].clock = Own(p).clock => view[b][p] = Own(p)
                               /\ \A t \in Sockets : t[1] # p =>
                                     \A i, e : Told(down'[t], i, e) /\ e.id = p
                                                 /\ e.clock = Own(p).clock => e = Said(p)
                               /\ (\E i : Sent(up'[At(p)], i, Said(p))) \/ Spread(p)'
        <4>1. /\ Own(p)' = Own(p) /\ Said(p)' = Said(p) /\ At(p)' = At(p)
              /\ states'[p].clock = states[p].clock /\ unheard' = unheard /\ view' = view
          BY <1>2, <1>3, <1>4, <1>7
        <4>2. QED
          BY <4>1 DEF Speaks
      <3>1. Spoken(p) /\ At(p) # s /\ At(p) \in Sockets
        <4>1. Stays(p)
          BY <1>2, <1>12
        <4>2. Spoken(p) /\ Connected(p)'
          BY <1>2, <4>1, StaysSpoken
        <4>3. QED
          BY <1>2, <1>11, <4>2
      <3>2. \A t \in Sockets : t[1] = p /\ t # At(p) =>
               \A i, e : Sent(up'[t], i, e) /\ e.id = p => e.clock < Own(p).clock
        BY <1>2, <1>8, <2>1, <3>1 DEF Speaks, Unsent
      <3>3. At(p) \notin owner'[p].sockets => states[p].clock < Own(p).clock
        BY <1>4, <2>1, <3>1 DEF Speaks
      <3>4. ASSUME p \notin unheard
            PROVE  /\ \A b \in Pages \ {p} :
                         view[b][p].clock = Own(p).clock => view[b][p] = Own(p)
                   /\ \A t \in Sockets : t[1] # p =>
                         \A i, e : Told(down'[t], i, e) /\ e.id = p
                                     /\ e.clock = Own(p).clock => e = Said(p)
                   /\ (\E i : Sent(up'[At(p)], i, Said(p))) \/ Spread(p)'
        <4>1. /\ \A b \in Pages \ {p} : view[b][p].clock = Own(p).clock => view[b][p] = Own(p)
              /\ \A t \in Sockets : t[1] # p =>
                    \A i, e : Told(down[t], i, e) /\ e.id = p /\ e.clock = Own(p).clock
                                 => e = Said(p)
              /\ (\E i : Sent(up[At(p)], i, Said(p))) \/ Spread(p)
          BY <2>1, <3>1, <3>4 DEF Speaks
        <4>2. ASSUME NEW t \in Sockets, t[1] # p, NEW i, NEW e, Told(down'[t], i, e), e.id = p,
                     e.clock = Own(p).clock
              PROVE  e = Said(p)
          <5>1. CASE Told(down[t], i, e)
            BY <4>1, <4>2, <5>1
          <5>2. CASE e \in out
            BY <1>5, <2>3, <3>1, <4>2, <5>2
          <5>3. QED
            BY <1>6, <4>2, <5>1, <5>2
        <4>3. ASSUME Spread(p) PROVE Spread(p)'
          <5>1. states[p] = Own(p) /\ At(p) \in owner[p].sockets
            BY <4>3 DEF Spread
          <5>2. states'[p] = states[p] /\ At(p) \in owner'[p].sockets
            BY <1>4, <3>1, <5>1
          <5>3. ASSUME NEW b \in Pages \ {p}, Connected(b)'
                PROVE  view[b][p] = Own(p) \/ \E i : Told(down'[At(b)], i, Said(p))
            <6>1. Connected(b) /\ At(b) \in Sockets
              BY <1>11, <5>3
            <6>2. view[b][p] = Own(p) \/ \E i : Told(down[At(b)], i, Said(p))
              BY <4>3, <6>1 DEF Spread
            <6>3. QED
              BY <1>6, <6>1, <6>2
          <5>4. QED
            BY <1>2, <1>3, <1>7, <5>1, <5>2, <5>3 DEF Spread
        <4>4. up'[At(p)] = up[At(p)]
          BY <1>3, <3>1
        <4>5. QED
          BY <4>1, <4>2, <4>3, <4>4
      <3>5. QED
        BY <3>2, <3>3, <3>4
    <2>6. QED
      BY <2>2, <2>4, <2>5
  <1>16. ASSUME NEW b \in Pages, NEW c \in Pages PROVE Follows(b, c)'
    <2>1. Follows(b, c)
      BY DEF ScreenInv, WordInv
    <2>2. CASE c # p \/ states'[p] = states[p]
      <3>1. states'[c] = states[c] /\ \A e \in out : e.id # c
        BY <1>4, <1>5, <2>2
      <3>2. Untold(c)
        BY <1>6, <3>1 DEF Untold, UntoldAt
      <3>3. QED
        BY <1>2, <1>3, <1>12, <2>1, <3>1, <3>2, FollowsStands
    <2>3. CASE c = p /\ states'[p] # states[p]
      <3> DEFINE x == Entry(p, states'[p])
      <3>1. out = {x} /\ x.id = p /\ x.clock = states[p].clock /\ states'[p].clock = states[p].clock
        BY <1>4, <2>3 DEF Entry
      <3>2. Entry(c, states[c])' = x /\ states[p].clock \in Nat
        BY <1>2, <2>3, OwnFacts DEF Entry
      <3> HIDE DEF x
      <3> SUFFICES ASSUME b # p, p \notin muted, Connected(b)'
                   PROVE  /\ \A i, e : Told(down'[At(b)], i, e) /\ e.id = p =>
                               /\ e.clock <= states[p].clock
                               /\ (\A j, d : Told(down'[At(b)], j, d) /\ j > i => d.id # p)
                                     => e = x
                          /\ Spoken(b)' /\ p \notin stale[b] /\ view[b][p].state # Null =>
                               view[b][p].clock <= states[p].clock
                          /\ \E i : Told(down'[At(b)], i, x)
        <4>1. states'[c].clock = states[p].clock
          BY <2>3, <3>1
        <4>2. QED
          BY <1>3, <1>7, <2>3, <3>1, <3>2, <4>1 DEF Follows
      <3>3. Connected(b) /\ At(b) # s /\ At(b) \in Sockets /\ seat[At(b)] = "in" /\ At(b)[1] = b
        BY <1>11, AtSocket
      <3>4. \A i, e : Told(down'[At(b)], i, e) <=>
                         Told(down[At(b)], i, e) \/ (i = Len(down[At(b)]) + 1 /\ e = x)
        BY <1>6, <3>1, <3>3
      <3>5. down[At(b)] \in Seq(Packets)
        BY <1>2, <3>3 DEF TypeOK, Packets
      <3>6. ASSUME NEW i, NEW e, Told(down[At(b)], i, e), e.id = p
            PROVE  /\ e.clock <= states[p].clock
                   /\ \E j, d : Told(down'[At(b)], j, d) /\ j > i /\ d.id = p
        <4>1. e.clock <= states[p].clock
          BY <2>1, <2>3, <3>3, <3>6 DEF Follows
        <4>2. i \in 1..Len(down[At(b)]) /\ Len(down[At(b)]) \in Nat
          BY <3>5, <3>6, ToldFacts
        <4>3. Len(down[At(b)]) + 1 > i
          BY <4>2
        <4>4. QED
          BY <3>1, <3>4, <4>1, <4>3
      <3>7. x.clock <= states[p].clock
        BY <3>1, <3>2
      <3>8. \A i, e : Told(down'[At(b)], i, e) /\ e.id = p =>
               /\ e.clock <= states[p].clock
               /\ (\A j, d : Told(down'[At(b)], j, d) /\ j > i => d.id # p) => e = x
        <4>1. ASSUME NEW i, NEW e, Told(down'[At(b)], i, e), e.id = p
              PROVE  /\ e.clock <= states[p].clock
                     /\ (\A j, d : Told(down'[At(b)], j, d) /\ j > i => d.id # p) => e = x
          <5>1. CASE Told(down[At(b)], i, e)
            BY <3>6, <4>1, <5>1
          <5>2. CASE e = x
            BY <3>7, <5>2
          <5>3. QED
            BY <3>4, <4>1, <5>1, <5>2
        <4>2. QED
          BY <4>1
      <3>9. Spoken(b)' /\ p \notin stale[b] /\ view[b][p].state # Null =>
               view[b][p].clock <= states[p].clock
        <4>1. Spoken(b)' => Spoken(b)
          BY <1>12, StaysSpoken
        <4>2. QED
          BY <2>1, <2>3, <3>3, <4>1 DEF Follows
      <3>10. QED
        BY <3>4, <3>8, <3>9
    <2>4. QED
      BY <2>2, <2>3
  <1>17. QED
    BY <1>2, <1>9, <1>10, <1>14, <1>15, <1>16 DEF WordInv

\* The server takes a frame that says nothing it would hear from this socket, or
\* one with its page's own word x.
Refuses(s) ==
    /\ up[s] # <<>> /\ up' = [up EXCEPT ![s] = Tail(@)]
    /\ UNCHANGED <<page, down, server, past>>
    /\ \A e \in Head(up[s]) : ~MayClaim(s, e)

Accepts(s, x) ==
    /\ seat[s] = "in" /\ up[s] # <<>> /\ up' = [up EXCEPT ![s] = Tail(@)]
    /\ x \in Head(up[s]) /\ x \in FrameOf /\ x.id = s[1]
    /\ x.state = Null => s[1] \in closed
    /\ UNCHANGED <<page, seat, stale>>
    /\ \A c \in Pages : c # s[1] =>
          /\ owner'[c] = owner[c] /\ states'[c] = states[c]
          /\ c \in unheard' <=> c \in unheard
          /\ c \in muted' <=> c \in muted
    /\ owner'[s[1]] = [key |-> s[1], sockets |-> owner[s[1]].sockets \cup {s}]
    /\ News(states[s[1]], x) => states'[s[1]] = [clock |-> x.clock, state |-> x.state]
    /\ ~News(states[s[1]], x) => states'[s[1]] = states[s[1]]
    /\ \A t \in Sockets : clients'[t] \subseteq clients[t] \cup (IF t = s THEN {s[1]} ELSE {})
    /\ s[1] \in unheard' <=> s[1] \in unheard /\ x # Said(s[1])
    /\ s[1] \in muted' <=>
          \/ s[1] \in muted /\ x # Said(s[1])
          \/ x.state # Null /\ ~News(states[s[1]], x)
    /\ Relays(s, {x})

\* The awareness:update listener does one or the other.
LEMMA AcceptFacts ==
    ASSUME IInv, UpOnce, NEW s \in Sockets, Accept(s)
    PROVE  Refuses(s) \/ \E x : Accepts(s, x)
  <1> DEFINE entries == Head(up[s])
             own     == {e \in entries : MayClaim(s, e)}
             ids     == {e.id : e \in own}
             news    == {c \in ids : Entry(c, Own(c)) \in own}
             late    == {e.id : e \in {f \in own : f.state # Null /\ ~News(states[f.id], f)}}
  <1>1. /\ s \in live /\ up[s] # <<>>
        /\ up' = [up EXCEPT ![s] = Tail(@)]
        /\ owner' = [p \in Pages |->
                        IF p \in ids THEN [key     |-> s[1],
                                           sockets |-> owner[p].sockets \cup {s}]
                        ELSE owner[p]]
        /\ clients' = [clients EXCEPT ![s] = @ \cup ids]
        /\ states' = Apply(Null, states, own)
        /\ Relays(s, own)
        /\ unheard' = unheard \ news
        /\ muted' = (muted \ news) \cup late
        /\ UNCHANGED <<page, seat, stale>>
    BY DEF Accept, Allowed, Relays
  <1>2. /\ entries \in SUBSET FrameOf /\ Honest(s, entries, closed)
    BY <1>1, HeadOfLine DEF page
  <1>3. TypeOK /\ \A e \in entries : Sent(up[s], 1, e)
    BY <1>1, HeadTaken DEF IInv
  <1> HIDE DEF entries
  <1>4. ASSUME NEW e \in own
        PROVE  e \in FrameOf /\ e.id = s[1] /\ (e.state = Null => s[1] \in closed)
    BY <1>2, <1>4, ClaimFacts DEF Honest
  <1>5. /\ s[1] \in Pages /\ states \in [Pages -> States] /\ clients \in [Sockets -> SUBSET Pages]
        /\ owner \in [Pages -> [key : Pages \cup {Null}, sockets : SUBSET Sockets]]
    BY SocketType, TypeParts DEF IInv, ServerTypes
  <1>6. CASE own = {}
    <2>1. ids = {} /\ news = {} /\ late = {}
      BY <1>6
    <2>2. owner' = owner
      BY <1>1, <1>5, <2>1
    <2>3. clients' = clients
      BY <1>1, <1>5, <2>1
    <2>4. states' = states
      <3>1. Apply(Null, states, {}) = states
        BY <1>5 DEF Apply
      <3>2. QED
        BY <1>1, <1>6, <3>1
    <2>5. down' = down
      BY <1>1, <1>6 DEF Relays
    <2>6. unheard' = unheard /\ muted' = muted
      BY <1>1, <2>1
    <2>7. \A e \in Head(up[s]) : ~MayClaim(s, e)
      BY <1>6 DEF entries
    <2>8. Refuses(s)
      BY <1>1, <2>2, <2>3, <2>4, <2>5, <2>6, <2>7 DEF Refuses, server, past
    <2>9. QED
      BY <2>8
  <1>7. CASE own # {}
    <2>1. PICK x : x \in own
      BY <1>7
    <2>2. own = {x}
      <3>1. \A e \in own : e = x
        BY <1>3, <1>4, <2>1 DEF UpOnce
      <3>2. QED
        BY <2>1, <3>1
    <2>3. /\ x \in Head(up[s]) /\ x \in FrameOf /\ x.id = s[1]
          /\ (x.state = Null => s[1] \in closed)
      BY <1>4, <2>1 DEF entries
    <2>4. ids = {s[1]}
      BY <2>2, <2>3
    <2>5. news = IF x = Said(s[1]) THEN {s[1]} ELSE {}
      BY <2>2, <2>4 DEF Said
    <2>6. late = IF x.state # Null /\ ~News(states[s[1]], x) THEN {s[1]} ELSE {}
      <3>1. {f \in own : f.state # Null /\ ~News(states[f.id], f)}
               = IF x.state # Null /\ ~News(states[s[1]], x) THEN {x} ELSE {}
        BY <2>2, <2>3
      <3>2. QED
        BY <2>3, <3>1
    <2> HIDE DEF own, ids, news, late
    <2>7. /\ \A c \in Pages : c # s[1] => owner'[c] = owner[c]
          /\ owner'[s[1]] = [key |-> s[1], sockets |-> owner[s[1]].sockets \cup {s}]
      BY <1>1, <1>5, <2>4
    <2>8. /\ \A c \in Pages : c # s[1] => states'[c] = states[c]
          /\ News(states[s[1]], x) => states'[s[1]] = [clock |-> x.clock, state |-> x.state]
          /\ ~News(states[s[1]], x) => states'[s[1]] = states[s[1]]
      <3>1. ASSUME NEW c \in Pages, c # s[1] PROVE states'[c] = states[c]
        <4>1. {e \in {x} : e.id = c} = {}
          BY <2>3, <3>1
        <4>2. Apply(Null, states, {x})[c] = states[c]
          BY <4>1 DEF Apply
        <4>3. QED
          BY <1>1, <2>2, <4>2
      <3>2. states'[s[1]] = Heard(Null, states[s[1]], x)
        <4>1. {e \in {x} : e.id = s[1]} = {x}
          BY <2>3
        <4>2. Apply(Null, states, {x})[s[1]] = Heard(Null, states[s[1]], CHOOSE e \in {x} : TRUE)
          BY <1>5, <4>1 DEF Apply
        <4>3. QED
          BY <1>1, <2>2, <4>2
      <3>3. x.id # Null
        BY <1>5, <2>3, AwarenessAssumption
      <3>4. QED
        BY <3>1, <3>2, <3>3 DEF Heard
    <2>9. \A t \in Sockets : clients'[t] \subseteq clients[t] \cup (IF t = s THEN {s[1]} ELSE {})
      BY <1>1, <1>5, <2>4
    <2>10. /\ s[1] \in unheard' <=> s[1] \in unheard /\ x # Said(s[1])
           /\ \A c \in Pages : c # s[1] => (c \in unheard' <=> c \in unheard)
      BY <1>1, <2>5
    <2>11. /\ s[1] \in muted' <=>
                \/ s[1] \in muted /\ x # Said(s[1])
                \/ x.state # Null /\ ~News(states[s[1]], x)
           /\ \A c \in Pages : c # s[1] => (c \in muted' <=> c \in muted)
      BY <1>1, <2>5, <2>6
    <2>12. Relays(s, {x}) /\ seat[s] = "in"
      BY <1>1, <2>2 DEF live
    <2>13. Accepts(s, x)
      BY <1>1, <2>3, <2>7, <2>8, <2>9, <2>10, <2>11, <2>12 DEF Accepts
    <2>14. QED
      BY <2>13
  <1>8. QED
    BY <1>6, <1>7

LEMMA RefusesWord ==
    ASSUME ScreenInv, IInv', NEW s \in Sockets, Refuses(s)
    PROVE  WordInv'
  <1>1. /\ up[s] # <<>> /\ up' = [up EXCEPT ![s] = Tail(@)]
        /\ UNCHANGED <<page, down, server, past>>
        /\ \A e \in Head(up[s]) : ~MayClaim(s, e)
    BY DEF Refuses
  <1>2. /\ TypeOK /\ SocketInv /\ LineInv /\ LifeInv /\ PlaceInv /\ NobodyLockedOut /\ BooksInv
    BY DEF ScreenInv, WordInv, IInv, LineInv
  <1>3. /\ Cuts /\ \A t \in Sockets : t # s => up'[t] = up[t]
        /\ \A i, e : Sent(up[s], i, e) =>
              \/ i = 1 /\ e \in Head(up[s])
              \/ i > 1 /\ Sent(up'[s], i - 1, e)
    BY <1>1, <1>2, HeadTaken
  <1>4. UpOnce' /\ \A c \in Pages : Unsent(c)
    BY <1>2, <1>3, CutsFacts DEF LineInv
  <1>5. (\A b \in Pages : Stays(b)) /\ (\A c \in Pages : Untold(c))
    BY <1>1, SameLines DEF server, page
  <1>6. \A c \in Pages : Own(c)' = Own(c) /\ Unlearned(c)
    BY <1>1 DEF Own, Unlearned, Knows, page, server
  <1>7. LineInv'
    BY <1>1, <1>2, <1>4 DEF LineInv, DownOnce, PlaceInv, server, page
  <1>8. LifeInv'
    BY <1>1, <1>2, <1>6 DEF LifeInv, page
  <1>9. ASSUME NEW c \in Pages
        PROVE  Clocks(c)' /\ Fresh(c)' /\ Single(c)' /\ Echo(c)' /\ Speaks(c)'
    <2>1. ASSUME NEW i, Sent(up[At(c)], i, Said(c)), Connected(c)'
          PROVE  \E j : Sent(up'[At(c)], j, Said(c))
      <3>1. At(c) \in Sockets /\ At(c)[1] = c /\ socket[c] # 0
        BY <1>5, <2>1, AtSocket DEF Stays
      <3>2. CASE At(c) = s
        <4>1. MayClaim(s, Said(c))
          <5>1. Said(c).id = c /\ Said(c).state = Own(c).state
            BY <1>2, OwnFacts
          <5>2. CASE owner[c] = Nobody
            <6>1. Own(c).state # Null
              BY <1>2, <3>1 DEF LifeInv
            <6>2. QED
              BY <5>1, <5>2, <6>1 DEF MayClaim
          <5>3. CASE owner[c] # Nobody
            <6>1. owner[c].key = c
              BY <1>2, <5>3 DEF PlaceInv, BooksInv
            <6>2. QED
              BY <3>1, <3>2, <5>1, <5>3, <6>1 DEF MayClaim
          <5>4. QED
            BY <5>2, <5>3
        <4>2. QED
          BY <1>1, <1>3, <2>1, <3>2, <4>1
      <3>3. CASE At(c) # s
        BY <1>3, <2>1, <3>1, <3>3
      <3>4. QED
        BY <3>2, <3>3
    <2>2. Aside(c)
      <3>1. Own(c)' = Own(c) /\ Unlearned(c) /\ Unsent(c) /\ Untold(c)
        BY <1>4, <1>5, <1>6
      <3>2. /\ socket' = socket /\ view' = view /\ down' = down /\ states' = states
            /\ owner' = owner /\ unheard' = unheard
        BY <1>1 DEF page, server, past
      <3>3. QED
        BY <2>1, <3>1, <3>2 DEF Aside
    <2>3. QED
      BY <1>5, <2>2, AsideStands
  <1>10. ASSUME NEW b \in Pages, NEW c \in Pages PROVE Follows(b, c)'
    <2>1. view' = view /\ states' = states /\ muted' = muted /\ stale' = stale
      BY <1>1 DEF page, server, past
    <2>2. QED
      BY <1>2, <1>5, <2>1, FollowsStands DEF ScreenInv, WordInv
  <1>11. QED
    BY <1>7, <1>8, <1>9, <1>10 DEF WordInv

\* What an accepted word is, and what it leaves in the lines.
LEMMA AcceptsLines ==
    ASSUME ScreenInv, IInv', NEW s \in Sockets, NEW x, Accepts(s, x)
    PROVE  /\ s[1] \in Pages /\ x \in FrameOf /\ Sent(up[s], 1, x)
           /\ x.clock <= Own(s[1]).clock
           /\ x.clock = Own(s[1]).clock \/ x.state = Null => x = Said(s[1])
           /\ UpOnce' /\ \A c \in Pages : Unsent(c)
           /\ \A t \in Sockets : t # s => up'[t] = up[t]
           /\ \A i, e : Sent(up'[s], i, e) => Sent(up[s], i + 1, e)
           /\ \A i, e : Sent(up[s], i, e) /\ e.id = s[1] => e = x \/ Sent(up'[s], i - 1, e)
           /\ \A t \in Sockets :
                 /\ \A i, e : Told(down'[t], i, e) <=>
                       \/ Told(down[t], i, e)
                       \/ (/\ t # s /\ seat[t] = "in" /\ At(t[1]) = t
                           /\ i = Len(down[t]) + 1 /\ e = x)
                 /\ \A i : Joined(down'[t], i) <=> Joined(down[t], i)
                 /\ seat[t] # "in" => down'[t] = down[t]
           /\ \A c \in Pages : Own(c)' = Own(c) /\ Said(c)' = Said(c) /\ At(c)' = At(c)
           /\ \A b \in Pages : (Connected(b)' <=> Connected(b)) /\ Stays(b)
  <1>1. /\ TypeOK /\ UpOnce /\ SocketInv /\ Clocks(s[1]) /\ s[1] \in Pages
    BY SocketType DEF ScreenInv, WordInv, IInv, LineInv
  <1>2. /\ up[s] # <<>> /\ up' = [up EXCEPT ![s] = Tail(@)]
        /\ x \in Head(up[s]) /\ x \in FrameOf /\ x.id = s[1]
        /\ UNCHANGED <<socket, tries, closed, view, seat>>
        /\ Relays(s, {x}) /\ {x} \in SUBSET FrameOf
    BY DEF Accepts, page
  <1>3. /\ Cuts
        /\ \A t \in Sockets : t # s => up'[t] = up[t]
        /\ \A i, e :
              /\ Sent(up'[s], i, e) => Sent(up[s], i + 1, e)
              /\ Sent(up[s], i, e) =>
                    \/ i = 1 /\ e \in Head(up[s])
                    \/ i > 1 /\ Sent(up'[s], i - 1, e)
        /\ \A e \in Head(up[s]) : Sent(up[s], 1, e)
    BY <1>1, <1>2, HeadTaken
  <1>4. Sent(up[s], 1, x)
    BY <1>2, <1>3
  <1>5. /\ x.clock <= Own(s[1]).clock
        /\ x.clock = Own(s[1]).clock \/ x.state = Null => x = Said(s[1])
    BY <1>1, <1>2, <1>4 DEF Clocks
  <1>6. UpOnce' /\ \A c \in Pages : Unsent(c)
    BY <1>1, <1>3, CutsFacts
  <1>7. ASSUME NEW i, NEW e, Sent(up[s], i, e), e.id = s[1], e # x
        PROVE  Sent(up'[s], i - 1, e)
    BY <1>1, <1>2, <1>3, <1>4, <1>7 DEF UpOnce
  <1>8. \A t \in Sockets :
           /\ \A i, e : Told(down'[t], i, e) <=>
                 \/ Told(down[t], i, e)
                 \/ (/\ t # s /\ seat[t] = "in" /\ At(t[1]) = t
                     /\ i = Len(down[t]) + 1 /\ e \in {x})
           /\ \A i : Joined(down'[t], i) <=> Joined(down[t], i)
           /\ seat[t] # "in" => down'[t] = down[t]
    BY <1>1, <1>2, RelaysTells
  <1>9. \A c \in Pages : Own(c)' = Own(c) /\ Said(c)' = Said(c) /\ At(c)' = At(c)
    BY <1>2 DEF Own, Said, At
  <1>10. ASSUME NEW b \in Pages PROVE (Connected(b)' <=> Connected(b)) /\ Stays(b)
    <2>1. Connected(b)' <=> Connected(b)
      BY <1>2 DEF Connected, live
    <2>2. ASSUME Connected(b)
          PROVE  /\ \A i : Joined(down'[At(b)], i) <=> Joined(down[At(b)], i)
                 /\ \A i, e : Told(down[At(b)], i, e) => Told(down'[At(b)], i, e)
      BY <1>8, <2>2, AtSocket
    <2>3. QED
      BY <1>9, <2>1, <2>2 DEF Stays
  <1>11. \A t \in Sockets : \A i, e : Told(down'[t], i, e) <=>
            \/ Told(down[t], i, e)
            \/ (/\ t # s /\ seat[t] = "in" /\ At(t[1]) = t
                /\ i = Len(down[t]) + 1 /\ e = x)
    BY <1>8
  <1>12. QED
    BY <1>1, <1>2, <1>3, <1>4, <1>5, <1>6, <1>7, <1>8, <1>9, <1>10, <1>11

\* It leaves the lines in order and everybody else's word in place.
LEMMA AcceptsAside ==
    ASSUME ScreenInv, IInv', NEW s \in Sockets, NEW x, Accepts(s, x)
    PROVE  /\ LineInv' /\ LifeInv'
           /\ \A c \in Pages : c # s[1] =>
                 Clocks(c)' /\ Fresh(c)' /\ Single(c)' /\ Echo(c)' /\ Speaks(c)'
  <1>1. /\ TypeOK /\ SocketInv /\ LineInv /\ LifeInv /\ PlaceInv
    BY DEF ScreenInv, WordInv, IInv, LineInv
  <1>2. /\ seat[s] = "in" /\ x \in FrameOf /\ x.id = s[1]
        /\ UNCHANGED <<socket, tries, closed, view, seat, stale>>
        /\ \A c \in Pages : c # s[1] =>
              /\ owner'[c] = owner[c] /\ states'[c] = states[c]
              /\ c \in unheard' <=> c \in unheard
        /\ owner'[s[1]].key = s[1]
        /\ \A t \in Sockets : clients'[t] \subseteq clients[t] \cup (IF t = s THEN {s[1]} ELSE {})
        /\ Relays(s, {x})
    BY DEF Accepts, page
  <1>3. /\ UpOnce' /\ \A c \in Pages : Unsent(c)
        /\ \A t \in Sockets : t # s => up'[t] = up[t]
        /\ \A t \in Sockets :
              /\ \A i, e : Told(down'[t], i, e) <=>
                    \/ Told(down[t], i, e)
                    \/ (/\ t # s /\ seat[t] = "in" /\ At(t[1]) = t
                        /\ i = Len(down[t]) + 1 /\ e = x)
              /\ \A i : Joined(down'[t], i) <=> Joined(down[t], i)
              /\ seat[t] # "in" => down'[t] = down[t]
        /\ \A c \in Pages : Own(c)' = Own(c) /\ At(c)' = At(c)
        /\ \A b \in Pages : (Connected(b)' <=> Connected(b)) /\ Stays(b)
    BY AcceptsLines
  <1>4. LineInv'
    <2>1. DownOnce'
      <3>1. Once({x}) /\ {x} \in SUBSET FrameOf
        BY <1>2 DEF Once
      <3>2. QED
        BY <1>1, <1>2, <3>1, RelaysOnce DEF LineInv
    <2>2. PlaceInv'
      <3>1. ASSUME NEW t \in Sockets
            PROVE  /\ seat[t] = "new" => down[t] = <<>>
                   /\ clients[t] \subseteq {t[1]}
                   /\ (t[2] > tries[t[1]]) => seat[t] = "new"
        BY <1>1 DEF PlaceInv
      <3>2. ASSUME NEW t \in Sockets
            PROVE  /\ seat'[t] = "new" => down'[t] = <<>>
                   /\ clients'[t] \subseteq {t[1]}
                   /\ (t[2] > tries'[t[1]]) => seat'[t] = "new"
        <4>1. seat[t] = "new" => down'[t] = down[t]
          BY <1>3
        <4>2. clients'[t] \subseteq {t[1]}
          BY <1>2, <3>1
        <4>3. QED
          BY <1>2, <3>1, <4>1, <4>2
      <3>3. ASSUME NEW c \in Pages, owner'[c].sockets # {} PROVE owner'[c].key = c
        BY <1>1, <1>2, <3>3 DEF PlaceInv
      <3>4. QED
        BY <3>2, <3>3 DEF PlaceInv
    <2>3. QED
      BY <1>3, <2>1, <2>2 DEF LineInv
  <1>5. LifeInv'
    BY <1>1, <1>2, <1>3 DEF LifeInv
  <1>6. ASSUME NEW c \in Pages, c # s[1]
        PROVE  Clocks(c)' /\ Fresh(c)' /\ Single(c)' /\ Echo(c)' /\ Speaks(c)'
    <2>1. Untold(c)
      BY <1>2, <1>3, <1>6 DEF Untold, UntoldAt
    <2>2. Unlearned(c)
      <3>1. ASSUME NEW m, Knows(c, m)' PROVE Knows(c, m)
        <4>1. CASE m = states'[c].clock \/ \E b \in Pages \ {c} : m = view'[b][c].clock
          BY <1>2, <1>6, <4>1 DEF Knows
        <4>2. CASE \E t \in Sockets : \E i, e : Told(down'[t], i, e) /\ e.id = c /\ e.clock = m
          BY <2>1, <4>2 DEF Knows, Untold, UntoldAt
        <4>3. QED
          BY <3>1, <4>1, <4>2 DEF Knows
      <3>2. QED
        BY <3>1 DEF Unlearned
    <2>3. Own(c)' = Own(c) /\ Unlearned(c) /\ Unsent(c) /\ Untold(c)
      BY <1>3, <2>1, <2>2
    <2>4. socket[c] # 0 => \A i : Joined(down[At(c)], i) => Joined(down'[At(c)], i)
      BY <1>1, <1>3, SocketFacts DEF At
    <2>5. Connected(c)' => up'[At(c)] = up[At(c)]
      <3>1. At(c) # s
        BY <1>6 DEF At
      <3>2. QED
        BY <1>3, <3>1, AtSocket
    <2>6. Aside(c)
      BY <1>2, <1>3, <1>6, <2>3, <2>4, <2>5 DEF Aside
    <2>7. QED
      BY <1>3, <2>6, AsideStands
  <1>7. QED
    BY <1>4, <1>5, <1>6

\* The page whose word is accepted.
LEMMA AcceptsClocks ==
    ASSUME ScreenInv, IInv', NEW s \in Sockets, NEW x, Accepts(s, x)
    PROVE  Clocks(s[1])' /\ Fresh(s[1])' /\ Single(s[1])' /\ Echo(s[1])'
  <1> DEFINE p == s[1]
             n == Own(p).clock
  <1>1. /\ TypeOK /\ TypeOK' /\ SocketInv /\ LifeInv
        /\ up \in [Sockets -> Seq(SUBSET FrameOf)] /\ up' \in [Sockets -> Seq(SUBSET FrameOf)]
    BY DEF ScreenInv, WordInv, IInv, TypeOK
  <1>2. /\ x.id = p /\ (x.state = Null => p \in closed)
        /\ UNCHANGED <<socket, closed, view>>
        /\ states'[p].clock = states[p].clock \/ states'[p].clock = x.clock
    BY DEF Accepts, page
  <1>3. /\ p \in Pages /\ x \in FrameOf /\ Sent(up[s], 1, x) /\ x.clock <= n
        /\ Unsent(p) /\ Own(p)' = Own(p) /\ Said(p)' = Said(p) /\ At(p)' = At(p)
        /\ \A t \in Sockets : t # s => up'[t] = up[t]
        /\ \A i, e : Sent(up'[s], i, e) => Sent(up[s], i + 1, e)
        /\ \A t \in Sockets :
              /\ \A i, e : Told(down'[t], i, e) => Told(down[t], i, e) \/ e = x
              /\ \A i : Joined(down'[t], i) <=> Joined(down[t], i)
    <2>1. /\ p \in Pages /\ x \in FrameOf /\ Sent(up[s], 1, x) /\ x.clock <= n
          /\ \A c \in Pages : Unsent(c)
          /\ \A c \in Pages : Own(c)' = Own(c) /\ Said(c)' = Said(c) /\ At(c)' = At(c)
          /\ \A t \in Sockets : t # s => up'[t] = up[t]
          /\ \A i, e : Sent(up'[s], i, e) => Sent(up[s], i + 1, e)
      BY AcceptsLines
    <2>2. \A t \in Sockets :
             /\ \A i, e : Told(down'[t], i, e) <=>
                   \/ Told(down[t], i, e)
                   \/ (/\ t # s /\ seat[t] = "in" /\ At(t[1]) = t
                       /\ i = Len(down[t]) + 1 /\ e = x)
             /\ \A i : Joined(down'[t], i) <=> Joined(down[t], i)
      BY AcceptsLines
    <2>3. QED
      BY <2>1, <2>2
  <1>4. n \in Nat /\ x.clock \in Nat
    BY <1>1, <1>3, OwnFacts DEF FrameOf
  <1>5. Clocks(p) /\ Fresh(p) /\ Single(p) /\ Echo(p)
    BY <1>3 DEF ScreenInv, WordInv
  <1> HIDE DEF p
  <1>6. ASSUME NEW m, Knows(p, m)' PROVE Knows(p, m) \/ m = x.clock
    <2>1. CASE m = states'[p].clock \/ \E b \in Pages \ {p} : m = view'[b][p].clock
      BY <1>2, <2>1 DEF Knows
    <2>2. ASSUME NEW t \in Sockets, NEW i, NEW e, Told(down'[t], i, e), e.id = p, e.clock = m
          PROVE  Knows(p, m) \/ m = x.clock
      BY <1>3, <2>2 DEF Knows
    <2>3. QED
      BY <1>6, <2>1, <2>2 DEF Knows
  <1>7. Clocks(p)'
    <2>1. \A m : Knows(p, m)' => m <= n
      BY <1>3, <1>5, <1>6 DEF Clocks
    <2>2. ASSUME NEW t \in Sockets, t[1] = p, NEW i, NEW e, Sent(up'[t], i, e), e.id = p
          PROVE  /\ e.clock <= n
                 /\ e.clock = n \/ e.state = Null => e = Said(p)
      BY <1>3, <1>5, <2>2 DEF Unsent, Clocks
    <2>3. QED
      BY <1>3, <2>1, <2>2 DEF Clocks
  <1>8. Fresh(p)'
    <2>1. ASSUME NEW t \in Sockets, t[1] = p, NEW i, NEW e, Sent(up'[t], i, e), e.id = p,
                 e.clock = n, NEW m, Knows(p, m)'
          PROVE  m < n
      <3>1. \A k : Knows(p, k) => k < n
        BY <1>3, <1>5, <2>1 DEF Unsent, Fresh
      <3>2. x.clock # n
        <4>1. ASSUME x.clock = n PROVE FALSE
          <5>1. CASE t = s
            <6>1. Sent(up[s], i + 1, e)
              BY <1>3, <2>1, <5>1
            <6>2. i + 1 = 1
              BY <1>2, <1>3, <1>5, <2>1, <4>1, <5>1, <6>1 DEF Single
            <6>3. up'[s] \in Seq(SUBSET FrameOf)
              BY <1>1
            <6>4. i \in 1..Len(up'[s])
              BY <2>1, <5>1, <6>3, SentFacts
            <6>5. QED
              BY <6>2, <6>4
          <5>2. CASE t # s
            <6>1. Sent(up[t], i, e)
              BY <1>3, <2>1, <5>2
            <6>2. s[1] = p
              BY DEF p
            <6>3. t = s
              BY <1>2, <1>3, <1>5, <2>1, <4>1, <6>1, <6>2 DEF Single
            <6>4. QED
              BY <5>2, <6>3
          <5>3. QED
            BY <5>1, <5>2
        <4>2. QED
          BY <4>1
      <3>3. x.clock < n
        BY <1>3, <1>4, <3>2
      <3>4. QED
        BY <1>6, <2>1, <3>1, <3>3
    <2>2. QED
      BY <1>3, <2>1 DEF Fresh
  <1>9. Single(p)'
    BY <1>1, <1>3, <1>5, SingleStands
  <1>10. Echo(p)'
    <2> SUFFICES ASSUME socket[p] # 0, NEW i, NEW e, Told(down'[At(p)], i, e), e.id = p,
                        e.state = Null, e.clock = n
                 PROVE  \E j \in 1..(i - 1) : Joined(down'[At(p)], j)
      BY <1>2, <1>3 DEF Echo
    <2>1. At(p) \in Sockets
      BY <1>1, <1>3, SocketFacts DEF At
    <2>2. e # x
      BY <1>1, <1>2, <1>3 DEF LifeInv
    <2>3. Told(down[At(p)], i, e)
      BY <1>3, <2>1, <2>2
    <2>4. QED
      BY <1>3, <1>5, <2>1, <2>3 DEF Echo
  <1>11. QED
    BY <1>7, <1>8, <1>9, <1>10 DEF p

LEMMA AcceptsSpeaks ==
    ASSUME ScreenInv, IInv', NEW s \in Sockets, NEW x, Accepts(s, x), NEW p \in Pages, p = s[1]
    PROVE  Speaks(p)'
  <1> DEFINE n == Own(p).clock
  <1>1. TypeOK
    BY DEF ScreenInv, IInv
  <1>2. /\ x.id = p
        /\ UNCHANGED <<socket, view>>
        /\ owner'[p].sockets = owner[p].sockets \cup {s}
        /\ News(states[p], x) => states'[p] = [clock |-> x.clock, state |-> x.state]
        /\ ~News(states[p], x) => states'[p] = states[p]
        /\ p \in unheard' <=> p \in unheard /\ x # Said(p)
    BY DEF Accepts, page
  <1>3. /\ p \in Pages /\ x \in FrameOf /\ Sent(up[s], 1, x) /\ x.clock <= n
        /\ x.clock = n => x = Said(p)
        /\ Unsent(p) /\ Own(p)' = Own(p) /\ Said(p)' = Said(p) /\ At(p)' = At(p)
        /\ \A t \in Sockets : t # s => up'[t] = up[t]
        /\ \A i, e : Sent(up[s], i, e) /\ e.id = p => e = x \/ Sent(up'[s], i - 1, e)
        /\ \A t \in Sockets : \A i, e : Told(down'[t], i, e) <=>
              \/ Told(down[t], i, e)
              \/ (/\ t # s /\ seat[t] = "in" /\ At(t[1]) = t
                  /\ i = Len(down[t]) + 1 /\ e = x)
        /\ Stays(p) /\ \A b \in Pages : Connected(b)' => Connected(b)
    <2>1. /\ p \in Pages /\ x \in FrameOf /\ Sent(up[s], 1, x) /\ x.clock <= n
          /\ x.clock = n => x = Said(p)
          /\ \A c \in Pages : Unsent(c)
          /\ \A c \in Pages : Own(c)' = Own(c) /\ Said(c)' = Said(c) /\ At(c)' = At(c)
          /\ \A b \in Pages : (Connected(b)' <=> Connected(b)) /\ Stays(b)
      BY AcceptsLines
    <2>2. /\ \A t \in Sockets : t # s => up'[t] = up[t]
          /\ \A i, e : Sent(up[s], i, e) /\ e.id = p => e = x \/ Sent(up'[s], i - 1, e)
      BY AcceptsLines
    <2>3. \A t \in Sockets : \A i, e : Told(down'[t], i, e) <=>
             \/ Told(down[t], i, e)
             \/ (/\ t # s /\ seat[t] = "in" /\ At(t[1]) = t
                 /\ i = Len(down[t]) + 1 /\ e = x)
      BY AcceptsLines
    <2>4. QED
      BY <2>1, <2>2, <2>3
  <1>4. /\ n \in Nat /\ x.clock \in Nat /\ Own(p) \in States /\ Said(p).id = p
        /\ Said(p).clock = n /\ Said(p).state = Own(p).state /\ states[p].clock \in Nat
    BY <1>1, <1>3, OwnFacts DEF FrameOf
  <1>5. Fresh(p) /\ Speaks(p)
    BY <1>3 DEF ScreenInv, WordInv
  <1>6. s[1] = p /\ n = Own(p).clock
    OBVIOUS
  <1> HIDE DEF n
  <1> SUFFICES ASSUME Spoken(p)'
               PROVE  /\ \A t \in Sockets : t[1] = p /\ t # At(p) =>
                           \A i, e : Sent(up'[t], i, e) /\ e.id = p => e.clock < n
                      /\ At(p) \notin owner'[p].sockets => states'[p].clock < n
                      /\ p \notin unheard' =>
                           /\ \A b \in Pages \ {p} : view[b][p].clock = n => view[b][p] = Own(p)
                           /\ \A t \in Sockets : t[1] # p =>
                                 \A i, e : Told(down'[t], i, e) /\ e.id = p /\ e.clock = n
                                              => e = Said(p)
                           /\ (\E i : Sent(up'[At(p)], i, Said(p))) \/ Spread(p)'
    BY <1>2, <1>3, <1>6 DEF Speaks
  <1>7. Spoken(p) /\ At(p) \in Sockets
    <2>1. Spoken(p) /\ Connected(p)'
      BY <1>3, StaysSpoken
    <2>2. QED
      BY <1>3, <2>1, AtSocket
  <1>8. /\ \A t \in Sockets : t[1] = p /\ t # At(p) =>
              \A i, e : Sent(up[t], i, e) /\ e.id = p => e.clock < n
        /\ At(p) \notin owner[p].sockets => states[p].clock < n
    BY <1>5, <1>7 DEF Speaks, n
  <1>9. \A t \in Sockets : t[1] = p /\ t # At(p) =>
           \A i, e : Sent(up'[t], i, e) /\ e.id = p => e.clock < n
    BY <1>3, <1>8 DEF Unsent
  <1>10. s # At(p) => x.clock < n
    BY <1>2, <1>3, <1>6, <1>8
  <1>11. At(p) \notin owner'[p].sockets => states'[p].clock < n
    BY <1>2, <1>8, <1>10
  <1>12. ASSUME p \notin unheard', x = Said(p)
         PROVE  /\ \A b \in Pages \ {p} : view[b][p].clock = n => view[b][p] = Own(p)
                /\ \A t \in Sockets : t[1] # p =>
                      \A i, e : Told(down'[t], i, e) /\ e.id = p /\ e.clock = n => e = Said(p)
                /\ Spread(p)'
    <2>1. s = At(p)
      BY <1>4, <1>10, <1>12
    <2>2. \A m : Knows(p, m) => m < n
      BY <1>2, <1>3, <1>4, <1>5, <1>6, <1>12 DEF Fresh, n
    <2>3. states'[p] = Own(p)
      <3>1. states[p].clock < n
        BY <2>2 DEF Knows
      <3>2. News(states[p], x)
        BY <1>4, <1>12, <3>1 DEF News
      <3>3. QED
        BY <1>2, <1>4, <1>12, <3>2 DEF States, n
    <2>4. \A b \in Pages \ {p} : view[b][p].clock # n
      <3>1. ASSUME NEW b \in Pages \ {p}, view[b][p].clock = n PROVE n < n
        BY <2>2, <3>1 DEF Knows
      <3>2. QED
        BY <1>4, <3>1
    <2>5. ASSUME NEW t \in Sockets, NEW i, NEW e, Told(down'[t], i, e), e.id = p, e.clock = n
          PROVE  e = Said(p)
      <3>1. CASE Told(down[t], i, e)
        <4>1. n < n
          BY <2>2, <2>5, <3>1 DEF Knows
        <4>2. QED
          BY <1>4, <4>1
      <3>2. CASE e = x
        BY <1>12, <3>2
      <3>3. QED
        BY <1>3, <2>5, <3>1, <3>2
    <2>6. Spread(p)'
      <3>1. ASSUME NEW b \in Pages \ {p}, Connected(b)'
            PROVE  \E i : Told(down'[At(b)], i, Said(p))
        <4>1. At(b) \in Sockets /\ At(b)[1] = b /\ seat[At(b)] = "in"
          BY <1>3, <3>1, AtSocket
        <4>2. At(b) # s /\ At(At(b)[1]) = At(b)
          BY <1>6, <3>1, <4>1
        <4>3. QED
          BY <1>3, <1>12, <4>1, <4>2
      <3>2. At(p) \in owner'[p].sockets
        BY <1>2, <2>1
      <3>3. \A b \in Pages : At(b)' = At(b)
        BY <1>2 DEF At
      <3>4. QED
        BY <1>3, <2>3, <3>1, <3>2, <3>3 DEF Spread
    <2>7. QED
      BY <2>4, <2>5, <2>6
  <1>13. ASSUME p \notin unheard', x # Said(p)
         PROVE  /\ \A b \in Pages \ {p} : view[b][p].clock = n => view[b][p] = Own(p)
                /\ \A t \in Sockets : t[1] # p =>
                      \A i, e : Told(down'[t], i, e) /\ e.id = p /\ e.clock = n => e = Said(p)
                /\ (\E i : Sent(up'[At(p)], i, Said(p))) \/ Spread(p)'
    <2>1. /\ \A b \in Pages \ {p} : view[b][p].clock = n => view[b][p] = Own(p)
          /\ \A t \in Sockets : t[1] # p =>
                \A i, e : Told(down[t], i, e) /\ e.id = p /\ e.clock = n => e = Said(p)
          /\ (\E i : Sent(up[At(p)], i, Said(p))) \/ Spread(p)
      BY <1>2, <1>5, <1>7, <1>13 DEF Speaks, n
    <2>2. x.clock # n
      BY <1>3, <1>13
    <2>3. ASSUME NEW t \in Sockets, t[1] # p, NEW i, NEW e, Told(down'[t], i, e), e.id = p,
                 e.clock = n
          PROVE  e = Said(p)
      <3>1. Told(down[t], i, e)
        BY <1>3, <2>2, <2>3
      <3>2. QED
        BY <2>1, <2>3, <3>1
    <2>4. ASSUME NEW i, Sent(up[At(p)], i, Said(p)) PROVE \E j : Sent(up'[At(p)], j, Said(p))
      BY <1>3, <1>4, <1>7, <1>13, <2>4
    <2>5. ASSUME Spread(p) PROVE Spread(p)'
      <3>1. states[p] = Own(p) /\ At(p) \in owner[p].sockets
        BY <2>5 DEF Spread
      <3>2. states'[p] = Own(p) /\ At(p) \in owner'[p].sockets
        <4>1. states[p].clock = n
          BY <3>1 DEF n
        <4>2. ~News(states[p], x)
          <5>1. ~(n < x.clock)
            BY <1>3, <1>4
          <5>2. QED
            BY <2>2, <4>1, <5>1 DEF News
        <4>3. QED
          BY <1>2, <3>1, <4>2
      <3>3. ASSUME NEW b \in Pages \ {p}, Connected(b)'
            PROVE  view[b][p] = Own(p) \/ \E i : Told(down'[At(b)], i, Said(p))
        <4>1. Connected(b) /\ At(b) \in Sockets
          BY <1>3, <3>3, AtSocket
        <4>2. view[b][p] = Own(p) \/ \E i : Told(down[At(b)], i, Said(p))
          BY <2>5, <4>1 DEF Spread
        <4>3. QED
          BY <1>3, <4>1, <4>2
      <3>4. \A b \in Pages : At(b)' = At(b)
        BY <1>2 DEF At
      <3>5. QED
        BY <1>2, <1>3, <3>2, <3>3, <3>4 DEF Spread
    <2>6. QED
      BY <2>1, <2>3, <2>4, <2>5
  <1>14. QED
    BY <1>9, <1>11, <1>12, <1>13

\* What the server tells the room of a page is what it now holds of it, unless
\* the page is muted.
LEMMA AcceptsFollows ==
    ASSUME ScreenInv, IInv', NEW s \in Sockets, NEW x, Accepts(s, x), NEW p \in Pages, p = s[1],
           NEW b \in Pages
    PROVE  Follows(b, p)'
  <1>1. TypeOK
    BY DEF ScreenInv, IInv
  <1>2. /\ x.id = p /\ x \in FrameOf
        /\ UNCHANGED <<socket, view, stale>>
        /\ News(states[p], x) => states'[p] = [clock |-> x.clock, state |-> x.state]
        /\ p \in muted' <=>
              \/ p \in muted /\ x # Said(p)
              \/ x.state # Null /\ ~News(states[p], x)
    BY DEF Accepts, page
  <1>3. /\ Sent(up[s], 1, x)
        /\ x.state = Null => x = Said(p)
        /\ Stays(b) /\ (Connected(b)' => Connected(b)) /\ At(b)' = At(b)
    BY AcceptsLines
  <1>4. \A t \in Sockets : \A i, e : Told(down'[t], i, e) <=>
           \/ Told(down[t], i, e)
           \/ (/\ t # s /\ seat[t] = "in" /\ At(t[1]) = t
               /\ i = Len(down[t]) + 1 /\ e = x)
    BY AcceptsLines
  <1>5. /\ Own(p).clock \in Nat /\ x.clock \in Nat /\ states[p].clock \in Nat
        /\ Said(p).clock = Own(p).clock /\ view[b][p].clock \in Nat
    BY <1>1, <1>2, OwnFacts DEF FrameOf
  <1>6. Clocks(p) /\ Fresh(p) /\ Follows(b, p)
    BY DEF ScreenInv, WordInv
  <1>7. ASSUME p \notin muted'
        PROVE  /\ states[p].clock <= x.clock
               /\ states'[p] = [clock |-> x.clock, state |-> x.state]
               /\ p \notin muted \/ x = Said(p)
    <2>1. News(states[p], x)
      <3>1. CASE x.state # Null
        BY <1>2, <1>7, <3>1
      <3>2. CASE x.state = Null
        <4>1. x.clock = Own(p).clock /\ Knows(p, states[p].clock)
          BY <1>3, <1>5, <3>2 DEF Knows
        <4>2. states[p].clock < x.clock
          BY <1>2, <1>3, <1>6, <4>1 DEF Fresh
        <4>3. QED
          BY <4>2 DEF News
      <3>3. QED
        BY <3>1, <3>2
    <2>2. states[p].clock <= x.clock
      BY <1>5, <2>1 DEF News
    <2>3. QED
      BY <1>2, <1>7, <2>1, <2>2
  <1> SUFFICES ASSUME b # p, p \notin muted', Connected(b)'
               PROVE  /\ \A i, e : Told(down'[At(b)], i, e) /\ e.id = p =>
                            /\ e.clock <= x.clock
                            /\ (\A j, d : Told(down'[At(b)], j, d) /\ j > i => d.id # p) => e = x
                      /\ Spoken(b)' /\ p \notin stale[b] /\ view[b][p].state # Null =>
                            view[b][p].clock <= x.clock
                      /\ \E i : Told(down'[At(b)], i, x)
    <2>1. p \notin muted' => Entry(p, states[p])' = x /\ states'[p].clock = x.clock
      BY <1>2, <1>7 DEF Entry, FrameOf
    <2>2. QED
      BY <1>2, <1>3, <2>1 DEF Follows
  <1>8. /\ At(b) \in Sockets /\ At(b) # s /\ seat[At(b)] = "in" /\ At(At(b)[1]) = At(b)
        /\ Connected(b)
    BY <1>3, AtSocket
  <1>9. \A i, e : Told(down'[At(b)], i, e) <=>
           Told(down[At(b)], i, e) \/ (i = Len(down[At(b)]) + 1 /\ e = x)
    BY <1>4, <1>8
  <1>10. down[At(b)] \in Seq(Packets)
    BY <1>1, <1>8 DEF TypeOK, Packets
  <1>11. ASSUME NEW i, NEW e, Told(down[At(b)], i, e), e.id = p
         PROVE  /\ e.clock <= x.clock
                /\ \E j, d : Told(down'[At(b)], j, d) /\ j > i /\ d.id = p
    <2>1. i \in 1..Len(down[At(b)]) /\ Len(down[At(b)]) \in Nat /\ e \in FrameOf
      BY <1>10, <1>11, ToldFacts
    <2>2. e.clock <= x.clock
      <3>1. CASE p \notin muted
        <4>1. e.clock <= states[p].clock /\ e.clock \in Nat
          BY <1>6, <1>8, <1>11, <2>1, <3>1 DEF Follows, FrameOf
        <4>2. QED
          BY <1>5, <1>7, <4>1
      <3>2. CASE x = Said(p)
        <4>1. Knows(p, e.clock)
          BY <1>8, <1>11 DEF Knows
        <4>2. QED
          BY <1>5, <1>6, <3>2, <4>1 DEF Clocks
      <3>3. QED
        BY <1>7, <3>1, <3>2
    <2>3. Len(down[At(b)]) + 1 > i
      BY <2>1
    <2>4. QED
      BY <1>2, <1>9, <2>2, <2>3
  <1>12. ASSUME NEW i, NEW e, Told(down'[At(b)], i, e), e.id = p
         PROVE  /\ e.clock <= x.clock
                /\ (\A j, d : Told(down'[At(b)], j, d) /\ j > i => d.id # p) => e = x
    <2>1. CASE Told(down[At(b)], i, e)
      BY <1>11, <1>12, <2>1
    <2>2. CASE e = x
      BY <1>5, <2>2
    <2>3. QED
      BY <1>9, <1>12, <2>1, <2>2
  <1>13. ASSUME Spoken(b)', p \notin stale[b], view[b][p].state # Null
         PROVE  view[b][p].clock <= x.clock
    <2>1. CASE p \notin muted
      <3>1. Spoken(b)
        BY <1>3, <1>13, StaysSpoken
      <3>2. view[b][p].clock <= states[p].clock
        BY <1>6, <1>8, <1>13, <2>1, <3>1 DEF Follows
      <3>3. QED
        BY <1>5, <1>7, <3>2
    <2>2. CASE x = Said(p)
      <3>1. Knows(p, view[b][p].clock)
        BY DEF Knows
      <3>2. QED
        BY <1>5, <1>6, <2>2, <3>1 DEF Clocks
    <2>3. QED
      BY <1>7, <2>1, <2>2
  <1>14. QED
    BY <1>9, <1>12, <1>13

LEMMA AcceptWord == ASSUME ScreenInv, IInv', NEW s \in Sockets, Accept(s) PROVE WordInv'
  <1>1. CASE Refuses(s)
    BY <1>1, RefusesWord
  <1>2. ASSUME NEW x, Accepts(s, x) PROVE WordInv'
    <2>1. s[1] \in Pages
      BY SocketType
    <2>2. LineInv' /\ LifeInv'
      BY <1>2, AcceptsAside
    <2>3. ASSUME NEW c \in Pages
          PROVE  Clocks(c)' /\ Fresh(c)' /\ Single(c)' /\ Echo(c)' /\ Speaks(c)'
      <3>1. CASE c # s[1]
        BY <1>2, <3>1, AcceptsAside
      <3>2. CASE c = s[1]
        <4>1. Speaks(c)'
          BY <1>2, <3>2, AcceptsSpeaks
        <4>2. Clocks(s[1])' /\ Fresh(s[1])' /\ Single(s[1])' /\ Echo(s[1])'
          BY <1>2, AcceptsClocks
        <4>3. QED
          BY <3>2, <4>1, <4>2
      <3>3. QED
        BY <3>1, <3>2
    <2>4. ASSUME NEW b \in Pages, NEW c \in Pages PROVE Follows(b, c)'
      <3>1. CASE c # s[1]
        <4>1. /\ TypeOK /\ Follows(b, c) /\ states'[c] = states[c] /\ x.id # c
              /\ view' = view /\ stale' = stale /\ (c \in muted => c \in muted')
          BY <1>2, <3>1 DEF ScreenInv, WordInv, IInv, Accepts, page
        <4>2. \A t \in Sockets : \A i, e : Told(down'[t], i, e) <=>
                 \/ Told(down[t], i, e)
                 \/ (/\ t # s /\ seat[t] = "in" /\ At(t[1]) = t
                     /\ i = Len(down[t]) + 1 /\ e = x)
          BY <1>2, AcceptsLines
        <4>3. Untold(c)
          BY <4>1, <4>2 DEF Untold, UntoldAt
        <4>4. Stays(b)
          BY <1>2, AcceptsLines
        <4>5. QED
          BY <4>1, <4>3, <4>4, FollowsStands
      <3>2. CASE c = s[1]
        BY <1>2, <3>2, AcceptsFollows
      <3>3. QED
        BY <3>1, <3>2
    <2>5. QED
      BY <2>2, <2>3, <2>4 DEF WordInv
  <1>3. QED
    BY <1>1, <1>2, AcceptFacts DEF ScreenInv, WordInv, LineInv

\* Every step keeps the invariant.
LEMMA WordNext == ScreenInv /\ [Next]_vars => ScreenInv'
  <1> SUFFICES ASSUME ScreenInv, [Next]_vars PROVE IInv' /\ WordInv'
    BY DEF ScreenInv
  <1>1. IInv'
    BY NextInv DEF ScreenInv
  <1>2. ASSUME NEW p \in Pages, NEW v \in Values, Say(p, v) PROVE WordInv'
    BY <1>1, <1>2, SayWord
  <1>3. ASSUME NEW p \in Pages,
               Connect(p) \/ LoseConnection(p) \/ Leave(p) \/ Receive(p) \/ ServerTimesOut(p)
        PROVE  WordInv'
    BY <1>1, <1>3, ConnectWord, LoseConnectionWord, LeaveWord, ReceiveWord, ServerTimesOutWord
  <1>4. ASSUME NEW p \in Pages, NEW c \in Pages, PeerTimesOut(p, c) PROVE WordInv'
    BY <1>1, <1>4, PeerTimesOutWord
  <1>5. ASSUME NEW s \in Sockets, Join(s) \/ Accept(s) \/ Drop(s) \/ ServerNotices(s)
        PROVE  WordInv'
    BY <1>1, <1>5, JoinWord, AcceptWord, DropWord, ServerNoticesWord
  <1>6. CASE ReleaseRoom
    BY <1>1, <1>6, ReleaseRoomWord
  <1>7. CASE UNCHANGED vars
    BY <1>1, <1>7, StutterWord
  <1>8. QED
    BY <1>1, <1>2, <1>3, <1>4, <1>5, <1>6, <1>7 DEF Next

-----------------------------------------------------------------------------
(* The theorems.                                                           *)

\* The invariant holds in every reachable state.
THEOREM Invariance == Spec => []IInv
  <1>1. QED
    BY InitInv, NextInv, PTL DEF Spec

\* Types of the pages' and the server's awareness, the lines and the books.
THEOREM TypeCorrect == Spec => []TypeOK
  <1>1. IInv => TypeOK
    BY DEF IInv
  <1>2. QED
    BY <1>1, Invariance, PTL

\* Everybody has their own client id and no other, and whoever the server shows
\* is held by sockets in the room, each of which will let go of it: no ghost and
\* nobody locked out, through reconnects, drops, timeouts and releases of the
\* room (awareness.ts claim, releaseClients).
THEOREM BooksAreKept == Spec => []CursorsAreHeld
  <1>1. IInv => CursorsAreHeld
    <2> SUFFICES ASSUME IInv PROVE ShownIsHeld
      BY DEF IInv, CursorsAreHeld
    <2>1. ASSUME NEW p \in Pages
          PROVE  /\ states[p].state # Null => owner[p] # Nobody
                 /\ owner[p] # Nobody => owner[p].sockets # {}
                 /\ owner[p].sockets = {s \in live : p \in clients[s]}
      <3>1. {s \in Sockets : p \in clients[s]} = {s \in live : p \in clients[s]}
        BY DEF IInv, SeatInv, live
      <3>2. QED
        BY <3>1 DEF IInv, ShownInv, BooksInv
    <2>2. QED
      BY <2>1 DEF ShownIsHeld
  <1>2. QED
    BY <1>1, Invariance, PTL

\* A page that is shown is taken off the server's list by itself, by the end of
\* its last socket or by silence, and never by what another page says of it
\* (applyClientAwareness cuts that out).
THEOREM OnlyItselfRetracts == Spec => NobodyElseRetracts
  <1> DEFINE Lawful(c) ==
        states[c].state # Null /\ states'[c].state = Null
            => c \in closed \/ owner'[c] = Nobody \/ faults' # faults
  <1>1. ASSUME IInv, [Next]_vars, NEW c \in Pages PROVE Lawful(c)
    <2>1. ASSUME NEW s \in Sockets, Accept(s), states[c].state # Null, states'[c].state = Null
          PROVE  c \in closed
      <3> DEFINE own == {e \in Head(up[s]) : MayClaim(s, e)}
      <3>1. /\ up[s] # <<>> /\ closed' = closed
            /\ up' = [up EXCEPT ![s] = Tail(@)]
            /\ states' = Apply(Null, states, own)
        BY <2>1 DEF Accept, Allowed, page
      <3>2. Head(up[s]) \in SUBSET FrameOf /\ Honest(s, Head(up[s]), closed)
        BY <1>1, <3>1, HeadOfLine
      <3>3. \A e \in own : e \in FrameOf /\ (e.state = Null => e.id \in closed)
        BY <1>1, <3>2, ClaimFacts DEF Honest
      <3> HIDE DEF own
      <3>4. states \in [Pages -> States] /\ own \in SUBSET FrameOf
        BY <1>1, <3>3, TypeParts DEF IInv, ServerTypes
      <3>5. \E e \in own : e.id = c /\ e.state = Null
        BY <2>1, <3>1, <3>4, ApplyRetracts
      <3>6. QED
        BY <3>3, <3>5
    <2>2. ASSUME NEW s \in Sockets, ServerNotices(s), states[c].state # Null,
                 states'[c].state = Null
          PROVE  owner'[c] = Nobody
      BY <2>2 DEF ServerNotices
    <2>3. ASSUME NEW p \in Pages, ServerTimesOut(p) PROVE faults' # faults
      BY <1>1, <2>3 DEF ServerTimesOut, Fault, IInv, TypeOK
    <2>4. ASSUME ReleaseRoom PROVE owner'[c] = Nobody
      BY <2>4 DEF ReleaseRoom
    <2>5. ASSUME UNCHANGED states PROVE Lawful(c)
      BY <2>5
    <2>6. CASE \E s \in Sockets : Join(s) \/ Drop(s)
      BY <2>5, <2>6 DEF Join, Drop, server
    <2>7. CASE \E p \in Pages :
                  \/ \E v \in Values : Say(p, v)
                  \/ Connect(p) \/ LoseConnection(p) \/ Leave(p) \/ Receive(p)
                  \/ \E d \in Pages : PeerTimesOut(p, d)
      <3>1. UNCHANGED server
        BY <2>7 DEF Say, Connect, LoseConnection, Leave, Receive, PeerTimesOut
      <3>2. QED
        BY <2>5, <3>1 DEF server
    <2>8. CASE UNCHANGED vars
      BY <2>5, <2>8 DEF vars, server
    <2>9. QED
      BY <1>1, <2>1, <2>2, <2>3, <2>4, <2>6, <2>7, <2>8 DEF Next
  <1>2. IInv /\ [Next]_vars => [\A c \in Pages : Lawful(c)]_vars
    BY <1>1
  <1>3. QED
    BY <1>2, Invariance, PTL DEF Spec, NobodyElseRetracts

\* Once the frames have arrived, two connected pages show of one another what each
\* last said, and nobody shows a page that has no socket left: through reconnects, an
\* old socket's late timeout, retractions that pages relay and releases of the room
\* (board-session.ts onAwarenessUpdate, awareness.ts applyClientAwareness and
\* releaseClients). Not what was dropped or fell silent, nor who left while a page
\* was away.
THEOREM ScreensAreRight == Spec => []ScreensAgree
  <1>1. Init => ScreenInv
    BY InitInv, WordInit DEF ScreenInv
  <1>2. Spec => []ScreenInv
    BY <1>1, WordNext, PTL DEF Spec
  <1>3. QED
    BY <1>2, ScreensFollow, PTL
=============================================================================
