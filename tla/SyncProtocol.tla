---------------------------- MODULE SyncProtocol ----------------------------
(***************************************************************************)
(* How the browsers on one board and the server come to hold the same      *)
(* document: the two-step sync, the relaying of changes, the drops of      *)
(* realtime/limits.ts and realtime/yjs-bridge.ts with the resync that      *)
(* makes up for them, and reconnection (front-end board-session.ts).       *)
(*                                                                         *)
(* A Yjs document is the items it holds and the deletions it knows of.  An *)
(* item <<c, n>> is the n-th that client c made: it integrates once c's    *)
(* earlier ones have, and a deletion once its item has.  A state vector    *)
(* names a set of integrated items.  Browsers keep what they cannot        *)
(* integrate yet; the server discards it once it has applied an update,    *)
(* until when it may have some from a log with a gap in it.  A connection  *)
(* of a browser is a pair of FIFO channels, gone with it.                  *)
(***************************************************************************)
EXTENDS Naturals, Sequences, FiniteSets

CONSTANTS
    Clients,
    MaxItems,     \* bound: items one client makes
    MaxErased,    \* bound: deletions a behaviour makes
    MaxChanges,   \* bound: items and deletions together
    Capacity,     \* MAX_BOARD_BYTES and MAX_UPDATE_BYTES, in items
    FaultKinds,   \* which of "fast", "drop", "restart" may happen
    MaxFaults     \* bound: faults in a behaviour

ASSUME ConstantsAssumption ==
    /\ IsFiniteSet(Clients)
    /\ MaxItems \in Nat
    /\ MaxErased \in Nat
    /\ MaxChanges \in Nat
    /\ Capacity \in Nat
    /\ MaxFaults \in Nat

VARIABLES
    held,       \* the server's document, what is integrated of it
    pending,    \* and what a replay left pending in it
    bytes,      \* entry.bytes: its size when last measured, and all since
    recent,     \* whether it was measured within the last second
    doc,        \* each browser's document
    link,       \* "down"; "open": connected, joinBoard not done; "joined"
    up,         \* browser to server, on the current connection
    down,       \* server to browser
    resync,     \* whether the socket's resync timer is set
    refused,    \* refusedForRoom of the socket
    oversized,  \* history: an update of this client's was turned away as too large
    unsynced,   \* the local copy's mark: it may hold work the server lacks
    faults      \* history: faults so far

vars == <<held, pending, bytes, recent, doc, link, up, down, resync, refused, oversized, unsynced, faults>>

Items == Clients \X (1..MaxItems)
Docs  == [items : SUBSET Items, erased : SUBSET Items]
Empty == [items |-> {}, erased |-> {}]

\* What of a set of items Yjs can integrate.
Whole(items) == {i \in items : \A n \in 1..i[2] : <<i[1], n>> \in items}

Union(d, e) == [items |-> d.items \cup e.items, erased |-> d.erased \cup e.erased]

Minus(d, e) == [items |-> d.items \ e.items, erased |-> d.erased \ e.erased]

Integrated(d) == [items |-> Whole(d.items), erased |-> d.erased \cap Whole(d.items)]

\* Mutant: the browser and the server name an event differently.
MisnamedStep(vector) == [kind |-> "sync_step", vector |-> vector]

\* Messages (protocol/events.ts): a state vector, an update, the greeting.
Step(vector) == [kind |-> "step", vector |-> vector]
Update(d) == [kind |-> "update", content |-> d]
Greeting == [kind |-> "joined"]

Messages ==
    [kind : {"joined"}] \cup [kind : {"step"}, vector : SUBSET Items]
        \cup [kind : {"update"}, content : Docs]

\* Y.encodeStateAsUpdate: the items past the vector, and every deletion.
Since(d, vector) == [items |-> d.items \ vector, erased |-> d.erased]

Fault(kind) ==
    /\ kind \in FaultKinds
    /\ faults < MaxFaults
    /\ faults' = faults + 1

-----------------------------------------------------------------------------
(* The browser.                                                            *)

\* socket.connected.
Connected(c) == link[c] # "down"

\* onDocUpdate for a change this browser made.
MakeChange(c, change) ==
    /\ doc' = [doc EXCEPT ![c] = Union(@, change)]
    /\ \/ /\ Connected(c)
          /\ up' = [up EXCEPT ![c] = Append(@, Update(change))]
          /\ UNCHANGED unsynced
       \/ /\ ~Connected(c)
          /\ unsynced' = unsynced \cup {c}
          /\ UNCHANGED up
    /\ UNCHANGED <<held, pending, bytes, recent, link, down, resync, refused, oversized, faults>>

Erased == UNION {doc[b].erased : b \in Clients}
Made   == UNION {doc[b].items : b \in Clients}

MayChange == Cardinality(Made) + Cardinality(Erased) < MaxChanges

Draw(c, n) ==
    /\ MayChange
    /\ <<c, n>> \notin doc[c].items
    /\ <<c, n>> \in Whole(doc[c].items \cup {<<c, n>>})
    /\ MakeChange(c, [items |-> {<<c, n>>}, erased |-> {}])

Erase(c, i) ==
    /\ i \in Whole(doc[c].items) \ doc[c].erased
    /\ MayChange
    /\ Cardinality(Erased) < MaxErased
    /\ MakeChange(c, [items |-> {}, erased |-> {i}])

\* Socket.IO connects, on its own or because board-session went back.
Connect(c) ==
    /\ link[c] = "down"
    /\ link' = [link EXCEPT ![c] = "open"]
    /\ UNCHANGED <<held, pending, bytes, recent, doc, up, down, resync, refused, oversized, unsynced, faults>>

Receive(c, kind) ==
    /\ down[c] # <<>>
    /\ Head(down[c]).kind = kind
    /\ down' = [down EXCEPT ![c] = Tail(@)]

\* board:joined: send our state vector.
HearGreeting(c) ==
    /\ Receive(c, "joined")
    /\ up' = [up EXCEPT ![c] = Append(@, Step(Whole(doc[c].items)))]
    /\ UNCHANGED <<held, pending, bytes, recent, doc, link, resync, refused, oversized, unsynced, faults>>

\* sync:step: send all the server lacks.
HearStep(c) ==
    /\ Receive(c, "step")
    /\ up' = [up EXCEPT ![c] = Append(@, Update(Since(doc[c], Head(down[c]).vector)))]
    /\ unsynced' = unsynced \ {c}
    /\ UNCHANGED <<held, pending, bytes, recent, doc, link, resync, refused, oversized, faults>>

\* sync:update: apply it as REMOTE.
HearUpdate(c) ==
    /\ Receive(c, "update")
    /\ doc' = [doc EXCEPT ![c] = Union(@, Head(down[c]).content)]
    /\ UNCHANGED <<held, pending, bytes, recent, link, up, resync, refused, oversized, unsynced, faults>>

-----------------------------------------------------------------------------
(* The server.                                                             *)

\* joinBoard once the document is there: greet, advertise, attach handlers.
JoinBoard(c) ==
    /\ link[c] = "open"
    /\ link' = [link EXCEPT ![c] = "joined"]
    /\ down' = [down EXCEPT ![c] = @ \o <<Greeting, Step(held.items)>>]
    /\ UNCHANGED <<held, pending, bytes, recent, doc, up, resync, refused, oversized, unsynced, faults>>

Take(c, kind) ==
    /\ up[c] # <<>>
    /\ Head(up[c]).kind = kind
    /\ up' = [up EXCEPT ![c] = Tail(@)]

\* No handler is attached yet: the event is lost.
MissEvent(c) ==
    /\ link[c] = "open"
    /\ \E kind \in {"step", "update"} : Take(c, kind)
    /\ UNCHANGED <<held, pending, bytes, recent, doc, link, down, resync, refused, oversized, unsynced, faults>>

\* What Y.encodeStateAsUpdate takes the server's document to be.
Encoded == Union(held, pending)

\* sendMissingUpdates.
AnswerStep(c) ==
    /\ link[c] = "joined"
    /\ Take(c, "step")
    /\ down' = [down EXCEPT ![c] = Append(@, Update(Since(Encoded, Head(up[c]).vector)))]
    /\ UNCHANGED <<held, pending, bytes, recent, doc, link, resync, refused, oversized, unsynced, faults>>

\* Mutant: an update over the rate is dropped and nothing follows.
DropQuietly(c) ==
    /\ link[c] = "joined"
    /\ Take(c, "update")
    /\ Fault("fast")
    /\ UNCHANGED <<held, pending, bytes, recent, doc, link, down, resync, refused, oversized, unsynced>>

\* An update over the rate: dropped, and asked for again later.
DropTooFast(c) ==
    /\ link[c] = "joined"
    /\ Take(c, "update")
    /\ Fault("fast")
    /\ resync' = resync \cup {c}
    /\ UNCHANGED <<held, pending, bytes, recent, doc, link, down, refused, oversized, unsynced>>

Arriving(c) == Head(up[c]).content

\* A document with what it can take of an update.
Applied(d, u) == Integrated(Union(d, u))

\* Something then leans on what the document lacks.
Behind(d, u) == Applied(d, u) # Union(d, u)

TooLarge(u) == Cardinality(u.items) > Capacity

Size(d) == Cardinality(d.items \ d.erased)

\* hasRoom has its doubts, and measures at most once a second.
MeasuresFor(u) == bytes + Cardinality(u.items) > Capacity /\ ~recent

\* Mutant: a board measured a moment ago is taken to have room.
RoomUnlessMeasured(u) == MeasuresFor(u) => Size(Encoded) + Cardinality(u.items) <= Capacity

\* hasRoom of the update or, failing that, of what the server lacks of it.
HasRoom(u) ==
    (IF MeasuresFor(u) THEN Size(Encoded) ELSE bytes)
        + Cardinality(u.items \ held.items) <= Capacity

Measure(d) == bytes' = Size(d) /\ recent' = TRUE

\* applyClientUpdate: "too_large".
RefuseLarge(c) ==
    /\ link[c] = "joined"
    /\ Take(c, "update")
    /\ TooLarge(Arriving(c))
    /\ oversized' = oversized \cup {c}
    /\ UNCHANGED <<held, pending, bytes, recent, doc, link, down, resync, refused, unsynced, faults>>

\* applyClientUpdate: "board_full".
RefuseFull(c) ==
    /\ link[c] = "joined"
    /\ Take(c, "update")
    /\ ~TooLarge(Arriving(c))
    /\ Arriving(c).items # {}
    /\ ~HasRoom(Arriving(c))
    /\ refused' = refused \cup {c}
    /\ IF MeasuresFor(Arriving(c)) THEN Measure(Encoded) ELSE UNCHANGED <<bytes, recent>>
    /\ UNCHANGED <<held, pending, doc, link, down, resync, oversized, unsynced, faults>>

\* Mutant: an update that leant on something missing is not followed up.
NotChased(c, u) == c \in refused

\* Mutant: what was refused before is forgotten with the next update.
NotAfterRefusal(c, u) == Behind(Encoded, u)

\* Whether an applied update is followed by resyncSoon.
Chased(c, u) == c \in refused \/ Behind(Encoded, u)

\* applyClientUpdate: "applied".  What changed goes to the rest of the room.
ApplyUpdate(c) ==
    LET u == Arriving(c)
        change == Minus(Applied(Encoded, u), held)
    IN  /\ link[c] = "joined"
        /\ Take(c, "update")
        /\ ~TooLarge(u)
        /\ u.items = {} \/ HasRoom(u)
        /\ held' = Applied(Encoded, u)
        /\ pending' = Empty
        /\ LET measures == u.items # {} /\ MeasuresFor(u)
           IN  /\ bytes' = (IF measures THEN Size(Encoded) ELSE bytes)
                               + Cardinality(change.items)
               /\ recent' = (recent \/ measures)
        /\ down' = [b \in Clients |->
               IF b # c /\ link[b] = "joined" /\ change # Empty
               THEN Append(down[b], Update(change)) ELSE down[b]]
        /\ resync' = IF Chased(c, u) THEN resync \cup {c} ELSE resync
        /\ refused' = refused \ {c}
        /\ UNCHANGED <<doc, link, oversized, unsynced, faults>>

\* The resync timer.
SendStep(c) ==
    /\ c \in resync
    /\ resync' = resync \ {c}
    /\ down' = [down EXCEPT ![c] = Append(@, Step(held.items))]
    /\ UNCHANGED <<held, pending, bytes, recent, doc, link, up, refused, oversized, unsynced, faults>>

\* The snapshot writer has encoded the document (setBytes).
Snapshot ==
    /\ Measure(Encoded)
    /\ UNCHANGED <<held, pending, doc, link, up, down, resync, refused, oversized, unsynced, faults>>

\* MEASURE_MIN_MS go by.
SecondPasses ==
    /\ recent
    /\ recent' = FALSE
    /\ UNCHANGED <<held, pending, bytes, doc, link, up, down, resync, refused, oversized,
                   unsynced, faults>>

-----------------------------------------------------------------------------
(* The network, and the server process.                                    *)

\* Connections of these clients end, with what was on its way.
Cut(gone) ==
    /\ link' = [c \in Clients |-> IF c \in gone THEN "down" ELSE link[c]]
    /\ up' = [c \in Clients |-> IF c \in gone THEN <<>> ELSE up[c]]
    /\ down' = [c \in Clients |-> IF c \in gone THEN <<>> ELSE down[c]]
    /\ resync' = resync \ gone
    /\ refused' = refused \ gone

Disconnect(c) ==
    /\ link[c] # "down"
    /\ Fault("drop")
    /\ Cut({c})
    /\ UNCHANGED <<held, pending, bytes, recent, doc, oversized, unsynced>>

\* The server comes back with some of its document: BoardPersistence says which.
Restart ==
    /\ Fault("restart")
    /\ \E items \in SUBSET Encoded.items, erased \in SUBSET Encoded.erased :
        LET left == [items |-> items, erased |-> erased]
        IN  /\ held' = Integrated(left)
            /\ pending' = Minus(left, Integrated(left))
            /\ bytes' = Cardinality(items)
    /\ recent' = FALSE
    /\ Cut(Clients)
    /\ UNCHANGED <<doc, oversized, unsynced>>

-----------------------------------------------------------------------------
Init ==
    /\ held = Empty
    /\ pending = Empty
    /\ bytes = 0
    /\ recent = FALSE
    /\ doc = [c \in Clients |-> Empty]
    /\ link = [c \in Clients |-> "down"]
    /\ up = [c \in Clients |-> <<>>]
    /\ down = [c \in Clients |-> <<>>]
    /\ resync = {}
    /\ refused = {}
    /\ oversized = {}
    /\ unsynced = {}
    /\ faults = 0

ServerTakes(c) ==
    \/ MissEvent(c) \/ AnswerStep(c) \/ DropTooFast(c)
    \/ RefuseLarge(c) \/ RefuseFull(c) \/ ApplyUpdate(c)

BrowserHears(c) == HearGreeting(c) \/ HearStep(c) \/ HearUpdate(c)

Next ==
    \/ \E c \in Clients, n \in 1..MaxItems : Draw(c, n)
    \/ \E c \in Clients, i \in Items : Erase(c, i)
    \/ \E c \in Clients :
        \/ Connect(c) \/ BrowserHears(c)
        \/ JoinBoard(c) \/ ServerTakes(c) \/ SendStep(c) \/ Disconnect(c)
    \/ Snapshot \/ SecondPasses \/ Restart

Spec == Init /\ [][Next]_vars

\* Sockets reconnect, what is sent on a connection that lasts is handled, and
\* timers fire.  Nobody has to draw.
Fairness ==
    \A c \in Clients :
        /\ WF_vars(Connect(c)) /\ WF_vars(JoinBoard(c)) /\ WF_vars(SendStep(c))
        /\ WF_vars(ServerTakes(c)) /\ WF_vars(BrowserHears(c))

FairSpec == Spec /\ Fairness
-----------------------------------------------------------------------------
(* Properties.                                                             *)

TypeOK ==
    /\ held \in Docs
    /\ pending \in Docs
    /\ bytes \in Nat
    /\ recent \in BOOLEAN
    /\ doc \in [Clients -> Docs]
    /\ link \in [Clients -> {"down", "open", "joined"}]
    /\ up \in [Clients -> Seq(Messages)]
    /\ down \in [Clients -> Seq(Messages)]
    /\ resync \subseteq Clients
    /\ refused \subseteq Clients
    /\ oversized \subseteq Clients
    /\ unsynced \subseteq Clients
    /\ faults \in Nat

\* The board never outgrows its ceiling, however many clients catch up at once
\* (hasRoom, MAX_BOARD_BYTES).  Only a restart that loses deletions may bring it
\* back larger.
BoardFits ==
    [][(Size(held') > Size(held) /\ \E c \in Clients : link'[c] # "down")
         => Size(held') <= Capacity]_vars

\* A browser has all that the server has, and the server all that it has, unless
\* it was told that the board is full or its change too large.
UpToDate(c) ==
    /\ held.items \subseteq doc[c].items
    /\ held.erased \subseteq doc[c].erased
    /\ c \notin refused \cup oversized => Integrated(doc[c]) = held

Quiet(c) == link[c] = "joined" /\ up[c] = <<>> /\ down[c] = <<>> /\ c \notin resync

\* No silent hole: once nothing is on its way to or from a browser on the board
\* and no resync is due, it is up to date (resyncSoon, sendInitialSync).
QuietIsSynced == \A c \in Clients : Quiet(c) => UpToDate(c)

\* Work is only late, or refused and said to be: in the end everybody has what
\* anybody drew.
Converges == <>[](\A c \in Clients : UpToDate(c))

FitsNow(c) == Cardinality((held.items \cup doc[c].items) \ held.erased) <= Capacity

\* What an update leans on and the server lacks "is always the sender's to supply"
\* (yjs-bridge.ts), so asking the sender for it is enough.
MissingIsTheSenders ==
    \A c \in Clients :
        link[c] = "joined" /\ up[c] # <<>> /\ Head(up[c]).kind = "update"
            => Arriving(c).items \cup Arriving(c).erased
                   \subseteq Whole(held.items \cup doc[c].items)

\* What a board had no room for is asked for again "once there is room again"
\* (protocol/events.ts).
RefusedIsAskedAgain ==
    \A c \in Clients :
        c \in refused /\ FitsNow(c) ~> c \notin refused \/ ~FitsNow(c)

\* A browser off the board whose copy has work the server lacks says so ("Record
\* whether the copy holds work the server may not have", local-copy.ts).
OfflineWorkIsMarked ==
    \A c \in Clients :
        link[c] = "down" /\ ~(doc[c].items \subseteq held.items) => c \in unsynced
=============================================================================
