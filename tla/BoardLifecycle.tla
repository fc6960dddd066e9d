--------------------------- MODULE BoardLifecycle ---------------------------
(***************************************************************************)
(* One board id and the boards that have it in turn: the rows of boards    *)
(* and board_collaborators (boards/service.ts), the requests that create,  *)
(* extend, claim and delete a board (http/routes/boards.ts), the expiry    *)
(* sweep (jobs/expiry-sweep.ts), and who is connected                      *)
(* (realtime/gateway.ts).                                                  *)
(*                                                                         *)
(* A request reads the row, waits, and writes by id alone.  An action is   *)
(* one command of the database together with the code up to the next wait. *)
(* Races names the overlaps a run allows, so that each property can be     *)
(* checked under all that leave it standing, and refuted by the one that   *)
(* does not.                                                               *)
(***************************************************************************)
EXTENDS Naturals

CONSTANTS
    Users,       \* accounts
    NoUser,      \* null, for ownerId
    Clients,     \* open pages
    Calls,       \* slots for HTTP requests under way
    MaxBoards,   \* bound: boards that get the id in turn
    Races,       \* which of AllRaces may happen
    MaxCrashes   \* bound: crashes of the server

\* "requests": two requests at once.  "sweep": a request while the sweep is
\* between its reading and its deleting.  "entry": a connection that was let
\* in before the board went.  "early": one let in before createBoard is done.
\* "tabs": a page of an earlier board that reconnects.
AllRaces == {"requests", "sweep", "entry", "early", "tabs"}

ASSUME ConstantsAssumption ==
    /\ NoUser \notin Users
    /\ MaxBoards \in Nat \ {0}
    /\ Races \subseteq AllRaces
    /\ MaxCrashes \in Nat

VARIABLES
    board,     \* the row of boards, or NoBoard
    role,      \* the rows of board_collaborators
    made,      \* how many boards have had the id
    call,      \* the requests under way
    sweep,     \* where the expiry sweep is with this id
    docs,      \* the registry's entry: "none", "loading" or "ready"
    room,      \* entry.sockets
    client,    \* each page's connection
    page,      \* the board each page was loaded for, 0 for none
    detached,  \* clients whose document the registry no longer holds
    crashes    \* history: crashes so far

rows    == <<board, role, made>>
server  == <<docs, room, client, detached>>
vars    == <<rows, call, sweep, server, page, crashes>>

Board ==
    [n : 1..MaxBoards, owner : Users \cup {NoUser}, ephemeral : BOOLEAN,
     expires : {"never", "later", "past"}, key : BOOLEAN]
NoBoard ==
    [n |-> 0, owner |-> NoUser, ephemeral |-> FALSE, expires |-> "never",
     key |-> FALSE]

Exists  == board.n # 0
Expired == board.expires = "past"

\* board_collaborators goes with its board: ON DELETE CASCADE.
NoRoles == [u \in Users |-> "none"]

\* Where a request is: what it waits for.
Waits == {"idle", "created", "claiming", "extending", "found", "allowed",
          "deleted", "dropped"}
Resting == [at |-> "idle", user |-> NoUser]

Connecting == {c \in Clients : client[c] \in {"admitted", "opening"}}
Openers    == {c \in Clients : client[c] = "opening" /\ c \notin detached}
Inside     == {c \in Clients : client[c] = "in"}

-----------------------------------------------------------------------------
(* Requests.  Checks that fail return without a trace and are not steps.   *)

\* Only the overlaps the run allows.
MayBegin(k) ==
    /\ call[k] = Resting
    /\ "requests" \in Races \/ \A j \in Calls : call[j] = Resting
    /\ "sweep" \in Races \/ sweep = "idle"

Wait(k, what, u) == call' = [call EXCEPT ![k] = [at |-> what, user |-> u]]
Answer(k) == call' = [call EXCEPT ![k] = Resting]

\* createBoard: an insert, refused while another board has the id.  The
\* response waits for the log of the id's last board to be dropped.
CreateBoard(k, u) ==
    /\ MayBegin(k)
    /\ ~Exists
    /\ made < MaxBoards
    /\ made' = made + 1
    /\ board' = [n |-> made + 1, owner |-> u, ephemeral |-> u = NoUser,
                 expires |-> IF u = NoUser THEN "later" ELSE "never",
                 key |-> u = NoUser]
    /\ role' = [v \in Users |-> IF v = u THEN "owner" ELSE "none"]
    /\ Wait(k, "created", u)
    /\ UNCHANGED <<sweep, server, page, crashes>>

\* dropLogs at the end of createBoard.
FinishCreate(k) ==
    /\ call[k].at = "created"
    /\ Answer(k)
    /\ UNCHANGED <<rows, sweep, server, page, crashes>>

\* Mutant: claimBoard checks neither the owner nor the token.
AnyoneMayClaim == TRUE

\* claimBoard's checks; the caller shows the creator token of this board.
MayClaim == board.owner = NoUser /\ board.key

FindToClaim(k, u) ==
    /\ MayBegin(k)
    /\ Exists
    /\ MayClaim
    /\ Wait(k, "claiming", u)
    /\ UNCHANGED <<rows, sweep, server, page, crashes>>

\* Mutant: the claimed row is dated, not undated.
ClaimedNow(u) ==
    [board EXCEPT !.owner = u, !.ephemeral = FALSE, !.expires = "now",
                  !.key = FALSE]

Claimed(u) ==
    [board EXCEPT !.owner = u, !.ephemeral = FALSE, !.expires = "never",
                  !.key = FALSE]

\* claimBoard's update, by id: of the row that is there now.  With no row it
\* throws.
ClaimBoard(k) ==
    /\ call[k].at = "claiming"
    /\ \/ /\ Exists
          /\ board' = Claimed(call[k].user)
          /\ role' = [role EXCEPT ![call[k].user] = "owner"]
       \/ /\ ~Exists
          /\ UNCHANGED <<board, role>>
    /\ Answer(k)
    /\ UNCHANGED <<made, sweep, server, page, crashes>>

\* extendBoard's checks.
MayExtend == board.key /\ board.ephemeral

FindToExtend(k) ==
    /\ MayBegin(k)
    /\ Exists
    /\ MayExtend
    /\ Wait(k, "extending", NoUser)
    /\ UNCHANGED <<rows, sweep, server, page, crashes>>

\* extendBoard's update, by id as well.
ExtendBoard(k) ==
    /\ call[k].at = "extending"
    /\ board' = IF Exists THEN [board EXCEPT !.expires = "later"] ELSE board
    /\ Answer(k)
    /\ UNCHANGED <<role, made, sweep, server, page, crashes>>

\* deleteBoard: find, then ask for the role.
FindToDelete(k, u) ==
    /\ MayBegin(k)
    /\ Exists
    /\ Wait(k, "found", u)
    /\ UNCHANGED <<rows, sweep, server, page, crashes>>

\* Who is not the owner is told so; who is waits for deleteAssets.
CheckRole(k) ==
    /\ call[k].at = "found"
    /\ IF role[call[k].user] = "owner" THEN Wait(k, "allowed", call[k].user)
                                       ELSE Answer(k)
    /\ UNCHANGED <<rows, sweep, server, page, crashes>>

DropRow == board' = NoBoard /\ role' = NoRoles /\ UNCHANGED made

NobodyConnecting == "entry" \in Races \/ Connecting = {}

\* deleteBoard's delete, by id; with no row it throws.
DeleteRow(k) ==
    /\ call[k].at = "allowed"
    /\ \/ Exists /\ NobodyConnecting /\ DropRow /\ Wait(k, "deleted", call[k].user)
       \/ ~Exists /\ UNCHANGED rows /\ Answer(k)
    /\ UNCHANGED <<sweep, server, page, crashes>>

\* dropLogs at the end of deleteBoard.
DropLog(k) ==
    /\ call[k].at = "deleted"
    /\ Wait(k, "dropped", call[k].user)
    /\ UNCHANGED <<rows, sweep, server, page, crashes>>

\* Mutant: the document goes and everybody stays connected.
DropDocOnly(k) ==
    /\ call[k].at = "dropped"
    /\ docs' = "none"
    /\ room' = {}
    /\ Answer(k)
    /\ UNCHANGED <<rows, sweep, client, detached, page, crashes>>

\* evictBoard: the document goes, then everybody in the room is disconnected.
\* Who is still loading it comes out with a document nobody holds.
EvictBoard(k) ==
    /\ call[k].at = "dropped"
    /\ docs' = "none"
    /\ room' = {}
    /\ detached' = (detached \cup Openers) \ Inside
    /\ client' = [c \in Clients |-> IF c \in Inside THEN "away" ELSE client[c]]
    /\ Answer(k)
    /\ UNCHANGED <<rows, sweep, page, crashes>>

Proceed(k) ==
    \/ FinishCreate(k) \/ ClaimBoard(k) \/ ExtendBoard(k)
    \/ CheckRole(k) \/ DeleteRow(k) \/ DropLog(k) \/ EvictBoard(k)

-----------------------------------------------------------------------------
(* Time and the expiry sweep.                                              *)

\* The expiry date goes by.
TimePasses ==
    /\ board.expires = "later"
    /\ board' = [board EXCEPT !.expires = "past"]
    /\ UNCHANGED <<role, made, call, sweep, server, page, crashes>>

\* Mutant: boards still in use are collected as well.
CollectableAnyway == TRUE

\* A board with a document in memory is skipped.
Collectable == docs = "none"

SweepReads ==
    /\ sweep = "idle"
    /\ Expired
    /\ NobodyConnecting
    /\ "sweep" \in Races \/ \A k \in Calls : call[k] = Resting
    /\ sweep' = "read"
    /\ UNCHANGED <<rows, call, server, page, crashes>>

SweepFilters ==
    /\ sweep = "read"
    /\ sweep' = IF Collectable THEN "deleting" ELSE "idle"
    /\ UNCHANGED <<rows, call, server, page, crashes>>

\* The assets are gone; deleteMany takes the rows by id, if there are any.
SweepDeletes ==
    /\ sweep = "deleting"
    /\ NobodyConnecting
    /\ IF Exists THEN DropRow ELSE UNCHANGED rows
    /\ sweep' = "swept"
    /\ UNCHANGED <<call, server, page, crashes>>

\* dropLogs at the end of the sweep.
SweepDrops ==
    /\ sweep = "swept"
    /\ sweep' = "idle"
    /\ UNCHANGED <<rows, call, server, page, crashes>>

-----------------------------------------------------------------------------
(* Connections.                                                            *)

\* A page is opened or reloaded: liveBoardOr404, then a new session.
OpenPage(c) ==
    /\ client[c] \in {"away", "refused"}
    /\ Exists
    /\ ~Expired
    /\ page' = [page EXCEPT ![c] = board.n]
    /\ client' = [client EXCEPT ![c] = "away"]
    /\ UNCHANGED <<rows, call, sweep, docs, room, detached, crashes>>

\* findBoardLifecycle and isExpired.
Admits == Exists /\ ~Expired

\* The handshake reads the row and goes on to read the session.  A refusal
\* is final for the page.
Handshake(c) ==
    /\ client[c] = "away"
    /\ page[c] # 0
    /\ page[c] = board.n \/ ~Exists \/ "tabs" \in Races
    /\ "early" \in Races \/ \A k \in Calls : call[k].at # "created"
    /\ client' = [client EXCEPT ![c] = IF Admits THEN "admitted" ELSE "refused"]
    /\ UNCHANGED <<rows, call, sweep, docs, room, page, detached, crashes>>

\* touchCollaborator for those of an arriving party who signed in: an upsert
\* that leaves a role there is alone, and fails without a board.
Touch(us) ==
    role' = [u \in Users |->
               IF Exists /\ u \in us /\ role[u] = "none" THEN "editor" ELSE role[u]]

\* Mutant: the room is empty and the document stays.
StaysOpen == docs

\* releaseBoard saves and then drops the document.  A save of a board whose
\* row is gone fails, and the document stays.
SaveSucceeds == Exists

AfterLastOne == IF SaveSucceeds THEN "none" ELSE docs

\* joinBoard: acquireDoc puts an entry in the registry and waits for its load.
\* One that is loaded already is joined at once.
JoinBoard(c) ==
    /\ client[c] = "admitted"
    /\ \/ /\ docs = "ready"
          /\ client' = [client EXCEPT ![c] = "in"]
          /\ room' = room \cup {c}
          /\ \E us \in SUBSET Users : Touch(us)
          /\ UNCHANGED docs
       \/ /\ docs # "ready"
          /\ docs' = "loading"
          /\ client' = [client EXCEPT ![c] = "opening"]
          /\ UNCHANGED <<role, room>>
    /\ UNCHANGED <<board, made, call, sweep, page, detached, crashes>>

\* The load is done: who awaited it is tracked, unless gone meanwhile.
Loaded(gone) ==
    /\ docs = "loading"
    /\ Openers # {}
    /\ room' = room \cup (Openers \ gone)
    /\ client' = [c \in Clients |->
                    IF c \notin Openers THEN client[c]
                    ELSE IF c \in gone THEN "away" ELSE "in"]
    /\ docs' = IF room' = {} /\ SaveSucceeds THEN "none" ELSE "ready"
    /\ \E us \in SUBSET Users : Touch(us)
    /\ UNCHANGED <<board, made, call, sweep, page, detached, crashes>>

\* The same for a document that was dropped while it was loading: trackSocket
\* finds no entry, or that of a later document.
LoadedInVain(c) ==
    /\ client[c] = "opening"
    /\ c \in detached
    /\ client' = [client EXCEPT ![c] = "in"]
    /\ room' = IF docs # "none" THEN room \cup {c} ELSE room
    /\ \E us \in SUBSET Users : Touch(us)
    /\ UNCHANGED <<board, made, call, sweep, docs, page, detached, crashes>>

\* The disconnect handler: untrackSocket, and the last one out releases.
Leave(c) ==
    /\ client[c] = "in"
    /\ client' = [client EXCEPT ![c] = "away"]
    /\ room' = room \ {c}
    /\ docs' = IF room' = {} THEN AfterLastOne ELSE docs
    /\ detached' = (detached \ {c}) \cup (IF docs' = "none" THEN Openers ELSE {})
    /\ UNCHANGED <<rows, call, sweep, page, crashes>>

\* The process ends, and with it the requests, the sweep and all memory.
Crash ==
    /\ crashes < MaxCrashes
    /\ crashes' = crashes + 1
    /\ call' = [k \in Calls |-> Resting]
    /\ sweep' = "idle"
    /\ docs' = "none"
    /\ room' = {}
    /\ detached' = {}
    /\ client' = [c \in Clients |->
                    IF client[c] = "refused" THEN "refused" ELSE "away"]
    /\ UNCHANGED <<rows, page>>

-----------------------------------------------------------------------------
Init ==
    /\ board = NoBoard
    /\ role = NoRoles
    /\ made = 0
    /\ call = [k \in Calls |-> Resting]
    /\ sweep = "idle"
    /\ docs = "none"
    /\ room = {}
    /\ client = [c \in Clients |-> "away"]
    /\ page = [c \in Clients |-> 0]
    /\ detached = {}
    /\ crashes = 0

Next ==
    \/ \E k \in Calls, u \in Users \cup {NoUser} : CreateBoard(k, u)
    \/ \E k \in Calls, u \in Users : FindToClaim(k, u) \/ FindToDelete(k, u)
    \/ \E k \in Calls : FindToExtend(k)
    \/ \E k \in Calls : Proceed(k)
    \/ TimePasses
    \/ SweepReads \/ SweepFilters \/ SweepDeletes \/ SweepDrops
    \/ \E c \in Clients : \/ OpenPage(c) \/ Handshake(c) \/ JoinBoard(c)
                          \/ LoadedInVain(c) \/ Leave(c)
    \/ \E gone \in SUBSET Clients : Loaded(gone)
    \/ Crash

Spec == Init /\ [][Next]_vars

\* The interval timer goes on; a database and a load answer; a refusal to
\* begin in MayBegin and SweepReads is the run's, not the code's, so the timer
\* is not held up for ever by requests that keep coming.
Fairness ==
    /\ SF_vars(SweepReads)
    /\ WF_vars(SweepFilters) /\ WF_vars(SweepDeletes) /\ WF_vars(SweepDrops)
    /\ \A k \in Calls : WF_vars(Proceed(k))

FairSpec == Spec /\ Fairness

-----------------------------------------------------------------------------
TypeOK ==
    /\ board \in Board \cup {NoBoard}
    /\ role \in [Users -> {"none", "editor", "owner"}]
    /\ made \in 0..MaxBoards
    /\ call \in [Calls -> [at : Waits, user : Users \cup {NoUser}]]
    /\ sweep \in {"idle", "read", "deleting", "swept"}
    /\ docs \in {"none", "loading", "ready"}
    /\ room \subseteq Clients
    /\ client \in [Clients -> {"away", "refused", "admitted", "opening", "in"}]
    /\ page \in [Clients -> 0..MaxBoards]
    /\ detached \subseteq Clients
    /\ crashes \in 0..MaxCrashes

\* An owner is one of the board's collaborators, with that role, and the
\* creator token stopped working the moment there was an owner
\* (boards/service.ts:212), whatever requests overlapped.
OwnershipIsRecorded ==
    board.owner # NoUser =>
        role[board.owner] = "owner" /\ ~board.key /\ ~board.ephemeral

\* Only the board's owner has the role that renames and deletes it:
\* "only while it has no owner" (http/routes/boards.ts:287).
OneOwner == \A u \in Users : role[u] = "owner" => board.owner = u

\* "an owned board is permanent" (jobs/expiry-sweep.test.ts:59): nothing ever
\* dates one.
OwnedNeverExpires == board.owner # NoUser => board.expires = "never"

\* Who owns a board: on record, alone and for good.
OwnershipHolds == OwnershipIsRecorded /\ OneOwner /\ OwnedNeverExpires

\* The sweep "never touches a board with no expiry — an owned board is permanent"
\* (jobs/expiry-sweep.test.ts:59): what it deletes has no owner when it does.
SweepSparesTheOwned ==
    [][(sweep = "deleting" /\ sweep' = "swept" /\ Exists) => board.owner = NoUser]_vars

\* What the sweep deletes has expired, has no owner, and nobody is on it
\* (jobs/expiry-sweep.ts:41-47).
SweepTakesTheAbandoned ==
    [][(sweep = "deleting" /\ sweep' = "swept" /\ Exists) =>
         Expired /\ board.owner = NoUser /\ room = {}]_vars

\* Once a board is gone and what removed it has finished, "everyone off it, and
\* nothing of it left in memory" (realtime/gateway.ts:366).
GoneMeansGone ==
    (~Exists /\ sweep = "idle" /\ \A k \in Calls : call[k] = Resting) =>
        docs = "none" /\ Inside = {}

\* Whoever is on a board works on the document the registry saves and serves;
\* applyClientUpdate drops the edits of everybody else without a word
\* (realtime/yjs-bridge.ts:100).
InsideIsServed == Inside = room /\ detached = {}

\* What a delete leaves: nobody inside, and no document that nobody serves.
DeletedIsGone == GoneMeansGone /\ InsideIsServed

Abandoned ==
    /\ Expired
    /\ \A c \in Clients : client[c] \notin {"admitted", "opening", "in"}

\* A guest board that has expired with nobody on it is collected, extended or
\* claimed: "the next pass will collect it once they leave"
\* (jobs/expiry-sweep.ts:46).
ExpiredIsCollected == Abandoned ~> ~Abandoned
=============================================================================
