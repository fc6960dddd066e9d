----------------------------- MODULE BoardReuse -----------------------------
(***************************************************************************)
(* What is drawn on the boards that have one id in turn: the blob          *)
(* (board_docs), the update log in Redis, the document in memory and the   *)
(* pages' own documents, under every step of BoardLifecycle.               *)
(*                                                                         *)
(* Content is told apart by the board it was drawn on, and by nothing      *)
(* else.  A sync merges both sides at once (SyncProtocol has its steps), a *)
(* save is atomic (BoardPersistence has its steps), and Redis answers.     *)
(***************************************************************************)
EXTENDS BoardLifecycle

VARIABLES
    stored,    \* board_docs.docState: the boards whose drawings it holds
    log,       \* the update log filed under the id
    content,   \* entry.doc
    copy,      \* each page's own document, and its local copy
    visit      \* history: the board each page was last let into, 0 for none

drawings  == <<stored, log, content, copy, visit>>
reuseVars == <<vars, drawings>>

DropLogs == log' = {}

\* Mutant: a new board starts with the log it finds.
KeepLog == log' = log

\* createBoard drops the log of the id's last board.
DropEarlierLog == DropLogs

\* A page joins a document: each takes what the other has, and what the
\* document lacked is logged and relayed to the room.
Merge(doc, arriving) ==
    LET whole == doc \cup UNION {copy[c] : c \in arriving}
    IN  /\ content' = whole
        /\ log' = log \cup (whole \ doc)
        /\ copy' = [c \in Clients |->
                      IF c \in arriving THEN whole
                      ELSE IF c \in Inside THEN copy[c] \cup (whole \ doc)
                      ELSE copy[c]]

\* Mutant: the log is trimmed and nothing saved.
TrimOnly(doc) == stored' = stored /\ log' = {}

\* saveDocState and the trim after it.
Save(doc) == stored' = doc /\ log' = {}

\* The document is saved and dropped, or, its board being gone, neither.
SaveAndDrop(doc) ==
    IF SaveSucceeds THEN Save(doc) /\ content' = {}
                    ELSE content' = doc /\ UNCHANGED <<stored, log>>

-----------------------------------------------------------------------------
(* The steps of BoardLifecycle, with what they do to the content.          *)

RFinishCreate(k) ==
    FinishCreate(k) /\ DropEarlierLog /\ UNCHANGED <<stored, content, copy, visit>>

\* board_docs goes with its board: ON DELETE CASCADE.
Cascade == IF board'.n = 0 THEN {} ELSE stored

RDeleteRow(k) ==
    DeleteRow(k) /\ stored' = Cascade /\ UNCHANGED <<log, content, copy, visit>>

RDropLog(k) == DropLog(k) /\ DropLogs /\ UNCHANGED <<stored, content, copy, visit>>

REvictBoard(k) ==
    EvictBoard(k) /\ content' = {} /\ DropLogs /\ UNCHANGED <<stored, copy, visit>>

RSweepDeletes ==
    SweepDeletes /\ stored' = Cascade /\ UNCHANGED <<log, content, copy, visit>>

RSweepDrops == SweepDrops /\ DropLogs /\ UNCHANGED <<stored, content, copy, visit>>

\* The local copy a page opens is named for the board and when it was created.
CopyOf(c) == IF page[c] = board.n THEN copy[c] ELSE {}

ROpenPage(c) ==
    /\ OpenPage(c)
    /\ copy' = [copy EXCEPT ![c] = CopyOf(c)]
    /\ UNCHANGED <<stored, log, content, visit>>

RHandshake(c) ==
    /\ Handshake(c)
    /\ visit' = [visit EXCEPT ![c] = IF Admits THEN board.n ELSE @]
    /\ UNCHANGED <<stored, log, content, copy>>

RJoinBoard(c) ==
    /\ JoinBoard(c)
    /\ IF docs = "ready" THEN Merge(content, {c})
                         ELSE UNCHANGED <<log, content, copy>>
    /\ UNCHANGED <<stored, visit>>

\* acquireDoc: the blob, then the log.
Replayed == stored \cup log

RLoaded(gone) ==
    /\ Loaded(gone)
    /\ IF room' = {}
         THEN SaveAndDrop(Replayed) /\ UNCHANGED copy
         ELSE Merge(Replayed, Openers \ gone) /\ UNCHANGED stored
    /\ UNCHANGED visit

\* A document nobody holds: it still serves what that board had.
RLoadedInVain(c) ==
    /\ LoadedInVain(c)
    /\ copy' = [copy EXCEPT ![c] = @ \cup {visit[c]}]
    /\ UNCHANGED <<stored, log, content, visit>>

RLeave(c) ==
    /\ Leave(c)
    /\ IF docs # "none" /\ room' = {} THEN SaveAndDrop(content)
                                      ELSE UNCHANGED <<stored, log, content>>
    /\ UNCHANGED <<copy, visit>>

\* What is only in memory goes; the log and the pages stay.
RCrash == Crash /\ content' = {} /\ UNCHANGED <<stored, log, copy, visit>>

\* applyClientUpdate asks first whether the socket's document is the
\* registry's.
Served(c) == docs = "ready" /\ c \notin detached

\* Somebody draws.
Draw(c) ==
    /\ client[c] = "in"
    /\ copy' = [d \in Clients |->
                  IF d = c \/ (Served(c) /\ d \in Inside)
                  THEN copy[d] \cup {visit[c]} ELSE copy[d]]
    /\ IF Served(c) THEN /\ content' = content \cup {visit[c]}
                         /\ log' = log \cup {visit[c]}
                    ELSE UNCHANGED <<content, log>>
    /\ UNCHANGED <<vars, stored, visit>>

\* flushDirty.  Without a row the save fails and the document stays dirty.
Flush ==
    /\ docs = "ready"
    /\ SaveSucceeds
    /\ Save(content)
    /\ UNCHANGED <<vars, content, copy, visit>>

\* Steps that touch no content.
Other ==
    /\ \/ \E k \in Calls, u \in Users \cup {NoUser} : CreateBoard(k, u)
       \/ \E k \in Calls, u \in Users : FindToClaim(k, u) \/ FindToDelete(k, u)
       \/ \E k \in Calls : \/ FindToExtend(k) \/ ClaimBoard(k)
                           \/ ExtendBoard(k) \/ CheckRole(k)
       \/ TimePasses \/ SweepReads \/ SweepFilters
    /\ UNCHANGED drawings

ReuseInit ==
    /\ Init
    /\ stored = {}
    /\ log = {}
    /\ content = {}
    /\ copy = [c \in Clients |-> {}]
    /\ visit = [c \in Clients |-> 0]

ReuseNext ==
    \/ Other
    \/ \E k \in Calls : \/ RFinishCreate(k) \/ RDeleteRow(k)
                        \/ RDropLog(k) \/ REvictBoard(k)
    \/ RSweepDeletes \/ RSweepDrops
    \/ \E c \in Clients : \/ ROpenPage(c) \/ RHandshake(c) \/ RJoinBoard(c) \/ RLoadedInVain(c)
                          \/ RLeave(c) \/ Draw(c)
    \/ \E gone \in SUBSET Clients : RLoaded(gone)
    \/ Flush
    \/ RCrash

ReuseSpec == ReuseInit /\ [][ReuseNext]_reuseVars

\* What goes on in BoardLifecycle goes on here: a step there is one here.
ReuseFairSpec == ReuseSpec /\ Fairness

-----------------------------------------------------------------------------
ReuseTypeOK ==
    /\ TypeOK
    /\ stored \subseteq 1..MaxBoards
    /\ log \subseteq 1..MaxBoards
    /\ content \subseteq 1..MaxBoards
    /\ copy \in [Clients -> SUBSET (1..MaxBoards)]
    /\ visit \in [Clients -> 0..MaxBoards]

\* Nothing drawn on one board is ever in another with its id: "Ids come back",
\* and neither the old board's log (boards/service.ts:73-76) nor what a browser
\* kept of it (local-copy.ts:11-14) must be merged into the new one.
ContentStaysWithBoard == Exists => stored \cup content \subseteq {board.n}

\* What was drawn on a board stays in it until it goes: no cleaning up after
\* an earlier board takes it, and no crash.
WorkStaysOnBoard ==
    [][(Exists /\ board'.n = board.n /\ board.n \in stored \cup log \cup content)
         => board.n \in stored' \cup log' \cup content']_reuseVars

\* Whatever overlapped before, what cleaned up after the id's earlier boards is
\* done, nobody is on a document of theirs, and all are there for this one.
Settled ==
    /\ sweep # "swept"
    /\ \A k \in Calls : call[k].at \notin {"created", "deleted", "dropped"}
    /\ detached = {}
    /\ \A c \in Connecting \cup Inside : visit[c] = board.n

\* From then on what is drawn on the board and kept, in the blob or in the log,
\* stays in one of the two until the board goes: a document, a release or a
\* crash left over from an overlap takes nothing of it.
SettledWorkStays ==
    [][(Exists /\ board'.n = board.n /\ board.n \in stored \cup log /\ Settled)
         => board.n \in stored' \cup log']_reuseVars

\* When nobody is cleaning up, an id without a board has nothing filed under
\* it, except the log a crash kept from being dropped.
NothingLeftBehind ==
    (~Exists /\ sweep = "idle" /\ \A k \in Calls : call[k] = Resting) =>
        stored = {} /\ content = {} /\ (crashes = 0 => log = {})

\* Each board that has the id begins with nothing of the ones before it.
BoardsStartClean == ReuseTypeOK /\ ContentStaysWithBoard /\ NothingLeftBehind

\* Nothing is taken away early: neither a board nor what was drawn on it.
NothingTakenEarly == SweepTakesTheAbandoned /\ WorkStaysOnBoard
=============================================================================
