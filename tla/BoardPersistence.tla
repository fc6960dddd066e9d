-------------------------- MODULE BoardPersistence --------------------------
(***************************************************************************)
(* One board's document on the server: the in-memory registry entry        *)
(* (realtime/doc-manager.ts), the snapshot writer and its queue            *)
(* (realtime/snapshot-writer.ts), the update log in Redis                  *)
(* (realtime/update-log.ts), the blob in Postgres (realtime/board-store.ts)*)
(* and the part of realtime/gateway.ts that opens, edits and releases it.  *)
(*                                                                         *)
(* A Yjs document is the set of updates it has integrated: applying one is *)
(* a union, and so is loading a blob.  The server is one single-threaded   *)
(* process, so an action is what runs between two waits for I/O.  The      *)
(* continuations of one promise run in the order they were registered:     *)
(* when a write settles, the releaseBoard awaiting it goes on before the   *)
(* write queued behind it starts.                                          *)
(***************************************************************************)
EXTENDS Naturals, Sequences

CONSTANTS
    Updates,      \* the updates clients may send
    Sockets,      \* connection slots of the board's room
    MaxQueue,     \* bound: writes queued for the board, joiners given up on
    FaultKinds,   \* which of "postgres", "stalled", "down", "crash" may happen
    MaxFaults     \* bound: faults in a behaviour

ASSUME ConstantsAssumption ==
    /\ MaxQueue \in Nat \ {0}
    /\ MaxFaults \in Nat

VARIABLES
    blob,      \* updates in board_docs.docState
    log,       \* the updates in the Redis list, oldest first
    redis,     \* "ready"; "stalled": no answer in time; "down": not connected
    phase,     \* the registry entry: "absent", "loading", "replaying", "ready"
    doc,       \* entry.doc
    dirty,     \* entry.dirty
    sockets,   \* entry.sockets
    waiting,   \* sockets whose joinBoard awaits entry.ready
    gone,      \* how many of those awaiting have since disconnected
    writing,   \* the board's chain of writes; TRUE where a releaseBoard awaits
    write,     \* the write at the head of the chain
    settled,   \* history: updates whose append Redis has answered
    owed,      \* history: updates accepted while Redis answers, until it fails,
               \* less those a crash took first
    faults     \* history: faults so far

vars == <<blob, log, redis, phase, doc, dirty, sockets, waiting, gone, writing,
          write, settled, owed, faults>>

Phases  == {"absent", "loading", "replaying", "ready"}

\* A write in flight: the state it encoded, and its seal, which is how many
\* updates precede it in the list.  Nothing is cut by a seal at 0, and that is
\* also a seal the writer got no answer for, or one that was lost.  Seals of
\* other writes are never looked for again and are left out.
Running(content, seal) == [state |-> content, seal |-> seal, landed |-> FALSE]
Idle == Running({}, 0)

Fault(kind) ==
    /\ kind \in FaultKinds
    /\ faults < MaxFaults
    /\ faults' = faults + 1

-----------------------------------------------------------------------------
(* The update log.  One connection runs its commands in the order they were *)
(* issued, so each is given its effect where it is issued.  Until Redis has *)
(* answered (settled), a lost connection or a crash may still undo it.     *)

LogUpdates(lg) == {lg[i] : i \in DOMAIN lg}

\* What a command that turns the list lg into new may leave behind.
Issue(lg, new) ==
    CASE redis = "ready"   -> {new}
      [] redis = "stalled" -> {lg, new}
      [] redis = "down"    -> {lg}

\* What is left of the list when the commands still unanswered are lost.
Cut(lg) ==
    {SubSeq(lg, 1, n) : n \in
        {m \in 0..Len(lg) : \A i \in (m + 1)..Len(lg) : lg[i] \notin settled}}

\* Mutant: an accepted update is not logged.
ForgetUpdate(lg, u) == {lg}

\* appendUpdate: nobody waits for it.
AppendUpdate(lg, u) == Issue(lg, Append(lg, u))

\* Mutant: the seal is counted from zero.
SealBefore(lg) == Len(lg) - 1

\* sealLog: where the seal sits in the list, as far as the writer knows.
SealLog(lg) == IF redis = "ready" THEN Len(lg) ELSE 0

\* Mutant: the list is emptied, whatever was pushed since the seal.
TrimAll(lg, seal) == <<>>

\* TRIM_THROUGH: cut just past the seal.
TrimThrough(lg, seal) == SubSeq(lg, seal + 1, Len(lg))

-----------------------------------------------------------------------------
(* The snapshot writer.                                                    *)

\* writeSnapshot up to its first await: encode, clear the flag, seal the log.
BeginWrite(content, lg) ==
    /\ dirty' = FALSE
    /\ log' = lg
    /\ write' = Running(content, SealLog(lg))

\* persistSnapshot on a board with a document: start, or queue behind the
\* write in flight.
PersistSnapshot(release) ==
    \/ /\ writing = <<>>
       /\ writing' = <<release>>
       /\ BeginWrite(doc, log)
    \/ /\ writing # <<>>
       /\ Len(writing) < MaxQueue
       /\ writing' = Append(writing, release)
       /\ UNCHANGED <<log, dirty, write>>

\* Mutant: releaseBoard does not look at the room again.
AssumeEmpty == TRUE

\* releaseBoard after a write that succeeded: the room was re-checked.
RoomStillEmpty == sockets = {}

\* The head of the chain has settled and its releaseBoard drops the document.
\* The writes queued behind it find none and return.
ReleaseDoc(lg) ==
    /\ Head(writing)
    /\ RoomStillEmpty
    /\ phase' = "absent"
    /\ doc' = {}
    /\ dirty' = FALSE
    /\ writing' = <<>>
    /\ write' = Idle
    /\ log' = lg
    /\ UNCHANGED sockets

\* The head of the chain has settled, the document stays, and the next write,
\* if one is queued, starts.
NextWrite(lg, flagged) ==
    /\ writing' = Tail(writing)
    /\ UNCHANGED <<phase, doc, sockets>>
    /\ \/ /\ Tail(writing) = <<>>
          /\ write' = Idle
          /\ log' = lg
          /\ dirty' = flagged
       \/ /\ Tail(writing) # <<>>
          /\ BeginWrite(doc, lg)

\* saveDocState's transaction commits.
SaveLands ==
    /\ writing # <<>>
    /\ ~write.landed
    /\ blob' = write.state
    /\ write' = [write EXCEPT !.landed = TRUE]
    /\ UNCHANGED <<log, redis, phase, doc, dirty, sockets, waiting, gone,
                   writing, settled, owed, faults>>

\* markDirty after a failed save.
FlaggedAgain == TRUE

\* saveDocState rejects, perhaps after the transaction had committed.
SaveFails ==
    /\ writing # <<>>
    /\ ~write.landed
    /\ Fault("postgres")
    /\ blob' \in {blob, write.state}
    /\ NextWrite(log, FlaggedAgain)
    /\ UNCHANGED <<redis, waiting, gone, settled, owed>>

\* trimLog, and the end of writeSnapshot.
TrimLog ==
    /\ writing # <<>>
    /\ write.landed
    /\ \E lg \in Issue(log, TrimThrough(log, write.seal)) :
        \/ ReleaseDoc(lg)
        \/ /\ Head(writing) => ~RoomStillEmpty
           /\ NextWrite(lg, dirty)
    /\ UNCHANGED <<blob, redis, waiting, gone, settled, owed, faults>>

\* Mutant: a sweep that passes the flagged boards by.
NothingDue == FALSE

\* dirtyBoardIds holds this board.
Due == dirty

\* flushDirty, from the interval timer.
FlushDirty ==
    /\ Due
    /\ PersistSnapshot(FALSE)
    /\ UNCHANGED <<blob, redis, phase, doc, sockets, waiting, gone, settled, owed, faults>>

-----------------------------------------------------------------------------
(* Opening the board.                                                      *)

\* joinBoard, up to the document being there.
Join(s) ==
    /\ s \notin sockets \cup waiting
    /\ \/ /\ phase = "ready"
          /\ sockets' = sockets \cup {s}
          /\ UNCHANGED <<phase, waiting>>
       \/ /\ phase = "absent"
          /\ phase' = "loading"
          /\ waiting' = {s}
          /\ UNCHANGED sockets
       \/ /\ phase \in {"loading", "replaying"}
          /\ waiting' = waiting \cup {s}
          /\ UNCHANGED <<phase, sockets>>
    /\ UNCHANGED <<blob, log, redis, doc, dirty, gone, writing, write, settled, owed, faults>>

\* The socket leaves while its joinBoard is still waiting.
GiveUp(s) ==
    /\ s \in waiting
    /\ gone < MaxQueue
    /\ waiting' = waiting \ {s}
    /\ gone' = gone + 1
    /\ UNCHANGED <<blob, log, redis, phase, doc, dirty, sockets, writing, write,
                   settled, owed, faults>>

\* Mutant: a board opens as an empty canvas.
Blank == {}

\* The document once the stored blob is applied.
Restored == blob

\* acquireDoc applies the blob.
LoadBlob ==
    /\ phase = "loading"
    /\ phase' = "replaying"
    /\ doc' = Restored
    /\ UNCHANGED <<blob, log, redis, dirty, sockets, waiting, gone, writing, write,
                   settled, owed, faults>>

\* Mutant: the log is left unread.
SkipLog == doc

\* acquireDoc replays the log over the blob.
Replayed == doc \cup LogUpdates(log)

\* acquireDoc resolves: those still waiting join.  Those gone find no socket
\* tracked yet, and each releases the board.
LoadLog ==
    /\ phase = "replaying"
    /\ redis = "ready"
    /\ phase' = "ready"
    /\ doc' = Replayed
    /\ sockets' = waiting
    /\ waiting' = {}
    /\ gone' = 0
    /\ \/ /\ gone = 0
          /\ dirty' = (LogUpdates(log) # {})
          /\ UNCHANGED <<log, writing, write>>
       \/ /\ gone > 0
          /\ writing' = [i \in 1..gone |-> TRUE]
          /\ BeginWrite(Replayed, log)
    /\ settled' = settled \cup LogUpdates(log)
    /\ UNCHANGED <<blob, redis, owed, faults>>

\* Mutant: a join waits for Redis to come back.
WaitForRedis == FALSE

\* readUpdates rejects, at once or after the command timeout.
LogUnreadable == redis # "ready"

\* The load rejects: the entry goes, and whoever waited is disconnected.
LoadFails ==
    /\ \/ phase = "loading" /\ Fault("postgres")
       \/ phase = "replaying" /\ LogUnreadable /\ UNCHANGED faults
    /\ phase' = "absent"
    /\ doc' = {}
    /\ waiting' = {}
    /\ gone' = 0
    /\ UNCHANGED <<blob, log, redis, dirty, sockets, writing, write,
                   settled, owed>>

-----------------------------------------------------------------------------
(* On the board.                                                           *)

\* applyClientUpdate of something the document lacks.
Edit(s, u) ==
    /\ s \in sockets
    /\ u \notin doc
    /\ doc' = doc \cup {u}
    /\ dirty' = TRUE
    /\ log' \in AppendUpdate(log, u)
    /\ owed' = owed \cup IF redis = "ready" THEN {u} ELSE {}
    /\ UNCHANGED <<blob, redis, phase, sockets, waiting, gone, writing, write,
                   settled, faults>>

\* The disconnect handler: the last one out releases the board.
Leave(s) ==
    /\ s \in sockets
    /\ sockets' = sockets \ {s}
    /\ \/ sockets' # {} /\ UNCHANGED <<log, dirty, writing, write>>
       \/ sockets' = {} /\ PersistSnapshot(TRUE)
    /\ UNCHANGED <<blob, redis, phase, doc, waiting, gone, settled, owed, faults>>

-----------------------------------------------------------------------------
(* The environment.                                                        *)

\* Redis answers an append, and with it everything issued before.
RedisAnswers ==
    /\ redis = "ready"
    /\ \E n \in DOMAIN log :
        /\ log[n] \notin settled
        /\ settled' = settled \cup LogUpdates(SubSeq(log, 1, n))
    /\ UNCHANGED <<blob, log, redis, phase, doc, dirty, sockets, waiting, gone,
                   writing, write, owed, faults>>

RedisFails ==
    /\ \/ redis = "ready" /\ Fault("stalled") /\ redis' = "stalled" /\ UNCHANGED <<log, write>>
       \/ /\ redis # "down"
          /\ Fault("down")
          /\ redis' = "down"
          /\ log' \in Cut(log)
          /\ write' \in {[write EXCEPT !.seal = 0]}
                      \cup IF write.seal <= Len(log') THEN {write} ELSE {}
    /\ owed' = {}
    /\ UNCHANGED <<blob, phase, doc, dirty, sockets, waiting, gone, writing, settled>>

RedisRecovers ==
    /\ redis # "ready"
    /\ redis' = "ready"
    /\ UNCHANGED <<blob, log, phase, doc, dirty, sockets, waiting, gone, writing,
                   write, settled, owed, faults>>

\* The process dies and starts again.  What it was asking of Postgres or of
\* Redis may or may not have been done.
Crash ==
    /\ Fault("crash")
    /\ blob' \in IF writing # <<>> /\ ~write.landed THEN {blob, write.state} ELSE {blob}
    /\ log' \in Cut(log) \cup IF writing # <<>> /\ write.landed
                             THEN Cut(TrimThrough(log, write.seal)) ELSE {}
    /\ owed' = owed \cap (blob' \cup LogUpdates(log') \cup settled)
    /\ phase' = "absent"
    /\ doc' = {}
    /\ dirty' = FALSE
    /\ sockets' = {}
    /\ waiting' = {}
    /\ gone' = 0
    /\ writing' = <<>>
    /\ write' = Idle
    /\ UNCHANGED <<redis, settled>>

-----------------------------------------------------------------------------
Init ==
    /\ blob = {}
    /\ log = <<>>
    /\ redis = "ready"
    /\ phase = "absent"
    /\ doc = {}
    /\ dirty = FALSE
    /\ sockets = {}
    /\ waiting = {}
    /\ gone = 0
    /\ writing = <<>>
    /\ write = Idle
    /\ settled = {}
    /\ owed = {}
    /\ faults = 0

Next ==
    \/ \E s \in Sockets : Join(s) \/ GiveUp(s) \/ Leave(s)
    \/ \E s \in Sockets, u \in Updates : Edit(s, u)
    \/ LoadBlob \/ LoadLog \/ LoadFails
    \/ SaveLands \/ SaveFails \/ TrimLog \/ FlushDirty
    \/ RedisAnswers \/ RedisFails \/ RedisRecovers \/ Crash

Spec == Init /\ [][Next]_vars

\* A load and a save are answered (either way), a command to Redis is bounded
\* by its timeout, and the interval timer fires.  Nobody has to join or leave,
\* no fault has to happen, and Redis need not come back.
Fairness ==
    /\ WF_vars(LoadBlob) /\ WF_vars(LoadLog \/ LoadFails)
    /\ WF_vars(SaveLands \/ SaveFails) /\ WF_vars(TrimLog)
    /\ WF_vars(FlushDirty)

FairSpec == Spec /\ Fairness
-----------------------------------------------------------------------------
(* Properties.                                                             *)

Durable == blob \cup LogUpdates(log)

TypeOK ==
    /\ blob \subseteq Updates
    /\ log \in Seq(Updates)
    /\ redis \in {"ready", "stalled", "down"}
    /\ phase \in Phases
    /\ doc \subseteq Updates
    /\ dirty \in BOOLEAN
    /\ sockets \subseteq Sockets
    /\ waiting \subseteq Sockets
    /\ gone \in Nat
    /\ writing \in Seq(BOOLEAN)
    /\ write \in [state : SUBSET Updates, seal : Nat, landed : BOOLEAN]
    /\ settled \subseteq Updates
    /\ owed \subseteq Updates
    /\ faults \in Nat

\* A board in memory holds everything that is stored of it, so neither what it
\* serves nor what it saves is ever behind the blob or the log (acquireDoc reads
\* both; "a board must not be served without it", update-log.ts).
ServesAllDurable == phase = "ready" => Durable \subseteq doc

\* A snapshot is only ever taken of a document that has finished loading, and
\* an empty or partial one never overwrites the stored board.
NoPartialSnapshot == writing # <<>> => phase = "ready"

\* The document of a room with somebody in it stays in memory: releaseBoard's
\* write may take long, and whoever joined during it keeps the board.
RoomHasDoc == sockets # {} => phase = "ready"

\* Work that is not in the blob is flagged for the sweep or is in the write on
\* its way.  Shutdown saves those two and nothing else.
UnsavedIsQueued ==
    phase = "ready" =>
        \/ dirty
        \/ doc \subseteq blob
        \/ writing # <<>> /\ ~write.landed /\ doc \subseteq write.state

\* What the registry and the writer owe each other: an occupied room has its
\* document, a write is of a whole one, and unsaved work has a write to come.
RegistryIsSound == RoomHasDoc /\ NoPartialSnapshot /\ UnsavedIsQueued

\* What Redis has acknowledged is never lost, whatever crashes, fails or stalls:
\* a trim only cuts what the blob holds.
SettledIsDurable == settled \subseteq Durable

\* An update the server accepted while Redis answered is stored, in the blob or
\* in the log, as long as Redis goes on answering: no save, trim or release
\* takes it away.  A crash may take only what Redis had not answered for.
NothingLost == owed \subseteq Durable

\* The board keeps the promise of DurableBoard: opening it yields exactly what is
\* stored, and what Postgres or Redis has answered for stays stored.
Board == INSTANCE DurableBoard WITH
    stored <- Durable,
    sure <- blob \cup settled,
    open <- phase = "ready",
    live <- IF phase = "ready" THEN doc ELSE {}

ImplementsDurableBoard == Board!Spec

\* The stored blob only ever gains updates: an older snapshot never lands over
\* a newer one.
BlobNeverRegresses == [][blob \subseteq blob']_vars

\* A document leaves memory, other than in a crash, only once the blob holds all
\* of it (doc-manager.ts releaseDoc: "Call only after its final snapshot lands").
ReleasedAfterFinalSnapshot ==
    [][phase = "ready" /\ phase' = "absent" => doc \subseteq blob']_vars

\* What duplicateBoard copies: the document in memory if there is one, or else
\* the blob.
Duplicated == IF phase # "absent" THEN doc ELSE blob

\* The copy holds "`source`'s canvas": nothing stored of a board is missing from
\* a copy of it (boards/service.ts:274-278).
CopyIsWhole == Durable \subseteq Duplicated

\* Every edit on a board that stays in memory reaches the blob.
EditsAreSaved ==
    \A u \in Updates : u \in doc ~> u \in blob \/ phase # "ready"

\* Whoever is opening a board is let in or turned away, even with Redis stalled.
JoinsAreAnswered == \A s \in Sockets : s \in waiting ~> s \notin waiting

\* A room that has emptied gives its document up (doc-manager.ts: "kept in
\* memory while at least one client is connected").
EmptyRoomIsReleased == phase = "ready" /\ sockets = {} ~> phase # "ready" \/ sockets # {}
=============================================================================
