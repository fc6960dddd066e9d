----------------------- MODULE BoardPersistence_proofs -----------------------
(***************************************************************************)
(* Proofs about BoardPersistence, for any set of updates and of sockets    *)
(* and any bounds.                                                         *)
(***************************************************************************)
EXTENDS BoardPersistence, TLAPS

-----------------------------------------------------------------------------
(* The inductive invariant.                                                *)

\* A document being replayed onto is the blob, no more and no less.
ReplayInv == phase = "replaying" => doc = blob

\* Only a document in memory is flagged.
DirtyInv == dirty => phase = "ready"

\* The write in flight holds a part of the document that the blob does not
\* exceed, and its seal stands behind updates it holds.
WriteInv ==
    writing # <<>> =>
        /\ write.state \subseteq doc
        /\ blob \subseteq write.state
        /\ write.landed => write.state = blob
        /\ write.seal <= Len(log)
        /\ \A i \in 1..write.seal : log[i] \in write.state

IInv ==
    /\ TypeOK
    /\ ServesAllDurable
    /\ NoPartialSnapshot
    /\ RoomHasDoc
    /\ UnsavedIsQueued
    /\ SettledIsDurable
    /\ NothingLost
    /\ ReplayInv
    /\ DirtyInv
    /\ WriteInv

-----------------------------------------------------------------------------
(* The update log.                                                         *)

\* Appending an update adds it, and moves nothing.
LEMMA AppendFacts ==
    ASSUME NEW lg \in Seq(Updates), NEW u \in Updates
    PROVE  /\ Append(lg, u) \in Seq(Updates)
           /\ LogUpdates(Append(lg, u)) = LogUpdates(lg) \cup {u}
           /\ Len(lg) <= Len(Append(lg, u))
           /\ \A i \in 1..Len(lg) : Append(lg, u)[i] = lg[i]
  <1> DEFINE longer == Append(lg, u)
  <1>1. /\ longer \in Seq(Updates)
        /\ Len(longer) = Len(lg) + 1
        /\ \A i \in 1..Len(lg) : longer[i] = lg[i]
        /\ longer[Len(lg) + 1] = u
    OBVIOUS
  <1>2. DOMAIN longer = 1..(Len(lg) + 1) /\ DOMAIN lg = 1..Len(lg) /\ Len(lg) \in Nat
    BY <1>1
  <1> HIDE DEF longer
  <1>3. LogUpdates(longer) \subseteq LogUpdates(lg) \cup {u}
    BY <1>1, <1>2 DEF LogUpdates
  <1>4. LogUpdates(lg) \cup {u} \subseteq LogUpdates(longer)
    BY <1>1, <1>2 DEF LogUpdates
  <1>5. LogUpdates(longer) = LogUpdates(lg) \cup {u}
    BY <1>3, <1>4
  <1>6. QED
    BY <1>1, <1>2, <1>5 DEF longer

\* A trim takes away nothing but what precedes the seal.
LEMMA TrimFacts ==
    ASSUME NEW lg \in Seq(Updates), NEW seal \in Nat, seal <= Len(lg)
    PROVE  /\ TrimThrough(lg, seal) \in Seq(Updates)
           /\ LogUpdates(TrimThrough(lg, seal)) \subseteq LogUpdates(lg)
           /\ \A u \in LogUpdates(lg) :
                 u \in LogUpdates(TrimThrough(lg, seal)) \/ \E i \in 1..seal : u = lg[i]
  <1> DEFINE rest == TrimThrough(lg, seal)
  <1>1. /\ rest \in Seq(Updates)
        /\ Len(rest) = Len(lg) - seal
        /\ \A i \in 1..(Len(lg) - seal) : rest[i] = lg[i + seal]
    BY DEF TrimThrough
  <1>2. LogUpdates(rest) \subseteq LogUpdates(lg)
    <2> SUFFICES ASSUME NEW u \in LogUpdates(rest)
                 PROVE  u \in LogUpdates(lg)
      OBVIOUS
    <2>1. PICK i \in 1..Len(rest) : u = rest[i]
      BY DEF LogUpdates
    <2>2. i + seal \in 1..Len(lg) /\ u = lg[i + seal]
      BY <1>1, <2>1
    <2>3. QED
      BY <2>2 DEF LogUpdates
  <1>3. ASSUME NEW k \in 1..Len(lg), k \notin 1..seal
        PROVE  lg[k] \in LogUpdates(rest)
    <2>1. k - seal \in 1..(Len(lg) - seal) /\ rest[k - seal] = lg[k]
      BY <1>1, <1>3
    <2>2. QED
      BY <1>1, <2>1 DEF LogUpdates
  <1>4. ASSUME NEW u \in LogUpdates(lg)
        PROVE  u \in LogUpdates(rest) \/ \E i \in 1..seal : u = lg[i]
    <2>1. PICK k \in 1..Len(lg) : u = lg[k]
      BY <1>4 DEF LogUpdates
    <2>2. QED
      BY <1>3, <2>1
  <1>5. QED
    BY <1>1, <1>2, <1>4

\* A cut keeps a prefix of the list, with everything Redis answered for.
LEMMA CutFacts ==
    ASSUME NEW lg \in Seq(Updates), NEW left \in Cut(lg)
    PROVE  /\ left \in Seq(Updates)
           /\ Len(left) <= Len(lg)
           /\ \A i \in 1..Len(left) : left[i] = lg[i]
           /\ LogUpdates(left) \subseteq LogUpdates(lg)
           /\ LogUpdates(lg) \cap settled \subseteq LogUpdates(left)
  <1>1. PICK n \in 0..Len(lg) :
            /\ left = SubSeq(lg, 1, n)
            /\ \A i \in (n + 1)..Len(lg) : lg[i] \notin settled
    BY DEF Cut
  <1>2. /\ left \in Seq(Updates)
        /\ Len(left) = n
        /\ \A i \in 1..n : left[i] = lg[i]
    BY <1>1
  <1> HIDE DEF Cut
  <1>3. LogUpdates(left) \subseteq LogUpdates(lg)
    BY <1>1, <1>2 DEF LogUpdates
  <1>4. ASSUME NEW u \in LogUpdates(lg), u \in settled
        PROVE  u \in LogUpdates(left)
    <2>1. PICK k \in 1..Len(lg) : u = lg[k]
      BY <1>4 DEF LogUpdates
    <2>2. k \in 1..n
      BY <1>1, <1>4, <2>1
    <2>3. QED
      BY <1>2, <2>1, <2>2 DEF LogUpdates
  <1>5. QED
    BY <1>2, <1>3, <1>4

\* A command leaves the list as it was or as the command would have it.
LEMMA IssueFacts ==
    ASSUME TypeOK, NEW lg, NEW new, NEW out \in Issue(lg, new)
    PROVE  out = lg \/ out = new
  BY DEF Issue, TypeOK

-----------------------------------------------------------------------------
(* The writer.                                                             *)

WriteType == [state : SUBSET Updates, seal : Nat, landed : BOOLEAN]

\* A write that begins holds the whole document, and its seal stands at the end
\* of the list.
LEMMA BeginWriteFacts ==
    ASSUME NEW content \in SUBSET Updates, NEW lg \in Seq(Updates),
           LogUpdates(lg) \subseteq content, BeginWrite(content, lg)
    PROVE  /\ dirty' = FALSE
           /\ log' = lg
           /\ write' \in WriteType
           /\ write'.state = content
           /\ ~write'.landed
           /\ write'.seal <= Len(lg)
           /\ \A i \in 1..write'.seal : lg[i] \in content
  <1>1. SealLog(lg) \in Nat /\ SealLog(lg) <= Len(lg)
    BY DEF SealLog
  <1>2. \A i \in 1..SealLog(lg) : lg[i] \in content
    BY <1>1 DEF LogUpdates
  <1>3. write' = Running(content, SealLog(lg)) /\ dirty' = FALSE /\ log' = lg
    BY DEF BeginWrite
  <1>4. QED
    BY <1>1, <1>2, <1>3 DEF Running, WriteType

\* persistSnapshot leaves a write on its way that holds all of the document, or
\* changes nothing but the queue.
LEMMA PersistSnapshotFacts ==
    ASSUME IInv, phase = "ready", NEW release \in BOOLEAN, PersistSnapshot(release)
    PROVE  /\ log' = log
           /\ dirty' \in BOOLEAN
           /\ writing' \in Seq(BOOLEAN) /\ writing' # <<>>
           /\ write' \in WriteType
           /\ (UNCHANGED <<doc, blob, phase>>) => UnsavedIsQueued' /\ WriteInv'
  <1>1. CASE writing = <<>> /\ writing' = <<release>> /\ BeginWrite(doc, log)
    <2>1. /\ doc \in SUBSET Updates /\ log \in Seq(Updates)
          /\ LogUpdates(log) \subseteq doc /\ blob \subseteq doc
      BY DEF IInv, TypeOK, ServesAllDurable, Durable
    <2>2. /\ dirty' = FALSE /\ log' = log /\ write' \in WriteType
          /\ write'.state = doc /\ ~write'.landed /\ write'.seal <= Len(log)
          /\ \A i \in 1..write'.seal : log[i] \in doc
      BY <1>1, <2>1, BeginWriteFacts
    <2>3. writing' \in Seq(BOOLEAN) /\ writing' # <<>>
      BY <1>1
    <2>4. QED
      BY <2>1, <2>2, <2>3 DEF UnsavedIsQueued, WriteInv
  <1>2. CASE /\ writing # <<>> /\ writing' = Append(writing, release)
             /\ UNCHANGED <<log, dirty, write>>
    <2>1. writing' \in Seq(BOOLEAN) /\ writing' # <<>>
      BY <1>2 DEF IInv, TypeOK
    <2>2. QED
      BY <1>2, <2>1 DEF IInv, TypeOK, WriteType, UnsavedIsQueued, WriteInv
  <1>3. QED
    BY <1>1, <1>2 DEF PersistSnapshot

\* What the queue does once its head has settled and the document stays, when
\* the list is left as lg, with nothing on it the document lacks.
LEMMA NextWriteFacts ==
    ASSUME IInv, writing # <<>>, NEW lg \in Seq(Updates), LogUpdates(lg) \subseteq doc,
           NEW flagged \in BOOLEAN, NextWrite(lg, flagged), blob' \subseteq doc
    PROVE  /\ UNCHANGED <<phase, doc, sockets>> /\ phase = "ready"
           /\ log' = lg
           /\ dirty' \in BOOLEAN
           /\ writing' \in Seq(BOOLEAN)
           /\ write' \in WriteType
           /\ WriteInv'
           /\ (flagged \/ doc \subseteq blob') => UnsavedIsQueued'
  <1>1. /\ UNCHANGED <<phase, doc, sockets>> /\ phase = "ready"
        /\ writing' = Tail(writing) /\ writing' \in Seq(BOOLEAN)
    BY DEF NextWrite, IInv, TypeOK, NoPartialSnapshot
  <1>2. CASE writing' = <<>> /\ write' = Idle /\ log' = lg /\ dirty' = flagged
    <2>1. write' \in WriteType
      BY <1>2 DEF Idle, Running, WriteType
    <2>2. QED
      BY <1>1, <1>2, <2>1 DEF WriteInv, UnsavedIsQueued
  <1>3. CASE writing' # <<>> /\ BeginWrite(doc, lg)
    <2>1. doc \in SUBSET Updates
      BY DEF IInv, TypeOK
    <2>2. /\ dirty' = FALSE /\ log' = lg /\ write' \in WriteType
          /\ write'.state = doc /\ ~write'.landed /\ write'.seal <= Len(lg)
          /\ \A i \in 1..write'.seal : lg[i] \in doc
      BY <1>3, <2>1, BeginWriteFacts
    <2>3. QED
      BY <1>1, <1>3, <2>2 DEF WriteInv, UnsavedIsQueued
  <1>4. QED
    BY <1>1, <1>2, <1>3 DEF NextWrite

-----------------------------------------------------------------------------
(* Every action preserves the invariant.                                   *)

LEMMA InitInv == Init => IInv
  <1> SUFFICES ASSUME Init PROVE IInv
    OBVIOUS
  <1>1. write \in WriteType /\ log \in Seq(Updates) /\ writing \in Seq(BOOLEAN)
    BY DEF Init, Idle, Running, WriteType
  <1>2. TypeOK
    BY <1>1 DEF Init, TypeOK, WriteType, Phases
  <1>3. QED
    BY <1>2 DEF Init, IInv, ServesAllDurable, NoPartialSnapshot, RoomHasDoc,
       UnsavedIsQueued, SettledIsDurable, NothingLost, ReplayInv, DirtyInv, WriteInv

LEMMA JoinInv == ASSUME IInv, NEW s \in Sockets, Join(s) PROVE IInv'
  BY DEF Join, IInv, TypeOK, ServesAllDurable, NoPartialSnapshot, RoomHasDoc,
         UnsavedIsQueued, SettledIsDurable, NothingLost, ReplayInv, DirtyInv, WriteInv, Durable, LogUpdates, Phases

LEMMA GiveUpInv == ASSUME IInv, NEW s \in Sockets, GiveUp(s) PROVE IInv'
  BY DEF GiveUp, IInv, TypeOK, ServesAllDurable, NoPartialSnapshot, RoomHasDoc,
         UnsavedIsQueued, SettledIsDurable, NothingLost, ReplayInv, DirtyInv, WriteInv, Durable, LogUpdates

LEMMA LeaveInv == ASSUME IInv, NEW s \in Sockets, Leave(s) PROVE IInv'
  <1>1. /\ s \in sockets /\ sockets' = sockets \ {s}
        /\ UNCHANGED <<blob, redis, phase, doc, waiting, gone, settled, owed, faults>>
        /\ phase = "ready"
    BY DEF Leave, IInv, RoomHasDoc
  <1>2. CASE UNCHANGED <<log, dirty, writing, write>>
    BY <1>1, <1>2 DEF IInv, TypeOK, ServesAllDurable, NoPartialSnapshot, RoomHasDoc,
       UnsavedIsQueued, SettledIsDurable, NothingLost, ReplayInv, DirtyInv, WriteInv, Durable, LogUpdates
  <1>3. CASE PersistSnapshot(TRUE)
    <2>1. /\ log' = log /\ dirty' \in BOOLEAN /\ writing' \in Seq(BOOLEAN)
          /\ write' \in WriteType /\ UnsavedIsQueued' /\ WriteInv'
      BY <1>1, <1>3, PersistSnapshotFacts
    <2>2. QED
      BY <1>1, <2>1 DEF IInv, TypeOK, WriteType, ServesAllDurable, NoPartialSnapshot,
         RoomHasDoc, SettledIsDurable, NothingLost, ReplayInv, DirtyInv, Durable, LogUpdates
  <1>4. QED
    BY <1>2, <1>3 DEF Leave

LEMMA FlushDirtyInv == ASSUME IInv, FlushDirty PROVE IInv'
  <1>1. /\ dirty /\ PersistSnapshot(FALSE)
        /\ UNCHANGED <<blob, redis, phase, doc, sockets, waiting, gone, settled, owed, faults>>
    BY DEF FlushDirty, Due
  <1>2. CASE phase = "ready"
    <2>1. /\ log' = log /\ dirty' \in BOOLEAN /\ writing' \in Seq(BOOLEAN)
          /\ write' \in WriteType /\ UnsavedIsQueued' /\ WriteInv'
      BY <1>1, <1>2, PersistSnapshotFacts
    <2>2. QED
      BY <1>1, <1>2, <2>1 DEF IInv, TypeOK, WriteType, ServesAllDurable, NoPartialSnapshot,
         RoomHasDoc, SettledIsDurable, NothingLost, ReplayInv, DirtyInv, Durable, LogUpdates
  <1>3. QED
    BY <1>1, <1>2 DEF IInv, DirtyInv

LEMMA SaveLandsInv == ASSUME IInv, SaveLands PROVE IInv'
  <1>1. /\ writing # <<>> /\ ~write.landed /\ blob' = write.state
        /\ write' = [write EXCEPT !.landed = TRUE]
        /\ UNCHANGED <<log, redis, phase, doc, dirty, sockets, waiting, gone, writing,
                       settled, owed, faults>>
    BY DEF SaveLands
  <1>2. /\ write \in WriteType /\ write.state \subseteq doc /\ blob \subseteq write.state
        /\ phase = "ready"
    BY <1>1 DEF IInv, TypeOK, WriteType, WriteInv, NoPartialSnapshot
  <1>3. /\ write' \in WriteType /\ write'.landed
        /\ write'.state = write.state /\ write'.seal = write.seal
    BY <1>1, <1>2 DEF WriteType
  <1>4. TypeOK'
    BY <1>1, <1>2, <1>3 DEF IInv, TypeOK, WriteType
  <1>5. WriteInv' /\ UnsavedIsQueued'
    BY <1>1, <1>2, <1>3 DEF IInv, WriteInv, UnsavedIsQueued
  <1>6. ServesAllDurable' /\ SettledIsDurable' /\ NothingLost'
    BY <1>1, <1>2 DEF IInv, ServesAllDurable, SettledIsDurable, NothingLost, Durable, LogUpdates
  <1>7. QED
    BY <1>1, <1>2, <1>4, <1>5, <1>6 DEF IInv, NoPartialSnapshot, RoomHasDoc, ReplayInv, DirtyInv

LEMMA SaveFailsInv == ASSUME IInv, SaveFails PROVE IInv'
  <1>1. /\ writing # <<>> /\ ~write.landed /\ blob' \in {blob, write.state}
        /\ NextWrite(log, TRUE) /\ faults' = faults + 1
        /\ UNCHANGED <<redis, waiting, gone, settled, owed>>
    BY DEF SaveFails, FlaggedAgain, Fault
  <1>2. /\ write.state \subseteq doc /\ blob \subseteq write.state
        /\ log \in Seq(Updates) /\ doc \subseteq Updates
        /\ blob \subseteq doc /\ LogUpdates(log) \subseteq doc
    BY <1>1 DEF IInv, TypeOK, WriteInv, ServesAllDurable, NoPartialSnapshot, Durable
  <1>3. blob' \subseteq doc /\ blob \subseteq blob' /\ blob' \subseteq Updates
    BY <1>1, <1>2
  <1>4. /\ UNCHANGED <<phase, doc, sockets>> /\ phase = "ready" /\ log' = log
        /\ dirty' \in BOOLEAN /\ writing' \in Seq(BOOLEAN) /\ write' \in WriteType
        /\ WriteInv' /\ UnsavedIsQueued'
    BY <1>1, <1>2, <1>3, NextWriteFacts
  <1>5. TypeOK'
    BY <1>1, <1>3, <1>4 DEF IInv, TypeOK, WriteType
  <1>6. ServesAllDurable' /\ SettledIsDurable' /\ NothingLost'
    BY <1>1, <1>2, <1>3, <1>4 DEF IInv, ServesAllDurable, SettledIsDurable, NothingLost, Durable, LogUpdates
  <1>7. QED
    BY <1>4, <1>5, <1>6 DEF IInv, NoPartialSnapshot, RoomHasDoc, ReplayInv, DirtyInv

\* Trimming behind a blob that has landed takes nothing out of the store.
LEMMA TrimKeepsDurable ==
    ASSUME IInv, writing # <<>>, write.landed
    PROVE  LET rest == TrimThrough(log, write.seal) IN
           /\ rest \in Seq(Updates)
           /\ LogUpdates(rest) \subseteq LogUpdates(log)
           /\ blob \cup LogUpdates(rest) = Durable
  <1>1. /\ log \in Seq(Updates) /\ write.seal \in Nat /\ write.seal <= Len(log)
        /\ \A i \in 1..write.seal : log[i] \in blob
    BY DEF IInv, TypeOK, WriteInv
  <1>2. QED
    BY SMTT(30), <1>1, TrimFacts DEF Durable

LEMMA TrimLogInv == ASSUME IInv, TrimLog PROVE IInv'
  <1>1. /\ writing # <<>> /\ write.landed
        /\ UNCHANGED <<blob, redis, waiting, gone, settled, owed, faults>>
    BY DEF TrimLog
  <1>2. PICK lg \in Issue(log, TrimThrough(log, write.seal)) :
            \/ ReleaseDoc(lg)
            \/ NextWrite(lg, dirty)
    BY DEF TrimLog
  <1>3. lg = log \/ lg = TrimThrough(log, write.seal)
    BY IssueFacts DEF IInv
  <1>4. /\ lg \in Seq(Updates) /\ LogUpdates(lg) \subseteq LogUpdates(log)
        /\ blob \cup LogUpdates(lg) = Durable
    BY <1>1, <1>3, TrimKeepsDurable DEF IInv, TypeOK, Durable
  <1>5. phase = "ready" /\ Durable \subseteq doc /\ dirty \in BOOLEAN
    BY <1>1 DEF IInv, TypeOK, NoPartialSnapshot, ServesAllDurable
  <1>6. CASE ReleaseDoc(lg)
    <2>1. /\ phase' = "absent" /\ doc' = {} /\ dirty' = FALSE /\ writing' = <<>>
          /\ write' = Idle /\ log' = lg /\ sockets' = {}
      BY <1>6 DEF ReleaseDoc, RoomStillEmpty
    <2>2. write' \in WriteType /\ writing' \in Seq(BOOLEAN)
      BY <2>1 DEF Idle, Running, WriteType
    <2>3. TypeOK'
      BY <1>1, <1>4, <2>1, <2>2 DEF IInv, TypeOK, WriteType, Phases
    <2>4. Durable' = Durable
      BY <1>1, <1>4, <2>1 DEF Durable, LogUpdates
    <2>5. QED
      BY <1>1, <2>1, <2>3, <2>4 DEF IInv, ServesAllDurable, SettledIsDurable, NothingLost,
         NoPartialSnapshot, RoomHasDoc, UnsavedIsQueued, ReplayInv, DirtyInv, WriteInv
  <1>7. CASE NextWrite(lg, dirty)
    <2>1. blob' \subseteq doc /\ LogUpdates(lg) \subseteq doc
      BY <1>1, <1>4, <1>5 DEF Durable
    <2>2. dirty \/ doc \subseteq blob'
      BY <1>1, <1>5 DEF IInv, UnsavedIsQueued
    <2>3. /\ UNCHANGED <<phase, doc, sockets>> /\ log' = lg
          /\ dirty' \in BOOLEAN /\ writing' \in Seq(BOOLEAN) /\ write' \in WriteType
          /\ WriteInv' /\ UnsavedIsQueued'
      BY <1>1, <1>4, <1>5, <1>7, <2>1, <2>2, NextWriteFacts
    <2>4. TypeOK'
      BY <1>1, <1>4, <2>3 DEF IInv, TypeOK, WriteType
    <2>5. Durable' = Durable
      BY <1>1, <1>4, <2>3 DEF Durable, LogUpdates
    <2>6. QED
      BY <1>1, <1>5, <2>3, <2>4, <2>5 DEF IInv, ServesAllDurable, SettledIsDurable, NothingLost,
         NoPartialSnapshot, RoomHasDoc, ReplayInv, DirtyInv
  <1>8. QED
    BY <1>2, <1>6, <1>7

LEMMA LoadBlobInv == ASSUME IInv, LoadBlob PROVE IInv'
  BY DEF LoadBlob, Restored, IInv, TypeOK, ServesAllDurable, NoPartialSnapshot, RoomHasDoc,
         UnsavedIsQueued, SettledIsDurable, NothingLost, ReplayInv, DirtyInv, WriteInv, Durable,
         LogUpdates, Phases

LEMMA LoadFailsInv == ASSUME IInv, LoadFails PROVE IInv'
  <1>1. /\ phase \in {"loading", "replaying"} /\ phase' = "absent" /\ doc' = {}
        /\ waiting' = {} /\ gone' = 0 /\ faults' \in {faults, faults + 1}
        /\ UNCHANGED <<blob, log, redis, dirty, sockets, writing, write, settled, owed>>
    BY DEF LoadFails, Fault
  <1>2. QED
    BY <1>1 DEF IInv, TypeOK, ServesAllDurable, NoPartialSnapshot, RoomHasDoc,
       UnsavedIsQueued, SettledIsDurable, NothingLost, ReplayInv, DirtyInv, WriteInv, Durable,
       LogUpdates, Phases

LEMMA LoadLogInv == ASSUME IInv, LoadLog PROVE IInv'
  <1>1. /\ phase = "replaying" /\ phase' = "ready" /\ doc' = Durable
        /\ sockets' = waiting /\ waiting' = {} /\ gone' = 0
        /\ settled' = settled \cup LogUpdates(log)
        /\ UNCHANGED <<blob, redis, owed, faults>>
    BY DEF LoadLog, Replayed, IInv, ReplayInv, Durable
  <1>2. /\ log \in Seq(Updates) /\ Durable \in SUBSET Updates /\ LogUpdates(log) \subseteq Durable
        /\ writing = <<>>
    BY <1>1 DEF IInv, TypeOK, NoPartialSnapshot, Durable, LogUpdates
  <1>3. CASE dirty' = (LogUpdates(log) # {}) /\ UNCHANGED <<log, writing, write>>
    <2>1. dirty' \in BOOLEAN /\ (dirty' \/ doc' = blob)
      BY <1>1, <1>3 DEF Durable
    <2>2. QED
      BY <1>1, <1>2, <1>3, <2>1 DEF IInv, TypeOK, ServesAllDurable, NoPartialSnapshot,
         RoomHasDoc, UnsavedIsQueued, SettledIsDurable, NothingLost, ReplayInv, DirtyInv, WriteInv,
         Durable, LogUpdates, Phases
  <1>4. CASE gone > 0 /\ writing' = [i \in 1..gone |-> TRUE] /\ BeginWrite(Durable, log)
    <2>1. /\ dirty' = FALSE /\ log' = log /\ write' \in WriteType
          /\ write'.state = Durable /\ ~write'.landed /\ write'.seal <= Len(log)
          /\ \A i \in 1..write'.seal : log[i] \in Durable
      BY <1>2, <1>4, BeginWriteFacts
    <2>2. gone \in Nat
      BY DEF IInv, TypeOK
    <2>3. writing' \in Seq(BOOLEAN) /\ Len(writing') = gone
      BY <1>4, <2>2
    <2>4. writing' # <<>>
      <3>1. Len(writing') # 0
        BY <1>4, <2>2, <2>3
      <3>2. QED
        BY <3>1
    <2>5. TypeOK'
      BY <1>1, <1>2, <2>1, <2>3 DEF IInv, TypeOK, WriteType, Phases
    <2>6. WriteInv' /\ UnsavedIsQueued'
      BY <1>1, <2>1, <2>4 DEF WriteInv, UnsavedIsQueued, Durable
    <2>7. QED
      BY <1>1, <1>2, <2>1, <2>5, <2>6 DEF IInv, ServesAllDurable, NoPartialSnapshot,
         RoomHasDoc, SettledIsDurable, NothingLost, ReplayInv, DirtyInv, Durable, LogUpdates
  <1>5. Replayed = Durable
    BY <1>1 DEF Replayed, IInv, ReplayInv, Durable
  <1>6. QED
    BY <1>3, <1>4, <1>5 DEF LoadLog

LEMMA EditInv == ASSUME IInv, NEW s \in Sockets, NEW u \in Updates, Edit(s, u) PROVE IInv'
  <1>1. /\ s \in sockets /\ doc' = doc \cup {u} /\ dirty' = TRUE
        /\ log' \in Issue(log, Append(log, u)) /\ owed' \subseteq owed \cup {u}
        /\ UNCHANGED <<blob, redis, phase, sockets, waiting, gone, writing, write,
                       settled, faults>>
    BY DEF Edit, AppendUpdate
  <1>2. /\ log \in Seq(Updates) /\ write \in WriteType /\ phase = "ready"
    BY <1>1 DEF IInv, TypeOK, WriteType, RoomHasDoc
  <1>3. log' = log \/ log' = Append(log, u)
    BY <1>1, IssueFacts DEF IInv
  <1>4. /\ log' \in Seq(Updates) /\ LogUpdates(log) \subseteq LogUpdates(log')
        /\ LogUpdates(log') \subseteq LogUpdates(log) \cup {u}
        /\ Len(log) <= Len(log') /\ \A i \in 1..Len(log) : log'[i] = log[i]
    <2>1. CASE log' = log
      BY <1>2, <2>1
    <2>2. CASE log' = Append(log, u)
      BY <1>2, <2>2, AppendFacts
    <2>3. QED
      BY <1>3, <2>1, <2>2
  <1>5. /\ Durable \subseteq Durable' /\ Durable' \subseteq Durable \cup {u}
    BY <1>1, <1>4 DEF Durable, LogUpdates
  <1>6. TypeOK'
    BY <1>1, <1>4 DEF IInv, TypeOK
  <1>7. WriteInv'
    <2> SUFFICES ASSUME writing # <<>> PROVE WriteInv'
      BY <1>1 DEF WriteInv
    <2>1. /\ write.seal \in Nat /\ Len(log) \in Nat /\ Len(log') \in Nat
          /\ write.seal <= Len(log) /\ \A i \in 1..write.seal : log[i] \in write.state
      BY <1>2, <1>4 DEF IInv, WriteInv, WriteType
    <2>2. write.seal <= Len(log') /\ \A i \in 1..write.seal : log'[i] \in write.state
      BY <1>4, <2>1
    <2>3. QED
      BY <1>1, <2>2 DEF IInv, WriteInv
  <1>8. NothingLost'
    <2>1. redis = "ready" => Durable' = Durable \cup {u}
      BY <1>1, <1>2, AppendFacts DEF Issue, Durable, LogUpdates
    <2>2. owed' = owed \cup IF redis = "ready" THEN {u} ELSE {}
      BY DEF Edit
    <2>3. QED
      BY <1>5, <2>1, <2>2 DEF IInv, NothingLost
  <1>9. QED
    BY <1>1, <1>2, <1>5, <1>6, <1>7, <1>8 DEF IInv, ServesAllDurable, NoPartialSnapshot,
       RoomHasDoc, UnsavedIsQueued, SettledIsDurable, ReplayInv, DirtyInv

LEMMA RedisAnswersInv == ASSUME IInv, RedisAnswers PROVE IInv'
  <1>1. PICK n \in DOMAIN log : settled' = settled \cup LogUpdates(SubSeq(log, 1, n))
    BY DEF RedisAnswers
  <1>2. UNCHANGED <<blob, log, redis, phase, doc, dirty, sockets, waiting, gone,
                    writing, write, owed, faults>>
    BY DEF RedisAnswers
  <1>3. log \in Seq(Updates)
    BY DEF IInv, TypeOK
  <1>4. /\ SubSeq(log, 1, n) \in Seq(Updates) /\ Len(SubSeq(log, 1, n)) = n
        /\ \A i \in 1..n : SubSeq(log, 1, n)[i] = log[i]
    BY <1>3
  <1>5. LogUpdates(SubSeq(log, 1, n)) \subseteq LogUpdates(log)
    BY <1>3, <1>4 DEF LogUpdates
  <1>6. LogUpdates(log) \subseteq Updates
    BY <1>3 DEF LogUpdates
  <1>7. SettledIsDurable' /\ NothingLost' /\ settled' \subseteq Updates
    BY <1>1, <1>2, <1>5, <1>6 DEF IInv, TypeOK, SettledIsDurable, NothingLost, Durable, LogUpdates
  <1>8. QED
    BY <1>2, <1>7 DEF IInv, TypeOK, ServesAllDurable, NoPartialSnapshot, RoomHasDoc,
       UnsavedIsQueued, ReplayInv, DirtyInv, WriteInv, Durable, LogUpdates

LEMMA RedisRecoversInv == ASSUME IInv, RedisRecovers PROVE IInv'
  BY DEF RedisRecovers, IInv, TypeOK, ServesAllDurable, NoPartialSnapshot, RoomHasDoc,
         UnsavedIsQueued, SettledIsDurable, NothingLost, ReplayInv, DirtyInv, WriteInv, Durable, LogUpdates

LEMMA RedisFailsInv == ASSUME IInv, RedisFails PROVE IInv'
  <1>1. /\ redis' \in {"stalled", "down"} /\ faults' = faults + 1
        /\ owed' = {}
        /\ UNCHANGED <<blob, phase, doc, dirty, sockets, waiting, gone, writing, settled>>
    BY DEF RedisFails, Fault
  <1>2. log \in Seq(Updates) /\ write \in WriteType
    BY DEF IInv, TypeOK, WriteType
  <1>3. CASE UNCHANGED <<log, write>>
    BY <1>1, <1>3 DEF IInv, TypeOK, ServesAllDurable, NoPartialSnapshot, RoomHasDoc,
       UnsavedIsQueued, SettledIsDurable, NothingLost, ReplayInv, DirtyInv, WriteInv, Durable, LogUpdates
  <1>4. CASE /\ log' \in Cut(log)
             /\ \/ write' = [write EXCEPT !.seal = 0]
                \/ write' = write /\ write.seal <= Len(log')
    <2>1. /\ log' \in Seq(Updates) /\ Len(log') <= Len(log)
          /\ \A i \in 1..Len(log') : log'[i] = log[i]
          /\ LogUpdates(log') \subseteq LogUpdates(log)
          /\ LogUpdates(log) \cap settled \subseteq LogUpdates(log')
      BY <1>2, <1>4, CutFacts
    <2>2. /\ write' \in WriteType /\ write'.state = write.state
          /\ write'.landed = write.landed
          /\ write'.seal = 0 \/ (write'.seal = write.seal /\ write.seal <= Len(log'))
      BY <1>2, <1>4 DEF WriteType
    <2>3. TypeOK'
      BY <1>1, <2>1, <2>2 DEF IInv, TypeOK, WriteType
    <2>4. WriteInv'
      <3> SUFFICES ASSUME writing # <<>> PROVE WriteInv'
        BY <1>1 DEF WriteInv
      <3>1. /\ write.seal \in Nat /\ Len(log') \in Nat
            /\ \A i \in 1..write.seal : log[i] \in write.state
        BY <1>2, <2>1 DEF IInv, WriteInv, WriteType
      <3>2. write'.seal <= Len(log') /\ \A i \in 1..write'.seal : log'[i] \in write'.state
        BY <2>1, <2>2, <3>1
      <3>3. QED
        BY <1>1, <2>2, <3>2 DEF IInv, WriteInv
    <2>5. /\ Durable' \subseteq Durable /\ settled \subseteq Durable'
      BY <1>1, <2>1 DEF IInv, SettledIsDurable, NothingLost, Durable, LogUpdates
    <2>6. UnsavedIsQueued'
      BY <1>1, <2>2 DEF IInv, UnsavedIsQueued
    <2>7. QED
      BY <1>1, <2>3, <2>4, <2>5, <2>6 DEF IInv, ServesAllDurable, NoPartialSnapshot,
         RoomHasDoc, SettledIsDurable, NothingLost, ReplayInv, DirtyInv
  <1>5. QED
    BY <1>3, <1>4 DEF RedisFails

\* What a crash leaves in storage: nothing acknowledged is missing, and nothing
\* is there that memory or storage did not hold.
LEMMA CrashFacts ==
    ASSUME IInv, Crash
    PROVE  /\ blob' \subseteq Updates /\ log' \in Seq(Updates)
           /\ blob \subseteq blob'
           /\ settled \subseteq Durable'
           /\ Durable' \subseteq Durable \cup (IF phase = "ready" THEN doc ELSE {})
  <1>1. CASE writing # <<>> /\ write.landed
    <2> DEFINE rest == TrimThrough(log, write.seal)
    <2>1. blob' = blob /\ log' \in Cut(log) \cup Cut(rest)
      BY <1>1 DEF Crash
    <2>2. /\ rest \in Seq(Updates) /\ LogUpdates(rest) \subseteq LogUpdates(log)
          /\ blob \cup LogUpdates(rest) = Durable
      BY <1>1, TrimKeepsDurable
    <2>3. blob \subseteq Updates /\ log \in Seq(Updates) /\ settled \subseteq Durable
      BY DEF IInv, TypeOK, SettledIsDurable
    <2>4. CASE log' \in Cut(log)
      BY <2>1, <2>3, <2>4, CutFacts DEF Durable, LogUpdates
    <2>5. CASE log' \in Cut(rest)
      <3>1. /\ log' \in Seq(Updates) /\ LogUpdates(log') \subseteq LogUpdates(rest)
            /\ LogUpdates(rest) \cap settled \subseteq LogUpdates(log')
        BY <2>2, <2>5, CutFacts
      <3>2. Durable' = blob \cup LogUpdates(log')
        BY <2>1 DEF Durable, LogUpdates
      <3>3. QED
        BY <2>1, <2>2, <2>3, <3>1, <3>2
    <2>6. QED
      BY <2>1, <2>4, <2>5
  <1>2. CASE ~(writing # <<>> /\ write.landed)
    <2>1. log' \in Cut(log) /\ blob' \in (IF writing # <<>> THEN {blob, write.state} ELSE {blob})
      BY <1>2 DEF Crash
    <2>2. /\ blob \subseteq Updates /\ log \in Seq(Updates) /\ settled \subseteq Durable
          /\ doc \subseteq Updates
          /\ writing # <<>> => /\ blob \subseteq write.state /\ write.state \subseteq doc
                              /\ phase = "ready"
      BY DEF IInv, TypeOK, SettledIsDurable, WriteInv, NoPartialSnapshot
    <2>3. /\ log' \in Seq(Updates) /\ LogUpdates(log') \subseteq LogUpdates(log)
          /\ LogUpdates(log) \cap settled \subseteq LogUpdates(log')
      BY <2>1, <2>2, CutFacts
    <2>4. Durable' = blob' \cup LogUpdates(log')
      BY DEF Durable, LogUpdates
    <2>5. QED
      BY <2>1, <2>2, <2>3, <2>4 DEF Durable
  <1>3. QED
    BY <1>1, <1>2

LEMMA CrashInv == ASSUME IInv, Crash PROVE IInv'
  <1>1. /\ blob' \subseteq Updates /\ log' \in Seq(Updates) /\ settled \subseteq Durable'
    BY CrashFacts
  <1>2. /\ phase' = "absent" /\ doc' = {} /\ dirty' = FALSE /\ sockets' = {}
        /\ waiting' = {} /\ gone' = 0 /\ writing' = <<>> /\ write' = Idle
        /\ faults' = faults + 1 /\ UNCHANGED <<redis, settled>>
        /\ owed' \subseteq owed
        /\ owed' \subseteq blob' \cup LogUpdates(log') \cup settled
    BY DEF Crash, Fault
  <1>3. write' \in WriteType /\ writing' \in Seq(BOOLEAN)
    BY <1>2 DEF Idle, Running, WriteType
  <1>4. owed' \subseteq Updates /\ settled' \subseteq Updates /\ redis' = redis
    BY <1>2 DEF IInv, TypeOK
  <1>5. faults' \in Nat /\ redis \in {"ready", "stalled", "down"}
    BY <1>2 DEF IInv, TypeOK
  <1>6. TypeOK'
    BY <1>1, <1>2, <1>3, <1>4, <1>5 DEF TypeOK, WriteType, Phases
  <1>7. NothingLost'
    BY <1>1, <1>2 DEF NothingLost, Durable, LogUpdates
  <1>8. QED
    BY <1>1, <1>2, <1>6, <1>7 DEF IInv, ServesAllDurable, NoPartialSnapshot, RoomHasDoc,
       UnsavedIsQueued, SettledIsDurable, ReplayInv, DirtyInv, WriteInv

LEMMA NextInv == IInv /\ [Next]_vars => IInv'
  <1> SUFFICES ASSUME IInv, [Next]_vars PROVE IInv'
    OBVIOUS
  <1>1. ASSUME NEW s \in Sockets, Join(s) \/ GiveUp(s) \/ Leave(s) PROVE IInv'
    BY <1>1, JoinInv, GiveUpInv, LeaveInv
  <1>2. ASSUME NEW s \in Sockets, NEW u \in Updates, Edit(s, u) PROVE IInv'
    BY <1>2, EditInv
  <1>3. CASE LoadBlob \/ LoadLog \/ LoadFails
    BY <1>3, LoadBlobInv, LoadLogInv, LoadFailsInv
  <1>4. CASE SaveLands \/ SaveFails \/ TrimLog \/ FlushDirty
    BY <1>4, SaveLandsInv, SaveFailsInv, TrimLogInv, FlushDirtyInv
  <1>5. CASE RedisAnswers \/ RedisFails \/ RedisRecovers \/ Crash
    BY <1>5, RedisAnswersInv, RedisFailsInv, RedisRecoversInv, CrashInv
  <1>6. CASE UNCHANGED vars
    BY <1>6 DEF vars, IInv, TypeOK, ServesAllDurable, NoPartialSnapshot, RoomHasDoc,
       UnsavedIsQueued, SettledIsDurable, NothingLost, ReplayInv, DirtyInv, WriteInv, Durable, LogUpdates
  <1>7. QED
    BY <1>1, <1>2, <1>3, <1>4, <1>5, <1>6 DEF Next

-----------------------------------------------------------------------------
(* The theorems.                                                           *)

\* The invariant holds in every reachable state.
THEOREM Invariance == Spec => []IInv
  <1>1. QED
    BY InitInv, NextInv, PTL DEF Spec

\* Type correctness of the registry entry, the queue, the blob and the log.
THEOREM TypeCorrect == Spec => []TypeOK
  <1>1. IInv => TypeOK
    BY DEF IInv
  <1>2. QED
    BY <1>1, Invariance, PTL

\* Whatever crashes, fails or stalls, what Redis has acknowledged stays in the
\* blob or the log (trimLog cuts only behind a blob that has landed).
THEOREM AcknowledgedWorkIsDurable == Spec => []SettledIsDurable
  <1>1. IInv => SettledIsDurable
    BY DEF IInv
  <1>2. QED
    BY <1>1, Invariance, PTL

\* What the server accepted while Redis answered is in the blob or the log for
\* as long as Redis answers: no save, trim or release takes it away.
THEOREM AcceptedWorkIsKept == Spec => []NothingLost
  <1>1. IInv => NothingLost
    BY DEF IInv
  <1>2. QED
    BY <1>1, Invariance, PTL

\* A board in memory is never behind what is stored of it (acquireDoc).
THEOREM MemoryHoldsTheStore == Spec => []ServesAllDurable
  <1>1. IInv => ServesAllDurable
    BY DEF IInv
  <1>2. QED
    BY <1>1, Invariance, PTL

\* No snapshot is taken of a board still loading, and none is lost track of:
\* unsaved work is flagged or on its way (writeSnapshot, markDirty).
THEOREM SnapshotsAreWholeAndQueued == Spec => [](NoPartialSnapshot /\ UnsavedIsQueued)
  <1>1. IInv => NoPartialSnapshot /\ UnsavedIsQueued
    BY DEF IInv
  <1>2. QED
    BY <1>1, Invariance, PTL

\* A room with somebody in it keeps its document (releaseBoard's re-check).
THEOREM OccupiedRoomKeepsDoc == Spec => []RoomHasDoc
  <1>1. IInv => RoomHasDoc
    BY DEF IInv
  <1>2. QED
    BY <1>1, Invariance, PTL

\* The room has its document, the write a whole one, the unsaved work a write.
THEOREM RegistryStaysSound == Spec => []RegistryIsSound
  <1>1. IInv => RegistryIsSound
    BY DEF IInv, RegistryIsSound
  <1>2. QED
    BY <1>1, Invariance, PTL

-----------------------------------------------------------------------------
(* Steps.                                                                  *)

\* What an action other than a crash does to the blob: a write lands, or may
\* have, and it holds all the blob held.
LEMMA BlobStep == IInv /\ [Next]_vars => blob \subseteq blob'
  <1> SUFFICES ASSUME IInv, [Next]_vars PROVE blob \subseteq blob'
    OBVIOUS
  <1>1. CASE SaveLands \/ SaveFails
    BY <1>1 DEF SaveLands, SaveFails, IInv, WriteInv
  <1>2. CASE Crash
    BY <1>2, CrashFacts
  <1>3. CASE UNCHANGED blob
    BY <1>3
  <1>4. QED
    BY <1>1, <1>2, <1>3 DEF Next, vars, Join, GiveUp, Leave, Edit, LoadBlob, LoadLog,
       LoadFails, TrimLog, FlushDirty, RedisAnswers, RedisFails, RedisRecovers

\* The stored blob only ever gains updates: snapshot writes do not overlap, and
\* each encodes a document that holds what is stored (persistSnapshot).
THEOREM BlobIsMonotone == Spec => BlobNeverRegresses
  <1>1. IInv /\ [Next]_vars => [blob \subseteq blob']_vars
    BY BlobStep
  <1>2. QED
    BY <1>1, Invariance, PTL DEF Spec, BlobNeverRegresses

-----------------------------------------------------------------------------
(* BoardPersistence implements DurableBoard.                               *)

Live == IF phase = "ready" THEN doc ELSE {}

\* A step of the store: the copy and whether it is open are left alone.
LEMMA StoreStep ==
    ASSUME IInv, UNCHANGED <<phase, doc>>,
           Durable \subseteq Durable', Durable' \subseteq Durable \cup Live,
           blob \cup settled \subseteq blob' \cup settled', settled' \subseteq Durable'
    PROVE  Board!Next
  <1>1. (phase = "ready")' = (phase = "ready") /\ Live' = Live
    BY DEF Live
  <1>2. blob' \cup settled' \subseteq Durable'
    BY DEF Durable
  <1>3. Board!Store
    BY <1>1, <1>2 DEF Board!Store, Live
  <1>4. QED
    BY <1>3 DEF Board!Next

LEMMA RefinementInit == Init => Board!Init
  BY DEF Init, Board!Init, Durable, LogUpdates

LEMMA RefinementStep == IInv /\ IInv' /\ [Next]_vars => [Board!Next]_(Board!abstractVars)
  <1> SUFFICES ASSUME IInv, IInv', [Next]_vars
               PROVE  Board!Next \/ UNCHANGED Board!abstractVars
    OBVIOUS
  <1> DEFINE Same == UNCHANGED <<blob, log, settled, phase, doc>>
  <1>1. ASSUME Same PROVE UNCHANGED Board!abstractVars
    BY <1>1 DEF Board!abstractVars, Durable, LogUpdates
  <1>2. CASE \E s \in Sockets, u \in Updates : Edit(s, u)
    <2>1. PICK s \in Sockets, u \in Updates : Edit(s, u)
      BY <1>2
    <2>2. /\ s \in sockets /\ u \notin doc /\ doc' = doc \cup {u}
          /\ log' \in Issue(log, Append(log, u))
          /\ UNCHANGED <<blob, phase, settled>>
      BY <2>1 DEF Edit, AppendUpdate
    <2>3. phase = "ready" /\ log \in Seq(Updates)
      BY <2>2 DEF IInv, TypeOK, RoomHasDoc
    <2>4. LogUpdates(log') \in {LogUpdates(log), LogUpdates(log) \cup {u}}
      BY <2>2, <2>3, IssueFacts, AppendFacts DEF IInv
    <2>5. Durable' \in {Durable, Durable \cup {u}}
      BY <2>2, <2>4 DEF Durable, LogUpdates
    <2>6. Board!Accept(u)
      BY <2>2, <2>3, <2>5 DEF Board!Accept
    <2>7. QED
      BY <2>6 DEF Board!Next
  <1>3. CASE LoadLog
    <2>1. /\ phase = "replaying" /\ phase' = "ready" /\ doc' = doc \cup LogUpdates(log)
          /\ settled' = settled \cup LogUpdates(log) /\ blob' = blob
          /\ doc = blob /\ settled \subseteq Durable
      BY <1>3 DEF LoadLog, Replayed, IInv, ReplayInv, SettledIsDurable
    <2>2. log' = log
      BY <1>3 DEF LoadLog, BeginWrite
    <2>3. /\ Durable' = Durable /\ doc' = Durable
          /\ blob' \cup settled' = Durable
      BY <2>1, <2>2 DEF Durable, LogUpdates
    <2>4. Board!Open
      BY <2>1, <2>3 DEF Board!Open
    <2>5. QED
      BY <2>4 DEF Board!Next
  <1>4. CASE LoadBlob \/ LoadFails
    <2>1. /\ phase # "ready" /\ phase' # "ready"
          /\ UNCHANGED <<blob, log, settled>>
      BY <1>4 DEF LoadBlob, LoadFails
    <2>2. Durable' = Durable
      BY <2>1 DEF Durable, LogUpdates
    <2>3. QED
      BY <2>1, <2>2 DEF Board!abstractVars
  <1>5. CASE \E s \in Sockets : Join(s)
    <2>1. /\ phase' # "ready" \/ phase = "ready"
          /\ phase = "ready" => phase' = "ready"
          /\ UNCHANGED <<blob, log, settled, doc>>
      BY <1>5 DEF Join
    <2>2. Durable' = Durable
      BY <2>1 DEF Durable, LogUpdates
    <2>3. QED
      BY <2>1, <2>2 DEF Board!abstractVars
  <1>6. CASE \E s \in Sockets : GiveUp(s)
    BY <1>1, <1>6 DEF GiveUp
  <1>7. CASE FlushDirty \/ \E s \in Sockets : Leave(s)
    <2>1. UNCHANGED <<blob, settled, phase, doc>>
      BY <1>7 DEF FlushDirty, Leave
    <2>2. log' = log
      BY <1>7 DEF FlushDirty, Leave, PersistSnapshot, BeginWrite
    <2>3. QED
      BY <1>1, <2>1, <2>2
  <1>8. CASE SaveLands
    <2>1. /\ blob' = write.state /\ write.state \subseteq doc /\ blob \subseteq write.state
          /\ phase = "ready" /\ UNCHANGED <<log, settled, phase, doc>>
      BY <1>8 DEF SaveLands, IInv, WriteInv, NoPartialSnapshot
    <2>2. Durable' = blob' \cup LogUpdates(log)
      BY <2>1 DEF Durable, LogUpdates
    <2>3. settled' \subseteq Durable'
      BY DEF IInv, SettledIsDurable
    <2>4. QED
      BY <2>1, <2>2, <2>3, StoreStep DEF Durable, Live
  <1>9. CASE SaveFails
    <2>1. /\ blob' \in {blob, write.state} /\ write.state \subseteq doc
          /\ blob \subseteq write.state /\ phase = "ready" /\ UNCHANGED <<settled, phase, doc>>
      BY <1>9 DEF SaveFails, NextWrite, IInv, WriteInv, NoPartialSnapshot
    <2>2. log' = log
      BY <1>9 DEF SaveFails, NextWrite, BeginWrite
    <2>3. Durable' = blob' \cup LogUpdates(log) /\ settled' \subseteq Durable'
      BY <2>2 DEF Durable, LogUpdates, IInv, SettledIsDurable
    <2>4. QED
      BY <2>1, <2>3, StoreStep DEF Durable, Live
  <1>10. CASE TrimLog
    <2>1. writing # <<>> /\ write.landed /\ UNCHANGED <<blob, settled>>
      BY <1>10 DEF TrimLog
    <2>2. PICK lg \in Issue(log, TrimThrough(log, write.seal)) :
              \/ ReleaseDoc(lg)
              \/ NextWrite(lg, dirty)
      BY <1>10 DEF TrimLog
    <2>3. blob \cup LogUpdates(lg) = Durable
      BY <2>1, <2>2, IssueFacts, TrimKeepsDurable DEF IInv, Durable
    <2>4. log' = lg
      BY <2>2 DEF ReleaseDoc, NextWrite, BeginWrite
    <2>5. Durable' = Durable /\ settled \subseteq Durable
      BY <2>1, <2>3, <2>4 DEF Durable, LogUpdates, IInv, SettledIsDurable
    <2>6. CASE ReleaseDoc(lg)
      <3>1. phase' = "absent" /\ doc' = {}
        BY <2>6 DEF ReleaseDoc
      <3>2. Board!Close
        BY <2>1, <2>5, <3>1 DEF Board!Close, Durable
      <3>3. QED
        BY <3>2 DEF Board!Next
    <2>7. CASE NextWrite(lg, dirty)
      BY <2>1, <2>5, <2>7 DEF NextWrite, Board!abstractVars
    <2>8. QED
      BY <2>2, <2>6, <2>7
  <1>11. CASE RedisAnswers
    <2>1. /\ UNCHANGED <<blob, log, phase, doc>> /\ settled \subseteq settled'
          /\ settled' \subseteq Durable'
      BY <1>11 DEF RedisAnswers, IInv, SettledIsDurable
    <2>2. Durable' = Durable
      BY <2>1 DEF Durable, LogUpdates
    <2>3. QED
      BY <2>1, <2>2, StoreStep
  <1>12. CASE RedisFails
    <2>1. UNCHANGED <<blob, settled, phase, doc>>
      BY <1>12 DEF RedisFails
    <2>2. log \in Seq(Updates)
      BY DEF IInv, TypeOK
    <2>3. LogUpdates(log') \subseteq LogUpdates(log)
      BY <1>12, <2>2, CutFacts DEF RedisFails, LogUpdates
    <2>4. Durable' \subseteq Durable /\ blob \cup settled \subseteq Durable'
      BY <2>1, <2>3 DEF Durable, LogUpdates, IInv, SettledIsDurable
    <2>5. Board!Forget
      BY <2>1, <2>4 DEF Board!Forget
    <2>6. QED
      BY <2>5 DEF Board!Next
  <1>13. CASE RedisRecovers
    BY <1>1, <1>13 DEF RedisRecovers
  <1>14. CASE Crash
    <2>1. /\ phase' = "absent" /\ doc' = {} /\ UNCHANGED settled /\ blob \subseteq blob'
          /\ settled \subseteq Durable' /\ Durable' \subseteq Durable \cup Live
      BY <1>14, CrashFacts DEF Crash, Live
    <2>2. blob' \cup settled' \subseteq Durable'
      BY <2>1 DEF Durable
    <2>3. Board!Close
      BY <2>1, <2>2 DEF Board!Close, Live
    <2>4. QED
      BY <2>3 DEF Board!Next
  <1>15. CASE UNCHANGED vars
    BY <1>1, <1>15 DEF vars
  <1>16. QED
    BY <1>2, <1>3, <1>4, <1>5, <1>6, <1>7, <1>8, <1>9, <1>10, <1>11, <1>12, <1>13,
       <1>14, <1>15 DEF Next

\* The registry, the writer and the log together keep DurableBoard's promise:
\* opening a board yields exactly what is stored, only work nobody has
\* acknowledged can go missing from the store, and nothing appears in it that no
\* client sent.
THEOREM Refinement == Spec => ImplementsDurableBoard
  <1>1. QED
    BY RefinementInit, RefinementStep, Invariance, PTL
    DEF Spec, ImplementsDurableBoard, Board!Spec

=============================================================================
