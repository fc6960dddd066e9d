------------------------ MODULE BoardReuse_proofs ----------------------------
(***************************************************************************)
(* Proofs about BoardLifecycle, and about BoardReuse on top of it, for any *)
(* accounts, pages, requests and bounds.  Types and the record of ownership *)
(* hold under every overlap; what needs requests one at a time says so.    *)
(* Without the overlaps of Races, and with at most one crash, the boards   *)
(* that have an id in turn share nothing and lose nothing.  With them, the *)
(* first of those boards still loses nothing, provided that nobody is let  *)
(* in before createBoard is done.                                          *)
(***************************************************************************)
EXTENDS BoardReuse, TLAPS

-----------------------------------------------------------------------------
(* Types.                                                                  *)

\* Init is in its types.
LEMMA InitTypes ==
    Init => TypeOK
  BY ConstantsAssumption
  DEF Init, TypeOK, NoBoard, NoRoles, Resting, Waits

\* A request that waits, or is answered, is still a request.
LEMMA CallTypes ==
    ASSUME TypeOK, NEW k \in Calls, NEW u \in Users \cup {NoUser},
           NEW w \in Waits, Wait(k, w, u) \/ Answer(k)
    PROVE  call' \in [Calls -> [at : Waits, user : Users \cup {NoUser}]]
  BY DEF TypeOK, Wait, Answer, Resting, Waits

\* Requests keep their types.
LEMMA RequestTypes ==
    ASSUME TypeOK, NEW k \in Calls,
           \/ \E u \in Users \cup {NoUser} : CreateBoard(k, u)
           \/ \E u \in Users : FindToClaim(k, u) \/ FindToDelete(k, u)
           \/ FindToExtend(k)
           \/ Proceed(k)
    PROVE  TypeOK'
  <1> USE DEF TypeOK
  <1>0. call[k].user \in Users \cup {NoUser}
    OBVIOUS
  <1>1. CASE \E u \in Users \cup {NoUser} : CreateBoard(k, u)
    <2>1. PICK u \in Users \cup {NoUser} : CreateBoard(k, u)
      BY <1>1
    <2>2. Wait(k, "created", u) /\ "created" \in Waits
      BY <2>1 DEF CreateBoard, Waits
    <2>3. call' \in [Calls -> [at : Waits, user : Users \cup {NoUser}]]
      BY <2>2, CallTypes
    <2>4. made' \in 0..MaxBoards /\ made + 1 \in 1..MaxBoards
      BY <2>1, ConstantsAssumption DEF CreateBoard
    <2>5. board' \in Board
      BY <2>1, <2>4 DEF CreateBoard, Board
    <2>6. role' \in [Users -> {"none", "editor", "owner"}]
      BY <2>1 DEF CreateBoard
    <2>7. QED
      BY <2>1, <2>3, <2>4, <2>5, <2>6 DEF CreateBoard, server
  <1>2. CASE \E u \in Users : FindToClaim(k, u) \/ FindToDelete(k, u)
    <2>1. PICK u \in Users : FindToClaim(k, u) \/ FindToDelete(k, u)
      BY <1>2
    <2>2. Wait(k, "claiming", u) \/ Wait(k, "found", u)
      BY <2>1 DEF FindToClaim, FindToDelete
    <2>3. call' \in [Calls -> [at : Waits, user : Users \cup {NoUser}]]
      BY <2>2, CallTypes DEF Waits
    <2>4. QED
      BY <2>1, <2>3 DEF FindToClaim, FindToDelete, rows, server
  <1>3. CASE FindToExtend(k)
    <2>1. call' \in [Calls -> [at : Waits, user : Users \cup {NoUser}]]
      BY <1>3, CallTypes DEF FindToExtend, Waits
    <2>2. QED
      BY <1>3, <2>1 DEF FindToExtend, rows, server
  <1>4. CASE FinishCreate(k)
    <2>1. call' \in [Calls -> [at : Waits, user : Users \cup {NoUser}]]
      BY <1>4 DEF FinishCreate, Answer, Resting, Waits
    <2>2. QED
      BY <1>4, <2>1 DEF FinishCreate, rows, server
  <1>5. CASE ClaimBoard(k)
    <2>1. call' \in [Calls -> [at : Waits, user : Users \cup {NoUser}]]
      BY <1>5 DEF ClaimBoard, Answer, Resting, Waits
    <2>2. ASSUME Exists, NEW u \in Users \cup {NoUser}
          PROVE  Claimed(u) \in Board
      <3>1. board \in Board
        BY <2>2 DEF Exists, NoBoard
      <3>2. QED
        BY <3>1 DEF Claimed, Board
    <2>3. board' \in Board \cup {NoBoard}
      BY <1>5, <1>0, <2>2 DEF ClaimBoard
    <2>4. role' \in [Users -> {"none", "editor", "owner"}]
      BY <1>5 DEF ClaimBoard
    <2>5. QED
      BY <1>5, <2>1, <2>3, <2>4 DEF ClaimBoard, server
  <1>6. CASE ExtendBoard(k)
    <2>1. call' \in [Calls -> [at : Waits, user : Users \cup {NoUser}]]
      BY <1>6 DEF ExtendBoard, Answer, Resting, Waits
    <2>2. board' \in Board \cup {NoBoard}
      BY <1>6 DEF ExtendBoard, Exists, NoBoard, Board
    <2>3. QED
      BY <1>6, <2>1, <2>2 DEF ExtendBoard, server
  <1>7. CASE CheckRole(k)
    <2>1. Wait(k, "allowed", call[k].user) \/ Answer(k)
      BY <1>7 DEF CheckRole
    <2>2. call' \in [Calls -> [at : Waits, user : Users \cup {NoUser}]]
      BY <2>1, <1>0, CallTypes DEF Waits
    <2>3. QED
      BY <1>7, <2>2 DEF CheckRole, rows, server
  <1>8. CASE DeleteRow(k)
    <2>1. Wait(k, "deleted", call[k].user) \/ Answer(k)
      BY <1>8 DEF DeleteRow
    <2>2. call' \in [Calls -> [at : Waits, user : Users \cup {NoUser}]]
      BY <2>1, <1>0, CallTypes DEF Waits
    <2>3. QED
      BY <1>8, <2>2 DEF DeleteRow, DropRow, NoRoles, rows, server
  <1>9. CASE DropLog(k)
    <2>1. call' \in [Calls -> [at : Waits, user : Users \cup {NoUser}]]
      BY <1>9, <1>0, CallTypes DEF DropLog, Waits
    <2>2. QED
      BY <1>9, <2>1 DEF DropLog, rows, server
  <1>10. CASE EvictBoard(k)
    <2>1. call' \in [Calls -> [at : Waits, user : Users \cup {NoUser}]]
      BY <1>10 DEF EvictBoard, Answer, Resting, Waits
    <2>2. QED
      BY <1>10, <2>1 DEF EvictBoard, Openers, Inside, rows
  <1>11. QED
    BY <1>1, <1>2, <1>3, <1>4, <1>5, <1>6, <1>7, <1>8, <1>9, <1>10 DEF Proceed

\* Connections keep their types.
LEMMA ConnectionTypes ==
    ASSUME TypeOK,
           \/ \E c \in Clients : \/ OpenPage(c) \/ Handshake(c) \/ JoinBoard(c)
                                 \/ LoadedInVain(c) \/ Leave(c)
           \/ \E gone \in SUBSET Clients : Loaded(gone)
    PROVE  TypeOK'
  <1> USE DEF TypeOK
  <1>1. ASSUME NEW c \in Clients, OpenPage(c)
        PROVE  TypeOK'
    <2>1. board.n \in 0..MaxBoards
      BY ConstantsAssumption DEF Board, NoBoard
    <2>2. QED
      BY <1>1, <2>1 DEF OpenPage, rows
  <1>2. ASSUME NEW c \in Clients, Handshake(c)
        PROVE  TypeOK'
    BY <1>2 DEF Handshake, rows
  <1>3. ASSUME NEW c \in Clients, JoinBoard(c)
        PROVE  TypeOK'
    <2>1. role' \in [Users -> {"none", "editor", "owner"}]
      BY <1>3 DEF JoinBoard, Touch
    <2>2. QED
      BY <1>3, <2>1 DEF JoinBoard
  <1>4. ASSUME NEW c \in Clients, LoadedInVain(c)
        PROVE  TypeOK'
    <2>1. role' \in [Users -> {"none", "editor", "owner"}]
      BY <1>4 DEF LoadedInVain, Touch
    <2>2. QED
      BY <1>4, <2>1 DEF LoadedInVain
  <1>5. ASSUME NEW c \in Clients, Leave(c)
        PROVE  TypeOK'
    <2>1. detached' \subseteq Clients
      BY <1>5 DEF Leave, Openers
    <2>2. docs' \in {"none", "loading", "ready"}
      BY <1>5 DEF Leave, AfterLastOne
    <2>3. QED
      BY <1>5, <2>1, <2>2 DEF Leave, rows
  <1>6. ASSUME NEW gone \in SUBSET Clients, Loaded(gone)
        PROVE  TypeOK'
    <2>1. role' \in [Users -> {"none", "editor", "owner"}]
      BY <1>6 DEF Loaded, Touch
    <2>2. QED
      BY <1>6, <2>1 DEF Loaded, Openers
  <1>7. QED
    BY <1>1, <1>2, <1>3, <1>4, <1>5, <1>6

\* The clock, the sweep and a crash keep their types.
LEMMA OtherTypes ==
    ASSUME TypeOK,
           \/ TimePasses \/ SweepReads \/ SweepFilters \/ SweepDeletes
           \/ SweepDrops \/ Crash
    PROVE  TypeOK'
  <1> USE DEF TypeOK
  <1>1. CASE TimePasses
    <2>1. board' \in Board
      BY <1>1 DEF TimePasses, Board, NoBoard
    <2>2. QED
      BY <1>1, <2>1 DEF TimePasses, server
  <1>2. CASE SweepReads \/ SweepFilters \/ SweepDrops
    BY <1>2 DEF SweepReads, SweepFilters, SweepDrops, rows, server
  <1>3. CASE SweepDeletes
    BY <1>3 DEF SweepDeletes, DropRow, NoRoles, rows, server
  <1>4. CASE Crash
    <2>1. crashes' \in 0..MaxCrashes
      BY <1>4, ConstantsAssumption DEF Crash
    <2>2. QED
      BY <1>4, <2>1 DEF Crash, Resting, Waits, rows
  <1>5. QED
    BY <1>1, <1>2, <1>3, <1>4

\* Every step keeps the types.
LEMMA StepTypes ==
    TypeOK /\ [Next]_vars => TypeOK'
  <1>1. ASSUME TypeOK, Next
        PROVE  TypeOK'
    BY <1>1, RequestTypes, ConnectionTypes, OtherTypes DEF Next
  <1>2. ASSUME TypeOK, UNCHANGED vars
        PROVE  TypeOK'
    BY <1>2 DEF TypeOK, vars, rows, server
  <1>3. QED
    BY <1>1, <1>2

\* The rows, the requests, the registry and the connections stay in their
\* types under every overlap.
THEOREM TypeCorrect ==
    Spec => []TypeOK
  BY InitTypes, StepTypes, PTL DEF Spec

-----------------------------------------------------------------------------
(* Ownership.                                                              *)

\* Most steps leave the row and the roles alone; those of connections may
\* add editors.
LEMMA RowsUntouched ==
    ASSUME TypeOK, [Next]_vars
    PROVE  \/ /\ board' = board
              /\ \A u \in Users : (role'[u] = "owner") <=> (role[u] = "owner")
           \/ \E k \in Calls, u \in Users \cup {NoUser} : CreateBoard(k, u)
           \/ \E k \in Calls : ClaimBoard(k) \/ ExtendBoard(k)
           \/ TimePasses
           \/ board' = NoBoard /\ role' = NoRoles
  <1> DEFINE Same == /\ board' = board
                     /\ \A u \in Users :
                          (role'[u] = "owner") <=> (role[u] = "owner")
  <1>1. ASSUME NEW us \in SUBSET Users, Touch(us), board' = board
        PROVE  Same
    BY <1>1 DEF Touch, TypeOK
  <1>2. ASSUME NEW k \in Calls, Proceed(k), ~ClaimBoard(k), ~ExtendBoard(k)
        PROVE  Same \/ (board' = NoBoard /\ role' = NoRoles)
    BY <1>2 DEF Proceed, FinishCreate, CheckRole, DeleteRow, DropLog,
                EvictBoard, DropRow, rows
  <1>3. ASSUME NEW c \in Clients,
               OpenPage(c) \/ Handshake(c) \/ JoinBoard(c) \/ LoadedInVain(c)
                 \/ Leave(c)
        PROVE  Same
    <2>1. CASE OpenPage(c) \/ Handshake(c) \/ Leave(c)
      BY <2>1 DEF OpenPage, Handshake, Leave, rows
    <2>2. CASE JoinBoard(c)
      BY <2>2, <1>1 DEF JoinBoard
    <2>3. CASE LoadedInVain(c)
      BY <2>3, <1>1 DEF LoadedInVain
    <2>4. QED
      BY <1>3, <2>1, <2>2, <2>3
  <1>4. ASSUME NEW gone \in SUBSET Clients, Loaded(gone)
        PROVE  Same
    BY <1>4, <1>1 DEF Loaded
  <1>5. ASSUME SweepReads \/ SweepFilters \/ SweepDeletes \/ SweepDrops \/ Crash
        PROVE  Same \/ (board' = NoBoard /\ role' = NoRoles)
    BY <1>5 DEF SweepReads, SweepFilters, SweepDeletes, SweepDrops, Crash,
                DropRow, rows
  <1>6. ASSUME NEW k \in Calls,
               \/ \E u \in Users : FindToClaim(k, u) \/ FindToDelete(k, u)
               \/ FindToExtend(k)
        PROVE  Same
    BY <1>6 DEF FindToClaim, FindToDelete, FindToExtend, rows
  <1>7. CASE UNCHANGED vars
    BY <1>7 DEF vars, rows
  <1>8. CASE Next
    BY <1>8, <1>2, <1>3, <1>4, <1>5, <1>6 DEF Next
  <1>9. QED
    BY <1>7, <1>8

\* The record of ownership is kept by every step.
LEMMA StepOwnership ==
    ASSUME TypeOK, OwnershipIsRecorded, [Next]_vars
    PROVE  OwnershipIsRecorded'
  <1> USE DEF OwnershipIsRecorded
  <1>1. CASE /\ board' = board
             /\ \A u \in Users : (role'[u] = "owner") <=> (role[u] = "owner")
    <2>1. board.owner \in Users \cup {NoUser}
      BY DEF TypeOK, Board, NoBoard
    <2>2. QED
      BY <1>1, <2>1
  <1>2. ASSUME NEW k \in Calls, NEW u \in Users \cup {NoUser}, CreateBoard(k, u)
        PROVE  OwnershipIsRecorded'
    BY <1>2 DEF CreateBoard
  <1>3. ASSUME NEW k \in Calls, ClaimBoard(k)
        PROVE  OwnershipIsRecorded'
    <2>1. CASE board' = board /\ role' = role
      BY <2>1
    <2>2. CASE /\ Exists
               /\ board' = Claimed(call[k].user)
               /\ role' = [role EXCEPT ![call[k].user] = "owner"]
      <3>1. board \in Board /\ call[k].user \in Users \cup {NoUser}
        BY <2>2 DEF TypeOK, Exists, NoBoard
      <3>2. /\ board'.owner = call[k].user
            /\ ~board'.key
            /\ ~board'.ephemeral
        BY <2>2, <3>1 DEF Claimed, Board
      <3>3. QED
        BY <2>2, <3>1, <3>2 DEF TypeOK
    <2>3. QED
      BY <1>3, <2>1, <2>2 DEF ClaimBoard
  <1>4. ASSUME NEW k \in Calls, ExtendBoard(k)
        PROVE  OwnershipIsRecorded'
    BY <1>4 DEF ExtendBoard, TypeOK, Board, Exists, NoBoard
  <1>5. CASE TimePasses
    BY <1>5 DEF TimePasses, TypeOK, Board, NoBoard
  <1>6. CASE board' = NoBoard /\ role' = NoRoles
    BY <1>6 DEF NoBoard
  <1>7. QED
    BY RowsUntouched, <1>1, <1>2, <1>3, <1>4, <1>5, <1>6

\* An owner always has the owner's role, and no token works against an owner,
\* whatever requests, sweeps and connections overlap.
THEOREM OwnershipRecorded ==
    Spec => []OwnershipIsRecorded
  <1>1. Init => OwnershipIsRecorded
    BY DEF Init, OwnershipIsRecorded, NoBoard
  <1>2. TypeOK /\ OwnershipIsRecorded /\ [Next]_vars => OwnershipIsRecorded'
    BY StepOwnership
  <1>3. QED
    BY <1>1, <1>2, TypeCorrect, PTL DEF Spec

-----------------------------------------------------------------------------
(* One request at a time.                                                  *)

\* No two requests are under way.
Alone == \A j, k \in Calls : j = k \/ call[j] = Resting \/ call[k] = Resting

\* Who is about to write a claim or a new date, on what it read before, writes
\* to a row that still has no owner.
Pending ==
    \A k \in Calls : call[k].at \in {"claiming", "extending"}
                       => board.owner = NoUser

OwnerInv == OwnershipIsRecorded /\ OneOwner /\ OwnedNeverExpires /\ Alone /\ Pending

\* A request begins when no other is there, and goes on alone.
LEMMA StepAlone ==
    ASSUME "requests" \notin Races, TypeOK, Alone, [Next]_vars
    PROVE  Alone'
  <1> USE DEF Alone
  <1>1. ASSUME NEW k \in Calls, NEW w, NEW u, MayBegin(k), Wait(k, w, u)
        PROVE  Alone'
    BY <1>1 DEF MayBegin, Wait, TypeOK
  <1>2. ASSUME NEW k \in Calls, call[k] # Resting,
               \/ Answer(k)
               \/ \E w \in Waits, u \in Users \cup {NoUser} : Wait(k, w, u)
        PROVE  Alone'
    BY <1>2 DEF Answer, Wait, TypeOK
  <1>3. ASSUME NEW k \in Calls, Proceed(k)
        PROVE  Alone'
    <2>1. call[k] # Resting /\ call[k].user \in Users \cup {NoUser}
      BY <1>3 DEF Proceed, FinishCreate, ClaimBoard, ExtendBoard, CheckRole,
                  DeleteRow, DropLog, EvictBoard, Resting, TypeOK
    <2>2. \/ Answer(k)
          \/ Wait(k, "allowed", call[k].user) \/ Wait(k, "deleted", call[k].user)
          \/ Wait(k, "dropped", call[k].user)
      BY <1>3 DEF Proceed, FinishCreate, ClaimBoard, ExtendBoard, CheckRole,
                  DeleteRow, DropLog, EvictBoard
    <2>3. QED
      BY <2>1, <2>2, <1>2 DEF Waits
  <1>4. ASSUME NEW k \in Calls,
               \/ \E u \in Users \cup {NoUser} : CreateBoard(k, u)
               \/ \E u \in Users : FindToClaim(k, u) \/ FindToDelete(k, u)
               \/ FindToExtend(k)
        PROVE  Alone'
    BY <1>4, <1>1 DEF CreateBoard, FindToClaim, FindToDelete, FindToExtend
  <1>5. CASE call' = call
    BY <1>5
  <1>6. CASE Crash
    BY <1>6 DEF Crash
  <1>7. CASE UNCHANGED vars
    BY <1>7 DEF vars
  <1>8. CASE Next
    <2>1. ASSUME NEW c \in Clients,
                 \/ OpenPage(c) \/ Handshake(c) \/ JoinBoard(c)
                 \/ LoadedInVain(c) \/ Leave(c)
          PROVE  call' = call
      BY <2>1 DEF OpenPage, Handshake, JoinBoard, LoadedInVain, Leave
    <2>2. ASSUME NEW gone \in SUBSET Clients, Loaded(gone)
          PROVE  call' = call
      BY <2>2 DEF Loaded
    <2>3. ASSUME TimePasses \/ SweepReads \/ SweepFilters \/ SweepDeletes
                   \/ SweepDrops
          PROVE  call' = call
      BY <2>3 DEF TimePasses, SweepReads, SweepFilters, SweepDeletes, SweepDrops
    <2>4. QED
      BY <1>8, <2>1, <2>2, <2>3, <1>3, <1>4, <1>5, <1>6 DEF Next
  <1>9. QED
    BY <1>7, <1>8

\* A claim or an extension is about to be written only where nobody owns the
\* board: who read the row is the only one to write it.
LEMMA StepPending ==
    ASSUME "requests" \notin Races, TypeOK, OwnerInv, [Next]_vars
    PROVE  Pending'
  <1> USE DEF Pending
  <1> DEFINE Writing(k) == call[k].at \in {"claiming", "extending"}
  <1>1. ASSUME \A k \in Calls : ~Writing(k)'
        PROVE  Pending'
    BY <1>1
  <1>2. ASSUME NEW k \in Calls, call[k] # Resting \/ MayBegin(k)
        PROVE  \A j \in Calls \ {k} : call[j] = Resting
    BY <1>2 DEF OwnerInv, Alone, MayBegin
  <1>3. ASSUME NEW k \in Calls, call[k] # Resting \/ MayBegin(k),
               \/ Answer(k)
               \/ \E w \in Waits \ {"claiming", "extending"},
                     u \in Users \cup {NoUser} : Wait(k, w, u)
        PROVE  Pending'
    BY <1>2, <1>3 DEF Answer, Wait, TypeOK, Resting
  <1>4. ASSUME NEW k \in Calls, Proceed(k)
        PROVE  Pending'
    <2>1. call[k] # Resting /\ call[k].user \in Users \cup {NoUser}
      BY <1>4 DEF Proceed, FinishCreate, ClaimBoard, ExtendBoard, CheckRole,
                  DeleteRow, DropLog, EvictBoard, Resting, TypeOK
    <2>2. \/ Answer(k)
          \/ Wait(k, "allowed", call[k].user) \/ Wait(k, "deleted", call[k].user)
          \/ Wait(k, "dropped", call[k].user)
      BY <1>4 DEF Proceed, FinishCreate, ClaimBoard, ExtendBoard, CheckRole,
                  DeleteRow, DropLog, EvictBoard
    <2>3. QED
      BY <2>1, <2>2, <1>3 DEF Waits
  <1>5. ASSUME NEW k \in Calls,
               \/ \E u \in Users \cup {NoUser} : CreateBoard(k, u)
               \/ \E u \in Users : FindToDelete(k, u)
        PROVE  Pending'
    BY <1>5, <1>3 DEF CreateBoard, FindToDelete, Waits
  <1>6. ASSUME NEW k \in Calls, NEW u \in Users, FindToClaim(k, u)
        PROVE  Pending'
    BY <1>6 DEF FindToClaim, MayClaim, rows
  <1>7. ASSUME NEW k \in Calls, FindToExtend(k)
        PROVE  Pending'
    <2>1. board.owner = NoUser
      BY <1>7 DEF FindToExtend, MayExtend, OwnerInv, OwnershipIsRecorded
    <2>2. QED
      BY <1>7, <2>1 DEF FindToExtend, rows
  <1>8. ASSUME call' = call, board'.owner \in {board.owner, NoUser}
        PROVE  Pending'
    BY <1>8 DEF OwnerInv
  <1>9. ASSUME NEW c \in Clients,
               \/ OpenPage(c) \/ Handshake(c) \/ JoinBoard(c)
               \/ LoadedInVain(c) \/ Leave(c)
        PROVE  Pending'
    BY <1>9, <1>8 DEF OpenPage, Handshake, JoinBoard, LoadedInVain, Leave, rows
  <1>10. ASSUME NEW gone \in SUBSET Clients, Loaded(gone)
         PROVE  Pending'
    BY <1>10, <1>8 DEF Loaded
  <1>11. CASE TimePasses
    BY <1>11, <1>8 DEF TimePasses, TypeOK, Board, NoBoard
  <1>12. CASE SweepReads \/ SweepFilters \/ SweepDeletes \/ SweepDrops
    BY <1>12, <1>8 DEF SweepReads, SweepFilters, SweepDeletes, SweepDrops,
                       DropRow, NoBoard, rows
  <1>13. CASE Crash
    BY <1>13 DEF Crash, Resting
  <1>14. CASE UNCHANGED vars
    BY <1>14, <1>8 DEF vars, rows
  <1>15. CASE Next
    BY <1>15, <1>4, <1>5, <1>6, <1>7, <1>9, <1>10, <1>11, <1>12, <1>13 DEF Next
  <1>16. QED
    BY <1>14, <1>15

\* The role of the owner is the owner's alone.
LEMMA StepOneOwner ==
    ASSUME TypeOK, OwnerInv, [Next]_vars
    PROVE  OneOwner'
  <1> USE DEF OneOwner, OwnerInv
  <1>1. CASE /\ board' = board
             /\ \A u \in Users : (role'[u] = "owner") <=> (role[u] = "owner")
    BY <1>1
  <1>2. ASSUME NEW k \in Calls, NEW u \in Users \cup {NoUser}, CreateBoard(k, u)
        PROVE  OneOwner'
    BY <1>2 DEF CreateBoard
  <1>3. ASSUME NEW k \in Calls, ClaimBoard(k)
        PROVE  OneOwner'
    <2>1. CASE board' = board /\ role' = role
      BY <2>1
    <2>2. CASE /\ Exists
               /\ board' = Claimed(call[k].user)
               /\ role' = [role EXCEPT ![call[k].user] = "owner"]
      <3>1. board \in Board
        BY <2>2 DEF TypeOK, Exists, NoBoard
      <3>2. board'.owner = call[k].user
        BY <2>2, <3>1 DEF Claimed, Board
      <3>3. \A u \in Users : role[u] # "owner"
        BY <1>3, ConstantsAssumption DEF Pending, ClaimBoard
      <3>4. QED
        BY <2>2, <3>2, <3>3 DEF TypeOK
    <2>3. QED
      BY <1>3, <2>1, <2>2 DEF ClaimBoard
  <1>4. ASSUME NEW k \in Calls, ExtendBoard(k)
        PROVE  OneOwner'
    BY <1>4 DEF ExtendBoard, TypeOK, Board, Exists, NoBoard
  <1>5. CASE TimePasses
    BY <1>5 DEF TimePasses, TypeOK, Board, NoBoard
  <1>6. CASE board' = NoBoard /\ role' = NoRoles
    BY <1>6 DEF NoRoles
  <1>7. QED
    BY RowsUntouched, <1>1, <1>2, <1>3, <1>4, <1>5, <1>6

\* A board with an owner is never dated.
LEMMA StepNeverExpires ==
    ASSUME TypeOK, OwnerInv, [Next]_vars
    PROVE  OwnedNeverExpires'
  <1> USE DEF OwnedNeverExpires, OwnerInv
  <1>1. CASE board' = board
    BY <1>1
  <1>2. ASSUME NEW k \in Calls, NEW u \in Users \cup {NoUser}, CreateBoard(k, u)
        PROVE  OwnedNeverExpires'
    BY <1>2 DEF CreateBoard
  <1>3. ASSUME NEW k \in Calls, ClaimBoard(k)
        PROVE  OwnedNeverExpires'
    <2>1. CASE board' = board
      BY <2>1
    <2>2. CASE Exists /\ board' = Claimed(call[k].user)
      <3>1. board \in Board
        BY <2>2 DEF TypeOK, Exists, NoBoard
      <3>2. QED
        BY <2>2, <3>1 DEF Claimed, Board
    <2>3. QED
      BY <1>3, <2>1, <2>2 DEF ClaimBoard
  <1>4. ASSUME NEW k \in Calls, ExtendBoard(k)
        PROVE  OwnedNeverExpires'
    <2>1. board.owner = NoUser
      BY <1>4 DEF ExtendBoard, Pending
    <2>2. board'.owner = NoUser
      BY <1>4, <2>1 DEF ExtendBoard, TypeOK, Board, Exists, NoBoard
    <2>3. QED
      BY <2>2
  <1>5. CASE TimePasses
    BY <1>5 DEF TimePasses, TypeOK, Board, NoBoard
  <1>6. CASE board' = NoBoard
    BY <1>6 DEF NoBoard
  <1>7. QED
    BY RowsUntouched, <1>1, <1>2, <1>3, <1>4, <1>5, <1>6

\* What the next two theorems rest on.
LEMMA OwnerInvariant ==
    ASSUME "requests" \notin Races
    PROVE  Spec => []OwnerInv
  <1>1. Init => OwnerInv
    BY DEF Init, OwnerInv, OwnershipIsRecorded, OneOwner, OwnedNeverExpires,
           Alone, Pending, NoBoard, NoRoles, Resting
  <1>2. TypeOK /\ OwnerInv /\ [Next]_vars => OwnerInv'
    <2> SUFFICES ASSUME TypeOK, OwnerInv, [Next]_vars
                 PROVE  OwnerInv'
      OBVIOUS
    <2>1. OwnershipIsRecorded'
      BY StepOwnership DEF OwnerInv
    <2>2. Alone'
      BY StepAlone DEF OwnerInv
    <2>3. QED
      BY <2>1, <2>2, StepPending, StepOneOwner, StepNeverExpires DEF OwnerInv
  <1>3. QED
    BY <1>1, <1>2, TypeCorrect, PTL DEF Spec

\* With requests one at a time, whatever the sweep and the connections do
\* meanwhile, the role that renames and deletes a board is its owner's alone.
THEOREM OnlyOneOwner ==
    ASSUME "requests" \notin Races
    PROVE  Spec => []OneOwner
  <1>1. OwnerInv => OneOwner
    BY DEF OwnerInv
  <1>2. QED
    BY <1>1, OwnerInvariant, PTL

\* With requests one at a time, an owned board is permanent.
THEOREM OwnedIsPermanent ==
    ASSUME "requests" \notin Races
    PROVE  Spec => []OwnedNeverExpires
  <1>1. OwnerInv => OwnedNeverExpires
    BY DEF OwnerInv
  <1>2. QED
    BY <1>1, OwnerInvariant, PTL

\* All that is said of ownership, with requests one at a time.
THEOREM OwnershipStands ==
    ASSUME "requests" \notin Races
    PROVE  Spec => []OwnershipHolds
  <1>1. OwnerInv => OwnershipHolds
    BY DEF OwnerInv, OwnershipHolds
  <1>2. QED
    BY <1>1, OwnerInvariant, PTL

-----------------------------------------------------------------------------
(* What a delete leaves behind.                                            *)

\* A request and the sweep are never under way at once.
OneAtATime == Alone /\ (sweep # "idle" => \A k \in Calls : call[k] = Resting)

\* What a request or the sweep found of the row is still so.
Stands ==
    /\ \A k \in Calls :
          /\ call[k].at \in {"created", "claiming", "extending", "found", "allowed"}
               => Exists
          /\ call[k].at \in {"deleted", "dropped"} => ~Exists
    /\ sweep \in {"read", "deleting"} => Expired
    /\ sweep = "swept" => ~Exists

\* Nobody is on the way into a board that is gone or about to go.
Shut == (~Exists \/ sweep # "idle") => Connecting = {}

\* A document is in memory for somebody who loads it or is in its room, or for
\* the delete that is about to drop it.
Seats ==
    /\ InsideIsServed
    /\ room # {} => docs = "ready"
    /\ docs = "loading" <=> \E c \in Clients : client[c] = "opening"
    /\ docs = "ready" /\ room = {} => ~Exists
    /\ docs # "none" /\ ~Exists =>
          \E k \in Calls : call[k].at \in {"deleted", "dropped"}
    /\ sweep \in {"deleting", "swept"} => docs = "none"

GoneInv == OneAtATime /\ Stands /\ Shut /\ Seats

\* A request that begins finds nobody else at work; what it waits for is given
\* by its name.
LEMMA BeginKeepsGone ==
    ASSUME {"requests", "sweep"} \cap Races = {}, TypeOK, GoneInv, Alone',
           NEW k \in Calls,
           \/ \E u \in Users \cup {NoUser} : CreateBoard(k, u)
           \/ \E u \in Users : FindToClaim(k, u) \/ FindToDelete(k, u)
           \/ FindToExtend(k)
    PROVE  GoneInv'
  <1>1. /\ \A j \in Calls : call[j] = Resting
        /\ sweep = "idle" /\ sweep' = "idle" /\ UNCHANGED server
    BY DEF CreateBoard, FindToClaim, FindToDelete, FindToExtend, MayBegin
  <1>2. Exists'
    BY ConstantsAssumption
    DEF TypeOK, CreateBoard, FindToClaim, FindToDelete, FindToExtend, Exists, rows
  <1>3. \A j \in Calls : j # k => call'[j] = Resting
    BY <1>1
    DEF TypeOK, CreateBoard, FindToClaim, FindToDelete, FindToExtend, Wait
  <1>4. call'[k].at \in {"created", "claiming", "extending", "found"}
    BY DEF TypeOK, CreateBoard, FindToClaim, FindToDelete, FindToExtend, Wait
  <1>5. OneAtATime' /\ Stands' /\ Shut'
    BY <1>1, <1>2, <1>3, <1>4 DEF OneAtATime, Stands, Shut, Resting
  <1>6. docs = "ready" /\ room = {} => FALSE
    BY <1>1 DEF GoneInv, Seats, Resting
  <1>7. Seats'
    BY <1>1, <1>2, <1>6 DEF GoneInv, Seats, InsideIsServed, Inside, server
  <1>8. QED
    BY <1>5, <1>7 DEF GoneInv

\* The request that goes on is the only one.
LEMMA ProceedKeepsGone ==
    ASSUME {"requests", "sweep", "entry"} \cap Races = {}, TypeOK, GoneInv, Alone',
           NEW k \in Calls, Proceed(k)
    PROVE  GoneInv'
  <1>1. /\ call[k] # Resting /\ sweep = "idle" /\ sweep' = "idle"
        /\ \A j \in Calls : j # k => call[j] = Resting /\ call'[j] = Resting
    <2>1. call[k] # Resting /\ sweep' = sweep
      BY DEF Proceed, FinishCreate, ClaimBoard, ExtendBoard, CheckRole, DeleteRow,
             DropLog, EvictBoard, Resting
    <2>2. \A j \in Calls : j # k => call'[j] = call[j]
      BY DEF Proceed, FinishCreate, ClaimBoard, ExtendBoard, CheckRole, DeleteRow,
             DropLog, EvictBoard, Answer, Wait, TypeOK
    <2>3. QED
      BY <2>1, <2>2 DEF GoneInv, OneAtATime, Alone
  <1>2. OneAtATime'
    BY <1>1 DEF OneAtATime
  <1>3. CASE FinishCreate(k) \/ ClaimBoard(k) \/ ExtendBoard(k) \/ CheckRole(k)
    <2>1. Exists /\ Exists' /\ UNCHANGED server
      BY <1>3
      DEF FinishCreate, ClaimBoard, ExtendBoard, CheckRole, GoneInv, Stands, rows,
          Exists, TypeOK, Board, NoBoard, Claimed
    <2>2. call'[k].at \in {"idle", "allowed"}
      BY <1>3
      DEF FinishCreate, ClaimBoard, ExtendBoard, CheckRole, Wait, Answer, TypeOK,
          Resting
    <2>3. Stands' /\ Shut'
      BY <1>1, <2>1, <2>2 DEF Stands, Shut, Resting
    <2>4. Seats'
      BY <1>1, <2>1 DEF GoneInv, Seats, InsideIsServed, Inside, server
    <2>5. QED
      BY <1>2, <2>3, <2>4 DEF GoneInv
  <1>4. CASE DeleteRow(k)
    <2>1. /\ Exists /\ ~Exists' /\ UNCHANGED server /\ Connecting = {}
          /\ call'[k].at = "deleted"
      BY <1>4
      DEF DeleteRow, GoneInv, Stands, NobodyConnecting, DropRow, Exists, NoBoard,
          Wait, TypeOK
    <2>2. Stands' /\ Shut'
      BY <1>1, <2>1 DEF Stands, Shut, Resting, Connecting, server
    <2>3. Seats'
      BY <1>1, <2>1 DEF GoneInv, Seats, InsideIsServed, Inside, server
    <2>4. QED
      BY <1>2, <2>2, <2>3 DEF GoneInv
  <1>5. CASE DropLog(k)
    <2>1. /\ ~Exists /\ ~Exists' /\ UNCHANGED server
          /\ call'[k].at = "dropped"
      BY <1>5 DEF DropLog, GoneInv, Stands, Exists, rows, Wait, TypeOK
    <2>2. Stands' /\ Shut'
      BY <1>1, <2>1 DEF GoneInv, Stands, Shut, Resting, Connecting, server
    <2>3. Seats'
      BY <1>1, <2>1 DEF GoneInv, Seats, InsideIsServed, Inside, server
    <2>4. QED
      BY <1>2, <2>2, <2>3 DEF GoneInv
  <1>6. CASE EvictBoard(k)
    <2>1. /\ ~Exists /\ ~Exists' /\ docs' = "none" /\ room' = {}
          /\ call'[k] = Resting
      BY <1>6 DEF EvictBoard, GoneInv, Stands, Exists, rows, Answer, TypeOK
    <2>2. Connecting = {}
      BY <2>1 DEF GoneInv, Shut
    <2>3. detached' = {} /\ \A c \in Clients : client'[c] \notin {"in", "opening", "admitted"}
      BY <1>6, <2>2
      DEF EvictBoard, GoneInv, Seats, InsideIsServed, Openers, Inside, Connecting
    <2>4. Stands' /\ Shut'
      BY <1>1, <2>1, <2>3 DEF Stands, Shut, Resting, Connecting
    <2>5. Seats'
      BY <1>1, <2>1, <2>3 DEF Seats, InsideIsServed, Inside
    <2>6. QED
      BY <1>2, <2>4, <2>5 DEF GoneInv
  <1>7. QED
    BY <1>3, <1>4, <1>5, <1>6 DEF Proceed

\* The sweep finds an expired board with no document and nobody on the way in,
\* and lets nobody in until it is done.
LEMMA SweepKeepsGone ==
    ASSUME {"sweep", "entry"} \cap Races = {}, TypeOK, GoneInv, Alone',
           TimePasses \/ SweepReads \/ SweepFilters \/ SweepDeletes \/ SweepDrops
    PROVE  GoneInv'
  <1>1. UNCHANGED <<call, server>>
    BY DEF TimePasses, SweepReads, SweepFilters, SweepDeletes, SweepDrops
  <1>2. CASE TimePasses
    <2>1. sweep' = sweep /\ Exists /\ Exists' /\ ~Expired
      BY <1>2 DEF TimePasses, Exists, Expired, TypeOK, Board, NoBoard
    <2>2. OneAtATime' /\ Stands' /\ Shut'
      BY <1>1, <2>1 DEF GoneInv, OneAtATime, Stands, Shut, Connecting, server
    <2>3. Seats'
      BY <1>1, <2>1 DEF GoneInv, Seats, InsideIsServed, Inside, server
    <2>4. QED
      BY <2>2, <2>3 DEF GoneInv
  <1>3. CASE SweepReads
    <2>1. /\ sweep' = "read" /\ UNCHANGED board /\ Expired /\ Connecting = {}
          /\ \A k \in Calls : call[k] = Resting
      BY <1>3 DEF SweepReads, NobodyConnecting, rows
    <2>2. Exists
      BY <2>1 DEF TypeOK, Exists, Expired, Board, NoBoard
    <2>3. OneAtATime' /\ Stands' /\ Shut'
      BY <1>1, <2>1, <2>2
      DEF OneAtATime, Stands, Shut, Connecting, server, Exists, Expired, Resting
    <2>4. Seats'
      BY <1>1, <2>1, <2>2 DEF GoneInv, Seats, InsideIsServed, Inside, server, Exists
    <2>5. QED
      BY <2>3, <2>4 DEF GoneInv
  <1>4. CASE SweepFilters
    <2>1. /\ sweep = "read" /\ sweep' \in {"deleting", "idle"} /\ UNCHANGED board
          /\ sweep' = "deleting" => docs = "none"
      BY <1>4 DEF SweepFilters, Collectable, rows
    <2>2. OneAtATime' /\ Stands' /\ Shut'
      BY <1>1, <2>1
      DEF GoneInv, OneAtATime, Stands, Shut, Connecting, server, Exists, Expired
    <2>3. Seats'
      BY <1>1, <2>1 DEF GoneInv, Seats, InsideIsServed, Inside, server, Exists
    <2>4. QED
      BY <2>2, <2>3 DEF GoneInv
  <1>5. CASE SweepDeletes
    <2>1. /\ sweep = "deleting" /\ sweep' = "swept" /\ ~Exists'
          /\ Connecting = {} /\ docs = "none"
      BY <1>5
      DEF SweepDeletes, DropRow, NoBoard, Exists, rows, GoneInv, Seats,
          NobodyConnecting
    <2>2. OneAtATime' /\ Stands' /\ Shut'
      BY <1>1, <2>1
      DEF GoneInv, OneAtATime, Stands, Shut, Connecting, server, Resting
    <2>3. Seats'
      BY <1>1, <2>1 DEF GoneInv, Seats, InsideIsServed, Inside, server
    <2>4. QED
      BY <2>2, <2>3 DEF GoneInv
  <1>6. CASE SweepDrops
    <2>1. sweep = "swept" /\ sweep' = "idle" /\ UNCHANGED board
      BY <1>6 DEF SweepDrops, rows
    <2>2. OneAtATime' /\ Stands' /\ Shut'
      BY <1>1, <2>1
      DEF GoneInv, OneAtATime, Stands, Shut, Connecting, server, Exists
    <2>3. Seats'
      BY <1>1, <2>1 DEF GoneInv, Seats, InsideIsServed, Inside, server, Exists
    <2>4. QED
      BY <2>2, <2>3 DEF GoneInv
  <1>7. QED
    BY <1>2, <1>3, <1>4, <1>5, <1>6

\* Connections leave the requests, the sweep and the row alone, and keep the
\* books of who is where.
LEMMA ConnectionKeepsGone ==
    ASSUME TypeOK, GoneInv, Alone',
           \/ \E c \in Clients : \/ OpenPage(c) \/ Handshake(c) \/ JoinBoard(c)
                                 \/ LoadedInVain(c) \/ Leave(c)
           \/ \E gone \in SUBSET Clients : Loaded(gone)
    PROVE  GoneInv'
  <1>1. UNCHANGED <<call, sweep, board>>
    BY DEF OpenPage, Handshake, JoinBoard, LoadedInVain, Leave, Loaded, rows
  <1>2. OneAtATime' /\ Stands'
    BY <1>1 DEF GoneInv, OneAtATime, Stands, Exists, Expired
  <1>3. /\ Exists' <=> Exists
        /\ detached = {} /\ Inside = room
        /\ Openers = {c \in Clients : client[c] = "opening"}
    BY <1>1 DEF Exists, GoneInv, Seats, InsideIsServed, Openers
  <1>4. ASSUME Connecting' \subseteq Connecting PROVE Shut'
    BY <1>1, <1>3, <1>4 DEF GoneInv, Shut
  <1>5. ASSUME NEW c \in Clients, OpenPage(c) PROVE GoneInv'
    <2>1. /\ UNCHANGED <<docs, room, detached>>
          /\ client[c] \in {"away", "refused"}
          /\ client' = [client EXCEPT ![c] = "away"]
      BY <1>5 DEF OpenPage
    <2>2. \A d \in Clients, w \in {"in", "opening", "admitted"} :
             client'[d] = w <=> client[d] = w
      BY <2>1 DEF TypeOK
    <2>3. Connecting' = Connecting /\ Inside' = Inside
      BY <2>2 DEF Connecting, Inside
    <2>4. Seats'
      BY <1>1, <1>3, <2>1, <2>2, <2>3 DEF GoneInv, Seats, InsideIsServed
    <2>5. QED
      BY <1>2, <1>4, <2>3, <2>4 DEF GoneInv
  <1>6. ASSUME NEW c \in Clients, Handshake(c) PROVE GoneInv'
    <2>1. /\ UNCHANGED <<docs, room, detached>>
          /\ client[c] = "away"
          /\ client' = [client EXCEPT ![c] = IF Admits THEN "admitted" ELSE "refused"]
      BY <1>6 DEF Handshake
    <2>2. \A d \in Clients, w \in {"in", "opening"} :
             client'[d] = w <=> client[d] = w
      BY <2>1 DEF TypeOK
    <2>3. Inside' = Inside
      BY <2>2 DEF Inside
    <2>4. Seats'
      BY <1>1, <1>3, <2>1, <2>2, <2>3 DEF GoneInv, Seats, InsideIsServed
    <2>5. Shut'
      <3>1. CASE Admits
        BY <1>1, <3>1
        DEF GoneInv, Stands, Shut, Admits, Exists, OneAtATime, TypeOK
      <3>2. CASE ~Admits
        BY <1>4, <2>1, <3>2 DEF Connecting, TypeOK
      <3>3. QED
        BY <3>1, <3>2
    <2>6. QED
      BY <1>2, <2>4, <2>5 DEF GoneInv
  <1>7. ASSUME NEW c \in Clients, JoinBoard(c) PROVE GoneInv'
    <2>1. client[c] = "admitted" /\ c \in Connecting /\ Exists /\ sweep = "idle"
      BY <1>7 DEF JoinBoard, GoneInv, Shut, Connecting
    <2>2. CASE docs = "ready"
      <3>1. /\ client' = [client EXCEPT ![c] = "in"] /\ room' = room \cup {c}
            /\ UNCHANGED <<docs, detached>>
        BY <1>7, <2>2 DEF JoinBoard
      <3>2. Inside' = Inside \cup {c} /\ Connecting' \subseteq Connecting
        BY <3>1 DEF Inside, Connecting, TypeOK
      <3>3. \A d \in Clients : client'[d] = "opening" <=> client[d] = "opening"
        BY <2>1, <3>1 DEF TypeOK
      <3>4. Seats'
        BY <1>1, <1>3, <2>1, <2>2, <3>1, <3>2, <3>3 DEF GoneInv, Seats, InsideIsServed
      <3>5. QED
        BY <1>2, <1>4, <3>2, <3>4 DEF GoneInv
    <2>3. CASE docs # "ready"
      <3>1. /\ client' = [client EXCEPT ![c] = "opening"] /\ docs' = "loading"
            /\ UNCHANGED <<room, detached>>
        BY <1>7, <2>3 DEF JoinBoard
      <3>2. Inside' = Inside /\ Connecting' \subseteq Connecting
        BY <2>1, <3>1 DEF Inside, Connecting, TypeOK
      <3>3. client'[c] = "opening"
        BY <3>1 DEF TypeOK
      <3>4. Seats'
        BY <1>1, <1>3, <2>1, <2>3, <3>1, <3>2, <3>3 DEF GoneInv, Seats, InsideIsServed
      <3>5. QED
        BY <1>2, <1>4, <3>2, <3>4 DEF GoneInv
    <2>4. QED
      BY <2>2, <2>3
  <1>8. ASSUME NEW c \in Clients, LoadedInVain(c) PROVE FALSE
    BY <1>3, <1>8 DEF LoadedInVain
  <1>9. ASSUME NEW c \in Clients, Leave(c) PROVE GoneInv'
    <2>1. client[c] = "in" /\ c \in room /\ docs = "ready"
      BY <1>3, <1>9 DEF Leave, Inside, GoneInv, Seats
    <2>2. /\ client' = [client EXCEPT ![c] = "away"] /\ room' = room \ {c}
          /\ docs' = IF room' = {} THEN AfterLastOne ELSE docs
          /\ detached' = (detached \ {c}) \cup (IF docs' = "none" THEN Openers ELSE {})
      BY <1>9 DEF Leave
    <2>3. Inside' = Inside \ {c} /\ Connecting' \subseteq Connecting
      BY <2>1, <2>2 DEF Inside, Connecting, TypeOK
    <2>4. /\ \A d \in Clients : client[d] # "opening"
          /\ \A d \in Clients : client'[d] # "opening"
      BY <2>1, <2>2 DEF GoneInv, Seats, TypeOK
    <2>5. detached' = {}
      BY <1>3, <2>2, <2>4
    <2>6. Seats'
      BY <1>1, <1>3, <2>1, <2>2, <2>3, <2>4, <2>5
      DEF GoneInv, Seats, InsideIsServed, AfterLastOne, SaveSucceeds
    <2>7. QED
      BY <1>2, <1>4, <2>3, <2>6 DEF GoneInv
  <1>10. ASSUME NEW gone \in SUBSET Clients, Loaded(gone) PROVE GoneInv'
    <2>1. /\ docs = "loading" /\ Openers # {} /\ room = {}
          /\ room' = room \cup (Openers \ gone)
          /\ client' = [c \in Clients |->
                          IF c \notin Openers THEN client[c]
                          ELSE IF c \in gone THEN "away" ELSE "in"]
          /\ docs' = IF room' = {} /\ SaveSucceeds THEN "none" ELSE "ready"
          /\ UNCHANGED detached
      BY <1>10 DEF Loaded, GoneInv, Seats
    <2>2. Exists /\ sweep = "idle"
      BY <1>3, <2>1 DEF GoneInv, Shut, Connecting
    <2>3. Inside' = room' /\ Connecting' \subseteq Connecting
      BY <1>3, <2>1 DEF Inside, Connecting
    <2>4. \A d \in Clients : client'[d] # "opening"
      BY <1>3, <2>1
    <2>5. Seats'
      BY <1>1, <1>3, <2>1, <2>2, <2>3, <2>4
      DEF GoneInv, Seats, InsideIsServed, SaveSucceeds
    <2>6. QED
      BY <1>2, <1>4, <2>3, <2>5 DEF GoneInv
  <1>11. QED
    BY <1>5, <1>6, <1>7, <1>8, <1>9, <1>10

\* A crash takes the requests, the sweep and all connections with it.
LEMMA CrashKeepsGone ==
    ASSUME TypeOK, GoneInv, Alone', Crash
    PROVE  GoneInv'
  <1>1. /\ \A k \in Calls : call'[k] = Resting
        /\ sweep' = "idle" /\ docs' = "none" /\ room' = {} /\ detached' = {}
        /\ \A c \in Clients : client'[c] \notin {"in", "opening", "admitted"}
    BY DEF Crash
  <1>2. OneAtATime' /\ Stands' /\ Shut'
    BY <1>1 DEF OneAtATime, Stands, Shut, Connecting, Resting
  <1>3. Seats'
    BY <1>1 DEF Seats, InsideIsServed, Inside
  <1>4. QED
    BY <1>2, <1>3 DEF GoneInv

LEMMA StepGone ==
    ASSUME {"requests", "sweep", "entry"} \cap Races = {}, TypeOK, GoneInv, [Next]_vars
    PROVE  GoneInv'
  <1>1. Alone'
    BY StepAlone DEF GoneInv, OneAtATime
  <1>2. CASE UNCHANGED vars
    BY <1>2
    DEF vars, rows, server, GoneInv, OneAtATime, Alone, Stands, Shut, Seats,
        InsideIsServed, Connecting, Inside, Exists, Expired
  <1>3. CASE Next
    BY <1>1, <1>3, BeginKeepsGone, ProceedKeepsGone, SweepKeepsGone,
       ConnectionKeepsGone, CrashKeepsGone DEF Next
  <1>4. QED
    BY <1>2, <1>3

LEMMA GoneInvariant ==
    ASSUME {"requests", "sweep", "entry"} \cap Races = {}
    PROVE  Spec => []GoneInv
  <1>1. Init => GoneInv
    BY DEF Init, GoneInv, OneAtATime, Alone, Stands, Shut, Seats, InsideIsServed,
           Connecting, Inside, Exists, Expired, NoBoard, Resting
  <1>2. TypeOK /\ GoneInv /\ [Next]_vars => GoneInv'
    BY StepGone
  <1>3. QED
    BY <1>1, <1>2, TypeCorrect, PTL DEF Spec

\* realtime/gateway.ts, evictBoard: with requests and the sweep one at a time
\* and nobody on the way in while a board is deleted, nothing of a board stays
\* in memory once it is gone, and whoever is on one is served; whatever
\* connections and pages of earlier boards do, and however often it crashes.
THEOREM GoneIsGone ==
    ASSUME {"requests", "sweep", "entry"} \cap Races = {}
    PROVE  Spec => []DeletedIsGone
  <1>1. GoneInv => DeletedIsGone
    BY DEF GoneInv, Seats, InsideIsServed, GoneMeansGone, DeletedIsGone, Resting
  <1>2. QED
    BY <1>1, GoneInvariant, PTL

\* jobs/expiry-sweep.ts: without those overlaps, what the sweep deletes has
\* expired, belongs to nobody and has nobody on it, though it looked before it
\* deleted.
THEOREM SweptWasAbandoned ==
    ASSUME {"requests", "sweep", "entry"} \cap Races = {}
    PROVE  Spec => SweepTakesTheAbandoned
  <1>1. TypeOK /\ OwnerInv /\ GoneInv /\ [Next]_vars
          => [(sweep = "deleting" /\ sweep' = "swept" /\ Exists) =>
                Expired /\ board.owner = NoUser /\ room = {}]_vars
    <2>1. ASSUME OwnerInv, GoneInv, sweep = "deleting"
          PROVE  Expired /\ board.owner = NoUser /\ room = {}
      BY <2>1 DEF OwnerInv, OwnedNeverExpires, GoneInv, Stands, Seats, Expired
    <2>2. QED
      BY <2>1
  <1>2. Spec => []OwnerInv
    <2>1. "requests" \notin Races
      OBVIOUS
    <2>2. QED
      BY <2>1, OwnerInvariant
  <1>3. Spec => []GoneInv
    BY GoneInvariant
  <1>4. QED
    BY <1>1, <1>2, <1>3, TypeCorrect, PTL DEF Spec, SweepTakesTheAbandoned

-----------------------------------------------------------------------------
(* The inductive invariant.                                                *)

Present  == Connecting \cup Inside
Creating == \E k \in Calls : call[k].at = "created"
Deleting == \E k \in Calls : call[k].at \in {"deleted", "dropped"}

DrawingTypes ==
    /\ stored \subseteq 1..MaxBoards
    /\ log \subseteq 1..MaxBoards
    /\ content \subseteq 1..MaxBoards
    /\ copy \in [Clients -> SUBSET (1..MaxBoards)]
    /\ visit \in [Clients -> 0..MaxBoards]

\* The board that is there is the last one made.
LastInv == Exists => board.n = made

\* Until createBoard has dropped the old log, nobody is on the new board.
CreateInv ==
    Creating => Present = {} /\ docs = "none" /\ stored = {} /\ made \notin log

\* Whoever is connected is on the last board, also while it is being deleted,
\* and a page has only what was drawn on the board it was loaded for.
PageInv ==
    /\ \A c \in Present : page[c] = made /\ visit[c] = made /\ made # 0
    /\ \A c \in Clients : copy[c] \subseteq {page[c]}

\* The blob goes with its board.
StoredInv == stored \subseteq {made} /\ (~Exists => stored = {})

\* A document that is loaded has all of the blob and the log, and they have
\* all of it.
ContentInv ==
    /\ content \subseteq {made}
    /\ docs # "ready" => content = {}
    /\ docs = "ready" /\ Exists => content = stored \cup log

\* The log is the last board's, once createBoard is done; and while there has
\* been no crash, between a board and the next it is empty.
LogInv ==
    /\ log \subseteq 1..made
    /\ Exists /\ ~Creating => log \subseteq {made}
    /\ crashes = 0 /\ (Creating \/ (~Exists /\ sweep # "swept" /\ ~Deleting))
         => log = {}

ReuseInv ==
    DrawingTypes /\ LastInv /\ CreateInv /\ PageInv /\ StoredInv /\ ContentInv /\ LogInv

Before == TypeOK /\ GoneInv /\ ReuseInv

-----------------------------------------------------------------------------
(* A step of BoardReuse is one of BoardLifecycle, or leaves it alone.      *)

LEMMA ReuseSteps == [ReuseNext]_reuseVars => [Next]_vars
  BY DEF ReuseNext, Other, RFinishCreate, RDeleteRow, RDropLog, REvictBoard,
         RSweepDeletes, RSweepDrops, ROpenPage, RHandshake, RJoinBoard, RLoaded,
         RLoadedInVain, RLeave, Draw, Flush, RCrash, Next, Proceed, reuseVars

LEMMA ReuseImplies == ReuseSpec => Spec
  BY ReuseSteps, PTL DEF ReuseSpec, ReuseInit, Spec

-----------------------------------------------------------------------------
(* Facts about the states before a step.                                   *)

LEMMA Phases ==
    ASSUME Before
    PROVE  /\ Creating => Exists /\ ~Deleting /\ sweep = "idle"
           /\ Deleting => ~Exists /\ sweep = "idle"
           /\ \A k \in Calls : call[k] # Resting =>
                 \A j \in Calls : j # k => call[j] = Resting
           /\ made \in Nat /\ crashes \in Nat /\ board.n \in Nat
  <1>1. made \in Nat /\ crashes \in Nat /\ board.n \in Nat
    BY ConstantsAssumption DEF Before, TypeOK, Board, NoBoard
  <1>2. Creating => Exists /\ sweep = "idle"
    BY DEF Before, GoneInv, OneAtATime, Stands, Creating, Resting
  <1>3. Deleting => ~Exists /\ sweep = "idle"
    BY DEF Before, GoneInv, OneAtATime, Stands, Deleting, Resting
  <1>4. \A k \in Calls : call[k] # Resting =>
           \A j \in Calls : j # k => call[j] = Resting
    BY DEF Before, GoneInv, OneAtATime, Alone
  <1>5. QED
    BY <1>1, <1>2, <1>3, <1>4

\* Whoever is here is on a board that is there and ready, or being deleted.
LEMMA Presence ==
    ASSUME Before
    PROVE  /\ \A c \in Present : page[c] = made /\ visit[c] = made /\ made \in 1..MaxBoards
           /\ Connecting # {} => Exists /\ sweep = "idle"
           /\ Present # {} /\ Exists => ~Creating /\ log \subseteq {made} /\ board.n = made
           /\ Inside = room /\ detached = {}
           /\ Inside # {} => docs = "ready"
           /\ Openers = {c \in Clients : client[c] = "opening"}
  BY DEF Before, TypeOK, ReuseInv, PageInv, CreateInv, LogInv, LastInv, GoneInv, Shut,
         Seats, InsideIsServed, Openers

-----------------------------------------------------------------------------
(* Steps that touch no content.                                            *)

\* The same board, drawings, pages and phase of a request.
Same ==
    /\ UNCHANGED <<drawings, made, docs, page, crashes>>
    /\ board'.n = board.n /\ Connecting' \subseteq Connecting /\ Inside' \subseteq Inside
    /\ (Creating' <=> Creating) /\ (Deleting' <=> Deleting)
    /\ (sweep' = "swept" <=> sweep = "swept")

LEMMA SameKeeps ==
    ASSUME Before, Same
    PROVE  ReuseInv'
  <1> USE DEF Same, drawings, Before, ReuseInv
  <1>1. Exists' <=> Exists
    BY DEF Exists
  <1>2. Present' \subseteq Present
    BY DEF Present
  <1>3. DrawingTypes'
    BY DEF DrawingTypes
  <1>4. LastInv' /\ StoredInv' /\ ContentInv'
    BY <1>1 DEF LastInv, StoredInv, ContentInv
  <1>5. CreateInv' /\ PageInv'
    BY <1>2 DEF CreateInv, PageInv
  <1>6. LogInv'
    BY <1>1 DEF LogInv
  <1>7. QED
    BY <1>3, <1>4, <1>5, <1>6

LEMMA OtherKeeps ==
    ASSUME Before, {"requests", "sweep"} \cap Races = {}, Other,
           ~(\E k \in Calls, u \in Users \cup {NoUser} : CreateBoard(k, u))
    PROVE  ReuseInv'
  <1>1. ASSUME NEW k \in Calls,
               \/ \E u \in Users : FindToClaim(k, u) \/ FindToDelete(k, u)
               \/ FindToExtend(k)
        PROVE  Same
    <2>1. /\ \A j \in Calls : call[j] = Resting
          /\ UNCHANGED <<rows, sweep, server, page, crashes>>
          /\ \E w \in {"claiming", "found", "extending"} : \E u : Wait(k, w, u)
      BY <1>1 DEF FindToClaim, FindToDelete, FindToExtend, MayBegin
    <2>2. \A j \in Calls : call'[j].at \in {"idle", "claiming", "found", "extending"}
      BY <2>1 DEF Wait, Before, TypeOK, Resting
    <2>3. ~Creating /\ ~Creating' /\ ~Deleting /\ ~Deleting'
      BY <2>1, <2>2 DEF Creating, Deleting, Resting
    <2>4. UNCHANGED drawings
      BY DEF Other
    <2>5. QED
      BY <2>1, <2>3, <2>4 DEF Same, rows, server, Connecting, Inside
  <1>2. ASSUME NEW k \in Calls, ClaimBoard(k) \/ ExtendBoard(k) \/ CheckRole(k)
        PROVE  Same
    <2>1. /\ call[k].at \in {"claiming", "extending", "found"} /\ call[k] # Resting
          /\ UNCHANGED <<made, sweep, server, page, crashes>>
          /\ call'[k].at \in {"idle", "allowed"}
          /\ \A j \in Calls : j # k => call'[j] = call[j]
      BY <1>2
      DEF ClaimBoard, ExtendBoard, CheckRole, Answer, Wait, Before, TypeOK, Resting, rows
    <2>2. \A j \in Calls : j # k => call[j] = Resting
      BY <2>1, Phases
    <2>3. ~Creating /\ ~Creating' /\ ~Deleting /\ ~Deleting'
      BY <2>1, <2>2 DEF Creating, Deleting, Resting
    <2>4. board'.n = board.n
      BY <1>2
      DEF ClaimBoard, ExtendBoard, CheckRole, rows, Claimed, Before, TypeOK, Exists,
          Board, NoBoard
    <2>5. UNCHANGED drawings
      BY DEF Other
    <2>6. QED
      BY <2>1, <2>3, <2>4, <2>5 DEF Same, server, Connecting, Inside
  <1>3. ASSUME TimePasses \/ SweepReads \/ SweepFilters
        PROVE  Same
    <2>1. /\ UNCHANGED <<made, call, server, page, crashes>>
          /\ (sweep' = "swept" <=> sweep = "swept")
      BY <1>3 DEF TimePasses, SweepReads, SweepFilters, rows
    <2>2. board'.n = board.n
      BY <1>3
      DEF TimePasses, SweepReads, SweepFilters, rows, Before, TypeOK, Board, NoBoard
    <2>3. UNCHANGED drawings
      BY DEF Other
    <2>4. QED
      BY <2>1, <2>2, <2>3
      DEF Same, server, Connecting, Inside, Creating, Deleting
  <1>4. QED
    BY <1>1, <1>2, <1>3, SameKeeps DEF Other

-----------------------------------------------------------------------------
(* Steps of requests and of the sweep.                                     *)

\* A board is made where there was none: nothing is stored or in memory,
\* nobody is connected, and after a crash only, the last one's log is there.
LEMMA CreateKeeps ==
    ASSUME Before, {"requests", "sweep"} \cap Races = {}, UNCHANGED drawings,
           NEW k \in Calls, NEW u \in Users \cup {NoUser}, CreateBoard(k, u)
    PROVE  ReuseInv'
  <1>1. /\ ~Exists /\ Exists' /\ made' = made + 1 /\ board'.n = made'
        /\ sweep = "idle" /\ \A j \in Calls : call[j] = Resting
        /\ call'[k].at = "created"
        /\ UNCHANGED <<server, page, crashes, stored, log, content, copy, visit>>
    BY Phases
    DEF CreateBoard, MayBegin, Exists, Wait, Before, TypeOK, drawings
  <1>2. ~Creating /\ ~Deleting /\ Creating'
    BY <1>1 DEF Creating, Deleting, Resting
  <1>3. Connecting = {} /\ docs = "none" /\ Inside = {}
    BY <1>1, <1>2 DEF Before, GoneInv, Shut, Seats, InsideIsServed, Deleting
  <1>4. Present' = {} /\ stored = {} /\ content = {}
    BY <1>1, <1>3
    DEF Present, Connecting, Inside, server, Before, ReuseInv, StoredInv, ContentInv
  <1>5. log \subseteq 1..made /\ (crashes = 0 => log = {}) /\ made \in Nat
    BY <1>1, <1>2, Phases DEF Before, ReuseInv, LogInv
  <1>6. DrawingTypes' /\ LastInv'
    BY <1>1 DEF Before, ReuseInv, DrawingTypes, LastInv
  <1>7. CreateInv' /\ PageInv'
    BY <1>1, <1>3, <1>4, <1>5 DEF CreateInv, PageInv, Before, ReuseInv, server
  <1>8. StoredInv' /\ ContentInv'
    BY <1>1, <1>3, <1>4 DEF StoredInv, ContentInv, server
  <1>9. LogInv'
    BY <1>1, <1>2, <1>5 DEF LogInv
  <1>10. QED
    BY <1>6, <1>7, <1>8, <1>9 DEF ReuseInv

\* dropLogs at the end of createBoard takes what a crash had left.
LEMMA FinishKeeps ==
    ASSUME Before, NEW k \in Calls, RFinishCreate(k)
    PROVE  ReuseInv'
  <1>1. /\ call[k].at = "created" /\ call'[k] = Resting /\ log' = {}
        /\ \A j \in Calls : j # k => call'[j] = call[j]
        /\ UNCHANGED <<rows, sweep, server, page, crashes, stored, content, copy, visit>>
    BY DEF RFinishCreate, FinishCreate, Answer, Before, TypeOK, DropEarlierLog,
           DropLogs
  <1>2. Creating /\ ~Creating' /\ Exists /\ Exists'
    BY <1>1, Phases DEF Creating, Resting, Exists, rows
  <1>3. Present' = {} /\ docs' = "none"
    BY <1>1, <1>2
    DEF Before, ReuseInv, CreateInv, Present, Connecting, Inside, server
  <1>4. DrawingTypes' /\ LastInv' /\ LogInv'
    BY <1>1 DEF Before, ReuseInv, DrawingTypes, LastInv, LogInv, Exists, rows
  <1>5. CreateInv' /\ PageInv'
    BY <1>1, <1>2, <1>3 DEF CreateInv, PageInv, Before, ReuseInv
  <1>6. StoredInv' /\ ContentInv'
    BY <1>1, <1>2, <1>3 DEF Before, ReuseInv, CreateInv, StoredInv, ContentInv, rows, server
  <1>7. QED
    BY <1>4, <1>5, <1>6 DEF ReuseInv

\* The row goes, by a request or by the sweep, and the blob with it.
LEMMA RowGoes ==
    ASSUME Before, Connecting = {}, Exists, DropRow, stored' = Cascade,
           Deleting' \/ sweep' = "swept", ~Creating',
           UNCHANGED <<server, page, crashes, log, content, copy, visit>>
    PROVE  ReuseInv'
  <1>1. ~Exists' /\ made' = made /\ stored' = {}
    BY DEF DropRow, Exists, NoBoard, Cascade
  <1>2. Present' = Present
    BY DEF Present, Connecting, Inside, server
  <1>3. DrawingTypes' /\ LastInv' /\ LogInv'
    BY <1>1 DEF Before, ReuseInv, DrawingTypes, LastInv, LogInv
  <1>4. CreateInv' /\ PageInv'
    BY <1>1, <1>2 DEF CreateInv, PageInv, Before, ReuseInv
  <1>5. StoredInv' /\ ContentInv'
    BY <1>1 DEF Before, ReuseInv, StoredInv, ContentInv, server
  <1>6. QED
    BY <1>3, <1>4, <1>5 DEF ReuseInv

LEMMA DeleteRowKeeps ==
    ASSUME Before, "entry" \notin Races, NEW k \in Calls, RDeleteRow(k)
    PROVE  ReuseInv'
  <1>1. call[k].at = "allowed" /\ DeleteRow(k)
    BY DEF RDeleteRow, DeleteRow
  <1>2. Exists
    BY <1>1 DEF Before, GoneInv, Stands
  <1>3. /\ Connecting = {} /\ DropRow /\ stored' = Cascade
        /\ call'[k].at = "deleted" /\ \A j \in Calls : j # k => call'[j] = call[j]
        /\ UNCHANGED <<server, page, crashes, log, content, copy, visit>>
    BY <1>1, <1>2
    DEF RDeleteRow, DeleteRow, NobodyConnecting, Wait, Before, TypeOK
  <1>4. \A j \in Calls : j # k => call'[j] = Resting
    BY <1>1, <1>3, Phases DEF Resting
  <1>5. Deleting' /\ ~Creating'
    BY <1>3, <1>4 DEF Deleting, Creating, Resting
  <1>6. QED
    BY <1>2, <1>3, <1>5, RowGoes

LEMMA SweepDeletesKeeps ==
    ASSUME Before, "entry" \notin Races, RSweepDeletes
    PROVE  ReuseInv'
  <1>1. /\ sweep = "deleting" /\ sweep' = "swept" /\ Connecting = {}
        /\ stored' = Cascade /\ UNCHANGED call
        /\ IF Exists THEN DropRow ELSE UNCHANGED rows
        /\ UNCHANGED <<server, page, crashes, log, content, copy, visit>>
    BY DEF RSweepDeletes, SweepDeletes, NobodyConnecting
  <1>2. Exists
    BY <1>1 DEF Before, GoneInv, Stands, Expired, Exists, NoBoard, TypeOK, Board
  <1>3. ~Creating'
    BY <1>1, Phases DEF Creating
  <1>4. QED
    BY <1>1, <1>2, <1>3, RowGoes


\* The last board's log goes, by a request or by the sweep.
LEMMA LogGoes ==
    ASSUME Before, ~Exists, ~Creating', Present' \subseteq Present, log' = {},
           UNCHANGED <<rows, page, crashes, stored, copy, visit>>,
           UNCHANGED <<docs, content>> \/ (docs' = "none" /\ content' = {})
    PROVE  ReuseInv'
  <1>1. ~Exists' /\ UNCHANGED made
    BY DEF Exists, rows
  <1>2. DrawingTypes'
    BY DEF Before, ReuseInv, DrawingTypes
  <1>3. LastInv' /\ CreateInv' /\ LogInv'
    BY <1>1 DEF LastInv, CreateInv, LogInv
  <1>4. PageInv'
    BY <1>1 DEF Before, ReuseInv, PageInv
  <1>5. StoredInv' /\ ContentInv'
    BY <1>1 DEF Before, ReuseInv, StoredInv, ContentInv
  <1>6. QED
    BY <1>2, <1>3, <1>4, <1>5 DEF ReuseInv

LEMMA DropsKeep ==
    ASSUME Before,
           RSweepDrops \/ \E k \in Calls : RDropLog(k) \/ REvictBoard(k)
    PROVE  ReuseInv'
  <1>1. ASSUME NEW k \in Calls, RDropLog(k) PROVE ReuseInv'
    <2>1. /\ call[k].at = "deleted" /\ call'[k].at = "dropped" /\ log' = {}
          /\ \A j \in Calls : j # k => call'[j] = call[j]
          /\ UNCHANGED <<rows, server, page, crashes, stored, content, copy, visit>>
      BY <1>1 DEF RDropLog, DropLog, Wait, DropLogs, Before, TypeOK
    <2>2. ~Exists
      BY <2>1 DEF Before, GoneInv, Stands
    <2>3. ~Creating'
      BY <2>1, Phases DEF Creating, Resting
    <2>4. QED
      BY <2>1, <2>2, <2>3, LogGoes DEF server, Present, Connecting, Inside
  <1>2. ASSUME NEW k \in Calls, REvictBoard(k) PROVE ReuseInv'
    <2>1. /\ call[k].at = "dropped" /\ call'[k] = Resting /\ log' = {}
          /\ docs' = "none" /\ content' = {}
          /\ client' = [c \in Clients |-> IF c \in Inside THEN "away" ELSE client[c]]
          /\ \A j \in Calls : j # k => call'[j] = call[j]
          /\ UNCHANGED <<rows, page, crashes, stored, copy, visit>>
      BY <1>2 DEF REvictBoard, EvictBoard, Answer, DropLogs, Before, TypeOK
    <2>2. ~Exists
      BY <2>1 DEF Before, GoneInv, Stands
    <2>3. ~Creating'
      BY <2>1, Phases DEF Creating, Resting
    <2>4. Present' \subseteq Present
      BY <2>1 DEF Present, Connecting, Inside
    <2>5. QED
      BY <2>1, <2>2, <2>3, <2>4, LogGoes
  <1>3. ASSUME RSweepDrops PROVE ReuseInv'
    <2>1. /\ sweep = "swept" /\ log' = {}
          /\ UNCHANGED <<rows, call, server, page, crashes, stored, content, copy, visit>>
      BY <1>3 DEF RSweepDrops, SweepDrops, DropLogs
    <2>2. ~Exists /\ ~Creating'
      BY <2>1, Phases DEF Before, GoneInv, Stands, Creating
    <2>3. QED
      BY <2>1, <2>2, LogGoes DEF server, Present, Connecting, Inside
  <1>4. QED
    BY <1>1, <1>2, <1>3

-----------------------------------------------------------------------------
(* Steps of connections, of those who draw, and of the saver.              *)

\* Drawings move between pages, document, log and blob of one board.
LEMMA WorkKeeps ==
    ASSUME Before, made # 0, ~Creating, Exists \/ Deleting,
           UNCHANGED <<call, sweep, crashes, made, page, visit>>, board'.n = board.n,
           Present' \subseteq Present,
           copy' \in [Clients -> SUBSET (1..MaxBoards)],
           \A c \in Clients : copy'[c] \subseteq {page[c]},
           stored' \subseteq {made}, ~Exists => stored' = {},
           content' \subseteq {made}, docs' # "ready" => content' = {},
           docs' = "ready" /\ Exists => content' = stored' \cup log',
           log' \subseteq {made} \cup log
    PROVE  ReuseInv'
  <1>1. (Exists' <=> Exists) /\ ~Creating' /\ (Deleting' <=> Deleting)
    BY DEF Exists, Creating, Deleting
  <1>2. made \in 1..MaxBoards
    BY ConstantsAssumption DEF Before, TypeOK
  <1>3. log \subseteq 1..made /\ (Exists => log \subseteq {made} /\ board.n = made)
    BY DEF Before, ReuseInv, LogInv, LastInv
  <1>4. DrawingTypes' /\ LastInv'
    BY <1>1, <1>2, <1>3 DEF Before, ReuseInv, DrawingTypes, LastInv
  <1>5. CreateInv' /\ PageInv'
    BY <1>1 DEF Before, ReuseInv, PageInv, CreateInv
  <1>6. StoredInv' /\ ContentInv'
    BY <1>1 DEF StoredInv, ContentInv
  <1>7. LogInv'
    BY <1>1, <1>2, <1>3 DEF LogInv
  <1>8. QED
    BY <1>4, <1>5, <1>6, <1>7 DEF ReuseInv

\* A page that loads the board opens the local copy it has of that board.
LEMMA OpenKeeps ==
    ASSUME Before, NEW c \in Clients, ROpenPage(c)
    PROVE  ReuseInv'
  <1>1. /\ Exists /\ client[c] \in {"away", "refused"}
        /\ page' = [page EXCEPT ![c] = board.n]
        /\ client' = [client EXCEPT ![c] = "away"]
        /\ copy' = [copy EXCEPT ![c] = CopyOf(c)]
        /\ UNCHANGED <<rows, call, sweep, docs, crashes, stored, log, content, visit>>
    BY DEF ROpenPage, OpenPage
  <1>2. Present' = Present /\ c \notin Present
    BY <1>1 DEF Present, Connecting, Inside, Before, TypeOK
  <1>3. CopyOf(c) \subseteq {board.n} /\ CopyOf(c) \subseteq 1..MaxBoards
    BY DEF CopyOf, Before, ReuseInv, PageInv, DrawingTypes
  <1>4. DrawingTypes' /\ LastInv'
    BY <1>1, <1>3 DEF Before, ReuseInv, DrawingTypes, LastInv, Exists, rows
  <1>5. CreateInv'
    BY <1>1, <1>2 DEF Before, ReuseInv, CreateInv, Creating, rows
  <1>6. PageInv'
    <2>1. \A d \in Present' : page'[d] = made' /\ visit'[d] = made' /\ made' # 0
      BY <1>1, <1>2
      DEF Before, ReuseInv, PageInv, TypeOK, rows, Present, Connecting, Inside
    <2>2. \A d \in Clients : copy'[d] \subseteq {page'[d]}
      BY <1>1, <1>3 DEF Before, ReuseInv, PageInv, TypeOK, DrawingTypes
    <2>3. QED
      BY <2>1, <2>2 DEF PageInv
  <1>7. StoredInv' /\ ContentInv' /\ LogInv'
    BY <1>1
    DEF Before, ReuseInv, StoredInv, ContentInv, LogInv, Exists, Creating, Deleting, rows
  <1>8. QED
    BY <1>4, <1>5, <1>6, <1>7 DEF ReuseInv

\* Only a page of the board that is there now is let in, once it is made.
LEMMA HandshakeKeeps ==
    ASSUME Before, {"early", "tabs"} \cap Races = {}, NEW c \in Clients, RHandshake(c)
    PROVE  ReuseInv'
  <1>1. /\ ~Creating /\ (page[c] = board.n \/ ~Exists)
        /\ client' = [client EXCEPT ![c] = IF Admits THEN "admitted" ELSE "refused"]
        /\ visit' = [visit EXCEPT ![c] = IF Admits THEN board.n ELSE @]
        /\ client[c] = "away"
        /\ UNCHANGED <<rows, call, sweep, docs, page, crashes, stored, log, content, copy>>
    BY DEF RHandshake, Handshake, Creating
  <1>2. /\ Admits => Present' \subseteq Present \cup {c}
        /\ ~Admits => Present' \subseteq Present /\ visit' = visit
    BY <1>1 DEF Present, Connecting, Inside, Before, TypeOK, ReuseInv, DrawingTypes
  <1>3. Admits => page[c] = made /\ board.n = made /\ made # 0
    BY <1>1 DEF Admits, Exists, Before, ReuseInv, LastInv
  <1>4. visit' \in [Clients -> 0..MaxBoards]
    <2>1. board.n \in 0..MaxBoards
      BY ConstantsAssumption DEF Before, TypeOK, Board, NoBoard
    <2>2. QED
      BY <1>1, <2>1 DEF Before, ReuseInv, DrawingTypes
  <1>5. DrawingTypes' /\ LastInv'
    BY <1>1, <1>4 DEF Before, ReuseInv, DrawingTypes, LastInv, Exists, rows
  <1>6. CreateInv'
    BY <1>1 DEF CreateInv, Creating
  <1>7. PageInv'
    <2>1. ASSUME NEW d \in Present'
          PROVE  page'[d] = made' /\ visit'[d] = made' /\ made' # 0
      <3>1. d \in Clients
        BY DEF Present, Connecting, Inside
      <3>2. CASE d = c /\ Admits
        BY <1>1, <1>3, <3>2 DEF rows, Before, ReuseInv, DrawingTypes
      <3>3. CASE d \in Present /\ (d # c \/ ~Admits)
        BY <1>1, <1>2, <3>1, <3>3
        DEF rows, Before, ReuseInv, DrawingTypes, PageInv
      <3>4. QED
        BY <1>2, <3>2, <3>3
    <2>2. \A d \in Clients : copy'[d] \subseteq {page'[d]}
      BY <1>1 DEF Before, ReuseInv, PageInv
    <2>3. QED
      BY <2>1, <2>2 DEF PageInv
  <1>8. StoredInv' /\ ContentInv' /\ LogInv'
    BY <1>1
    DEF Before, ReuseInv, StoredInv, ContentInv, LogInv, Exists, Creating, Deleting, rows
  <1>9. QED
    BY <1>5, <1>6, <1>7, <1>8 DEF ReuseInv

\* Pages that arrive bring nothing but what was drawn on this board.
LEMMA MergeKeeps ==
    ASSUME Before, Exists, NEW arriving \in SUBSET Connecting, arriving # {},
           Merge(stored \cup log, arriving), docs' = "ready",
           UNCHANGED <<call, sweep, crashes, made, page, visit, stored, board>>,
           Present' \subseteq Present
    PROVE  ReuseInv'
  <1> DEFINE doc   == stored \cup log
             whole == doc \cup UNION {copy[c] : c \in arriving}
  <1>1. /\ content' = whole /\ log' = log \cup (whole \ doc)
        /\ copy' = [c \in Clients |->
                      IF c \in arriving THEN whole
                      ELSE IF c \in Inside THEN copy[c] \cup (whole \ doc)
                      ELSE copy[c]]
    BY DEF Merge
  <1>2. /\ ~Creating /\ log \subseteq {made} /\ made \in 1..MaxBoards
        /\ \A c \in Present : page[c] = made
    BY Presence DEF Present
  <1>3. stored \subseteq {made} /\ \A c \in Clients : copy[c] \subseteq {page[c]}
    BY DEF Before, ReuseInv, StoredInv, PageInv
  <1>4. arriving \subseteq Clients /\ arriving \subseteq Present /\ Inside \subseteq Present
    BY DEF Connecting, Present, Inside
  <1>5. whole \subseteq {made}
    BY <1>2, <1>3, <1>4
  <1>6. copy' \in [Clients -> SUBSET (1..MaxBoards)]
    <2>1. \A c \in Clients : copy[c] \subseteq 1..MaxBoards
      BY DEF Before, ReuseInv, DrawingTypes
    <2>2. whole \subseteq 1..MaxBoards
      BY <1>2, <1>5
    <2>3. QED
      BY <1>1, <2>1, <2>2
  <1>7. \A c \in Clients : copy'[c] \subseteq {page[c]}
    BY <1>1, <1>2, <1>3, <1>4, <1>5
  <1>8. content' = stored' \cup log' /\ log' \subseteq {made}
    BY <1>1, <1>2, <1>5
  <1>9. QED
    <2> HIDE DEF whole, doc
    <2>1. made # 0 /\ content' \subseteq {made} /\ stored' \subseteq {made}
      BY <1>1, <1>2, <1>3, <1>5
    <2>2. QED
      BY <2>1, <1>2, <1>6, <1>7, <1>8, WorkKeeps

\* Saving and dropping a document that holds the blob and the log.
LEMMA SaveAndDropKeeps ==
    ASSUME Before, Exists, Present # {}, SaveAndDrop(stored \cup log), docs' = "none",
           UNCHANGED <<call, sweep, crashes, made, page, visit, copy, board>>,
           Present' \subseteq Present
    PROVE  ReuseInv'
  <1>1. stored' = stored \cup log /\ log' = {} /\ content' = {}
    BY DEF SaveAndDrop, SaveSucceeds, Save
  <1>2. ~Creating /\ log \subseteq {made} /\ made \in 1..MaxBoards
    BY Presence
  <1>3. /\ stored \subseteq {made} /\ \A c \in Clients : copy[c] \subseteq {page[c]}
        /\ copy \in [Clients -> SUBSET (1..MaxBoards)]
    BY DEF Before, ReuseInv, StoredInv, PageInv, DrawingTypes
  <1>4. made # 0 /\ stored' \subseteq {made} /\ log' \subseteq {made}
    BY <1>1, <1>2, <1>3
  <1>5. QED
    BY <1>1, <1>2, <1>3, <1>4, WorkKeeps

LEMMA JoinKeeps ==
    ASSUME Before, NEW c \in Clients, RJoinBoard(c)
    PROVE  ReuseInv'
  <1>1. /\ client[c] = "admitted" /\ JoinBoard(c) /\ c \in Connecting
        /\ UNCHANGED <<call, sweep, crashes, made, page, visit, stored, board>>
    BY DEF RJoinBoard, JoinBoard, Connecting
  <1>2. Exists /\ Connecting # {}
    BY <1>1, Presence
  <1>3. client' = [client EXCEPT ![c] = IF docs = "ready" THEN "in" ELSE "opening"]
    BY <1>1 DEF JoinBoard
  <1>4. Present' \subseteq Present
    BY <1>1, <1>3 DEF Present, Connecting, Inside, Before, TypeOK
  <1>5. CASE docs = "ready"
    <2>1. Merge(content, {c}) /\ docs' = "ready"
      BY <1>1, <1>5 DEF RJoinBoard, JoinBoard
    <2>2. content = stored \cup log
      BY <1>2, <1>5 DEF Before, ReuseInv, ContentInv
    <2>3. {c} \in SUBSET Connecting /\ {c} # {}
      BY <1>1
    <2>4. QED
      BY <1>1, <1>2, <1>4, <2>1, <2>2, <2>3, MergeKeeps
  <1>6. CASE docs # "ready"
    <2>1. UNCHANGED <<log, content, copy>> /\ docs' = "loading"
      BY <1>1, <1>6 DEF RJoinBoard, JoinBoard
    <2>2. content = {}
      BY <1>6 DEF Before, ReuseInv, ContentInv
    <2>3. ~Creating /\ made \in 1..MaxBoards
      BY <1>2, Presence DEF Present
    <2>4. /\ stored \subseteq {made} /\ \A d \in Clients : copy[d] \subseteq {page[d]}
          /\ copy \in [Clients -> SUBSET (1..MaxBoards)]
      BY DEF Before, ReuseInv, StoredInv, PageInv, DrawingTypes
    <2>5. made # 0 /\ content' = {} /\ stored' \subseteq {made} /\ log' \subseteq {made} \cup log
      BY <1>1, <2>1, <2>2, <2>3, <2>4
    <2>6. QED
      BY <1>1, <1>2, <1>4, <2>1, <2>3, <2>4, <2>5, WorkKeeps
  <1>7. QED
    BY <1>5, <1>6

LEMMA LoadedKeeps ==
    ASSUME Before, NEW gone \in SUBSET Clients, RLoaded(gone)
    PROVE  ReuseInv'
  <1>1. /\ docs = "loading" /\ Openers # {} /\ room' = room \cup (Openers \ gone)
        /\ client' = [d \in Clients |->
                        IF d \notin Openers THEN client[d]
                        ELSE IF d \in gone THEN "away" ELSE "in"]
        /\ docs' = IF room' = {} /\ SaveSucceeds THEN "none" ELSE "ready"
        /\ UNCHANGED <<call, sweep, crashes, made, page, visit, board>>
    BY DEF RLoaded, Loaded
  <1>2. Openers \subseteq Connecting
    BY DEF Openers, Connecting
  <1>3. Exists /\ Connecting # {} /\ Present # {}
    BY <1>1, <1>2, Presence DEF Present
  <1>4. Present' \subseteq Present
    BY <1>1, <1>2 DEF Present, Connecting, Inside
  <1>5. CASE room' = {}
    <2>1. SaveAndDrop(stored \cup log) /\ UNCHANGED copy /\ docs' = "none"
      BY <1>1, <1>3, <1>5 DEF RLoaded, Replayed, SaveSucceeds
    <2>2. QED
      BY <1>1, <1>3, <1>4, <2>1, SaveAndDropKeeps
  <1>6. CASE room' # {}
    <2>1. /\ Merge(stored \cup log, Openers \ gone) /\ UNCHANGED stored
          /\ docs' = "ready"
      BY <1>1, <1>6 DEF RLoaded, Replayed
    <2>2. room = {}
      BY <1>1, Presence
    <2>3. Openers \ gone # {} /\ (Openers \ gone) \in SUBSET Connecting
      BY <1>1, <1>2, <1>6, <2>2
    <2>4. QED
      BY <1>1, <1>3, <1>4, <2>1, <2>3, MergeKeeps
  <1>7. QED
    BY <1>5, <1>6

\* The last one out saves; a document whose board is gone waits for the delete
\* that drops it.
LEMMA LeaveKeeps ==
    ASSUME Before, NEW c \in Clients, RLeave(c)
    PROVE  ReuseInv'
  <1>1. /\ c \in Inside /\ client' = [client EXCEPT ![c] = "away"]
        /\ room' = room \ {c} /\ docs' = IF room' = {} THEN AfterLastOne ELSE docs
        /\ UNCHANGED <<rows, call, sweep, crashes, page, visit, copy>>
        /\ UNCHANGED <<board, made>>
    BY DEF RLeave, Leave, Inside, rows
  <1>2. docs = "ready" /\ Present # {} /\ made \in 1..MaxBoards
    BY <1>1, Presence DEF Present
  <1>3. Present' \subseteq Present
    BY <1>1 DEF Present, Connecting, Inside, Before, TypeOK
  <1>4. CASE Exists /\ room' = {}
    <2>1. SaveAndDrop(stored \cup log) /\ docs' = "none"
      BY <1>1, <1>2, <1>4
      DEF RLeave, AfterLastOne, SaveSucceeds, Before, ReuseInv, ContentInv
    <2>2. QED
      BY <1>1, <1>2, <1>3, <1>4, <2>1, SaveAndDropKeeps
  <1>5. CASE ~(Exists /\ room' = {})
    <2>1. UNCHANGED <<stored, log, content>> /\ docs' = docs
      BY <1>1, <1>5 DEF RLeave, SaveAndDrop, SaveSucceeds, AfterLastOne
    <2>2. ~Creating /\ (Exists \/ Deleting)
      BY <1>2, Presence, Phases DEF Before, GoneInv, Seats, Deleting
    <2>3. made # 0 /\ copy \in [Clients -> SUBSET (1..MaxBoards)]
      BY <1>2 DEF Before, ReuseInv, DrawingTypes
    <2>4. QED
      BY <1>1, <1>2, <1>3, <2>1, <2>2, <2>3, WorkKeeps
      DEF Before, ReuseInv, StoredInv, ContentInv, PageInv
  <1>6. QED
    BY <1>4, <1>5

\* Whoever draws is on the last board, and what they draw is that board's, also
\* when its row has just gone.
LEMMA DrawKeeps ==
    ASSUME Before, NEW c \in Clients, Draw(c)
    PROVE  ReuseInv'
  <1>1. /\ c \in Inside /\ c \in Present
        /\ UNCHANGED <<rows, call, sweep, server, page, crashes, stored, visit>>
        /\ UNCHANGED <<board, made, docs>>
    BY DEF Draw, Inside, Present, vars, rows, server
  <1>2. /\ visit[c] = made /\ made \in 1..MaxBoards /\ docs = "ready" /\ Served(c)
        /\ \A d \in Present : page[d] = made
    BY <1>1, Presence DEF Served
  <1>3. /\ content' = content \cup {made} /\ log' = log \cup {made}
        /\ copy' = [d \in Clients |->
                      IF d = c \/ d \in Inside THEN copy[d] \cup {made} ELSE copy[d]]
    BY <1>2 DEF Draw
  <1>4. ~Creating /\ (Exists \/ Deleting)
    BY <1>1, <1>2, Presence, Phases DEF Before, GoneInv, Seats, Deleting
  <1>5. Present' = Present
    BY <1>1 DEF Present, Connecting, Inside, server
  <1>6. /\ copy' \in [Clients -> SUBSET (1..MaxBoards)]
        /\ \A d \in Clients : copy'[d] \subseteq {page[d]}
    <2>1. /\ \A d \in Clients : copy[d] \subseteq {page[d]} /\ copy[d] \subseteq 1..MaxBoards
          /\ Inside \subseteq Present
      BY DEF Before, ReuseInv, PageInv, DrawingTypes, Present
    <2>2. QED
      BY <1>1, <1>2, <1>3, <2>1
  <1>7. /\ content' \subseteq {made} /\ stored' \subseteq {made} /\ log' \subseteq {made} \cup log
        /\ Exists => content' = stored' \cup log'
        /\ ~Exists => stored' = {}
    BY <1>1, <1>2, <1>3 DEF Before, ReuseInv, ContentInv, StoredInv
  <1>8. made # 0
    BY <1>2
  <1>9. QED
    BY <1>1, <1>2, <1>4, <1>5, <1>6, <1>7, <1>8, WorkKeeps

LEMMA FlushKeeps ==
    ASSUME Before, Flush
    PROVE  ReuseInv'
  <1>1. /\ docs = "ready" /\ Exists /\ stored' = content /\ log' = {}
        /\ UNCHANGED <<call, sweep, server, page, crashes, content, copy, visit>>
        /\ UNCHANGED <<board, made, docs>>
    BY DEF Flush, Save, SaveSucceeds, vars, rows, server
  <1>2. ~Creating /\ made # 0
    BY <1>1 DEF Before, ReuseInv, CreateInv, LastInv, Exists
  <1>3. Present' = Present
    BY <1>1 DEF Present, Connecting, Inside, server
  <1>4. /\ content \subseteq {made} /\ \A d \in Clients : copy[d] \subseteq {page[d]}
        /\ copy \in [Clients -> SUBSET (1..MaxBoards)]
    BY DEF Before, ReuseInv, ContentInv, PageInv, DrawingTypes
  <1>5. QED
    BY <1>1, <1>2, <1>3, <1>4, WorkKeeps

\* After a crash nobody is connected, and the log and the blob are as they were.
LEMMA CrashKeeps ==
    ASSUME Before, MaxCrashes \in {0, 1}, RCrash
    PROVE  ReuseInv'
  <1>1. /\ crashes = 0 /\ crashes' = 1 /\ content' = {} /\ docs' = "none"
        /\ call' = [k \in Calls |-> Resting]
        /\ client' = [c \in Clients |->
                        IF client[c] = "refused" THEN "refused" ELSE "away"]
        /\ UNCHANGED <<rows, page, stored, log, copy, visit>>
    BY ConstantsAssumption DEF RCrash, Crash, Before, TypeOK
  <1>2. ~Creating' /\ Present' = {}
    BY <1>1 DEF Creating, Resting, Present, Connecting, Inside
  <1>3. DrawingTypes' /\ LastInv' /\ CreateInv' /\ PageInv'
    BY <1>1, <1>2
    DEF Before, ReuseInv, DrawingTypes, LastInv, CreateInv, PageInv, Exists, rows
  <1>4. StoredInv' /\ ContentInv'
    BY <1>1 DEF Before, ReuseInv, StoredInv, ContentInv, Exists, rows
  <1>5. LogInv'
    BY <1>1 DEF Before, ReuseInv, LogInv, Exists, rows
  <1>6. QED
    BY <1>3, <1>4, <1>5 DEF ReuseInv

-----------------------------------------------------------------------------
(* Every step, and what follows from the invariant.                        *)

LEMMA StepReuse ==
    ASSUME Races = {}, MaxCrashes \in {0, 1}, Before, [ReuseNext]_reuseVars
    PROVE  ReuseInv'
  <1>1. CASE UNCHANGED reuseVars
    <2>1. Same
      BY <1>1
      DEF Same, reuseVars, vars, rows, server, Connecting, Inside, Creating, Deleting
    <2>2. QED
      BY <2>1, SameKeeps
  <1>2. CASE Other
    <2>1. UNCHANGED drawings
      BY <1>2 DEF Other
    <2>2. QED
      BY <1>2, <2>1, OtherKeeps, CreateKeeps
  <1>3. ASSUME NEW k \in Calls,
               RFinishCreate(k) \/ RDeleteRow(k) \/ RDropLog(k) \/ REvictBoard(k)
        PROVE  ReuseInv'
    BY <1>3, FinishKeeps, DeleteRowKeeps, DropsKeep
  <1>4. CASE RSweepDeletes \/ RSweepDrops
    BY <1>4, SweepDeletesKeeps, DropsKeep
  <1>5. ASSUME NEW c \in Clients,
               ROpenPage(c) \/ RHandshake(c) \/ RJoinBoard(c) \/ RLeave(c) \/ Draw(c)
        PROVE  ReuseInv'
    BY <1>5, OpenKeeps, HandshakeKeeps, JoinKeeps, LeaveKeeps, DrawKeeps
  <1>6. ASSUME NEW c \in Clients
        PROVE  ~RLoadedInVain(c)
    BY Presence DEF RLoadedInVain, LoadedInVain
  <1>7. CASE (\E gone \in SUBSET Clients : RLoaded(gone)) \/ Flush \/ RCrash
    BY <1>7, LoadedKeeps, FlushKeeps, CrashKeeps
  <1>8. QED
    BY <1>1, <1>2, <1>3, <1>4, <1>5, <1>6, <1>7 DEF ReuseNext

LEMMA ReuseInvariant ==
    ASSUME Races = {}, MaxCrashes \in {0, 1}
    PROVE  ReuseSpec => []Before
  <1>1. ReuseInit => ReuseInv
    <2>1. ASSUME ReuseInit
          PROVE  ~Exists /\ ~Creating /\ Present = {}
      BY <2>1
      DEF ReuseInit, Init, Exists, NoBoard, Creating, Resting, Present, Connecting, Inside
    <2>2. ReuseInit => DrawingTypes
      BY ConstantsAssumption DEF ReuseInit, DrawingTypes
    <2>3. ReuseInit => LastInv /\ CreateInv /\ PageInv
      BY <2>1 DEF ReuseInit, LastInv, CreateInv, PageInv
    <2>4. ReuseInit => StoredInv /\ ContentInv /\ LogInv
      BY <2>1 DEF ReuseInit, StoredInv, ContentInv, LogInv
    <2>5. QED
      BY <2>2, <2>3, <2>4 DEF ReuseInv
  <1>2. Before /\ [ReuseNext]_reuseVars => ReuseInv'
    BY StepReuse
  <1>3. Spec => [](TypeOK /\ GoneInv)
    <2>1. Spec => []GoneInv
      BY GoneInvariant
    <2>2. QED
      BY <2>1, TypeCorrect, PTL
  <1>4. TypeOK /\ GoneInv /\ ReuseInv <=> Before
    BY DEF Before
  <1>5. QED
    BY <1>1, <1>2, <1>3, <1>4, ReuseImplies, PTL DEF ReuseSpec

\* boards/service.ts, createBoard and deleteBoard; local-copy.ts: without the
\* overlaps and with one crash at most, each board that has the id begins with
\* nothing of the ones before it, neither stored nor in memory, and a delete
\* leaves nothing but the log a crash kept.
THEOREM StartsClean ==
    ASSUME Races = {}, MaxCrashes \in {0, 1}
    PROVE  ReuseSpec => []BoardsStartClean
  <1>1. ASSUME Before
        PROVE  BoardsStartClean
    <2>1. ReuseTypeOK
      BY <1>1 DEF Before, ReuseInv, DrawingTypes, ReuseTypeOK
    <2>2. ContentStaysWithBoard
      BY <1>1
      DEF Before, ReuseInv, LastInv, StoredInv, ContentInv, ContentStaysWithBoard
    <2>3. NothingLeftBehind
      <3>1. ASSUME ~Exists, sweep = "idle", \A k \in Calls : call[k] = Resting
            PROVE  stored = {} /\ content = {} /\ (crashes = 0 => log = {})
        <4>1. ~Deleting /\ docs = "none"
          BY <1>1, <3>1 DEF Before, GoneInv, Seats, Deleting, Resting
        <4>2. QED
          BY <1>1, <3>1, <4>1 DEF Before, ReuseInv, StoredInv, ContentInv, LogInv
      <3>2. QED
        BY <3>1 DEF NothingLeftBehind
    <2>4. QED
      BY <2>1, <2>2, <2>3 DEF BoardsStartClean
  <1>2. QED
    BY <1>1, ReuseInvariant, PTL

\* What is in memory of a board that is there is stored or logged as well.
LEMMA Backed ==
    ASSUME Before, Exists
    PROVE  content \subseteq stored \cup log /\ (docs = "ready" => content = stored \cup log)
  BY DEF Before, ReuseInv, ContentInv

Kept == board.n \in stored \cup log \cup content => board.n \in stored' \cup log' \cup content'

LEMMA RequestsTakeNothing ==
    ASSUME Before, Exists, board'.n = board.n, NEW k \in Calls,
           RFinishCreate(k) \/ RDeleteRow(k) \/ RDropLog(k) \/ REvictBoard(k)
    PROVE  Kept
  <1>1. CASE RFinishCreate(k)
    <2>1. Creating
      BY <1>1 DEF RFinishCreate, FinishCreate, Creating
    <2>2. stored = {} /\ content = {} /\ board.n \notin log
      BY <2>1 DEF Before, ReuseInv, CreateInv, ContentInv, LastInv
    <2>3. QED
      BY <2>2 DEF Kept
  <1>2. CASE RDeleteRow(k)
    BY <1>2 DEF RDeleteRow, DeleteRow, DropRow, NoBoard, Exists
  <1>3. CASE RDropLog(k) \/ REvictBoard(k)
    BY <1>3
    DEF RDropLog, DropLog, REvictBoard, EvictBoard, Before, GoneInv, Stands
  <1>4. QED
    BY <1>1, <1>2, <1>3

LEMMA SweepTakesNothing ==
    ASSUME Before, Exists, board'.n = board.n, RSweepDeletes \/ RSweepDrops
    PROVE  Kept
  <1>1. CASE RSweepDeletes
    BY <1>1 DEF RSweepDeletes, SweepDeletes, DropRow, NoBoard, Exists
  <1>2. CASE RSweepDrops
    BY <1>2 DEF RSweepDrops, SweepDrops, Before, GoneInv, Stands
  <1>3. QED
    BY <1>1, <1>2

LEMMA PagesTakeNothing ==
    ASSUME Before, Exists,
           \/ \E c \in Clients : \/ ROpenPage(c) \/ RHandshake(c) \/ RJoinBoard(c)
                                 \/ RLoadedInVain(c) \/ RLeave(c) \/ Draw(c)
           \/ \E gone \in SUBSET Clients : RLoaded(gone)
           \/ Flush \/ RCrash
    PROVE  Kept
  <1>1. ASSUME NEW c \in Clients, ROpenPage(c) \/ RHandshake(c) \/ RLoadedInVain(c)
        PROVE  Kept
    BY <1>1 DEF ROpenPage, RHandshake, RLoadedInVain, Kept
  <1>2. ASSUME NEW c \in Clients, RJoinBoard(c)
        PROVE  Kept
    BY <1>2 DEF RJoinBoard, Merge, Kept
  <1>3. ASSUME NEW c \in Clients, RLeave(c)
        PROVE  Kept
    <2>1. docs = "ready"
      BY <1>3, Presence DEF RLeave, Leave, Inside
    <2>2. content = stored \cup log
      BY <2>1, Backed
    <2>3. QED
      BY <1>3, <2>2 DEF RLeave, SaveAndDrop, SaveSucceeds, Save, Kept
  <1>4. ASSUME NEW c \in Clients, Draw(c)
        PROVE  Kept
    BY <1>4 DEF Draw, Kept
  <1>5. ASSUME NEW gone \in SUBSET Clients, RLoaded(gone)
        PROVE  Kept
    <2>1. board.n \in stored \cup log \cup content => board.n \in stored \cup log
      BY Backed
    <2>2. stored' = stored \cup log \/ stored \cup log \subseteq content'
      BY <1>5 DEF RLoaded, SaveAndDrop, SaveSucceeds, Save, Replayed, Merge
    <2>3. QED
      BY <2>1, <2>2 DEF Kept
  <1>6. ASSUME Flush \/ RCrash
        PROVE  Kept
    <2>1. content \subseteq stored \cup log /\ (Flush => content = stored \cup log)
      BY Backed DEF Flush
    <2>2. QED
      BY <1>6, <2>1 DEF Flush, Save, RCrash, Kept
  <1>7. QED
    BY <1>1, <1>2, <1>3, <1>4, <1>5, <1>6

LEMMA WorkStays ==
    ASSUME Races = {}, MaxCrashes \in {0, 1}
    PROVE  ReuseSpec => WorkStaysOnBoard
  <1>1. ASSUME Before, [ReuseNext]_reuseVars, Exists, board'.n = board.n
        PROVE  Kept
    <2>1. CASE UNCHANGED reuseVars \/ Other
      BY <2>1 DEF reuseVars, drawings, Other, Kept
    <2>2. QED
      BY <1>1, <2>1, RequestsTakeNothing, SweepTakesNothing, PagesTakeNothing
      DEF ReuseNext
  <1>2. Before /\ [ReuseNext]_reuseVars
          => [(Exists /\ board'.n = board.n /\ board.n \in stored \cup log \cup content)
                => board.n \in stored' \cup log' \cup content']_reuseVars
    BY <1>1 DEF Kept
  <1>3. ReuseSpec => []Before
    BY ReuseInvariant
  <1>4. QED
    BY <1>2, <1>3, PTL DEF ReuseSpec, WorkStaysOnBoard

\* The same conditions: neither a board nor what was drawn on it is taken away
\* early, not by a request, by the sweep or by the crash.
THEOREM TakesNothingEarly ==
    ASSUME Races = {}, MaxCrashes \in {0, 1}
    PROVE  ReuseSpec => NothingTakenEarly
  <1>1. Spec => SweepTakesTheAbandoned
    BY SweptWasAbandoned
  <1>2. ReuseSpec => WorkStaysOnBoard
    BY WorkStays
  <1>3. QED
    BY <1>1, <1>2, ReuseImplies, PTL DEF NothingTakenEarly

-----------------------------------------------------------------------------
(* The first board that has the id, under the overlaps.                    *)

\* Nobody has been on a board yet, and nothing has been drawn.
Untouched ==
    /\ \A c \in Clients : client[c] \in {"away", "refused"}
    /\ docs = "none" /\ room = {} /\ detached = {}
    /\ stored = {} /\ log = {} /\ content = {}

\* Whoever is on the board is on the registry's document, and what that holds is
\* stored or logged, and all of it.
Together ==
    /\ detached = {} /\ Inside = room
    /\ docs # "ready" => room = {} /\ content = {}
    /\ docs = "ready" => /\ \A c \in Clients : client[c] # "opening"
                         /\ content = stored \cup log

\* Once the first board is gone there is no other, so whoever cleans up after a
\* board finds none.
FirstInv ==
    /\ made = 0 => /\ ~Exists /\ sweep = "idle" /\ Untouched
                   /\ \A c \in Clients : page[c] = 0
                   /\ \A k \in Calls : call[k] = Resting
    /\ Creating => Untouched
    /\ sweep = "swept" \/ Deleting => ~Exists
    /\ Exists => Together

\* The requests of the first board.
LEMMA FirstRequests ==
    ASSUME TypeOK, FirstInv, made' <= 1, NEW k \in Calls,
           \/ \E u \in Users \cup {NoUser} : CreateBoard(k, u) /\ UNCHANGED drawings
           \/ RFinishCreate(k) \/ RDeleteRow(k) \/ RDropLog(k) \/ REvictBoard(k)
    PROVE  FirstInv'
  <1>1. made \in Nat /\ call \in [Calls -> [at : Waits, user : Users \cup {NoUser}]]
    BY DEF TypeOK
  <1>2. ASSUME NEW u \in Users \cup {NoUser}, CreateBoard(k, u), UNCHANGED drawings
        PROVE  FirstInv'
    <2>1. made = 0 /\ made' = 1 /\ sweep' = sweep /\ UNCHANGED server
      BY <1>1, <1>2 DEF CreateBoard
    <2>2. Untouched /\ sweep = "idle" /\ \A j \in Calls : call[j] = Resting
      BY <2>1 DEF FirstInv
    <2>3. Untouched'
      BY <1>2, <2>1, <2>2 DEF Untouched, server, drawings
    <2>4. Together'
      BY <2>3 DEF Together, Untouched, Inside
    <2>5. ~Deleting'
      BY <1>1, <1>2, <2>2 DEF CreateBoard, Wait, Deleting, Resting
    <2>6. QED
      BY <2>1, <2>2, <2>3, <2>4, <2>5 DEF FirstInv
  <1>3. CASE RFinishCreate(k)
    <2>1. Creating /\ UNCHANGED <<rows, sweep, server, page, stored, content>> /\ log' = {}
      BY <1>3 DEF RFinishCreate, FinishCreate, DropEarlierLog, DropLogs, Creating
    <2>2. Untouched /\ Untouched'
      BY <2>1 DEF FirstInv, Untouched, server
    <2>3. Together'
      BY <2>2 DEF Together, Untouched, Inside
    <2>4. \A j \in Calls : call'[j] = call[j] \/ call'[j] = Resting
      BY <1>1, <1>3 DEF RFinishCreate, FinishCreate, Answer
    <2>5. Deleting' => Deleting
      BY <2>4 DEF Deleting, Resting
    <2>6. QED
      BY <2>1, <2>2, <2>3, <2>4, <2>5 DEF FirstInv, rows, Exists
  <1>4. CASE RDeleteRow(k)
    <2>1. /\ made' = made /\ sweep' = sweep /\ page' = page /\ UNCHANGED server
          /\ ~Exists'
      BY <1>4 DEF RDeleteRow, DeleteRow, DropRow, rows, NoBoard, Exists
    <2>2. made # 0
      BY <1>4 DEF RDeleteRow, DeleteRow, FirstInv, Resting
    <2>3. Creating' => Creating
      BY <1>1, <1>4 DEF RDeleteRow, DeleteRow, Wait, Answer, Creating, Resting
    <2>4. Untouched => Untouched'
      BY <1>4, <2>1 DEF RDeleteRow, Cascade, Untouched, server
    <2>5. QED
      BY <2>1, <2>2, <2>3, <2>4 DEF FirstInv
  <1>5. CASE RDropLog(k) \/ REvictBoard(k)
    <2>1. Deleting /\ call[k] # Resting
      BY <1>5 DEF RDropLog, DropLog, REvictBoard, EvictBoard, Deleting, Resting
    <2>2. ~Exists /\ made # 0 /\ UNCHANGED rows /\ sweep' = sweep
      BY <1>5, <2>1 DEF FirstInv, RDropLog, DropLog, REvictBoard, EvictBoard
    <2>3. Creating' => Creating
      BY <1>1, <1>5
      DEF RDropLog, DropLog, REvictBoard, EvictBoard, Wait, Answer, Creating, Resting
    <2>4. Untouched => Untouched'
      BY <1>5
      DEF RDropLog, DropLog, REvictBoard, EvictBoard, DropLogs, Untouched, server,
          Inside, Openers
    <2>5. QED
      BY <2>2, <2>3, <2>4 DEF FirstInv, rows, Exists
  <1>6. QED
    BY <1>2, <1>3, <1>4, <1>5


\* A step of a board that has been made: what it must not undo.
LEMMA FirstKeeps ==
    ASSUME FirstInv, made # 0, made' = made,
           Exists' => Exists, Creating' => Creating, Deleting' => Deleting,
           sweep' = "swept" => sweep = "swept",
           Untouched => Untouched', Exists /\ Together => Together'
    PROVE  FirstInv'
  BY DEF FirstInv

\* The other requests, time and the sweep.
LEMMA FirstOthers ==
    ASSUME TypeOK, FirstInv, Other,
           ~(\E k \in Calls, u \in Users \cup {NoUser} : CreateBoard(k, u))
    PROVE  FirstInv'
  <1>1. /\ call \in [Calls -> [at : Waits, user : Users \cup {NoUser}]]
        /\ board \in Board \cup {NoBoard} /\ UNCHANGED drawings
    BY DEF TypeOK, Other
  <1>2. ASSUME NEW k \in Calls,
               \/ \E u \in Users : FindToClaim(k, u) \/ FindToDelete(k, u)
               \/ FindToExtend(k)
        PROVE  FirstInv'
    <2>1. /\ Exists /\ UNCHANGED <<board, made, sweep, server, page>>
          /\ \E w \in {"claiming", "found", "extending"} : \E u : Wait(k, w, u)
      BY <1>2 DEF FindToClaim, FindToDelete, FindToExtend, rows
    <2>2. (Creating' => Creating) /\ (Deleting' => Deleting)
      BY <1>1, <2>1 DEF Wait, Creating, Deleting
    <2>3. made # 0
      BY <2>1 DEF FirstInv
    <2>4. (Untouched => Untouched') /\ (Together => Together') /\ Exists' = Exists
      BY <1>1, <2>1 DEF Untouched, Together, Inside, Exists, server, drawings
    <2>5. QED
      BY <2>1, <2>2, <2>3, <2>4, FirstKeeps
  <1>3. ASSUME NEW k \in Calls, ClaimBoard(k) \/ ExtendBoard(k) \/ CheckRole(k)
        PROVE  FirstInv'
    <2>1. /\ call[k] # Resting /\ UNCHANGED <<made, sweep, server, page>>
          /\ call'[k].at \in {"idle", "allowed"}
          /\ \A j \in Calls : j # k => call'[j] = call[j]
      BY <1>1, <1>3
      DEF ClaimBoard, ExtendBoard, CheckRole, Answer, Wait, Resting, rows
    <2>2. (Creating' => Creating) /\ (Deleting' => Deleting)
      BY <2>1 DEF Creating, Deleting
    <2>3. made # 0
      BY <2>1 DEF FirstInv
    <2>4. board'.n = board.n
      BY <1>1, <1>3
      DEF ClaimBoard, ExtendBoard, CheckRole, rows, Claimed, Exists, Board, NoBoard
    <2>5. (Untouched => Untouched') /\ (Together => Together') /\ Exists' = Exists
      BY <1>1, <2>1, <2>4 DEF Untouched, Together, Inside, Exists, server, drawings
    <2>6. QED
      BY <2>1, <2>2, <2>3, <2>5, FirstKeeps
  <1>4. ASSUME TimePasses \/ SweepReads \/ SweepFilters
        PROVE  FirstInv'
    <2>1. /\ UNCHANGED <<made, call, server, page>> /\ (sweep' = "swept" => sweep = "swept")
          /\ (board.expires # "never" \/ sweep # "idle")
      BY <1>4 DEF TimePasses, SweepReads, SweepFilters, rows, Expired
    <2>2. made # 0
      BY <1>1, <2>1 DEF FirstInv, Exists, Board, NoBoard
    <2>3. board'.n = board.n
      BY <1>1, <1>4 DEF TimePasses, SweepReads, SweepFilters, rows, Board, NoBoard
    <2>4. (Untouched => Untouched') /\ (Together => Together') /\ Exists' = Exists
      BY <1>1, <2>1, <2>3 DEF Untouched, Together, Inside, Exists, server, drawings
    <2>5. (Creating' => Creating) /\ (Deleting' => Deleting)
      BY <2>1 DEF Creating, Deleting
    <2>6. QED
      BY <2>1, <2>2, <2>4, <2>5, FirstKeeps
  <1>5. QED
    BY <1>2, <1>3, <1>4 DEF Other

\* The sweep takes the row, and cleans up after it.
LEMMA FirstSweeps ==
    ASSUME FirstInv, RSweepDeletes \/ RSweepDrops
    PROVE  FirstInv'
  <1>1. /\ sweep # "idle" /\ UNCHANGED <<made, call, server, page>>
        /\ ~Exists'
    <2>1. CASE RSweepDeletes
      BY <2>1 DEF RSweepDeletes, SweepDeletes, DropRow, rows, Exists, NoBoard
    <2>2. CASE RSweepDrops
      BY <2>2 DEF RSweepDrops, SweepDrops, rows, Exists, FirstInv
    <2>3. QED
      BY <2>1, <2>2
  <1>2. made # 0
    BY <1>1 DEF FirstInv
  <1>3. Untouched => Untouched'
    BY <1>1 DEF RSweepDeletes, RSweepDrops, DropLogs, Cascade, Untouched, server
  <1>4. Creating' => Creating
    BY <1>1 DEF Creating
  <1>5. QED
    BY <1>1, <1>2, <1>3, <1>4 DEF FirstInv

\* A page that comes: nobody is let in while the board is being made.
LEMMA FirstComes ==
    ASSUME TypeOK, FirstInv, "early" \notin Races, NEW c \in Clients,
           ROpenPage(c) \/ RHandshake(c) \/ RJoinBoard(c)
    PROVE  FirstInv'
  <1>1. client \in [Clients -> {"away", "refused", "admitted", "opening", "in"}]
    BY DEF TypeOK
  <1>2. UNCHANGED <<board, made, call, sweep, detached, stored>>
    BY DEF ROpenPage, RHandshake, RJoinBoard, OpenPage, Handshake, JoinBoard, rows
  <1>3. /\ Exists' = Exists /\ (Creating' <=> Creating) /\ (Deleting' <=> Deleting)
    BY <1>2 DEF Exists, Creating, Deleting
  <1>4. ASSUME ROpenPage(c)
        PROVE  FirstInv'
    <2>1. /\ Exists /\ client[c] \in {"away", "refused"}
          /\ client' = [client EXCEPT ![c] = "away"]
          /\ UNCHANGED <<docs, room, log, content>>
      BY <1>4 DEF ROpenPage, OpenPage
    <2>2. Untouched => Untouched'
      BY <1>1, <1>2, <2>1 DEF Untouched
    <2>3. Inside' = Inside
      BY <1>1, <2>1 DEF Inside
    <2>4. Together => Together'
      BY <1>1, <1>2, <2>1, <2>3 DEF Together
    <2>5. made # 0
      BY <2>1 DEF FirstInv
    <2>6. QED
      BY <1>2, <1>3, <2>2, <2>4, <2>5, FirstKeeps
  <1>5. ASSUME RHandshake(c)
        PROVE  FirstInv'
    <2>1. /\ page[c] # 0 /\ client[c] = "away" /\ ~Creating
          /\ \E s \in {"admitted", "refused"} : client' = [client EXCEPT ![c] = s]
          /\ UNCHANGED <<docs, room, log, content>>
      BY <1>5 DEF RHandshake, Handshake, Creating
    <2>2. Inside' = Inside
      BY <1>1, <2>1 DEF Inside
    <2>3. Together => Together'
      BY <1>1, <1>2, <2>1, <2>2 DEF Together
    <2>4. made # 0
      BY <2>1 DEF FirstInv
    <2>5. QED
      BY <1>2, <1>3, <2>1, <2>3, <2>4 DEF FirstInv
  <1>6. ASSUME RJoinBoard(c)
        PROVE  FirstInv'
    <2>1. client[c] = "admitted" /\ ~Untouched
      BY <1>6 DEF RJoinBoard, JoinBoard, Untouched
    <2>2. made # 0
      BY <2>1 DEF FirstInv
    <2>3. CASE docs = "ready"
      <3>1. /\ client' = [client EXCEPT ![c] = "in"] /\ room' = room \cup {c}
            /\ docs' = docs /\ content' = content \cup copy[c]
            /\ log' = log \cup (content' \ content)
        BY <1>6, <2>3 DEF RJoinBoard, JoinBoard, Merge
      <3>2. Inside' = Inside \cup {c}
        BY <1>1, <3>1 DEF Inside
      <3>3. Together => Together'
        BY <1>1, <1>2, <2>3, <3>1, <3>2 DEF Together
      <3>4. QED
        BY <1>2, <1>3, <2>1, <2>2, <3>3, FirstKeeps
    <2>4. CASE docs # "ready"
      <3>1. /\ client' = [client EXCEPT ![c] = "opening"] /\ docs' = "loading"
            /\ UNCHANGED <<room, log, content>>
        BY <1>6, <2>4 DEF RJoinBoard, JoinBoard
      <3>2. Inside' = Inside
        BY <1>1, <2>1, <3>1 DEF Inside
      <3>3. Together => Together'
        BY <1>2, <2>4, <3>1, <3>2 DEF Together
      <3>4. QED
        BY <1>2, <1>3, <2>1, <2>2, <3>3, FirstKeeps
    <2>5. QED
      BY <2>3, <2>4
  <1>7. QED
    BY <1>4, <1>5, <1>6

\* A page that works and goes: what it drew is stored or logged by then.
LEMMA FirstGoes ==
    ASSUME TypeOK, FirstInv, NEW c \in Clients,
           RLoadedInVain(c) \/ RLeave(c) \/ Draw(c)
    PROVE  FirstInv'
  <1>1. client \in [Clients -> {"away", "refused", "admitted", "opening", "in"}]
    BY DEF TypeOK
  <1>2. UNCHANGED <<board, made, call, sweep, page>>
    BY DEF RLoadedInVain, RLeave, Draw, LoadedInVain, Leave, vars, rows, server
  <1>3. /\ Exists' = Exists /\ (Creating' <=> Creating) /\ (Deleting' <=> Deleting)
    BY <1>2 DEF Exists, Creating, Deleting
  <1>4. ~Untouched
    BY DEF RLoadedInVain, RLeave, Draw, LoadedInVain, Leave, Untouched
  <1>5. made # 0
    BY <1>4 DEF FirstInv
  <1>6. ASSUME RLoadedInVain(c), Exists, Together
        PROVE  FALSE
    BY <1>6 DEF RLoadedInVain, LoadedInVain, Together
  <1>7. ASSUME RLeave(c), Exists, Together
        PROVE  Together'
    <2>1. /\ client[c] = "in" /\ client' = [client EXCEPT ![c] = "away"]
          /\ room' = room \ {c}
      BY <1>7 DEF RLeave, Leave
    <2>2. /\ docs = "ready" /\ content = stored \cup log /\ Openers = {}
      BY <1>7, <2>1 DEF Together, Inside, Openers
    <2>3. /\ Inside' = room' /\ detached' = {} /\ \A d \in Clients : client'[d] # "opening"
      <3>1. detached' = (detached \ {c}) \cup (IF docs' = "none" THEN Openers ELSE {})
        BY <1>7 DEF RLeave, Leave
      <3>2. detached = {} /\ Inside = room /\ \A d \in Clients : client[d] # "opening"
        BY <1>7, <2>2 DEF Together
      <3>3. Inside' = Inside \ {c}
        BY <1>1, <2>1 DEF Inside
      <3>4. QED
        BY <1>1, <2>1, <2>2, <3>1, <3>2, <3>3
    <2>4. \/ docs' = "none" /\ room' = {} /\ content' = {}
          \/ docs' = "ready" /\ UNCHANGED <<stored, log, content>>
      BY <1>7, <2>2
      DEF RLeave, Leave, AfterLastOne, SaveAndDrop, SaveSucceeds
    <2>5. QED
      BY <2>2, <2>3, <2>4 DEF Together
  <1>8. ASSUME Draw(c), Exists, Together
        PROVE  Together'
    <2>1. /\ UNCHANGED <<docs, room, client, detached>> /\ stored' = stored
          /\ docs = "ready" /\ Served(c)
      BY <1>8 DEF Draw, vars, server, Together, Inside, Served
    <2>2. content' = content \cup {visit[c]} /\ log' = log \cup {visit[c]}
      BY <1>8, <2>1 DEF Draw
    <2>3. Inside' = Inside
      BY <2>1 DEF Inside
    <2>4. QED
      BY <1>8, <2>1, <2>2, <2>3 DEF Together
  <1>9. QED
    BY <1>2, <1>3, <1>4, <1>5, <1>6, <1>7, <1>8, FirstKeeps

\* The document is loaded, saved, or lost with the process.
LEMMA FirstStores ==
    ASSUME TypeOK, FirstInv,
           (\E gone \in SUBSET Clients : RLoaded(gone)) \/ Flush \/ RCrash
    PROVE  FirstInv'
  <1>1. client \in [Clients -> {"away", "refused", "admitted", "opening", "in"}]
    BY DEF TypeOK
  <1>2. ASSUME NEW gone \in SUBSET Clients, RLoaded(gone)
        PROVE  FirstInv'
    <2>1. /\ UNCHANGED <<board, made, call, sweep, page, detached>> /\ docs = "loading"
          /\ room' = room \cup (Openers \ gone)
          /\ client' = [d \in Clients |->
                          IF d \notin Openers THEN client[d]
                          ELSE IF d \in gone THEN "away" ELSE "in"]
          /\ docs' = IF room' = {} /\ SaveSucceeds THEN "none" ELSE "ready"
      BY <1>2 DEF RLoaded, Loaded
    <2>2. /\ Exists' = Exists /\ (Creating' <=> Creating) /\ (Deleting' <=> Deleting)
      BY <2>1 DEF Exists, Creating, Deleting
    <2>3. ~Untouched /\ made # 0
      BY <2>1 DEF Untouched, FirstInv
    <2>4. ASSUME Exists, Together
          PROVE  Together'
      <3>1. /\ room = {} /\ Inside = {} /\ detached = {}
            /\ Openers = {d \in Clients : client[d] = "opening"}
        BY <2>1, <2>4 DEF Together, Openers
      <3>2. Inside' = room' /\ \A d \in Clients : client'[d] # "opening"
        BY <2>1, <3>1 DEF Inside
      <3>3. CASE room' = {}
        <4>1. docs' = "none" /\ content' = {}
          BY <1>2, <2>1, <2>4, <3>3 DEF RLoaded, SaveAndDrop, SaveSucceeds
        <4>2. QED
          BY <2>1, <3>1, <3>2, <3>3, <4>1 DEF Together
      <3>4. CASE room' # {}
        <4>1. /\ docs' = "ready" /\ stored' = stored
              /\ stored \cup log \subseteq content'
              /\ log' = log \cup (content' \ (stored \cup log))
          BY <1>2, <2>1, <3>4 DEF RLoaded, Merge, Replayed
        <4>2. content' = stored' \cup log'
          BY <4>1
        <4>3. QED
          BY <2>1, <3>1, <3>2, <4>1, <4>2 DEF Together
      <3>5. QED
        BY <3>3, <3>4
    <2>5. QED
      BY <2>1, <2>2, <2>3, <2>4, FirstKeeps
  <1>3. ASSUME Flush
        PROVE  FirstInv'
    <2>1. /\ UNCHANGED <<board, made, call, sweep, page, docs, room, client, detached>>
          /\ docs = "ready" /\ stored' = content /\ log' = {} /\ content' = content
      BY <1>3 DEF Flush, Save, vars, rows, server
    <2>2. /\ Exists' = Exists /\ (Creating' <=> Creating) /\ (Deleting' <=> Deleting)
          /\ Inside' = Inside
      BY <2>1 DEF Exists, Creating, Deleting, Inside
    <2>3. ~Untouched /\ made # 0
      BY <2>1 DEF Untouched, FirstInv
    <2>4. Together => Together'
      BY <2>1, <2>2 DEF Together
    <2>5. QED
      BY <2>1, <2>2, <2>3, <2>4, FirstKeeps
  <1>4. ASSUME RCrash
        PROVE  FirstInv'
    <2>1. /\ UNCHANGED <<board, made, page, stored, log>> /\ content' = {}
          /\ call' = [j \in Calls |-> Resting] /\ sweep' = "idle"
          /\ docs' = "none" /\ room' = {} /\ detached' = {}
          /\ client' = [d \in Clients |->
                          IF client[d] = "refused" THEN "refused" ELSE "away"]
      BY <1>4 DEF RCrash, Crash, rows
    <2>2. ~Creating' /\ ~Deleting' /\ Inside' = {} /\ Exists' = Exists
      BY <2>1 DEF Creating, Deleting, Resting, Inside, Exists
    <2>3. Together'
      BY <2>1, <2>2 DEF Together
    <2>4. Untouched => Untouched'
      BY <2>1 DEF Untouched
    <2>5. QED
      BY <2>1, <2>2, <2>3, <2>4 DEF FirstInv
  <1>5. QED
    BY <1>2, <1>3, <1>4

\* Every step, as long as there is no second board.
LEMMA FirstSteps ==
    ASSUME TypeOK, FirstInv, "early" \notin Races, made' <= 1, [ReuseNext]_reuseVars
    PROVE  FirstInv'
  <1>1. CASE UNCHANGED reuseVars
    BY <1>1
    DEF FirstInv, Untouched, Together, Creating, Deleting, Exists, Inside,
        reuseVars, vars, rows, server, drawings
  <1>2. CASE Other
    <2>1. UNCHANGED drawings
      BY <1>2 DEF Other
    <2>2. QED
      BY <1>2, <2>1, FirstOthers, FirstRequests
  <1>3. ASSUME NEW k \in Calls,
               RFinishCreate(k) \/ RDeleteRow(k) \/ RDropLog(k) \/ REvictBoard(k)
        PROVE  FirstInv'
    BY <1>3, FirstRequests
  <1>4. CASE RSweepDeletes \/ RSweepDrops
    BY <1>4, FirstSweeps
  <1>5. ASSUME NEW c \in Clients,
               \/ ROpenPage(c) \/ RHandshake(c) \/ RJoinBoard(c)
               \/ RLoadedInVain(c) \/ RLeave(c) \/ Draw(c)
        PROVE  FirstInv'
    BY <1>5, FirstComes, FirstGoes
  <1>6. CASE (\E gone \in SUBSET Clients : RLoaded(gone)) \/ Flush \/ RCrash
    BY <1>6, FirstStores
  <1>7. QED
    BY <1>1, <1>2, <1>3, <1>4, <1>5, <1>6 DEF ReuseNext

\* Whoever cleans up finds no board; what is saved and dropped, or lost with the
\* process, is stored or logged.
LEMMA FirstKept ==
    ASSUME FirstInv, [ReuseNext]_reuseVars, Exists, board'.n = board.n
    PROVE  Kept
  <1>1. Together /\ ~Deleting /\ sweep # "swept" /\ (Creating => Untouched)
    BY DEF FirstInv
  <1>2. content \subseteq stored \cup log /\ (docs = "ready" => content = stored \cup log)
    <2>1. docs # "ready" => content = {}
      BY <1>1 DEF Together
    <2>2. docs = "ready" => content = stored \cup log
      BY <1>1 DEF Together
    <2>3. QED
      BY <2>1, <2>2
  <1>3. CASE UNCHANGED reuseVars \/ Other
    BY <1>3 DEF reuseVars, drawings, Other, Kept
  <1>4. ASSUME NEW k \in Calls,
               RFinishCreate(k) \/ RDeleteRow(k) \/ RDropLog(k) \/ REvictBoard(k)
        PROVE  Kept
    <2>1. CASE RFinishCreate(k)
      <3>1. Untouched
        BY <1>1, <2>1 DEF RFinishCreate, FinishCreate, Creating
      <3>2. QED
        BY <3>1 DEF Kept, Untouched
    <2>2. CASE RDeleteRow(k)
      BY <2>2 DEF RDeleteRow, DeleteRow, DropRow, NoBoard, Exists
    <2>3. ~RDropLog(k) /\ ~REvictBoard(k)
      BY <1>1 DEF RDropLog, DropLog, REvictBoard, EvictBoard, Deleting
    <2>4. QED
      BY <1>4, <2>1, <2>2, <2>3
  <1>5. ~RSweepDeletes /\ ~RSweepDrops
    BY <1>1 DEF RSweepDeletes, SweepDeletes, DropRow, NoBoard, Exists, RSweepDrops, SweepDrops
  <1>6. ASSUME NEW c \in Clients,
               \/ ROpenPage(c) \/ RHandshake(c) \/ RJoinBoard(c)
               \/ RLoadedInVain(c) \/ Draw(c)
        PROVE  Kept
    <2>1. stored' = stored /\ log \subseteq log' /\ content \subseteq content'
      BY <1>6 DEF ROpenPage, RHandshake, RJoinBoard, RLoadedInVain, Draw, Merge
    <2>2. QED
      BY <2>1 DEF Kept
  <1>7. ASSUME NEW c \in Clients, RLeave(c)
        PROVE  Kept
    <2>1. docs = "ready"
      BY <1>1, <1>7 DEF RLeave, Leave, Together, Inside
    <2>2. QED
      BY <1>2, <1>7, <2>1 DEF RLeave, SaveAndDrop, SaveSucceeds, Save, Kept
  <1>8. ASSUME NEW gone \in SUBSET Clients, RLoaded(gone)
        PROVE  Kept
    <2>1. stored' = stored \cup log \/ stored \cup log \subseteq content'
      BY <1>8 DEF RLoaded, SaveAndDrop, SaveSucceeds, Save, Replayed, Merge
    <2>2. QED
      BY <1>2, <2>1 DEF Kept
  <1>9. CASE Flush \/ RCrash
    BY <1>2, <1>9 DEF Flush, Save, RCrash, Kept
  <1>10. QED
    BY <1>3, <1>4, <1>5, <1>6, <1>7, <1>8, <1>9 DEF ReuseNext

\* boards/service.ts, jobs/expiry-sweep.ts, realtime/gateway.ts: what is drawn on
\* the first board that has an id stays until the board goes, whichever requests,
\* sweeps and connections overlap and however often the server crashes, as long
\* as nobody is let in before createBoard is done.
THEOREM FirstBoardKeepsItsWork ==
    ASSUME "early" \notin Races
    PROVE  ReuseSpec =>
             [][(made' <= 1 /\ Exists /\ board'.n = board.n
                   /\ board.n \in stored \cup log \cup content)
                  => board.n \in stored' \cup log' \cup content']_reuseVars
  <1> DEFINE Once == made <= 1 => FirstInv
  <1>1. ReuseInit => Once
    <2>1. ASSUME ReuseInit
          PROVE  FirstInv
      <3>1. ~Exists /\ ~Creating /\ ~Deleting /\ Untouched
        BY <2>1
        DEF ReuseInit, Init, Exists, NoBoard, Creating, Deleting, Resting, Untouched
      <3>2. QED
        BY <2>1, <3>1 DEF ReuseInit, Init, FirstInv
    <2>2. QED
      BY <2>1
  <1>2. ASSUME TypeOK, [ReuseNext]_reuseVars
        PROVE  made \in Nat /\ (made' = made \/ made' = made + 1)
    <2>1. made \in Nat
      BY <1>2 DEF TypeOK
    <2>2. [Next]_vars
      BY <1>2, ReuseSteps
    <2>3. QED
      BY <2>1, <2>2
      DEF Next, vars, rows, CreateBoard, FindToClaim, FindToDelete, FindToExtend, Proceed,
          FinishCreate, ClaimBoard, ExtendBoard, CheckRole, DeleteRow, DropRow, DropLog,
          EvictBoard, TimePasses, SweepReads, SweepFilters, SweepDeletes, SweepDrops,
          OpenPage, Handshake, JoinBoard, LoadedInVain, Leave, Loaded, Crash
  <1>3. TypeOK /\ Once /\ [ReuseNext]_reuseVars => Once'
    BY <1>2, FirstSteps
  <1>4. TypeOK /\ Once /\ [ReuseNext]_reuseVars
          => [(made' <= 1 /\ Exists /\ board'.n = board.n
                 /\ board.n \in stored \cup log \cup content)
                => board.n \in stored' \cup log' \cup content']_reuseVars
    <2>1. ASSUME TypeOK, Once, [ReuseNext]_reuseVars, made' <= 1, Exists,
                 board'.n = board.n
          PROVE  Kept
      BY <1>2, <2>1, FirstKept
    <2>2. QED
      BY <2>1 DEF Kept
  <1>5. ReuseSpec => []TypeOK
    BY ReuseImplies, TypeCorrect, PTL
  <1>6. QED
    BY <1>1, <1>3, <1>4, <1>5, PTL DEF ReuseSpec
==============================================================================
