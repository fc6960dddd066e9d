------------------------- MODULE SyncProtocol_proofs -------------------------
(***************************************************************************)
(* Proofs about SyncProtocol, for any finite set of clients and any        *)
(* bounds.  And about one of the lists in the document it keeps, `order`   *)
(* (PaintOrder): browsers that change it at the same time paint every      *)
(* element once, where the restacks have put it.                           *)
(***************************************************************************)
EXTENDS SyncProtocol, PaintOrder,
        FiniteSetTheorems, SequenceTheorems, WellFoundedInduction, TLAPS

-----------------------------------------------------------------------------
(* Documents.                                                              *)

\* There are finitely many items, so a document has a size.
LEMMA SizesAreNumbers ==
    ASSUME NEW S \in SUBSET Items
    PROVE  Cardinality(S) \in Nat
  <1>1. IsFiniteSet(1..MaxItems)
    BY ConstantsAssumption, FS_Interval, 0 \in Nat, 1 \in Int
  <1>2. IsFiniteSet(Items)
    BY <1>1, ConstantsAssumption, FS_Product DEF Items
  <1>3. QED
    BY <1>2, FS_Subset, FS_CardinalityType

\* Integrating is picking: nothing is added, and doing it again changes nothing.
LEMMA WholeFacts ==
    ASSUME NEW S \in SUBSET Items
    PROVE  /\ Whole(S) \subseteq S
           /\ Whole(S) \in SUBSET Items
           /\ Whole(Whole(S)) = Whole(S)
  <1>1. Whole(S) \subseteq S
    BY DEF Whole
  <1>2. ASSUME NEW i \in Whole(S), NEW n \in 1..i[2]
        PROVE  <<i[1], n>> \in Whole(S)
    <2>1. i \in S /\ i[2] \in Nat
      BY ConstantsAssumption DEF Whole, Items
    <2>2. <<i[1], n>> \in S
      BY <1>2 DEF Whole
    <2>3. ASSUME NEW k \in 1..n
          PROVE  <<i[1], k>> \in S
      BY <2>1, <1>2 DEF Whole
    <2>4. QED
      BY <2>2, <2>3 DEF Whole
  <1>3. Whole(S) \subseteq Whole(Whole(S))
    BY <1>2 DEF Whole
  <1>4. QED
    BY <1>1, <1>3 DEF Whole

\* What is integrated of a document is a document, and has nothing pending.
LEMMA IntegratedFacts ==
    ASSUME NEW d \in Docs
    PROVE  /\ Integrated(d) \in Docs
           /\ Integrated(Integrated(d)) = Integrated(d)
  <1>1. d.items \in SUBSET Items /\ d.erased \in SUBSET Items
    BY DEF Docs
  <1>2. Whole(d.items) \in SUBSET Items /\ Whole(Whole(d.items)) = Whole(d.items)
    BY <1>1, WholeFacts
  <1>3. Integrated(d) = [items |-> Whole(d.items), erased |-> d.erased \cap Whole(d.items)]
    BY DEF Integrated
  <1>4. Integrated(d) \in Docs
    BY <1>1, <1>2, <1>3 DEF Docs
  <1>5. Integrated(Integrated(d))
            = [items |-> Whole(Whole(d.items)),
               erased |-> (d.erased \cap Whole(d.items)) \cap Whole(Whole(d.items))]
    BY <1>3 DEF Integrated
  <1>6. QED
    BY <1>2, <1>3, <1>4, <1>5

\* Documents are put together and taken apart into documents.
LEMMA DocsAreClosed ==
    ASSUME NEW d \in Docs, NEW e \in Docs, NEW vector
    PROVE  Union(d, e) \in Docs /\ Minus(d, e) \in Docs /\ Since(d, vector) \in Docs
  BY DEF Docs, Union, Minus, Since, Empty

\* Applying an update to a document yields a document.
LEMMA AppliedFacts ==
    ASSUME NEW d \in Docs, NEW u \in Docs
    PROVE  Applied(d, u) \in Docs /\ Integrated(Applied(d, u)) = Applied(d, u)
  BY DocsAreClosed, IntegratedFacts DEF Applied

\* What is sent is a message.
LEMMA MessageFacts ==
    /\ Greeting \in Messages
    /\ \A vector \in SUBSET Items : Step(vector) \in Messages
    /\ \A d \in Docs : Update(d) \in Messages
    /\ \A m \in Messages :
          /\ m.kind = "update" => m.content \in Docs
          /\ m.kind = "step" => m.vector \in SUBSET Items
  BY DEF Messages, Greeting, Step, Update

\* A message taken off a channel, and a channel after it.
LEMMA ChannelFacts ==
    ASSUME NEW q \in Seq(Messages), q # <<>>
    PROVE  Head(q) \in Messages /\ Tail(q) \in Seq(Messages)
  OBVIOUS

\* Connections cut keep their types.
LEMMA CutKeepsTypes ==
    ASSUME TypeOK, NEW gone \in SUBSET Clients, Cut(gone)
    PROVE  /\ link' \in [Clients -> {"down", "open", "joined"}]
           /\ up' \in [Clients -> Seq(Messages)]
           /\ down' \in [Clients -> Seq(Messages)]
           /\ resync' \subseteq Clients
           /\ refused' \subseteq Clients
  <1>1. <<>> \in Seq(Messages)
    OBVIOUS
  <1>2. QED
    BY <1>1 DEF Cut, TypeOK

-----------------------------------------------------------------------------
(* Type correctness.                                                       *)

LEMMA InitTypes == Init => TypeOK
  <1>1. <<>> \in Seq(Messages)
    OBVIOUS
  <1>2. Empty \in Docs
    BY DEF Empty, Docs
  <1>3. ASSUME Init
        PROVE  up \in [Clients -> Seq(Messages)] /\ down \in [Clients -> Seq(Messages)]
    BY <1>1, <1>3 DEF Init
  <1>4. ASSUME Init
        PROVE  /\ held \in Docs /\ pending \in Docs /\ doc \in [Clients -> Docs]
               /\ link \in [Clients -> {"down", "open", "joined"}]
    BY <1>2, <1>4 DEF Init
  <1>5. ASSUME Init
        PROVE  /\ bytes \in Nat /\ recent \in BOOLEAN /\ faults \in Nat
               /\ resync \subseteq Clients /\ refused \subseteq Clients
               /\ oversized \subseteq Clients /\ unsynced \subseteq Clients
    BY <1>5 DEF Init
  <1>6. QED
    BY <1>3, <1>4, <1>5, Zenon DEF TypeOK

LEMMA NextTypes == TypeOK /\ [Next]_vars => TypeOK'
  <1> SUFFICES ASSUME TypeOK, [Next]_vars
               PROVE  TypeOK'
    OBVIOUS
  <1> USE MessageFacts, ChannelFacts
  <1>0. Encoded \in Docs
    BY DocsAreClosed DEF Encoded, TypeOK
  <1>1. ASSUME NEW c \in Clients, NEW change \in Docs, MakeChange(c, change)
        PROVE  TypeOK'
    <2>1. Union(doc[c], change) \in Docs
      BY DocsAreClosed DEF TypeOK
    <2>2. doc' \in [Clients -> Docs]
      BY <1>1, <2>1 DEF MakeChange, TypeOK
    <2>3. up' \in [Clients -> Seq(Messages)] /\ unsynced' \subseteq Clients
      <3>1. Append(up[c], Update(change)) \in Seq(Messages)
        BY DEF TypeOK
      <3>2. CASE /\ up' = [up EXCEPT ![c] = Append(@, Update(change))]
                 /\ UNCHANGED unsynced
        BY <3>1, <3>2 DEF TypeOK
      <3>3. CASE unsynced' = unsynced \cup {c} /\ UNCHANGED up
        BY <3>3 DEF TypeOK
      <3>4. QED
        BY <1>1, <3>2, <3>3 DEF MakeChange
    <2>4. QED
      BY <1>1, <2>2, <2>3 DEF MakeChange, TypeOK
  <1>2. ASSUME NEW c \in Clients, NEW n \in 1..MaxItems, Draw(c, n)
        PROVE  TypeOK'
    <2>1. [items |-> {<<c, n>>}, erased |-> {}] \in Docs
      BY DEF Docs, Items
    <2>2. QED
      BY <1>1, <1>2, <2>1 DEF Draw
  <1>3. ASSUME NEW c \in Clients, NEW i \in Items, Erase(c, i)
        PROVE  TypeOK'
    <2>1. [items |-> {}, erased |-> {i}] \in Docs
      BY DEF Docs
    <2>2. QED
      BY <1>1, <1>3, <2>1 DEF Erase
  <1>4. ASSUME NEW c \in Clients, Connect(c)
        PROVE  TypeOK'
    BY <1>4 DEF Connect, TypeOK
  <1>5. ASSUME NEW c \in Clients, HearGreeting(c)
        PROVE  TypeOK'
    <2>1. Whole(doc[c].items) \in SUBSET Items
      BY WholeFacts DEF TypeOK, Docs
    <2>2. up' \in [Clients -> Seq(Messages)]
      BY <1>5, <2>1 DEF HearGreeting, Receive, TypeOK
    <2>3. down' \in [Clients -> Seq(Messages)]
      BY <1>5 DEF HearGreeting, Receive, TypeOK
    <2>4. QED
      BY <1>5, <2>2, <2>3 DEF HearGreeting, TypeOK
  <1>6. ASSUME NEW c \in Clients, HearStep(c)
        PROVE  TypeOK'
    <2>1. Since(doc[c], Head(down[c]).vector) \in Docs
      BY DocsAreClosed DEF TypeOK
    <2>2. up' \in [Clients -> Seq(Messages)]
      BY <1>6, <2>1 DEF HearStep, TypeOK
    <2>3. down' \in [Clients -> Seq(Messages)]
      BY <1>6 DEF HearStep, Receive, TypeOK
    <2>4. QED
      BY <1>6, <2>2, <2>3 DEF HearStep, TypeOK
  <1>7. ASSUME NEW c \in Clients, HearUpdate(c)
        PROVE  TypeOK'
    <2>1. Head(down[c]).content \in Docs
      BY <1>7 DEF HearUpdate, Receive, TypeOK
    <2>2. Union(doc[c], Head(down[c]).content) \in Docs
      BY <2>1, DocsAreClosed DEF TypeOK
    <2>3. doc' \in [Clients -> Docs]
      BY <1>7, <2>2 DEF HearUpdate, TypeOK
    <2>4. down' \in [Clients -> Seq(Messages)]
      BY <1>7 DEF HearUpdate, Receive, TypeOK
    <2>5. QED
      BY <1>7, <2>3, <2>4 DEF HearUpdate, TypeOK
  <1>8. ASSUME NEW c \in Clients, JoinBoard(c)
        PROVE  TypeOK'
    <2>1. <<Greeting, Step(held.items)>> \in Seq(Messages)
      BY DEF TypeOK, Docs
    <2>2. down' \in [Clients -> Seq(Messages)]
      BY <1>8, <2>1 DEF JoinBoard, TypeOK
    <2>3. QED
      BY <1>8, <2>2 DEF JoinBoard, TypeOK
  <1>9. ASSUME NEW c \in Clients, NEW kind, Take(c, kind)
        PROVE  up' \in [Clients -> Seq(Messages)]
    BY <1>9 DEF Take, TypeOK
  <1>10. ASSUME NEW c \in Clients, MissEvent(c)
         PROVE  TypeOK'
    BY <1>9, <1>10 DEF MissEvent, TypeOK
  <1>11. ASSUME NEW c \in Clients, AnswerStep(c)
         PROVE  TypeOK'
    <2>1. Since(Encoded, Head(up[c]).vector) \in Docs
      BY <1>0, DocsAreClosed
    <2>2. down' \in [Clients -> Seq(Messages)]
      BY <1>11, <2>1 DEF AnswerStep, TypeOK
    <2>3. QED
      BY <1>9, <1>11, <2>2 DEF AnswerStep, TypeOK
  <1>12. ASSUME NEW c \in Clients, DropTooFast(c)
         PROVE  TypeOK'
    BY <1>9, <1>12 DEF DropTooFast, Fault, TypeOK
  <1>13. ASSUME NEW c \in Clients, RefuseLarge(c)
         PROVE  TypeOK'
    BY <1>9, <1>13 DEF RefuseLarge, TypeOK
  <1>14. ASSUME NEW d \in Docs
         PROVE  Size(d) \in Nat /\ Cardinality(d.items) \in Nat
    BY SizesAreNumbers DEF Size, Docs
  <1>15. ASSUME NEW c \in Clients, RefuseFull(c)
         PROVE  TypeOK'
    <2>1. bytes' \in Nat /\ recent' \in BOOLEAN
      BY <1>0, <1>14, <1>15 DEF RefuseFull, Measure, TypeOK
    <2>2. QED
      BY <1>9, <1>15, <2>1 DEF RefuseFull, TypeOK
  <1>16. ASSUME NEW c \in Clients, ApplyUpdate(c)
         PROVE  TypeOK'
    <2> DEFINE u == Arriving(c)
               change == Minus(Applied(Encoded, u), held)
    <2>1. u \in Docs
      BY <1>16 DEF ApplyUpdate, Take, Arriving, TypeOK
    <2>2. Applied(Encoded, u) \in Docs
      BY <1>0, <2>1, AppliedFacts
    <2>3. change \in Docs
      BY <2>2, DocsAreClosed DEF TypeOK
    <2>4. bytes' \in Nat /\ recent' \in BOOLEAN
      <3>1. Size(Encoded) \in Nat /\ Cardinality(change.items) \in Nat
        BY <1>0, <1>14, <2>3
      <3>2. /\ bytes' = (IF u.items # {} /\ MeasuresFor(u) THEN Size(Encoded) ELSE bytes)
                            + Cardinality(change.items)
            /\ recent' = (recent \/ (u.items # {} /\ MeasuresFor(u)))
        BY <1>16 DEF ApplyUpdate
      <3>3. QED
        BY <3>1, <3>2 DEF TypeOK
    <2>5. down' \in [Clients -> Seq(Messages)]
      <3>1. Update(change) \in Messages
        BY <2>3
      <3>2. down' = [b \in Clients |->
                        IF b # c /\ link[b] = "joined" /\ change # Empty
                        THEN Append(down[b], Update(change)) ELSE down[b]]
        BY <1>16 DEF ApplyUpdate
      <3> HIDE DEF change, u
      <3>3. QED
        BY <3>1, <3>2 DEF TypeOK
    <2>6. held' \in Docs /\ pending' \in Docs /\ resync' \subseteq Clients /\ refused' \subseteq Clients
      BY <1>16, <2>2 DEF ApplyUpdate, TypeOK, Empty, Docs
    <2>7. QED
      BY <1>9, <1>16, <2>4, <2>5, <2>6 DEF ApplyUpdate, TypeOK
  <1>17. ASSUME NEW c \in Clients, SendStep(c)
         PROVE  TypeOK'
    <2>1. Step(held.items) \in Messages
      BY DEF TypeOK, Docs
    <2>2. down' \in [Clients -> Seq(Messages)]
      BY <1>17, <2>1 DEF SendStep, TypeOK
    <2>3. QED
      BY <1>17, <2>2 DEF SendStep, TypeOK
  <1>18. ASSUME NEW c \in Clients, Disconnect(c)
         PROVE  TypeOK'
    BY <1>18, CutKeepsTypes DEF Disconnect, Fault, TypeOK
  <1>19. ASSUME Snapshot
         PROVE  TypeOK'
    BY <1>0, <1>14, <1>19 DEF Snapshot, Measure, TypeOK
  <1>20. ASSUME SecondPasses
         PROVE  TypeOK'
    BY <1>20 DEF SecondPasses, TypeOK
  <1>21. ASSUME Restart
         PROVE  TypeOK'
    <2>1. held' \in Docs /\ pending' \in Docs /\ bytes' \in Nat
      <3>1. PICK items \in SUBSET Encoded.items, erased \in SUBSET Encoded.erased :
                LET left == [items |-> items, erased |-> erased]
                IN  /\ held' = Integrated(left)
                    /\ pending' = Minus(left, Integrated(left))
                    /\ bytes' = Cardinality(items)
        BY <1>21 DEF Restart
      <3>2. items \in SUBSET Items /\ [items |-> items, erased |-> erased] \in Docs
        BY <1>0 DEF Docs
      <3>3. QED
        BY <3>1, <3>2, SizesAreNumbers, DocsAreClosed, IntegratedFacts
    <2>2. Cut(Clients)
      BY <1>21 DEF Restart
    <2>3. /\ link' \in [Clients -> {"down", "open", "joined"}]
          /\ up' \in [Clients -> Seq(Messages)]
          /\ down' \in [Clients -> Seq(Messages)]
          /\ resync' \subseteq Clients
          /\ refused' \subseteq Clients
      BY <2>2, CutKeepsTypes
    <2>4. /\ recent' \in BOOLEAN /\ faults' \in Nat /\ doc' \in [Clients -> Docs]
          /\ oversized' \subseteq Clients /\ unsynced' \subseteq Clients
      <3>1. Fault("restart") /\ recent' = FALSE /\ UNCHANGED <<doc, oversized, unsynced>>
        BY <1>21, Zenon DEF Restart
      <3>2. faults' = faults + 1
        BY <3>1 DEF Fault
      <3>3. faults' \in Nat
        BY <3>2 DEF TypeOK
      <3>4. doc' \in [Clients -> Docs]
        BY <3>1 DEF TypeOK
      <3>5. oversized' \subseteq Clients /\ unsynced' \subseteq Clients
        BY <3>1 DEF TypeOK
      <3>6. recent' \in BOOLEAN
        BY <3>1
      <3>7. QED
        BY <3>3, <3>4, <3>5, <3>6
    <2>5. QED
      BY <2>1, <2>3, <2>4, Zenon DEF TypeOK
  <1>22. ASSUME UNCHANGED vars
         PROVE  TypeOK'
    BY <1>22 DEF vars, TypeOK
  <1>23. QED
    BY <1>2, <1>3, <1>4, <1>5, <1>6, <1>7, <1>8, <1>10, <1>11, <1>12, <1>13, <1>15,
       <1>16, <1>17, <1>18, <1>19, <1>20, <1>21, <1>22
       DEF Next, ServerTakes, BrowserHears

\* Every variable keeps its type: what is sent is a message of the protocol and
\* what is held is a document, whatever is dropped, refused, cut or restarted.
THEOREM TypeCorrect == Spec => []TypeOK
  BY InitTypes, NextTypes, PTL DEF Spec

-----------------------------------------------------------------------------
(* What the server serves is whole.                                        *)

\* Only an update that is applied, and a restart, change the server's document.
LEMMA HeldChanges ==
    ASSUME [Next]_vars
    PROVE  \/ held' = held
           \/ \E c \in Clients : ApplyUpdate(c)
           \/ Restart
  BY DEF Next, vars, Draw, Erase, MakeChange, Connect, BrowserHears, HearGreeting, HearStep,
         HearUpdate, JoinBoard, ServerTakes, MissEvent, AnswerStep, DropTooFast, RefuseLarge,
         RefuseFull, SendStep, Disconnect, Snapshot, SecondPasses

\* Every item in the server's document has its predecessors there, and every
\* deletion its item: so the document is by the way updates are applied to it.
ServesWhole == held = Integrated(held)

\* Applying an update leaves it so, and a restart.
LEMMA NextServesWhole ==
    TypeOK /\ ServesWhole /\ [Next]_vars => ServesWhole'
  <1> SUFFICES ASSUME TypeOK, ServesWhole, [Next]_vars
               PROVE  ServesWhole'
    OBVIOUS
  <1>0. Encoded \in Docs
    BY DocsAreClosed DEF Encoded, TypeOK
  <1>1. CASE held' = held
    BY <1>1 DEF ServesWhole, Integrated
  <1>2. ASSUME NEW c \in Clients, ApplyUpdate(c)
        PROVE  ServesWhole'
    <2>1. Arriving(c) \in Docs
      BY <1>2, MessageFacts, ChannelFacts DEF ApplyUpdate, Take, Arriving, TypeOK
    <2>2. held' = Applied(Encoded, Arriving(c))
      BY <1>2 DEF ApplyUpdate
    <2>3. QED
      BY <1>0, <2>1, <2>2, AppliedFacts DEF ServesWhole
  <1>3. CASE Restart
    <2>1. PICK items \in SUBSET Encoded.items, erased \in SUBSET Encoded.erased :
              held' = Integrated([items |-> items, erased |-> erased])
      BY <1>3 DEF Restart
    <2>2. [items |-> items, erased |-> erased] \in Docs
      BY <1>0 DEF Docs
    <2>3. QED
      BY <2>1, <2>2, IntegratedFacts DEF ServesWhole
  <1>4. QED
    BY <1>1, <1>2, <1>3, HeldChanges

\* So it is in every behaviour: a fact the proof about silent holes needs.
LEMMA ServerServesWholeDocuments == Spec => []ServesWhole
  <1>1. Init => ServesWhole
    <2>1. Whole({}) = {}
      BY DEF Whole
    <2>2. Integrated(Empty) = [items |-> Whole({}), erased |-> {} \cap Whole({})]
      BY DEF Integrated, Empty
    <2>3. QED
      BY <2>1, <2>2 DEF Init, ServesWhole, Empty
  <1>2. QED
    BY <1>1, TypeCorrect, NextServesWhole, PTL DEF Spec

-----------------------------------------------------------------------------
(* No silent hole.  What a browser and the server lack of each other is on *)
(* its way, or asked for, or will be: the invariant below says where.  It  *)
(* leans on a server that serves all it has, so on a restart having left   *)
(* no gap: what a replay leaves pending is discarded by the next update    *)
(* while a browser may already have been told that it is up to date.       *)

\* What a channel carries: messages, the documents in its updates, the vectors
\* in its steps, and whether a greeting is among them.
Sent(q)    == {q[k] : k \in 1..Len(q)}
Updates(q) == {m.content : m \in {x \in Sent(q) : x.kind = "update"}}
Vectors(q) == {m.vector : m \in {x \in Sent(q) : x.kind = "step"}}
Greeted(q) == \E m \in Sent(q) : m.kind = "joined"

Within(d, e) == d.items \subseteq e.items /\ d.erased \subseteq e.erased

\* What d has is in e, or on its way there.
Reaches(d, e, updates) ==
    /\ \A i \in d.items  : i \in e.items  \/ \E u \in updates : i \in u.items
    /\ \A i \in d.erased : i \in e.erased \/ \E u \in updates : i \in u.erased

\* Of a browser's document, its channels and the server's document: neither side
\* sends what it does not have, nor a vector of more than that.
Honest(d, u, w, h) ==
    /\ \A e \in Updates(u) : Within(e, d)
    /\ \A v \in Vectors(u) : v \subseteq d.items
    /\ \A e \in Updates(w) : Within(e, h)
    /\ \A v \in Vectors(w) : v \subseteq h.items

\* What the server has reaches the browser: it is on its way, or the browser has
\* yet to ask for it.
GetsAll(d, u, w, h) == Greeted(w) \/ Vectors(u) # {} \/ Reaches(h, d, Updates(w))

\* What the browser has reaches the server: it is on its way, or the server asks
\* for it, will ask, or has said that it has no room.
GivesAll(d, u, w, h, asked) == asked \/ Vectors(w) # {} \/ Reaches(d, h, Updates(u))

Due == resync \cup refused \cup oversized

Served(d, l, u, w, h, asked) ==
    /\ Honest(d, u, w, h)
    /\ l = "joined" => GetsAll(d, u, w, h) /\ GivesAll(d, u, w, h, asked)

SyncInv == \A c \in Clients : Served(doc[c], link[c], up[c], down[c], held, c \in Due)

\* A message put on a channel is sent, and one taken off was.
LEMMA SentFacts ==
    ASSUME NEW q \in Seq(Messages)
    PROVE  /\ \A m \in Messages : Sent(Append(q, m)) = Sent(q) \cup {m}
           /\ q # <<>> => Sent(q) = Sent(Tail(q)) \cup {Head(q)}
           /\ Sent(<<>>) = {}
  <1>1. ASSUME NEW m \in Messages
        PROVE  Sent(Append(q, m)) = Sent(q) \cup {m}
    <2>1. Len(Append(q, m)) = Len(q) + 1 /\ Len(q) \in Nat /\ Append(q, m)[Len(q) + 1] = m
      OBVIOUS
    <2>2. \A k \in 1..Len(q) : Append(q, m)[k] = q[k]
      OBVIOUS
    <2>3. 1..(Len(q) + 1) = (1..Len(q)) \cup {Len(q) + 1}
      BY <2>1
    <2>4. QED
      BY <2>1, <2>2, <2>3 DEF Sent
  <1>2. ASSUME q # <<>>
        PROVE  Sent(q) = Sent(Tail(q)) \cup {Head(q)}
    <2>1. Len(Tail(q)) = Len(q) - 1 /\ Len(q) \in Nat /\ Len(q) > 0 /\ Head(q) = q[1]
      BY <1>2
    <2>2. \A k \in 1..(Len(q) - 1) : Tail(q)[k] = q[k + 1]
      BY <1>2
    <2>3. ASSUME NEW k \in 1..Len(q)
          PROVE  q[k] \in Sent(Tail(q)) \cup {Head(q)}
      <3>1. CASE k = 1
        BY <2>1, <3>1
      <3>2. CASE k # 1
        <4>1. k - 1 \in 1..(Len(q) - 1) /\ (k - 1) + 1 = k
          BY <2>1, <3>2
        <4>2. QED
          BY <2>1, <2>2, <4>1 DEF Sent
      <3>3. QED
        BY <3>1, <3>2
    <2>4. ASSUME NEW k \in 1..Len(Tail(q))
          PROVE  Tail(q)[k] \in Sent(q)
      <3>1. k + 1 \in 1..Len(q)
        BY <2>1
      <3>2. QED
        BY <2>1, <2>2, <3>1 DEF Sent
    <2>5. Head(q) \in Sent(q)
      <3>1. 1 \in 1..Len(q)
        BY <2>1
      <3>2. QED
        BY <2>1, <3>1 DEF Sent
    <2>6. QED
      BY <2>3, <2>4, <2>5 DEF Sent
  <1>3. Sent(<<>>) = {}
    BY DEF Sent
  <1>4. QED
    BY <1>1, <1>2, <1>3

\* What a channel carries when an update or a step is put on it.
LEMMA PutFacts ==
    ASSUME NEW q \in Seq(Messages)
    PROVE  /\ \A e \in Docs :
                 /\ Updates(Append(q, Update(e))) = Updates(q) \cup {e}
                 /\ Vectors(Append(q, Update(e))) = Vectors(q)
                 /\ Greeted(Append(q, Update(e))) <=> Greeted(q)
           /\ \A v \in SUBSET Items :
                 /\ Updates(Append(q, Step(v))) = Updates(q)
                 /\ Vectors(Append(q, Step(v))) = Vectors(q) \cup {v}
                 /\ Greeted(Append(q, Step(v))) <=> Greeted(q)
  <1>1. ASSUME NEW e \in Docs
        PROVE  /\ Updates(Append(q, Update(e))) = Updates(q) \cup {e}
               /\ Vectors(Append(q, Update(e))) = Vectors(q)
               /\ Greeted(Append(q, Update(e))) <=> Greeted(q)
    <2>1. Sent(Append(q, Update(e))) = Sent(q) \cup {Update(e)}
      BY SentFacts, MessageFacts
    <2>2. Update(e).kind = "update" /\ Update(e).content = e
      BY DEF Update
    <2>3. QED
      BY <2>1, <2>2 DEF Updates, Vectors, Greeted
  <1>2. ASSUME NEW v \in SUBSET Items
        PROVE  /\ Updates(Append(q, Step(v))) = Updates(q)
               /\ Vectors(Append(q, Step(v))) = Vectors(q) \cup {v}
               /\ Greeted(Append(q, Step(v))) <=> Greeted(q)
    <2>1. Sent(Append(q, Step(v))) = Sent(q) \cup {Step(v)}
      BY SentFacts, MessageFacts
    <2>2. Step(v).kind = "step" /\ Step(v).vector = v
      BY DEF Step
    <2>3. QED
      BY <2>1, <2>2 DEF Updates, Vectors, Greeted
  <1>3. QED
    BY <1>1, <1>2

\* What it carries when its first message is taken off, and when it is empty.
LEMMA TakeFacts ==
    ASSUME NEW q \in Seq(Messages)
    PROVE  /\ q # <<>> /\ Head(q).kind = "update" =>
                 /\ Updates(q) = Updates(Tail(q)) \cup {Head(q).content}
                 /\ Vectors(Tail(q)) = Vectors(q)
                 /\ Greeted(Tail(q)) <=> Greeted(q)
           /\ q # <<>> /\ Head(q).kind = "step" =>
                 /\ Updates(Tail(q)) = Updates(q)
                 /\ Vectors(q) = Vectors(Tail(q)) \cup {Head(q).vector}
                 /\ Greeted(Tail(q)) <=> Greeted(q)
           /\ q # <<>> /\ Head(q).kind = "joined" =>
                 /\ Updates(Tail(q)) = Updates(q)
                 /\ Vectors(Tail(q)) = Vectors(q)
           /\ Updates(<<>>) = {} /\ Vectors(<<>>) = {} /\ ~Greeted(<<>>)
  <1>1. q # <<>> => Sent(q) = Sent(Tail(q)) \cup {Head(q)}
    BY SentFacts
  <1>2. Sent(<<>>) = {}
    BY SentFacts
  <1>3. QED
    BY <1>1, <1>2 DEF Updates, Vectors, Greeted

\* Applying an update takes nothing from a document that is whole, and leaves
\* nothing out when nothing leant on what was missing.
LEMMA AppliedGrows ==
    ASSUME NEW d \in Docs, NEW u \in Docs, d = Integrated(d)
    PROVE  /\ Within(d, Applied(d, u))
           /\ ~Behind(d, u) => Applied(d, u) = Union(d, u)
           /\ Within(Applied(d, u), Union(d, u))
           /\ Minus(Applied(d, u), d) \in Docs
  <1> DEFINE e == Union(d, u)
  <1>1. e \in Docs /\ d.items \subseteq e.items /\ d.erased \subseteq e.erased
    BY DocsAreClosed DEF Union
  <1>2. /\ Applied(d, u).items = Whole(e.items)
        /\ Applied(d, u).erased = e.erased \cap Whole(e.items)
    BY DEF Applied, Integrated
  <1>3. d.items = Whole(d.items) /\ d.erased \subseteq d.items
    BY DEF Integrated
  <1>4. Whole(d.items) \subseteq Whole(e.items)
    BY <1>1 DEF Whole
  <1>5. Within(d, Applied(d, u))
    BY <1>1, <1>2, <1>3, <1>4 DEF Within
  <1>6. Whole(e.items) \subseteq e.items
    BY DEF Whole
  <1>7. Within(Applied(d, u), Union(d, u))
    BY <1>2, <1>6 DEF Within
  <1>8. Minus(Applied(d, u), d) \in Docs
    BY AppliedFacts, DocsAreClosed
  <1>9. QED
    BY <1>5, <1>7, <1>8 DEF Behind

\* Two documents that have what the other has are the same.
LEMMA SameDocs ==
    ASSUME NEW d \in Docs, NEW e \in Docs, Within(d, e), Within(e, d)
    PROVE  d = e
  BY DEF Docs, Within

-----------------------------------------------------------------------------
(* The parts of the invariant, as a browser's document and its channels    *)
(* change.                                                                 *)

\* A document that grows, the browser's own way or by an update from the server.
LEMMA GrowingKeepsHonest ==
    ASSUME NEW d \in Docs, NEW e \in Docs, NEW h \in Docs, NEW g \in Docs,
           NEW u \in Seq(Messages), NEW w \in Seq(Messages),
           Within(d, e), Within(h, g), Honest(d, u, w, h)
    PROVE  Honest(e, u, w, g)
  BY DEF Honest, Within

\* What is sent on: an update out of what its sender has, a vector of it.
LEMMA SendingKeepsHonest ==
    ASSUME NEW d \in Docs, NEW h \in Docs,
           NEW u \in Seq(Messages), NEW w \in Seq(Messages), Honest(d, u, w, h)
    PROVE  /\ \A x \in Docs : Within(x, d) => Honest(d, Append(u, Update(x)), w, h)
           /\ \A v \in SUBSET Items : v \subseteq d.items => Honest(d, Append(u, Step(v)), w, h)
           /\ \A x \in Docs : Within(x, h) => Honest(d, u, Append(w, Update(x)), h)
           /\ \A v \in SUBSET Items : v \subseteq h.items => Honest(d, u, Append(w, Step(v)), h)
  <1>1. \A x \in Docs : Within(x, d) => Honest(d, Append(u, Update(x)), w, h)
    BY PutFacts DEF Honest
  <1>2. \A v \in SUBSET Items : v \subseteq d.items => Honest(d, Append(u, Step(v)), w, h)
    BY PutFacts DEF Honest
  <1>3. \A x \in Docs : Within(x, h) => Honest(d, u, Append(w, Update(x)), h)
    BY PutFacts DEF Honest
  <1>4. \A v \in SUBSET Items : v \subseteq h.items => Honest(d, u, Append(w, Step(v)), h)
    BY PutFacts DEF Honest
  <1>5. QED
    BY <1>1, <1>2, <1>3, <1>4

\* What is taken leaves honest what remains.
LEMMA TakingKeepsHonest ==
    ASSUME NEW d \in Docs, NEW h \in Docs,
           NEW u \in Seq(Messages), NEW w \in Seq(Messages), Honest(d, u, w, h)
    PROVE  /\ u # <<>> => Honest(d, Tail(u), w, h)
           /\ w # <<>> => Honest(d, u, Tail(w), h)
           /\ u # <<>> /\ Head(u).kind = "update" => Within(Head(u).content, d)
           /\ w # <<>> /\ Head(w).kind = "update" => Within(Head(w).content, h)
           /\ u # <<>> /\ Head(u).kind = "step" => Head(u).vector \subseteq d.items
           /\ w # <<>> /\ Head(w).kind = "step" => Head(w).vector \subseteq h.items
  <1>1. ASSUME NEW q \in Seq(Messages), q # <<>>
        PROVE  /\ Updates(Tail(q)) \subseteq Updates(q)
               /\ Vectors(Tail(q)) \subseteq Vectors(q)
               /\ Head(q).kind = "update" => Head(q).content \in Updates(q)
               /\ Head(q).kind = "step" => Head(q).vector \in Vectors(q)
    <2>1. Sent(q) = Sent(Tail(q)) \cup {Head(q)}
      BY <1>1, SentFacts
    <2>2. QED
      BY <2>1 DEF Updates, Vectors
  <1>2. QED
    BY <1>1 DEF Honest

\* A connection cut, or not yet made, owes nothing.
LEMMA NothingIsHonest ==
    ASSUME NEW d \in Docs, NEW h \in Docs
    PROVE  Honest(d, <<>>, <<>>, h)
  BY TakeFacts, <<>> \in Seq(Messages) DEF Honest

-----------------------------------------------------------------------------
(* The invariant, step by step.                                            *)

\* A step of one browser: nothing of another's, nor of the server's document, moves.
Alone(c) ==
    /\ held' = held
    /\ \A b \in Clients \ {c} :
          /\ doc'[b] = doc[b] /\ link'[b] = link[b]
          /\ up'[b] = up[b] /\ down'[b] = down[b]
          /\ (b \in Due)' <=> (b \in Due)

LEMMA ServingOne ==
    ASSUME SyncInv, NEW c \in Clients, Alone(c),
           Served(doc'[c], link'[c], up'[c], down'[c], held', (c \in Due)')
    PROVE  SyncInv'
  <1>1. ASSUME NEW b \in Clients
        PROVE  Served(doc'[b], link'[b], up'[b], down'[b], held', (b \in Due)')
    <2>1. CASE b = c
      BY <2>1
    <2>2. CASE b # c
      <3>1. Served(doc[b], link[b], up[b], down[b], held, b \in Due)
        BY DEF SyncInv
      <3>2. /\ held' = held /\ doc'[b] = doc[b] /\ link'[b] = link[b]
            /\ up'[b] = up[b] /\ down'[b] = down[b]
            /\ (b \in Due)' <=> (b \in Due)
        BY <2>2 DEF Alone
      <3>3. QED
        BY <3>1, <3>2 DEF Served, GivesAll
    <2>3. QED
      BY <2>1, <2>2
  <1>2. QED
    BY <1>1 DEF SyncInv

LEMMA ChangesAreServed ==
    ASSUME TypeOK, SyncInv, NEW c \in Clients, NEW change \in Docs, MakeChange(c, change)
    PROVE  SyncInv'
  <1> DEFINE d == doc[c]
             e == Union(doc[c], change)
  <1>1. /\ d \in Docs /\ held \in Docs /\ up[c] \in Seq(Messages) /\ down[c] \in Seq(Messages)
        /\ e \in Docs
    BY DocsAreClosed DEF TypeOK
  <1>2. Within(d, e) /\ Within(change, e)
    BY DEF Within, Union
  <1>3. Served(d, link[c], up[c], down[c], held, c \in Due)
    BY DEF SyncInv
  <1>4. Honest(e, up[c], down[c], held)
    <2>1. Within(held, held)
      BY DEF Within
    <2>2. Honest(d, up[c], down[c], held)
      BY <1>3 DEF Served
    <2>3. QED
      BY <1>1, <1>2, <2>1, <2>2, GrowingKeepsHonest
  <1>5. doc'[c] = e /\ link'[c] = link[c] /\ down'[c] = down[c] /\ held' = held /\ ((c \in Due)' <=> (c \in Due))
    BY DEF MakeChange, TypeOK, Due
  <1>6. Alone(c)
    BY DEF Alone, MakeChange, TypeOK, Due
  <1>7. CASE Connected(c) /\ up' = [up EXCEPT ![c] = Append(@, Update(change))]
    <2>1. up'[c] = Append(up[c], Update(change))
      BY <1>7 DEF TypeOK
    <2>2. Honest(e, up'[c], down[c], held)
      BY <1>1, <1>2, <1>4, <2>1, SendingKeepsHonest
    <2>3. /\ Updates(up'[c]) = Updates(up[c]) \cup {change}
          /\ Vectors(up'[c]) = Vectors(up[c])
      BY <1>1, <2>1, PutFacts
    <2>4. GetsAll(d, up[c], down[c], held) => GetsAll(e, up'[c], down[c], held)
      BY <1>2, <2>3 DEF GetsAll, Reaches, Within
    <2>5. GivesAll(d, up[c], down[c], held, c \in Due) => GivesAll(e, up'[c], down[c], held, c \in Due)
      BY <2>3 DEF GivesAll, Reaches, Union
    <2>6. Served(e, link[c], up'[c], down[c], held, c \in Due)
      BY <1>3, <2>2, <2>4, <2>5 DEF Served
    <2>7. Served(doc'[c], link'[c], up'[c], down'[c], held', (c \in Due)')
      BY <2>6, <1>5 DEF Served, GivesAll
    <2>8. QED
      BY <1>6, <2>7, ServingOne
  <1>8. CASE ~Connected(c) /\ up' = up
    <2>1. Served(doc'[c], link'[c], up'[c], down'[c], held', (c \in Due)')
      BY <1>4, <1>5, <1>8 DEF Served, Connected
    <2>2. QED
      BY <1>6, <2>1, ServingOne
  <1>9. QED
    BY <1>7, <1>8 DEF MakeChange

LEMMA HearingIsServed ==
    ASSUME TypeOK, SyncInv, NEW c \in Clients, BrowserHears(c)
    PROVE  SyncInv'
  <1> DEFINE d == doc[c]
             u == up[c]
             w == down[c]
  <1>1. d \in Docs /\ held \in Docs /\ u \in Seq(Messages) /\ w \in Seq(Messages)
    BY DEF TypeOK
  <1>2. Served(d, link[c], u, w, held, c \in Due)
    BY DEF SyncInv
  <1>3. Honest(d, u, w, held)
    BY <1>2 DEF Served
  <1>4. w # <<>> /\ down'[c] = Tail(w) /\ Tail(w) \in Seq(Messages) /\ Head(w) \in Messages
    <2>1. w # <<>> /\ down' = [down EXCEPT ![c] = Tail(@)]
      BY DEF BrowserHears, HearGreeting, HearStep, HearUpdate, Receive
    <2>2. QED
      BY <2>1, <1>1, ChannelFacts DEF TypeOK
  <1>5. /\ link'[c] = link[c] /\ held' = held /\ ((c \in Due)' <=> (c \in Due))
        /\ Alone(c)
    BY DEF BrowserHears, HearGreeting, HearStep, HearUpdate, Receive, Alone, TypeOK, Due
  <1>6. Honest(d, u, Tail(w), held)
    BY <1>1, <1>3, <1>4, TakingKeepsHonest
  <1>7. SUFFICES /\ Honest(doc'[c], up'[c], Tail(w), held)
                 /\ GetsAll(d, u, w, held) => GetsAll(doc'[c], up'[c], Tail(w), held)
                 /\ GivesAll(d, u, w, held, c \in Due)
                        => GivesAll(doc'[c], up'[c], Tail(w), held, c \in Due)
    <2>1. Served(doc'[c], link'[c], up'[c], down'[c], held', (c \in Due)')
      BY <1>2, <1>4, <1>5, <1>7 DEF Served, GivesAll
    <2>2. QED
      BY <1>5, <2>1, ServingOne
  <1>8. CASE HearGreeting(c)
    <2> DEFINE v == Whole(d.items)
    <2>1. /\ Head(w).kind = "joined" /\ doc'[c] = d
          /\ up'[c] = Append(u, Step(v))
      BY <1>8 DEF HearGreeting, Receive, TypeOK
    <2>2. v \in SUBSET Items /\ v \subseteq d.items
      BY <1>1, WholeFacts DEF Docs
    <2>3. Honest(d, up'[c], Tail(w), held)
      BY <1>1, <1>4, <1>6, <2>1, <2>2, SendingKeepsHonest
    <2>4. /\ Vectors(up'[c]) = Vectors(u) \cup {v} /\ Updates(up'[c]) = Updates(u)
          /\ Vectors(Tail(w)) = Vectors(w)
      BY <1>1, <1>4, <2>1, <2>2, PutFacts, TakeFacts
    <2>5. QED
      BY <2>1, <2>3, <2>4 DEF GetsAll, GivesAll
  <1>9. CASE HearStep(c)
    <2> DEFINE v == Head(w).vector
               x == Since(d, v)
    <2>1. /\ Head(w).kind = "step" /\ doc'[c] = d
          /\ up'[c] = Append(u, Update(x))
      BY <1>9 DEF HearStep, Receive, TypeOK
    <2>2. x \in Docs /\ Within(x, d)
      BY <1>1, DocsAreClosed DEF Since, Within
    <2>3. v \subseteq held.items
      BY <1>1, <1>3, <1>4, <2>1, TakingKeepsHonest
    <2>4. Honest(d, up'[c], Tail(w), held)
      BY <1>1, <1>4, <1>6, <2>1, <2>2, SendingKeepsHonest
    <2>5. /\ Vectors(up'[c]) = Vectors(u) /\ Updates(up'[c]) = Updates(u) \cup {x}
          /\ Updates(Tail(w)) = Updates(w) /\ (Greeted(Tail(w)) <=> Greeted(w))
      BY <1>1, <1>4, <2>1, <2>2, PutFacts, TakeFacts
    <2>6. GetsAll(d, u, w, held) => GetsAll(d, up'[c], Tail(w), held)
      BY <2>5 DEF GetsAll
    <2>7. Reaches(d, held, Updates(up'[c]))
      BY <2>3, <2>5 DEF Reaches, Since
    <2>8. QED
      BY <2>1, <2>4, <2>6, <2>7 DEF GivesAll
  <1>10. CASE HearUpdate(c)
    <2> DEFINE x == Head(w).content
               e == Union(d, x)
    <2>1. Head(w).kind = "update" /\ doc'[c] = e /\ up'[c] = u
      BY <1>10 DEF HearUpdate, Receive, TypeOK
    <2>2. x \in Docs /\ e \in Docs /\ Within(d, e) /\ Within(held, held)
      BY <1>1, <1>4, <2>1, MessageFacts, DocsAreClosed DEF Within, Union
    <2>3. Within(x, held)
      BY <1>1, <1>3, <1>4, <2>1, TakingKeepsHonest
    <2>4. Honest(e, u, Tail(w), held)
      BY <1>1, <1>4, <1>6, <2>2, GrowingKeepsHonest
    <2>5. /\ Updates(w) = Updates(Tail(w)) \cup {x}
          /\ Vectors(Tail(w)) = Vectors(w) /\ (Greeted(Tail(w)) <=> Greeted(w))
      BY <1>1, <1>4, <2>1, TakeFacts
    <2>6. GetsAll(d, u, w, held) => GetsAll(e, u, Tail(w), held)
      BY <2>5 DEF GetsAll, Reaches, Union
    <2>7. GivesAll(d, u, w, held, c \in Due) => GivesAll(e, u, Tail(w), held, c \in Due)
      BY <2>3, <2>5 DEF GivesAll, Reaches, Union, Within
    <2>8. QED
      BY <2>1, <2>4, <2>6, <2>7
  <1>11. QED
    BY <1>8, <1>9, <1>10 DEF BrowserHears

\* Connecting, and being let onto the board: the greeting asks for everything.
LEMMA JoiningIsServed ==
    ASSUME TypeOK, SyncInv, NEW c \in Clients, Connect(c) \/ JoinBoard(c)
    PROVE  SyncInv'
  <1> DEFINE d == doc[c]
             u == up[c]
             w == down[c]
  <1>1. /\ d \in Docs /\ held \in Docs /\ u \in Seq(Messages) /\ w \in Seq(Messages)
        /\ held.items \in SUBSET Items
    BY DEF TypeOK, Docs
  <1>2. Served(d, link[c], u, w, held, c \in Due)
    BY DEF SyncInv
  <1>3. /\ doc'[c] = d /\ up'[c] = u /\ held' = held /\ ((c \in Due)' <=> (c \in Due))
        /\ Alone(c)
    BY DEF Connect, JoinBoard, Alone, TypeOK, Due
  <1>4. CASE Connect(c)
    <2>1. down'[c] = w /\ link'[c] = "open"
      BY <1>4 DEF Connect, TypeOK
    <2>2. Served(doc'[c], link'[c], up'[c], down'[c], held', (c \in Due)')
      BY <1>2, <1>3, <2>1 DEF Served
    <2>3. QED
      BY <1>3, <2>2, ServingOne
  <1>5. CASE JoinBoard(c)
    <2> DEFINE m == Append(w, Greeting)
               q == Append(m, Step(held.items))
    <2>1. down'[c] = q
      <3>1. w \o <<Greeting, Step(held.items)>> = q
        BY <1>1, MessageFacts
      <3>2. QED
        BY <1>5, <3>1 DEF JoinBoard, TypeOK
    <2>2. m \in Seq(Messages)
      BY <1>1, MessageFacts
    <2>3. Sent(m) = Sent(w) \cup {Greeting}
      BY <1>1, SentFacts, MessageFacts
    <2>4. Updates(m) = Updates(w) /\ Vectors(m) = Vectors(w) /\ Greeted(m)
      BY <2>3 DEF Updates, Vectors, Greeted, Greeting
    <2>5. Honest(d, u, m, held)
      BY <1>2, <2>4 DEF Served, Honest
    <2> HIDE DEF m
    <2>6. Honest(d, u, q, held)
      BY <1>1, <2>2, <2>5, SendingKeepsHonest
    <2>7. Greeted(q) /\ Vectors(q) # {}
      <3>1. Vectors(q) = Vectors(m) \cup {held.items} /\ (Greeted(q) <=> Greeted(m))
        BY <1>1, <2>2, PutFacts
      <3>2. QED
        BY <2>4, <3>1
    <2>8. Served(doc'[c], link'[c], up'[c], down'[c], held', (c \in Due)')
      BY <1>3, <2>1, <2>6, <2>7 DEF Served, GetsAll, GivesAll
    <2>9. QED
      BY <1>3, <2>8, ServingOne
  <1>6. QED
    BY <1>4, <1>5

\* What the server takes and does not apply, and the timer that asks again.
LEMMA TakingIsServed ==
    ASSUME TypeOK, SyncInv, pending = Empty, NEW c \in Clients,
           MissEvent(c) \/ AnswerStep(c) \/ DropTooFast(c) \/ RefuseLarge(c) \/ RefuseFull(c)
    PROVE  SyncInv'
  <1> DEFINE d == doc[c]
             u == up[c]
             w == down[c]
  <1>1. d \in Docs /\ held \in Docs /\ u \in Seq(Messages) /\ w \in Seq(Messages)
    BY DEF TypeOK
  <1>2. Served(d, link[c], u, w, held, c \in Due)
    BY DEF SyncInv
  <1>3. Honest(d, u, w, held)
    BY <1>2 DEF Served
  <1>4. u # <<>> /\ up'[c] = Tail(u) /\ Tail(u) \in Seq(Messages) /\ Head(u) \in Messages
    <2>1. u # <<>> /\ up' = [up EXCEPT ![c] = Tail(@)]
      BY DEF MissEvent, AnswerStep, DropTooFast, RefuseLarge, RefuseFull, Take
    <2>2. QED
      BY <2>1, <1>1, ChannelFacts DEF TypeOK
  <1>5. doc'[c] = d /\ link'[c] = link[c] /\ held' = held /\ Alone(c)
    BY DEF MissEvent, AnswerStep, DropTooFast, RefuseLarge, RefuseFull, Take, Alone, TypeOK, Due
  <1>6. Honest(d, Tail(u), w, held)
    BY <1>1, <1>3, <1>4, TakingKeepsHonest
  <1>7. CASE MissEvent(c)
    <2>1. link[c] = "open" /\ down'[c] = w
      BY <1>7 DEF MissEvent
    <2>2. Served(doc'[c], link'[c], up'[c], down'[c], held', (c \in Due)')
      BY <1>4, <1>5, <1>6, <2>1 DEF Served
    <2>3. QED
      BY <1>5, <2>2, ServingOne
  <1>8. CASE AnswerStep(c)
    <2> DEFINE v == Head(u).vector
               x == Since(held, v)
    <2>1. Encoded = held
      BY <1>1 DEF Encoded, Union, Empty, Docs
    <2>2. /\ Head(u).kind = "step" /\ down'[c] = Append(w, Update(x))
          /\ ((c \in Due)' <=> (c \in Due))
      BY <1>8, <2>1 DEF AnswerStep, Take, TypeOK, Due
    <2>3. x \in Docs /\ Within(x, held)
      BY <1>1, DocsAreClosed DEF Since, Within
    <2>4. v \subseteq d.items
      BY <1>1, <1>3, <1>4, <2>2, TakingKeepsHonest
    <2>5. Honest(d, Tail(u), down'[c], held)
      BY <1>1, <1>4, <1>6, <2>2, <2>3, SendingKeepsHonest
    <2>6. /\ Vectors(down'[c]) = Vectors(w) /\ Updates(down'[c]) = Updates(w) \cup {x}
          /\ Updates(Tail(u)) = Updates(u)
      BY <1>1, <1>4, <2>2, <2>3, PutFacts, TakeFacts
    <2>7. GetsAll(d, Tail(u), down'[c], held)
      BY ZenonT(60), <2>4, <2>6 DEF GetsAll, Reaches, Since
    <2>8. GivesAll(d, u, w, held, c \in Due) => GivesAll(d, Tail(u), down'[c], held, c \in Due)
      BY <2>6 DEF GivesAll
    <2>9. Served(doc'[c], link'[c], up'[c], down'[c], held', (c \in Due)')
      BY <1>2, <1>4, <1>5, <2>2, <2>5, <2>7, <2>8 DEF Served, GivesAll
    <2>10. QED
      BY <1>5, <2>9, ServingOne
  <1>9. CASE DropTooFast(c) \/ RefuseLarge(c) \/ RefuseFull(c)
    <2>1. Head(u).kind = "update" /\ down'[c] = w /\ (c \in Due)'
      BY <1>9 DEF DropTooFast, RefuseLarge, RefuseFull, Take, Due
    <2>2. Vectors(Tail(u)) = Vectors(u)
      BY <1>1, <1>4, <2>1, TakeFacts
    <2>3. Served(doc'[c], link'[c], up'[c], down'[c], held', (c \in Due)')
      BY <1>2, <1>4, <1>5, <1>6, <2>1, <2>2 DEF Served, GetsAll, GivesAll
    <2>4. QED
      BY <1>5, <2>3, ServingOne
  <1>10. QED
    BY <1>7, <1>8, <1>9

LEMMA AskingIsServed ==
    ASSUME TypeOK, SyncInv, NEW c \in Clients, SendStep(c)
    PROVE  SyncInv'
  <1> DEFINE d == doc[c]
             u == up[c]
             w == down[c]
  <1>1. /\ d \in Docs /\ held \in Docs /\ u \in Seq(Messages) /\ w \in Seq(Messages)
        /\ held.items \in SUBSET Items
    BY DEF TypeOK, Docs
  <1>2. Served(d, link[c], u, w, held, c \in Due)
    BY DEF SyncInv
  <1>3. /\ doc'[c] = d /\ up'[c] = u /\ link'[c] = link[c] /\ held' = held
        /\ down'[c] = Append(w, Step(held.items)) /\ Alone(c)
    BY DEF SendStep, Alone, TypeOK, Due
  <1>4. Honest(d, u, down'[c], held)
    BY <1>1, <1>2, <1>3, SendingKeepsHonest DEF Served
  <1>5. /\ Vectors(down'[c]) # {} /\ Updates(down'[c]) = Updates(w)
        /\ (Greeted(down'[c]) <=> Greeted(w))
    <2>1. /\ Vectors(down'[c]) = Vectors(w) \cup {held.items}
          /\ Updates(down'[c]) = Updates(w)
          /\ Greeted(down'[c]) <=> Greeted(w)
      BY <1>1, <1>3, PutFacts
    <2>2. QED
      BY <2>1
  <1>6. Served(doc'[c], link'[c], up'[c], down'[c], held', (c \in Due)')
    BY <1>2, <1>3, <1>4, <1>5 DEF Served, GetsAll, GivesAll
  <1>7. QED
    BY <1>3, <1>6, ServingOne

\* An update applied: its sender's is in the document or asked for again, and what
\* changed is on its way to everybody else.
LEMMA ApplyingIsServed ==
    ASSUME TypeOK, ServesWhole, SyncInv, pending = Empty, NEW c \in Clients, ApplyUpdate(c)
    PROVE  SyncInv'
  <1> DEFINE x == Arriving(c)
             g == Applied(held, x)
             change == Minus(g, held)
  <1>1. /\ up[c] # <<>> /\ up' = [up EXCEPT ![c] = Tail(@)]
        /\ Head(up[c]).kind = "update" /\ link[c] = "joined"
        /\ doc' = doc /\ link' = link /\ oversized' = oversized
    BY DEF ApplyUpdate, Take
  <1>2. x \in Docs /\ held \in Docs
    BY <1>1, MessageFacts, ChannelFacts DEF Arriving, TypeOK
  <1>3. Encoded = held
    BY <1>2 DEF Encoded, Union, Empty, Docs
  <1>4. /\ held' = g
        /\ down' = [b \in Clients |->
               IF b # c /\ link[b] = "joined" /\ change # Empty
               THEN Append(down[b], Update(change)) ELSE down[b]]
        /\ resync' = IF Chased(c, x) THEN resync \cup {c} ELSE resync
        /\ refused' = refused \ {c}
    BY <1>3 DEF ApplyUpdate
  <1>5. held = Integrated(held)
    BY DEF ServesWhole
  <1>6. /\ g \in Docs /\ Within(held, g) /\ Within(g, Union(held, x)) /\ change \in Docs
        /\ ~Behind(held, x) => g = Union(held, x)
    BY <1>2, <1>5, AppliedGrows, AppliedFacts
  <1>7. Within(change, g)
    BY DEF Within, Minus
  <1>8. x = Head(up[c]).content
    BY DEF Arriving
  <1> HIDE DEF x, g
  <1>9. ASSUME NEW b \in Clients
        PROVE  Served(doc'[b], link'[b], up'[b], down'[b], held', (b \in Due)')
    <2> DEFINE d == doc[b]
               u == up[b]
               w == down[b]
    <2>1. d \in Docs /\ u \in Seq(Messages) /\ w \in Seq(Messages)
      BY DEF TypeOK
    <2>2. Served(d, link[b], u, w, held, b \in Due)
      BY DEF SyncInv
    <2>3. Within(d, d)
      BY DEF Within
    <2>4. Honest(d, u, w, g)
      BY <1>2, <1>6, <2>1, <2>2, <2>3, GrowingKeepsHonest DEF Served
    <2>5. CASE b = c
      <3>1. up'[c] = Tail(u) /\ down'[c] = w
        BY <1>1, <1>4, <2>5 DEF TypeOK
      <3>2. u # <<>> /\ Head(u).kind = "update" /\ Tail(u) \in Seq(Messages)
        BY <1>1, <2>1, <2>5
      <3>3. Honest(d, Tail(u), w, g)
        BY <1>6, <2>1, <2>4, <3>2, TakingKeepsHonest
      <3>4. /\ Updates(u) = Updates(Tail(u)) \cup {x}
            /\ Vectors(Tail(u)) = Vectors(u)
        BY <1>8, <2>1, <2>5, <3>2, TakeFacts
      <3>5. Within(x, d)
        BY <1>2, <1>8, <2>1, <2>2, <2>5, <3>2, TakingKeepsHonest DEF Served
      <3>6. GetsAll(d, u, w, held) => GetsAll(d, Tail(u), w, g)
        BY <1>6, <3>4, <3>5 DEF GetsAll, Reaches, Within, Union
      <3>7. CASE (c \in Due)'
        BY <1>1, <1>4, <2>2, <2>5, <3>1, <3>3, <3>6, <3>7 DEF Served, GivesAll
      <3>8. CASE ~(c \in Due)'
        <4>1. c \notin Due /\ ~Behind(held, x)
          BY <1>1, <1>3, <1>4, <3>8 DEF Due, Chased
        <4>2. g = Union(held, x)
          BY <1>6, <4>1
        <4>3. GivesAll(d, u, w, held, c \in Due) => GivesAll(d, Tail(u), w, g, FALSE)
          BY <3>4, <4>1, <4>2 DEF GivesAll, Reaches, Union
        <4>4. QED
          BY <1>1, <1>4, <2>2, <2>5, <3>1, <3>3, <3>6, <3>8, <4>3 DEF Served, GivesAll
      <3>9. QED
        BY <3>7, <3>8
    <2>6. CASE b # c
      <3>1. up'[b] = u /\ ((b \in Due)' <=> (b \in Due)) /\ doc'[b] = d /\ link'[b] = link[b]
        BY <1>1, <1>4, <2>6 DEF Due, TypeOK
      <3>2. CASE link[b] = "joined" /\ change # Empty
        <4>1. down'[b] = Append(w, Update(change))
          BY <1>4, <2>6, <3>2
        <4>2. Honest(d, u, down'[b], g)
          BY <1>6, <1>7, <2>1, <2>4, <4>1, SendingKeepsHonest
        <4>3. /\ Updates(down'[b]) = Updates(w) \cup {change}
              /\ Vectors(down'[b]) = Vectors(w)
              /\ Greeted(down'[b]) <=> Greeted(w)
          BY <1>6, <2>1, <4>1, PutFacts
        <4>4. GetsAll(d, u, w, held) => GetsAll(d, u, down'[b], g)
          BY <4>3 DEF GetsAll, Reaches, Minus
        <4>5. GivesAll(d, u, w, held, b \in Due) => GivesAll(d, u, down'[b], g, b \in Due)
          BY <1>6, <4>3 DEF GivesAll, Reaches, Within
        <4>6. QED
          BY <1>4, <2>2, <3>1, <4>2, <4>4, <4>5 DEF Served, GivesAll
      <3>3. CASE link[b] # "joined"
        <4>1. down'[b] = w
          BY <1>4, <3>3
        <4>2. QED
          BY <1>4, <2>4, <3>1, <3>3, <4>1 DEF Served
      <3>4. CASE link[b] = "joined" /\ change = Empty
        <4>1. down'[b] = w
          BY <1>4, <3>4
        <4>2. Within(g, held)
          BY <3>4 DEF Minus, Empty, Within
        <4>3. g = held
          BY <1>2, <1>6, <4>2, SameDocs
        <4>4. QED
          BY <1>4, <2>2, <3>1, <4>1, <4>3 DEF Served, GivesAll
      <3>5. QED
        BY <3>2, <3>3, <3>4
    <2>7. QED
      BY <2>5, <2>6
  <1>10. QED
    BY <1>9 DEF SyncInv

\* A connection cut takes with it all that was on its way, and all that is owed.
LEMMA CuttingIsServed ==
    ASSUME TypeOK, TypeOK', SyncInv, NEW gone \in SUBSET Clients, Cut(gone), doc' = doc,
           oversized' = oversized, held' = held \/ gone = Clients
    PROVE  SyncInv'
  <1>1. ASSUME NEW b \in Clients
        PROVE  Served(doc'[b], link'[b], up'[b], down'[b], held', (b \in Due)')
    <2>1. CASE b \in gone
      <3>1. link'[b] = "down" /\ up'[b] = <<>> /\ down'[b] = <<>>
        BY <2>1 DEF Cut
      <3>2. doc'[b] \in Docs /\ held' \in Docs
        BY DEF TypeOK
      <3>3. QED
        BY <3>1, <3>2, NothingIsHonest DEF Served
    <2>2. CASE b \notin gone
      <3>1. Served(doc[b], link[b], up[b], down[b], held, b \in Due)
        BY DEF SyncInv
      <3>2. /\ doc'[b] = doc[b] /\ link'[b] = link[b] /\ up'[b] = up[b] /\ down'[b] = down[b]
            /\ held' = held /\ ((b \in Due)' <=> (b \in Due))
        BY <2>2 DEF Cut, Due
      <3>3. QED
        BY <3>1, <3>2 DEF Served, GivesAll
    <2>3. QED
      BY <2>1, <2>2
  <1>2. QED
    BY <1>1 DEF SyncInv

LEMMA NextServes ==
    TypeOK /\ TypeOK' /\ ServesWhole /\ SyncInv /\ pending = Empty /\ [Next]_vars => SyncInv'
  <1> SUFFICES ASSUME TypeOK, TypeOK', ServesWhole, SyncInv, pending = Empty, [Next]_vars
               PROVE  SyncInv'
    OBVIOUS
  <1>1. ASSUME NEW c \in Clients, NEW n \in 1..MaxItems, Draw(c, n)
        PROVE  SyncInv'
    <2>1. [items |-> {<<c, n>>}, erased |-> {}] \in Docs
      BY DEF Docs, Items
    <2>2. QED
      BY <1>1, <2>1, ChangesAreServed DEF Draw
  <1>2. ASSUME NEW c \in Clients, NEW i \in Items, Erase(c, i)
        PROVE  SyncInv'
    <2>1. [items |-> {}, erased |-> {i}] \in Docs
      BY DEF Docs
    <2>2. QED
      BY <1>2, <2>1, ChangesAreServed DEF Erase
  <1>3. ASSUME NEW c \in Clients, Connect(c) \/ JoinBoard(c)
        PROVE  SyncInv'
    BY <1>3, JoiningIsServed
  <1>4. ASSUME NEW c \in Clients, BrowserHears(c)
        PROVE  SyncInv'
    BY <1>4, HearingIsServed
  <1>5. ASSUME NEW c \in Clients, ServerTakes(c)
        PROVE  SyncInv'
    BY <1>5, TakingIsServed, ApplyingIsServed DEF ServerTakes
  <1>6. ASSUME NEW c \in Clients, SendStep(c)
        PROVE  SyncInv'
    BY <1>6, AskingIsServed
  <1>7. ASSUME NEW c \in Clients, Disconnect(c)
        PROVE  SyncInv'
    <2>1. Cut({c}) /\ doc' = doc /\ oversized' = oversized /\ held' = held
      BY <1>7 DEF Disconnect
    <2>2. QED
      BY <2>1, CuttingIsServed
  <1>8. CASE Restart
    <2>1. Cut(Clients) /\ doc' = doc /\ oversized' = oversized
      BY <1>8 DEF Restart
    <2>2. QED
      BY <2>1, CuttingIsServed
  <1>9. CASE Snapshot \/ SecondPasses \/ UNCHANGED vars
    <2>1. /\ doc' = doc /\ link' = link /\ up' = up /\ down' = down /\ held' = held
          /\ resync' = resync /\ refused' = refused /\ oversized' = oversized
      BY <1>9 DEF Snapshot, SecondPasses, vars
    <2>2. ASSUME NEW c \in Clients
          PROVE  Served(doc'[c], link'[c], up'[c], down'[c], held', (c \in Due)')
      <3>1. Served(doc[c], link[c], up[c], down[c], held, c \in Due)
        BY DEF SyncInv
      <3>2. (c \in Due)' <=> (c \in Due)
        BY <2>1 DEF Due
      <3>3. QED
        BY <2>1, <3>1, <3>2 DEF Served, GivesAll
    <2>3. QED
      BY <2>2 DEF SyncInv
  <1>10. QED
    BY <1>1, <1>2, <1>3, <1>4, <1>5, <1>6, <1>7, <1>8, <1>9 DEF Next

LEMMA InitServes == Init => SyncInv
  <1> SUFFICES ASSUME Init, NEW c \in Clients
               PROVE  Served(doc[c], link[c], up[c], down[c], held, c \in Due)
    BY DEF SyncInv
  <1>1. doc[c] \in Docs /\ held \in Docs
    BY InitTypes DEF TypeOK
  <1>2. link[c] = "down" /\ up[c] = <<>> /\ down[c] = <<>>
    BY DEF Init
  <1>3. QED
    BY <1>1, <1>2, NothingIsHonest DEF Served

\* With nothing on its way, and nothing asked for or to be asked for, what the two
\* lack of each other is nothing.
LEMMA ServedIsSynced == TypeOK /\ ServesWhole /\ SyncInv => QuietIsSynced
  <1> SUFFICES ASSUME TypeOK, ServesWhole, SyncInv, NEW c \in Clients, Quiet(c)
               PROVE  UpToDate(c)
    BY DEF QuietIsSynced
  <1>1. /\ Updates(<<>>) = {} /\ Vectors(<<>>) = {} /\ ~Greeted(<<>>)
    BY TakeFacts, <<>> \in Seq(Messages)
  <1>2. /\ GetsAll(doc[c], <<>>, <<>>, held)
        /\ GivesAll(doc[c], <<>>, <<>>, held, c \in Due)
    BY DEF SyncInv, Served, Quiet
  <1>3. Within(held, doc[c])
    BY <1>1, <1>2 DEF GetsAll, Reaches, Within
  <1>4. ASSUME c \notin refused \cup oversized
        PROVE  Integrated(doc[c]) = held
    <2>1. c \notin Due
      BY <1>4 DEF Quiet, Due
    <2>2. Within(doc[c], held)
      BY <1>1, <1>2, <2>1 DEF GivesAll, Reaches, Within
    <2>3. doc[c] = held
      BY <1>3, <2>2, SameDocs DEF TypeOK
    <2>4. QED
      BY <2>3 DEF ServesWhole
  <1>5. QED
    BY <1>3, <1>4 DEF UpToDate, Within

\* No silent hole, whatever is dropped, refused or cut, and whatever a restart
\* loses, as long as it leaves no gap: a browser on the board with nothing under
\* way and no resync due has all that the server has, and has given it all it has
\* unless it was told otherwise.
THEOREM NoSilentHole == Spec /\ [](pending = Empty) => []QuietIsSynced
  <1>1. Spec => []TypeOK
    BY TypeCorrect
  <1>2. Spec => []ServesWhole
    BY ServerServesWholeDocuments
  <1>3. QED
    BY <1>1, <1>2, InitServes, NextServes, ServedIsSynced, PTL DEF Spec

-----------------------------------------------------------------------------
(* While the server stays up.                                              *)

LEMMA NextLeavesNoGap ==
    ASSUME "restart" \notin FaultKinds
    PROVE  pending = Empty /\ [Next]_vars => (pending = Empty)'
  <1>1. ~Restart
    BY DEF Restart, Fault
  <1>2. ASSUME [Next]_vars
        PROVE  pending' = pending \/ pending' = Empty
    BY <1>1, <1>2
       DEF Next, vars, Draw, Erase, MakeChange, Connect, BrowserHears, HearGreeting, HearStep,
           HearUpdate, JoinBoard, ServerTakes, MissEvent, AnswerStep, DropTooFast, RefuseLarge,
           RefuseFull, ApplyUpdate, SendStep, Disconnect, Snapshot, SecondPasses
  <1>3. QED
    BY <1>2

\* While the server process stays up there is no silent hole at all: with updates
\* dropped for their rate, refused for their size or for the room, and connections
\* lost at any point.
THEOREM NoSilentHoleWhileUp ==
    ASSUME "restart" \notin FaultKinds
    PROVE  Spec => []QuietIsSynced
  <1>1. Init => pending = Empty
    BY DEF Init
  <1>2. pending = Empty /\ [Next]_vars => (pending = Empty)'
    BY NextLeavesNoGap
  <1>3. Spec => [](pending = Empty)
    BY <1>1, <1>2, PTL DEF Spec
  <1>4. QED
    BY <1>3, NoSilentHole, PTL

-----------------------------------------------------------------------------
(* The room on a board.                                                    *)

\* The server's running count is never less than the board, and what it serves is
\* all it can integrate of what it has.
RoomInv ==
    /\ Size(Encoded) <= bytes
    /\ held = Integrated(Encoded)

\* Sizes: of a part of a set, and of two put together.
LEMMA SizesAdd ==
    ASSUME NEW S \in SUBSET Items, NEW T \in SUBSET Items, NEW R \in SUBSET Items
    PROVE  /\ S \subseteq T => Cardinality(S) <= Cardinality(T)
           /\ R \subseteq S \cup T => Cardinality(R) <= Cardinality(S) + Cardinality(T)
  <1>1. IsFiniteSet(Items)
    <2>1. IsFiniteSet(1..MaxItems)
      BY ConstantsAssumption, FS_Interval, 0 \in Nat, 1 \in Int
    <2>2. QED
      BY <2>1, ConstantsAssumption, FS_Product DEF Items
  <1>2. IsFiniteSet(S) /\ IsFiniteSet(T) /\ IsFiniteSet(S \cup T)
    BY <1>1, FS_Subset
  <1>3. S \subseteq T => Cardinality(S) <= Cardinality(T)
    BY <1>2, FS_Subset
  <1>4. ASSUME R \subseteq S \cup T
        PROVE  Cardinality(R) <= Cardinality(S) + Cardinality(T)
    <2>1. Cardinality(R) <= Cardinality(S \cup T)
      BY <1>2, <1>4, FS_Subset
    <2>2. /\ Cardinality(S \cup T) = Cardinality(S) + Cardinality(T) - Cardinality(S \cap T)
          /\ Cardinality(S \cap T) \in Nat
      <3>1. S \cap T \in SUBSET Items
        OBVIOUS
      <3>2. QED
        BY <1>2, <3>1, FS_Union, SizesAreNumbers
    <2>3. Cardinality(S) \in Nat /\ Cardinality(T) \in Nat /\ Cardinality(R) \in Nat /\ Cardinality(S \cup T) \in Nat
      <3>1. S \cup T \in SUBSET Items
        OBVIOUS
      <3>2. QED
        BY <3>1, SizesAreNumbers
    <2>4. QED
      BY <2>1, <2>2, <2>3
  <1>5. QED
    BY <1>3, <1>4

\* What an update leaves standing stood before it, or is what the update brought
\* and the server did not have.
LEMMA AppliedSize ==
    ASSUME TypeOK, RoomInv, NEW u \in Docs
    PROVE  /\ Size(Applied(Encoded, u)) <= Size(Encoded) + Cardinality(u.items \ held.items)
           /\ Size(Applied(Encoded, u))
                  <= Size(Encoded) + Cardinality(Minus(Applied(Encoded, u), held).items)
           /\ u.items = {} => Size(Applied(Encoded, u)) <= Size(held)
  <1> DEFINE e == Encoded
             g == Applied(Encoded, u)
  <1>1. e \in Docs /\ held \in Docs /\ g \in Docs
    BY DocsAreClosed, AppliedFacts DEF Encoded, TypeOK
  <1>2. /\ g.items = Whole(e.items \cup u.items)
        /\ g.erased = (e.erased \cup u.erased) \cap g.items
    BY DEF Applied, Integrated, Union
  <1>3. g.items \subseteq e.items \cup u.items
    BY <1>2 DEF Whole
  <1>4. held.items = Whole(e.items) /\ held.erased = e.erased \cap held.items
    BY DEF RoomInv, Integrated
  <1>5. held.items \subseteq e.items
    BY <1>4 DEF Whole
  <1> HIDE DEF g, e
  <1>6. g.items \ g.erased \subseteq (e.items \ e.erased) \cup (u.items \ held.items)
    BY <1>2, <1>3, <1>5
  <1>7. g.items \ g.erased \subseteq (e.items \ e.erased) \cup (g.items \ held.items)
    BY <1>2, <1>3, <1>5
  <1>8. /\ g.items \ g.erased \in SUBSET Items /\ e.items \ e.erased \in SUBSET Items
        /\ u.items \ held.items \in SUBSET Items /\ g.items \ held.items \in SUBSET Items
        /\ held.items \ held.erased \in SUBSET Items
    BY <1>1 DEF Docs
  <1>9. Size(g) <= Size(e) + Cardinality(u.items \ held.items)
    BY <1>6, <1>8, SizesAdd DEF Size
  <1>10. Size(g) <= Size(e) + Cardinality(g.items \ held.items)
    BY <1>7, <1>8, SizesAdd DEF Size
  <1>11. ASSUME u.items = {}
         PROVE  Size(g) <= Size(held)
    <2>1. e.items \cup u.items = e.items
      BY <1>11
    <2>2. g.items = held.items
      BY <1>2, <1>4, <2>1
    <2>3. g.items \ g.erased \subseteq held.items \ held.erased
      BY <1>2, <1>4, <2>2
    <2>4. QED
      BY <1>8, <2>3, SizesAdd DEF Size
  <1>12. QED
    BY <1>9, <1>10, <1>11 DEF g, e, Minus

\* A document split into what is integrated of it and the rest is still that document.
LEMMA SplitFacts ==
    ASSUME NEW d \in Docs
    PROVE  Union(Integrated(d), Minus(d, Integrated(d))) = d
  <1>1. Whole(d.items) \subseteq d.items
    BY DEF Whole
  <1>2. d.items = Whole(d.items) \cup (d.items \ Whole(d.items))
    BY <1>1
  <1>3. LET w == d.erased \cap Whole(d.items) IN d.erased = w \cup (d.erased \ w)
    OBVIOUS
  <1>4. d = [items |-> d.items, erased |-> d.erased]
    BY DEF Docs
  <1>5. QED
    BY <1>2, <1>3, <1>4 DEF Union, Integrated, Minus

LEMMA NextKeepsRoom ==
    TypeOK /\ RoomInv /\ [Next]_vars => RoomInv'
  <1> SUFFICES ASSUME TypeOK, RoomInv, [Next]_vars
               PROVE  RoomInv'
    OBVIOUS
  <1>0. Encoded \in Docs /\ Size(Encoded) \in Nat /\ bytes \in Nat
    <2>1. Encoded \in Docs
      BY DocsAreClosed DEF Encoded, TypeOK
    <2>2. QED
      BY <2>1, SizesAreNumbers DEF Size, TypeOK, Docs
  <1>1. CASE held' = held /\ pending' = pending /\ (bytes' = bytes \/ bytes' = Size(Encoded))
    <2>1. Encoded' = Encoded
      BY <1>1 DEF Encoded
    <2>2. Size(Encoded') <= bytes'
      BY <1>0, <1>1, <2>1 DEF RoomInv
    <2>3. QED
      BY <1>1, <2>1, <2>2 DEF RoomInv
  <1>2. ASSUME NEW c \in Clients, ApplyUpdate(c)
        PROVE  RoomInv'
    <2> DEFINE u == Arriving(c)
               g == Applied(Encoded, u)
               base == IF u.items # {} /\ MeasuresFor(u) THEN Size(Encoded) ELSE bytes
               extra == Cardinality(Minus(g, held).items)
    <2>1. u \in Docs
      BY <1>2, MessageFacts, ChannelFacts DEF ApplyUpdate, Take, Arriving, TypeOK
    <2>2. held' = g /\ pending' = Empty /\ bytes' = base + extra
      BY <1>2 DEF ApplyUpdate
    <2>3. g \in Docs /\ Integrated(g) = g
      BY <1>0, <2>1, AppliedFacts
    <2>4. Encoded' = g
      <3>1. Encoded' = Union(g, Empty)
        BY <2>2 DEF Encoded
      <3> HIDE DEF g
      <3>2. Union(g, Empty) = g
        BY <2>3 DEF Union, Empty, Docs
      <3>3. QED
        BY <3>1, <3>2
    <2>5. Size(g) <= Size(Encoded) + extra
      BY <2>1, AppliedSize
    <2>6. Size(Encoded) <= base /\ base \in Nat
      BY <1>0 DEF RoomInv
    <2>7. Size(g) \in Nat /\ extra \in Nat
      <3>1. Minus(g, held) \in Docs
        BY <2>3, DocsAreClosed DEF TypeOK
      <3>2. Minus(g, held).items \in SUBSET Items /\ g.items \ g.erased \in SUBSET Items
        BY <2>3, <3>1 DEF Docs
      <3>3. QED
        BY <3>2, SizesAreNumbers DEF Size
    <2> HIDE DEF g, base, extra, u
    <2>8. Size(Encoded') <= bytes'
      BY <1>0, <2>2, <2>4, <2>5, <2>6, <2>7
    <2>9. QED
      BY <2>2, <2>3, <2>4, <2>8 DEF RoomInv
  <1>3. CASE Restart
    <2>1. PICK items \in SUBSET Encoded.items, erased \in SUBSET Encoded.erased :
              LET left == [items |-> items, erased |-> erased]
              IN  /\ held' = Integrated(left)
                  /\ pending' = Minus(left, Integrated(left))
                  /\ bytes' = Cardinality(items)
      BY <1>3 DEF Restart
    <2> DEFINE left == [items |-> items, erased |-> erased]
    <2>2. left \in Docs /\ items \in SUBSET Items
      BY <1>0 DEF Docs
    <2>3. Encoded' = left
      BY <2>1, <2>2, SplitFacts DEF Encoded
    <2>4. Size(left) <= Cardinality(items)
      <3>1. items \ erased \in SUBSET Items /\ items \ erased \subseteq items
        BY <2>2
      <3>2. QED
        BY <2>2, <3>1, SizesAdd DEF Size
    <2>5. QED
      BY <2>1, <2>3, <2>4 DEF RoomInv
  <1>4. \/ held' = held /\ pending' = pending /\ (bytes' = bytes \/ bytes' = Size(Encoded))
        \/ \E c \in Clients : ApplyUpdate(c)
        \/ Restart
    BY DEF Next, vars, Draw, Erase, MakeChange, Connect, BrowserHears, HearGreeting, HearStep,
           HearUpdate, JoinBoard, ServerTakes, MissEvent, AnswerStep, DropTooFast, RefuseLarge,
           RefuseFull, Measure, SendStep, Disconnect, Snapshot, SecondPasses
  <1>5. QED
    BY <1>1, <1>2, <1>3, <1>4

LEMMA InitHasRoom == Init => RoomInv
  <1>1. Whole({}) = {}
    BY DEF Whole
  <1>2. Cardinality({}) = 0
    BY FS_EmptySet
  <1>3. ASSUME Init
        PROVE  Encoded = Empty /\ held = Empty /\ bytes = 0
    BY <1>3 DEF Init, Encoded, Union, Empty
  <1>4. Size(Empty) = 0
    BY <1>2 DEF Size, Empty
  <1>5. Integrated(Empty) = Empty
    BY <1>1 DEF Integrated, Empty
  <1>6. QED
    BY <1>3, <1>4, <1>5 DEF RoomInv

\* The board never outgrows its ceiling while anybody is connected, with any
\* number of clients catching up at once: the count hasRoom goes by is never less
\* than the board, though what a replay left pending may integrate at any moment.
THEOREM BoardStaysInBounds == Spec => BoardFits
  <1> DEFINE A == (Size(held') > Size(held) /\ \E c \in Clients : link'[c] # "down")
                      => Size(held') <= Capacity
  <1>1. TypeOK /\ RoomInv /\ [Next]_vars => A
    <2> SUFFICES ASSUME TypeOK, RoomInv, [Next]_vars,
                        Size(held') > Size(held), NEW b \in Clients, link'[b] # "down"
                 PROVE  Size(held') <= Capacity
      OBVIOUS
    <2>0. Encoded \in Docs /\ Size(Encoded) \in Nat /\ Size(held) \in Nat /\ bytes \in Nat
      <3>1. Encoded \in Docs
        BY DocsAreClosed DEF Encoded, TypeOK
      <3>2. QED
        BY <3>1, SizesAreNumbers DEF Size, TypeOK, Docs
    <2>1. held' # held
      BY <2>0
    <2>2. ~Restart
      BY DEF Restart, Cut
    <2>3. PICK c \in Clients : ApplyUpdate(c)
      BY <2>1, <2>2, HeldChanges
    <2> DEFINE u == Arriving(c)
    <2>4. u \in Docs
      BY <2>3, MessageFacts, ChannelFacts DEF ApplyUpdate, Take, Arriving, TypeOK
    <2>5. held' = Applied(Encoded, u) /\ (u.items = {} \/ HasRoom(u))
      BY <2>3 DEF ApplyUpdate
    <2>6. Size(held') \in Nat
      <3>1. held' \in Docs
        BY <2>0, <2>4, <2>5, AppliedFacts
      <3>2. QED
        BY <3>1, SizesAreNumbers DEF Size, Docs
    <2>7. /\ Size(held') <= Size(Encoded) + Cardinality(u.items \ held.items)
          /\ u.items = {} => Size(held') <= Size(held)
      BY <2>4, <2>5, AppliedSize
    <2>8. Cardinality(u.items \ held.items) \in Nat
      BY <2>4, SizesAreNumbers DEF Docs
    <2>9. HasRoom(u)
      BY <2>0, <2>5, <2>6, <2>7
    <2>10. QED
      BY <2>0, <2>6, <2>7, <2>8, <2>9, ConstantsAssumption DEF HasRoom, RoomInv
  <1>2. TypeOK /\ RoomInv /\ [Next]_vars => [A]_vars
    BY <1>1
  <1>3. Spec => []TypeOK
    BY TypeCorrect
  <1>4. QED
    BY <1>2, <1>3, InitHasRoom, NextKeepsRoom, PTL DEF Spec, BoardFits

-----------------------------------------------------------------------------
(* The order of painting (PaintOrder): sequences without repetition.       *)

\* What is not empty has a least number.
LEMMA Lowest ==
    ASSUME NEW S \in SUBSET Nat, S # {}
    PROVE  \E x \in S : \A z \in S : x <= z
  <1>1. PICK x \in S : \A z \in S : ~(<<z, x>> \in OpToRel(<, Nat))
    BY WFMin, NatLessThanWellFounded
  <1>2. ASSUME NEW z \in S PROVE x <= z
    <2>1. ~(z < x)
      BY <1>1 DEF OpToRel
    <2>2. QED
      BY <2>1
  <1>3. QED
    BY <1>2

\* And, if there is a bound, a greatest.
LEMMA Highest ==
    ASSUME NEW n \in Nat, NEW S \in SUBSET (0..n), S # {}
    PROVE  \E x \in S : \A z \in S : z <= x
  <1> DEFINE T == {x \in Nat : n - x \in S}
  <1>1. T \in SUBSET Nat /\ T # {}
    <2>1. PICK m \in S : TRUE
      OBVIOUS
    <2>2. n - m \in Nat /\ n - (n - m) = m
      BY <2>1
    <2>3. n - m \in T
      BY <2>1, <2>2
    <2>4. QED
      BY <2>3
  <1>2. PICK x \in T : \A z \in T : x <= z
    <2> HIDE DEF T
    <2>1. QED
      BY <1>1, Lowest
  <1>3. ASSUME NEW z \in S PROVE z <= n - x
    <2>1. n - z \in Nat /\ n - (n - z) = z
      OBVIOUS
    <2>2. n - z \in T
      BY <2>1
    <2>3. x <= n - z
      BY <1>2, <2>2
    <2>4. QED
      BY <1>1, <2>1, <2>3
  <1>4. QED
    BY <1>2, <1>3

\* The places in order: each once, the lower ones first.
LEMMA NthFacts ==
    ASSUME NEW m \in Nat, NEW S \in SUBSET (1..m)
    PROVE  /\ Cardinality(S) \in Nat
           /\ \A n \in 1..Cardinality(S) : Nth(S, n) \in S
           /\ \A n, k \in 1..Cardinality(S) : n < k => Nth(S, n) < Nth(S, k)
           /\ \A i \in S : \E n \in 1..Cardinality(S) : Nth(S, n) = i
  <1> DEFINE upTo(i) == {j \in S : j <= i}
             rank == [i \in S |-> Cardinality(upTo(i))]
             c == Cardinality(S)
  <1>1. IsFiniteSet(S) /\ c \in Nat
    <2>1. IsFiniteSet(1..m)
      BY FS_Interval
    <2>2. IsFiniteSet(S)
      BY <2>1, FS_Subset
    <2>3. QED
      BY <2>2, FS_CardinalityType
  <1>2. \A i \in S : IsFiniteSet(upTo(i)) /\ Cardinality(upTo(i)) \in Nat /\ rank[i] <= c
    <2> TAKE i \in S
    <2>1. upTo(i) \in SUBSET S
      OBVIOUS
    <2>2. IsFiniteSet(upTo(i)) /\ Cardinality(upTo(i)) <= c
      BY <1>1, <2>1, FS_Subset
    <2>3. QED
      BY <2>2, FS_CardinalityType
  <1>3. \A i \in S : rank[i] \in 1..c
    <2> TAKE i \in S
    <2>1. upTo(i) # {}
      OBVIOUS
    <2>2. Cardinality(upTo(i)) # 0
      BY <1>2, <2>1, FS_EmptySet
    <2>3. QED
      BY <1>1, <1>2, <2>2
  <1>4. \A i, k \in S : i < k => rank[i] < rank[k]
    <2> SUFFICES ASSUME NEW i \in S, NEW k \in S, i < k PROVE rank[i] < rank[k]
      OBVIOUS
    <2>1. upTo(i) \in SUBSET upTo(k) /\ k \in upTo(k) /\ k \notin upTo(i)
      <3>1. \A j \in S : j \in Int
        OBVIOUS
      <3>2. i \in Int /\ k \in Int /\ i < k
        BY <3>1
      <3>3. \A j \in S : j <= i => j <= k
        BY <3>1, <3>2
      <3>4. k <= k /\ ~(k <= i)
        BY <3>2
      <3>5. QED
        BY <3>3, <3>4
    <2>2. Cardinality(upTo(i)) <= Cardinality(upTo(k))
          /\ (Cardinality(upTo(k)) = Cardinality(upTo(i)) => upTo(k) = upTo(i))
      BY <1>2, <2>1, FS_Subset
    <2>3. QED
      BY <1>2, <2>1, <2>2
  <1>5. \A n \in 1..c : \E i \in S : rank[i] = n
    <2>1. rank \in Injection(S, 1..c)
      <3>1. \A i, k \in S : rank[i] = rank[k] => i = k
        <4> SUFFICES ASSUME NEW i \in S, NEW k \in S, rank[i] = rank[k], i # k PROVE FALSE
          OBVIOUS
        <4>1. i < k \/ k < i
          OBVIOUS
        <4>2. QED
          BY <1>3, <1>4, <4>1
      <3>2. rank \in [S -> 1..c]
        BY <1>3
      <3> HIDE DEF rank
      <3>3. QED
        BY <3>1, <3>2 DEF Injection, IsInjective
    <2>2. IsFiniteSet(1..c) /\ Cardinality(1..c) = c
      BY <1>1, FS_Interval
    <2>3. rank \in Surjection(S, 1..c)
      BY <2>1, <2>2, FS_Injection
    <2> HIDE DEF rank
    <2>4. QED
      BY <2>3 DEF Surjection
  <1> HIDE DEF c
  <1>6. \A n \in 1..c : Nth(S, n) \in S /\ rank[Nth(S, n)] = n
    <2> TAKE n \in 1..c
    <2>1. \E i \in S : Cardinality({j \in S : j <= i}) = n
      BY <1>5
    <2>2. QED
      BY <2>1 DEF Nth
  <1> HIDE DEF rank
  <1>7. \A n, k \in 1..c : n < k => Nth(S, n) < Nth(S, k)
    <2> SUFFICES ASSUME NEW n \in 1..c, NEW k \in 1..c, n < k PROVE Nth(S, n) < Nth(S, k)
      OBVIOUS
    <2> DEFINE x == Nth(S, n)
               z == Nth(S, k)
    <2>1. x \in S /\ z \in S /\ rank[x] = n /\ rank[z] = k
      BY <1>6
    <2> HIDE DEF x, z
    <2>2. x < z
      BY <1>4, <2>1
    <2>3. QED
      BY <2>2 DEF x, z
  <1>8. \A i \in S : Nth(S, rank[i]) = i
    <2> SUFFICES ASSUME NEW i \in S, Nth(S, rank[i]) # i PROVE FALSE
      OBVIOUS
    <2> DEFINE x == Nth(S, rank[i])
    <2>1. x \in S /\ rank[x] = rank[i] /\ x # i
      BY <1>3, <1>6
    <2> HIDE DEF x
    <2>2. x < i \/ i < x
      BY <2>1
    <2>3. QED
      BY <1>3, <1>4, <2>1, <2>2
  <1>9. QED
    BY <1>1, <1>3, <1>6, <1>7, <1>8 DEF c

\* What a sequence has below what, said of two of its members.
LEMMA PairsMean ==
    ASSUME NEW s, NEW a, NEW b
    PROVE  <<a, b>> \in Pairs(s) <=> \E j \in DOMAIN s : \E i \in 1..(j - 1) : s[i] = a /\ s[j] = b
  <1>1. \A x, z : <<x, z>> = <<a, b>> <=> x = a /\ z = b
    OBVIOUS
  <1>2. QED
    BY <1>1 DEF Pairs

\* A sequence at some of its places has what it had there, in that order.
LEMMA AtPlacesFacts ==
    ASSUME NEW T, NEW l \in Seq(T), NEW S \in SUBSET (DOMAIN l)
    PROVE  /\ AtPlaces(l, S) \in Seq(T) /\ Len(AtPlaces(l, S)) = Cardinality(S)
           /\ \A n \in DOMAIN AtPlaces(l, S) : Nth(S, n) \in S /\ AtPlaces(l, S)[n] = l[Nth(S, n)]
           /\ \A i \in S : \E n \in DOMAIN AtPlaces(l, S) : AtPlaces(l, S)[n] = l[i]
  <1> DEFINE s == AtPlaces(l, S)
             c == Cardinality(S)
  <1>1. DOMAIN l = 1..Len(l) /\ Len(l) \in Nat
    OBVIOUS
  <1>2. /\ c \in Nat /\ \A n \in 1..c : Nth(S, n) \in S
        /\ \A i \in S : \E n \in 1..c : Nth(S, n) = i
    BY <1>1, NthFacts
  <1>3. s = [n \in 1..c |-> l[Nth(S, n)]]
    BY DEF AtPlaces
  <1> HIDE DEF s, c
  <1>4. \A n \in 1..c : l[Nth(S, n)] \in T
    BY <1>2
  <1>5. s \in Seq(T) /\ Len(s) = c /\ DOMAIN s = 1..c
    <2>1. s \in [1..c -> T]
      BY <1>3, <1>4
    <2>2. s \in Seq(T)
      BY <1>2, <2>1, SeqDef
    <2>3. QED
      BY <1>2, <1>3, <2>2
  <1>6. \A n \in 1..c : s[n] = l[Nth(S, n)]
    BY <1>3
  <1>7. \A i \in S : \E n \in DOMAIN s : s[n] = l[i]
    BY <1>2, <1>5, <1>6
  <1>8. QED
    BY <1>2, <1>5, <1>6, <1>7 DEF s, c

\* Each of them once, if it has them once, and one below the other as there.
LEMMA AtPlacesPairs ==
    ASSUME NEW T, NEW l \in Seq(T), NEW S \in SUBSET (DOMAIN l),
           \A i, j \in S : l[i] = l[j] => i = j
    PROVE  /\ \A n, k \in DOMAIN AtPlaces(l, S) : AtPlaces(l, S)[n] = AtPlaces(l, S)[k] => n = k
           /\ \A i, j \in S : <<l[i], l[j]>> \in Pairs(AtPlaces(l, S)) <=> i < j
  <1> DEFINE s == AtPlaces(l, S)
             c == Cardinality(S)
  <1>1. DOMAIN l = 1..Len(l) /\ Len(l) \in Nat
    OBVIOUS
  <1>2. /\ c \in Nat
        /\ \A n \in 1..c : Nth(S, n) \in S
        /\ \A n, k \in 1..c : n < k => Nth(S, n) < Nth(S, k)
        /\ \A i \in S : \E n \in 1..c : Nth(S, n) = i
    BY <1>1, NthFacts
  <1>3. s \in Seq(T) /\ Len(s) = c /\ \A n \in DOMAIN s : s[n] = l[Nth(S, n)]
    BY AtPlacesFacts
  <1> HIDE DEF s, c
  <1>4. DOMAIN s = 1..c
    BY <1>3
  <1>5. \A i \in S : i \in Int
    BY <1>1
  <1>6. \A n, k \in 1..c : s[n] = s[k] => n = k
    <2> SUFFICES ASSUME NEW n \in 1..c, NEW k \in 1..c, s[n] = s[k], n # k PROVE FALSE
      OBVIOUS
    <2>1. Nth(S, n) = Nth(S, k)
      BY <1>2, <1>3, <1>4
    <2>2. n < k \/ k < n
      BY <1>2
    <2>3. Nth(S, n) < Nth(S, k) \/ Nth(S, k) < Nth(S, n)
      BY <1>2, <2>2
    <2>4. QED
      BY <1>2, <1>5, <2>1, <2>3
  <1>7. ASSUME NEW i \in S, NEW j \in S
        PROVE  <<l[i], l[j]>> \in Pairs(s) <=> i < j
    <2>1. PICK n \in 1..c, k \in 1..c : Nth(S, n) = i /\ Nth(S, k) = j
      BY <1>2, <1>7
    <2>2. s[n] = l[i] /\ s[k] = l[j]
      BY <1>3, <1>4, <2>1
    <2>3. <<l[i], l[j]>> \in Pairs(s) <=> n < k
      <3>1. \A x, z \in 1..c : s[x] = l[i] /\ s[z] = l[j] => x = n /\ z = k
        BY <1>6, <2>2
      <3>2. \A x \in 1..(k - 1) : x \in 1..c
        BY <1>2
      <3>3. <<l[i], l[j]>> \in Pairs(s)
              <=> \E z \in 1..c : \E x \in 1..(z - 1) : s[x] = l[i] /\ s[z] = l[j]
        <4>1. <<l[i], l[j]>> \in Pairs(s)
                <=> \E z \in DOMAIN s : \E x \in 1..(z - 1) : s[x] = l[i] /\ s[z] = l[j]
          BY PairsMean
        <4>2. QED
          BY ONLY <1>4, <4>1
      <3>4. \A z \in 1..c : \A x \in 1..(z - 1) : x \in 1..c /\ x < z
        BY <1>2
      <3>5. n < k => n \in 1..(k - 1)
        BY <1>2
      <3>6. QED
        BY <2>2, <3>1, <3>3, <3>4, <3>5
    <2>4. n < k <=> i < j
      <3>1. CASE n < k
        BY <1>2, <2>1, <3>1
      <3>2. CASE n = k
        BY <1>5, <2>1, <3>2
      <3>3. CASE k < n
        <4>1. j < i
          BY <1>2, <2>1, <3>3
        <4>2. QED
          BY <1>5, <3>3, <4>1
      <3>4. QED
        BY <1>2, <3>1, <3>2, <3>3
    <2>5. QED
      BY <2>3, <2>4
  <1>8. QED
    BY <1>4, <1>6, <1>7 DEF s

\* Where an id is first, if it is anywhere.
LEMMA FirstFacts ==
    ASSUME NEW l \in Seq(Ids \X Nat), NEW d, NEW id, PlacesOf(l, d, id) # {}
    PROVE  /\ FirstPlace(l, d, id) \in PlacesOf(l, d, id)
           /\ \A j \in PlacesOf(l, d, id) : FirstPlace(l, d, id) <= j
           /\ FirstPlace(l, d, id) \in 1..Len(l)
           /\ l[FirstPlace(l, d, id)][1] = id
           /\ l[FirstPlace(l, d, id)] \in d.items \ d.gone
  <1> DEFINE S == PlacesOf(l, d, id)
  <1>1. S \in SUBSET Nat /\ S \in SUBSET (1..Len(l))
    BY DEF PlacesOf, Places
  <1>2. PICK x \in S : \A z \in S : x <= z
    <2> HIDE DEF S
    <2>1. S # {}
      BY DEF S
    <2>2. QED
      BY <1>1, <2>1, Lowest
  <1>3. FirstPlace(l, d, id) \in S /\ \A j \in S : FirstPlace(l, d, id) <= j
    BY <1>2 DEF FirstPlace
  <1> DEFINE f == FirstPlace(l, d, id)
  <1> HIDE DEF f
  <1>4. f \in S => f \in 1..Len(l) /\ l[f][1] = id /\ l[f] \in d.items \ d.gone
    BY DEF PlacesOf, Places
  <1>5. QED
    BY <1>3, <1>4 DEF f

\* An id is first where it is, and nowhere before.
LEMMA FirstIs ==
    ASSUME NEW l \in Seq(Ids \X Nat), NEW d, NEW id, NEW p \in PlacesOf(l, d, id),
           \A j \in PlacesOf(l, d, id) : p <= j
    PROVE  FirstPlace(l, d, id) = p
  <1> DEFINE f == FirstPlace(l, d, id)
  <1>1. f \in PlacesOf(l, d, id) /\ f <= p /\ f \in 1..Len(l)
    BY FirstFacts
  <1>2. p <= f /\ p \in 1..Len(l)
    BY <1>1 DEF PlacesOf, Places
  <1> HIDE DEF f
  <1>3. f = p
    BY <1>1, <1>2
  <1>4. QED
    BY <1>3 DEF f

\* Every element there is has an entry that is.
Listed(l, d) == \A id \in Alive(d) : PlacesOf(l, d, id) # {}

\* A sequence without repetition, of the members of a set.
Arranges(s, ids) ==
    /\ s \in Seq(Ids)
    /\ {s[n] : n \in DOMAIN s} = ids
    /\ \A n, k \in DOMAIN s : s[n] = s[k] => n = k

\* What is painted is every element, once, in the order of their first entries.
LEMMA OrderedFacts ==
    ASSUME NEW l \in Seq(Ids \X Nat), NEW d, Listed(l, d)
    PROVE  /\ Arranges(OrderedIds(l, d), Alive(d))
           /\ \A a, b \in Alive(d) : <<a, b>> \in Pairs(OrderedIds(l, d))
                                       <=> FirstPlace(l, d, a) < FirstPlace(l, d, b)
  <1> DEFINE q == [i \in DOMAIN l |-> l[i][1]]
             S == Shown(l, d)
             s == AtPlaces(q, S)
  <1>1. DOMAIN l = 1..Len(l) /\ Len(l) \in Nat
    OBVIOUS
  <1>2. q \in Seq(Ids) /\ DOMAIN q = DOMAIN l
    <2>1. \A i \in 1..Len(l) : l[i][1] \in Ids
      OBVIOUS
    <2>2. q \in [1..Len(l) -> Ids]
      BY <1>1, <2>1
    <2>3. QED
      BY <1>1, <2>2, SeqDef
  <1>3. S \in SUBSET (DOMAIN q)
    BY <1>2 DEF Shown, Places
  <1>4. \A i \in S : q[i] \in Alive(d) /\ q[i] = l[i][1] /\ FirstPlace(l, d, q[i]) = i
    BY DEF Shown, Places
  <1>5. \A a \in Alive(d) : FirstPlace(l, d, a) \in S /\ q[FirstPlace(l, d, a)] = a
    <2> TAKE a \in Alive(d)
    <2> DEFINE f == FirstPlace(l, d, a)
    <2>1. f \in PlacesOf(l, d, a) /\ f \in DOMAIN l /\ l[f][1] = a
      BY <1>1, FirstFacts DEF Listed
    <2>2. f \in Places(l, d)
      BY <2>1 DEF PlacesOf
    <2>3. f = FirstPlace(l, d, a)
      OBVIOUS
    <2> HIDE DEF f
    <2>4. f \in S /\ q[f] = a
      BY <2>1, <2>2, <2>3 DEF Shown
    <2>5. QED
      BY <2>4 DEF f
  <1>6. OrderedIds(l, d) = s
    BY DEF OrderedIds
  <1> HIDE DEF q, S
  <1>7. \A i, j \in S : q[i] = q[j] => i = j
    BY <1>4
  <1>8. /\ s \in Seq(Ids)
        /\ \A n \in DOMAIN s : \E i \in S : s[n] = q[i]
        /\ \A i \in S : \E n \in DOMAIN s : s[n] = q[i]
    BY <1>2, <1>3, AtPlacesFacts
  <1>9. /\ \A n, k \in DOMAIN s : s[n] = s[k] => n = k
        /\ \A i, j \in S : <<q[i], q[j]>> \in Pairs(s) <=> i < j
    BY <1>2, <1>3, <1>7, AtPlacesPairs
  <1> HIDE DEF s
  <1>10. {s[n] : n \in DOMAIN s} = Alive(d)
    <2>1. \A n \in DOMAIN s : s[n] \in Alive(d)
      BY <1>4, <1>8
    <2>2. \A a \in Alive(d) : \E n \in DOMAIN s : s[n] = a
      BY <1>5, <1>8
    <2>3. QED
      BY <2>1, <2>2
  <1>11. \A a, b \in Alive(d) : <<a, b>> \in Pairs(s)
                                  <=> FirstPlace(l, d, a) < FirstPlace(l, d, b)
    <2> TAKE a, b \in Alive(d)
    <2> DEFINE i == FirstPlace(l, d, a)
               j == FirstPlace(l, d, b)
    <2>1. i \in S /\ j \in S /\ q[i] = a /\ q[j] = b
      BY <1>5
    <2> HIDE DEF i, j
    <2>2. <<a, b>> \in Pairs(s) <=> i < j
      BY <1>9, <2>1
    <2>3. QED
      BY <2>2 DEF i, j
  <1>12. QED
    BY <1>6, <1>8, <1>9, <1>10, <1>11 DEF Arranges

\* Of two members of such a sequence, one is below the other.
LEMMA PairsAre ==
    ASSUME NEW ids, NEW s, Arranges(s, ids), NEW i \in DOMAIN s, NEW j \in DOMAIN s
    PROVE  <<s[i], s[j]>> \in Pairs(s) <=> i < j
  <1>1. DOMAIN s = 1..Len(s) /\ Len(s) \in Nat
    BY DEF Arranges
  <1>2. <<s[i], s[j]>> \in Pairs(s)
          <=> \E k \in DOMAIN s : \E m \in 1..(k - 1) : s[m] = s[i] /\ s[k] = s[j]
    BY PairsMean
  <1>3. \A k \in DOMAIN s : \A m \in 1..(k - 1) : m \in DOMAIN s /\ m < k
    BY <1>1
  <1>4. i < j => i \in 1..(j - 1)
    BY <1>1
  <1>5. \A m, k \in DOMAIN s : s[m] = s[i] /\ s[k] = s[j] => m = i /\ k = j
    BY DEF Arranges
  <1>6. QED
    BY <1>2, <1>3, <1>4, <1>5

\* Only members are below members.
LEMMA PairsOf ==
    ASSUME NEW ids, NEW s, Arranges(s, ids)
    PROVE  \A x \in Pairs(s) : \E a, b \in ids : x = <<a, b>>
  <1>1. DOMAIN s = 1..Len(s) /\ Len(s) \in Nat
    BY DEF Arranges
  <1>2. \A j \in DOMAIN s : \A i \in 1..(j - 1) : i \in DOMAIN s
    BY <1>1
  <1>3. QED
    BY <1>2 DEF Pairs, Arranges

\* What holds at the start and is handed on holds up to the end.
LEMMA Climb ==
    ASSUME NEW n \in Nat, NEW S \in SUBSET (0..n), 0 \in S,
           \A k \in 1..n : k - 1 \in S => k \in S
    PROVE  \A k \in 0..n : k \in S
  <1> DEFINE T == {k \in 0..n : k \notin S}
  <1> SUFFICES ASSUME T # {} PROVE FALSE
    OBVIOUS
  <1>1. T \in SUBSET Nat
    OBVIOUS
  <1>2. PICK x \in T : \A z \in T : x <= z
    <2> HIDE DEF T
    <2>1. QED
      BY <1>1, Lowest
  <1>3. x \in 1..n
    OBVIOUS
  <1>4. x - 1 \in 0..n /\ ~(x <= x - 1)
    BY <1>3
  <1>5. x - 1 \in S
    BY <1>2, <1>4
  <1>6. QED
    BY <1>3, <1>5

\* Where a sequence without repetition has what.
LEMMA ArrangesFacts ==
    ASSUME NEW ids, NEW s, Arranges(s, ids)
    PROVE  /\ Len(s) \in Nat /\ DOMAIN s = 1..Len(s)
           /\ \A i \in DOMAIN s : s[i] \in ids
           /\ \A a \in ids : \E i \in DOMAIN s : s[i] = a
  <1>1. Len(s) \in Nat /\ DOMAIN s = 1..Len(s)
    BY DEF Arranges
  <1>2. {s[n] : n \in DOMAIN s} = ids
    BY DEF Arranges
  <1>3. QED
    BY <1>1, <1>2

\* Below is one way round: of two, one is below the other.
LEMMA PairsOrder ==
    ASSUME NEW ids, NEW s, Arranges(s, ids), NEW a \in ids, NEW b \in ids
    PROVE  /\ a = b => <<a, b>> \notin Pairs(s)
           /\ a # b => (<<a, b>> \in Pairs(s) <=> <<b, a>> \notin Pairs(s))
  <1>1. DOMAIN s = 1..Len(s) /\ Len(s) \in Nat
    BY ArrangesFacts
  <1>2. PICK i \in DOMAIN s, j \in DOMAIN s : s[i] = a /\ s[j] = b
    BY ArrangesFacts
  <1>3. (<<a, b>> \in Pairs(s) <=> i < j) /\ (<<b, a>> \in Pairs(s) <=> j < i)
    BY <1>2, PairsAre
  <1>4. a = b <=> i = j
    BY <1>2 DEF Arranges
  <1>5. QED
    BY <1>1, <1>3, <1>4

\* Some of the places of a sequence without repetition.
LEMMA AtPlacesArrange ==
    ASSUME NEW ids, NEW s, Arranges(s, ids), NEW S \in SUBSET (DOMAIN s)
    PROVE  /\ Arranges(AtPlaces(s, S), {s[i] : i \in S})
           /\ \A i, j \in S : <<s[i], s[j]>> \in Pairs(AtPlaces(s, S)) <=> i < j
  <1>1. s \in Seq(Ids) /\ \A i, j \in S : s[i] = s[j] => i = j
    BY DEF Arranges
  <1> DEFINE t == AtPlaces(s, S)
  <1>2. /\ t \in Seq(Ids)
        /\ \A n \in DOMAIN t : \E i \in S : t[n] = s[i]
        /\ \A i \in S : \E n \in DOMAIN t : t[n] = s[i]
    BY <1>1, AtPlacesFacts
  <1>3. /\ \A n, k \in DOMAIN t : t[n] = t[k] => n = k
        /\ \A i, j \in S : <<s[i], s[j]>> \in Pairs(t) <=> i < j
    BY <1>1, AtPlacesPairs
  <1> HIDE DEF t
  <1>4. {t[n] : n \in DOMAIN t} = {s[i] : i \in S}
    BY <1>2
  <1>5. Arranges(t, {s[i] : i \in S})
    BY <1>2, <1>3, <1>4 DEF Arranges
  <1>6. QED
    BY <1>3, <1>5 DEF t

\* Two such sequences, one behind the other.
LEMMA JoinedFacts ==
    ASSUME NEW A, NEW B, NEW s, NEW t, Arranges(s, A), Arranges(t, B), A \cap B = {}
    PROVE  /\ Arranges(s \o t, A \cup B)
           /\ \A a, b \in A : <<a, b>> \in Pairs(s \o t) <=> <<a, b>> \in Pairs(s)
           /\ \A a, b \in B : <<a, b>> \in Pairs(s \o t) <=> <<a, b>> \in Pairs(t)
           /\ \A a \in A, b \in B : <<a, b>> \in Pairs(s \o t) /\ <<b, a>> \notin Pairs(s \o t)
  <1> DEFINE q == s \o t
             m == Len(s)
  <1>1. /\ s \in Seq(Ids) /\ t \in Seq(Ids) /\ m \in Nat /\ Len(t) \in Nat
        /\ DOMAIN s = 1..m /\ DOMAIN t = 1..Len(t)
    BY DEF Arranges
  <1>2. /\ q \in Seq(Ids) /\ Len(q) = m + Len(t)
        /\ \A i \in 1..(m + Len(t)) : q[i] = IF i <= m THEN s[i] ELSE t[i - m]
    BY <1>1, ConcatProperties
  <1> HIDE DEF q, m
  <1>3. DOMAIN q = 1..(m + Len(t))
    BY <1>1, <1>2
  <1>4. \A i \in DOMAIN s : i \in DOMAIN q /\ q[i] = s[i] /\ q[i] \in A /\ i <= m
    BY <1>1, <1>2, <1>3, ArrangesFacts
  <1>5. \A i \in DOMAIN t : m + i \in DOMAIN q /\ q[m + i] = t[i] /\ q[m + i] \in B
    <2> TAKE i \in DOMAIN t
    <2>1. m + i \in 1..(m + Len(t)) /\ ~(m + i <= m) /\ (m + i) - m = i
      BY <1>1
    <2>2. t[i] \in B
      BY ArrangesFacts
    <2>3. QED
      BY <1>2, <1>3, <2>1, <2>2
  <1>6. \A k \in DOMAIN q : k \in DOMAIN s \/ (k - m \in DOMAIN t /\ k = m + (k - m))
    BY <1>1, <1>3
  <1>7. Arranges(q, A \cup B)
    <2>1. \A k \in DOMAIN q : q[k] \in A \cup B
      BY <1>4, <1>5, <1>6
    <2>2. \A a \in A \cup B : \E k \in DOMAIN q : q[k] = a
      <3>1. \A a \in A : \E k \in DOMAIN q : q[k] = a
        BY <1>4, ArrangesFacts
      <3>2. \A a \in B : \E k \in DOMAIN q : q[k] = a
        <4> TAKE a \in B
        <4>1. PICK i \in DOMAIN t : t[i] = a
          BY ArrangesFacts
        <4>2. QED
          BY <1>5, <4>1
      <3>3. QED
        BY <3>1, <3>2
    <2>3. ASSUME NEW k \in DOMAIN q, NEW j \in DOMAIN q, q[k] = q[j] PROVE k = j
      <3>1. CASE k \in DOMAIN s /\ j \in DOMAIN s
        <4>1. s[k] = s[j]
          BY <1>4, <2>3, <3>1
        <4>2. QED
          BY <3>1, <4>1 DEF Arranges
      <3>2. CASE k - m \in DOMAIN t /\ k = m + (k - m) /\ j - m \in DOMAIN t /\ j = m + (j - m)
        <4>1. t[k - m] = t[j - m]
          BY <1>5, <2>3, <3>2
        <4>2. k - m = j - m
          BY <3>2, <4>1 DEF Arranges
        <4>3. QED
          BY <3>2, <4>2
      <3>3. CASE k \in DOMAIN s /\ j - m \in DOMAIN t /\ j = m + (j - m)
        <4>1. q[k] \in A /\ q[j] \in B
          BY <1>4, <1>5, <3>3
        <4>2. QED
          BY <2>3, <4>1
      <3>4. CASE j \in DOMAIN s /\ k - m \in DOMAIN t /\ k = m + (k - m)
        <4>1. q[j] \in A /\ q[k] \in B
          BY <1>4, <1>5, <3>4
        <4>2. QED
          BY <2>3, <4>1
      <3>5. QED
        BY <1>6, <3>1, <3>2, <3>3, <3>4
    <2>4. {q[k] : k \in DOMAIN q} = A \cup B
      BY <2>1, <2>2
    <2>5. QED
      BY <1>2, <2>3, <2>4 DEF Arranges
  <1>8. ASSUME NEW a \in A, NEW b \in A PROVE <<a, b>> \in Pairs(q) <=> <<a, b>> \in Pairs(s)
    <2>1. PICK i \in DOMAIN s, j \in DOMAIN s : s[i] = a /\ s[j] = b
      BY ArrangesFacts
    <2>2. <<a, b>> \in Pairs(s) <=> i < j
      BY <2>1, PairsAre
    <2>3. i \in DOMAIN q /\ j \in DOMAIN q /\ q[i] = a /\ q[j] = b
      BY <1>4, <2>1
    <2>4. <<a, b>> \in Pairs(q) <=> i < j
      BY <1>7, <2>3, PairsAre
    <2>5. QED
      BY <2>2, <2>4
  <1>9. ASSUME NEW a \in B, NEW b \in B PROVE <<a, b>> \in Pairs(q) <=> <<a, b>> \in Pairs(t)
    <2>1. PICK i \in DOMAIN t, j \in DOMAIN t : t[i] = a /\ t[j] = b
      BY ArrangesFacts
    <2>2. <<a, b>> \in Pairs(t) <=> i < j
      BY <2>1, PairsAre
    <2>3. m + i \in DOMAIN q /\ m + j \in DOMAIN q /\ q[m + i] = a /\ q[m + j] = b
      BY <1>5, <2>1
    <2>4. <<a, b>> \in Pairs(q) <=> m + i < m + j
      BY <1>7, <2>3, PairsAre
    <2>5. m + i < m + j <=> i < j
      BY <1>1
    <2>6. QED
      BY <2>2, <2>4, <2>5
  <1>10. ASSUME NEW a \in A, NEW b \in B
         PROVE  <<a, b>> \in Pairs(q) /\ <<b, a>> \notin Pairs(q)
    <2>1. PICK i \in DOMAIN s, j \in DOMAIN t : s[i] = a /\ t[j] = b
      BY ArrangesFacts
    <2>2. i \in DOMAIN q /\ m + j \in DOMAIN q /\ q[i] = a /\ q[m + j] = b
      BY <1>4, <1>5, <2>1
    <2>3. <<a, b>> \in Pairs(q) <=> i < m + j
      BY <1>7, <2>2, PairsAre
    <2>4. i < m + j
      BY <1>1
    <2>5. <<b, a>> \in Pairs(q) <=> m + j < i
      BY <1>7, <2>2, PairsAre
    <2>6. ~(m + j < i)
      BY <1>1
    <2>7. QED
      BY <2>3, <2>4, <2>5, <2>6
  <1>11. QED
    BY <1>7, <1>8, <1>9, <1>10 DEF q

\* A sequence with two neighbours exchanged.
Exchanged(s, i, j) ==
    [k \in DOMAIN s |-> IF k = i THEN s[j] ELSE IF k = j THEN s[i] ELSE s[k]]

\* Two neighbours are the other way round, and nothing else.
Turned(t, s, p, ids) ==
    /\ Arranges(t, ids) /\ DOMAIN t = DOMAIN s /\ Len(t) = Len(s)
    /\ \A k \in DOMAIN s : k # p /\ k # p + 1 => t[k] = s[k]
    /\ t[p] = s[p + 1] /\ t[p + 1] = s[p]
    /\ <<s[p + 1], s[p]>> \in Pairs(t) /\ <<s[p], s[p + 1]>> \notin Pairs(t)
    /\ \A a, b \in ids :
         ~(a = s[p] /\ b = s[p + 1]) /\ ~(a = s[p + 1] /\ b = s[p])
             => (<<a, b>> \in Pairs(t) <=> <<a, b>> \in Pairs(s))

\* Only the two are the other way round.
LEMMA ExchangedFacts ==
    ASSUME NEW ids, NEW s, Arranges(s, ids), NEW p \in DOMAIN s, p + 1 \in DOMAIN s,
           NEW t, t = Exchanged(s, p, p + 1) \/ t = Exchanged(s, p + 1, p)
    PROVE  Turned(t, s, p, ids)
  <1> DEFINE r == p + 1
  <1>1. Len(s) \in Nat /\ DOMAIN s = 1..Len(s)
    BY ArrangesFacts
  <1>2. r \in DOMAIN s /\ p < r /\ p # r /\ \A k \in DOMAIN s : k # p /\ k # r => (k < p <=> k < r)
    BY <1>1
  <1>3. /\ DOMAIN t = DOMAIN s
        /\ \A k \in DOMAIN s : t[k] = IF k = p THEN s[r] ELSE IF k = r THEN s[p] ELSE s[k]
    BY <1>2 DEF Exchanged
  <1>4. s = [k \in DOMAIN s |-> s[k]] /\ \A k \in DOMAIN s : s[k] \in ids /\ s[k] \in Ids
    <2>1. s \in Seq(Ids)
      BY DEF Arranges
    <2>2. QED
      BY <2>1, <1>1, ArrangesFacts
  <1>5. t \in Seq(Ids) /\ Len(t) = Len(s)
    <2>1. t = [k \in DOMAIN s |-> IF k = p THEN s[r] ELSE IF k = r THEN s[p] ELSE s[k]]
          \/ t = [k \in DOMAIN s |-> IF k = r THEN s[p] ELSE IF k = p THEN s[r] ELSE s[k]]
      BY DEF Exchanged
    <2>2. t \in [1..Len(s) -> Ids]
      BY <1>1, <1>2, <1>4, <2>1
    <2>3. QED
      BY <1>1, <2>2, SeqDef
  <1>6. \A k, j \in DOMAIN s : s[k] = s[j] => k = j
    BY DEF Arranges
  <1> HIDE DEF r
  <1>7. Arranges(t, ids)
    <2>1. \A k \in DOMAIN t : t[k] \in ids
      BY <1>2, <1>3, <1>4
    <2>2. \A a \in ids : \E k \in DOMAIN t : t[k] = a
      <3> TAKE a \in ids
      <3>1. PICK i \in DOMAIN s : s[i] = a
        BY ArrangesFacts
      <3>2. QED
        BY <1>2, <1>3, <3>1
    <2>3. \A k, j \in DOMAIN t : t[k] = t[j] => k = j
      BY <1>2, <1>3, <1>6
    <2>4. {t[k] : k \in DOMAIN t} = ids
      BY <2>1, <2>2
    <2>5. QED
      BY <1>5, <2>3, <2>4 DEF Arranges
  <1>8. t[p] = s[r] /\ t[r] = s[p]
    BY <1>2, <1>3
  <1>9. <<s[r], s[p]>> \in Pairs(t) /\ <<s[p], s[r]>> \notin Pairs(t)
    <2>1. <<t[p], t[r]>> \in Pairs(t) <=> p < r
      BY <1>2, <1>3, <1>7, PairsAre
    <2>2. <<t[r], t[p]>> \in Pairs(t) <=> r < p
      BY <1>2, <1>3, <1>7, PairsAre
    <2>3. ~(r < p)
      BY <1>1, <1>2
    <2>4. QED
      BY <1>2, <1>8, <2>1, <2>2, <2>3
  <1>10. ASSUME NEW a \in ids, NEW b \in ids,
                ~(a = s[p] /\ b = s[r]), ~(a = s[r] /\ b = s[p])
         PROVE  <<a, b>> \in Pairs(t) <=> <<a, b>> \in Pairs(s)
    <2> DEFINE to(k) == IF k = p THEN r ELSE IF k = r THEN p ELSE k
    <2>1. PICK i \in DOMAIN s, j \in DOMAIN s : s[i] = a /\ s[j] = b
      BY ArrangesFacts
    <2>2. ~(i = p /\ j = r) /\ ~(i = r /\ j = p)
      BY <1>10, <2>1
    <2>3. \A k \in DOMAIN s : to(k) \in DOMAIN t /\ t[to(k)] = s[k]
      BY <1>2, <1>3
    <2>4. to(i) < to(j) <=> i < j
      <3>1. \A k \in DOMAIN s : k \in Int
        BY <1>1
      <3>2. \A k \in DOMAIN s : k # p /\ k # r => (p < k <=> r < k)
        BY <1>1 DEF r
      <3>3. QED
        BY <1>2, <2>2, <3>1, <3>2
    <2> HIDE DEF to
    <2>5. <<t[to(i)], t[to(j)]>> \in Pairs(t) <=> to(i) < to(j)
      BY <1>7, <2>3, PairsAre
    <2>6. <<s[i], s[j]>> \in Pairs(s) <=> i < j
      BY PairsAre
    <2>7. QED
      BY <2>1, <2>3, <2>4, <2>5, <2>6
  <1>11. QED
    BY <1>3, <1>5, <1>7, <1>8, <1>9, <1>10 DEF r, Turned

-----------------------------------------------------------------------------
(* What a restack makes of the order.                                      *)

\* A walk is one step after another.
WalkStep(s, chosen, to, n, k) ==
    IF to = "forward" THEN Swapped(s, chosen, n - k, n - k + 1) ELSE Swapped(s, chosen, k + 1, k)

IsWalk(w, m, painted, chosen, to, n) ==
    w = [k \in 0..m |-> IF k = 0 THEN [next |-> painted, moved |-> {}]
                        ELSE WalkStep(w[k - 1], chosen, to, n, k)]

\* There is one of any length.
LEMMA WalkExists ==
    ASSUME NEW painted, NEW chosen, NEW to, NEW n, NEW m \in Nat
    PROVE  \E w : IsWalk(w, m, painted, chosen, to, n)
  <1> DEFINE start == [next |-> painted, moved |-> {}]
             S == {k \in 0..m : \E w : IsWalk(w, k, painted, chosen, to, n)}
  <1>1. 0 \in S
    <2> DEFINE w == [k \in 0..0 |-> start]
    <2>1. IsWalk(w, 0, painted, chosen, to, n)
      <3>1. \A k \in 0..0 : k = 0
        OBVIOUS
      <3>2. QED
        BY <3>1 DEF IsWalk
    <2>2. QED
      BY <2>1
  <1>2. ASSUME NEW k \in 1..m, k - 1 \in S PROVE k \in S
    <2>1. PICK w : IsWalk(w, k - 1, painted, chosen, to, n)
      BY <1>2
    <2> DEFINE v == [i \in 0..k |-> IF i = k THEN WalkStep(w[k - 1], chosen, to, n, k) ELSE w[i]]
               e(i) == IF i = 0 THEN start ELSE WalkStep(v[i - 1], chosen, to, n, i)
    <2>2. \A i \in 0..k : v[i] = e(i)
      <3> TAKE i \in 0..k
      <3>1. CASE i = k
        <4>1. k # 0 /\ k - 1 \in 0..k /\ k - 1 # k
          OBVIOUS
        <4>2. v[k] = WalkStep(w[k - 1], chosen, to, n, k) /\ v[k - 1] = w[k - 1]
          BY <4>1
        <4> HIDE DEF v
        <4>3. QED
          BY <3>1, <4>1, <4>2
      <3>2. CASE i # k
        <4>1. i \in 0..(k - 1) /\ (i # 0 => i - 1 \in 0..k /\ i - 1 # k)
          BY <3>2
        <4>2. w[i] = IF i = 0 THEN start ELSE WalkStep(w[i - 1], chosen, to, n, i)
          BY <2>1, <4>1 DEF IsWalk
        <4>3. v[i] = w[i] /\ (i # 0 => v[i - 1] = w[i - 1])
          BY <3>2, <4>1
        <4> HIDE DEF v
        <4>4. QED
          BY <4>2, <4>3
      <3>3. QED
        BY <3>1, <3>2
    <2>3. v = [i \in 0..k |-> v[i]]
      OBVIOUS
    <2> HIDE DEF v
    <2>4. v = [i \in 0..k |-> e(i)]
      BY <2>2, <2>3
    <2>5. IsWalk(v, k, painted, chosen, to, n)
      BY <2>4 DEF IsWalk
    <2>6. QED
      BY <2>5
  <1> HIDE DEF S
  <1>3. S \in SUBSET (0..m)
    BY DEF S
  <1>4. m \in S
    <2>1. \A k \in 0..m : k \in S
      BY <1>1, <1>2, <1>3, Climb
    <2>2. QED
      BY <2>1
  <1>5. QED
    BY <1>4 DEF S

\* What Walked walks.
LEMMA WalkedFacts ==
    ASSUME NEW painted, NEW chosen, NEW to, NEW n \in Nat, n # 0, n = Len(painted)
    PROVE  \E w : /\ w[0] = [next |-> painted, moved |-> {}]
                  /\ \A k \in 1..(n - 1) : w[k] = WalkStep(w[k - 1], chosen, to, n, k)
                  /\ Walked(painted, chosen, to) = w[n - 1]
  <1> DEFINE w == CHOOSE w : IsWalk(w, n - 1, painted, chosen, to, n)
  <1>1. IsWalk(w, n - 1, painted, chosen, to, n)
    <2>1. n - 1 \in Nat
      OBVIOUS
    <2>2. \E v : IsWalk(v, n - 1, painted, chosen, to, n)
      BY <2>1, WalkExists
    <2>3. QED
      BY <2>2
  <1>2. Walked(painted, chosen, to) = w[n - 1]
    BY DEF Walked, IsWalk, WalkStep
  <1> HIDE DEF w
  <1>3. \A k \in 0..(n - 1) : w[k] = IF k = 0 THEN [next |-> painted, moved |-> {}]
                                     ELSE WalkStep(w[k - 1], chosen, to, n, k)
    BY <1>1 DEF IsWalk
  <1>4. \A k \in 1..(n - 1) : k \in 0..(n - 1) /\ k # 0
    OBVIOUS
  <1>5. w[0] = [next |-> painted, moved |-> {}]
    <2>1. 0 \in 0..(n - 1)
      OBVIOUS
    <2>2. QED
      BY <1>3, <2>1
  <1>6. QED
    BY <1>2, <1>3, <1>4, <1>5

\* What every step of a walk leaves: who has not been passed is in its order.
Stacks(s, painted, ids) ==
    /\ Arranges(s.next, ids)
    /\ Len(s.next) = Len(painted)
    /\ s.moved \subseteq ids
    /\ \A a, b \in ids \ s.moved : <<a, b>> \in Pairs(s.next) <=> <<a, b>> \in Pairs(painted)

\* One step.
LEMMA SwappedStacks ==
    ASSUME NEW ids, NEW painted, NEW chosen, NEW s, Stacks(s, painted, ids),
           NEW i \in DOMAIN s.next, NEW j \in DOMAIN s.next, j = i + 1 \/ i = j + 1
    PROVE  /\ Stacks(Swapped(s, chosen, i, j), painted, ids)
           /\ s.next[i] \in chosen /\ s.next[j] \notin chosen
                => Swapped(s, chosen, i, j).next = Exchanged(s.next, i, j)
           /\ ~(s.next[i] \in chosen /\ s.next[j] \notin chosen) => Swapped(s, chosen, i, j) = s
  <1>1. CASE ~(s.next[i] \in chosen /\ s.next[j] \notin chosen)
    BY <1>1 DEF Swapped
  <1>2. CASE s.next[i] \in chosen /\ s.next[j] \notin chosen
    <2> DEFINE t == Swapped(s, chosen, i, j)
               p == IF j = i + 1 THEN i ELSE j
    <2>1. t.next = Exchanged(s.next, i, j) /\ t.moved = s.moved \cup {s.next[j]}
      BY <1>2 DEF Swapped, Exchanged
    <2>2. Arranges(s.next, ids) /\ s.moved \subseteq ids /\ Len(s.next) = Len(painted)
      BY DEF Stacks
    <2>3. DOMAIN s.next = 1..Len(s.next) /\ s.next[i] \in ids /\ s.next[j] \in ids
      BY <2>2, ArrangesFacts
    <2>4. /\ p \in DOMAIN s.next /\ p + 1 \in DOMAIN s.next
          /\ (i = p /\ j = p + 1) \/ (i = p + 1 /\ j = p)
      BY <2>3
    <2> HIDE DEF t, p
    <2>5. t.next = Exchanged(s.next, p, p + 1) \/ t.next = Exchanged(s.next, p + 1, p)
      BY <2>1, <2>4
    <2>6. /\ Arranges(t.next, ids) /\ Len(t.next) = Len(s.next)
          /\ \A a, b \in ids :
                ~(a = s.next[p] /\ b = s.next[p + 1]) /\ ~(a = s.next[p + 1] /\ b = s.next[p])
                    => (<<a, b>> \in Pairs(t.next) <=> <<a, b>> \in Pairs(s.next))
      <3> DEFINE q == s.next
                 u == t.next
      <3>1. Arranges(q, ids) /\ p \in DOMAIN q /\ p + 1 \in DOMAIN q
        BY <2>2, <2>4
      <3>2. u = Exchanged(q, p, p + 1) \/ u = Exchanged(q, p + 1, p)
        BY <2>5
      <3> HIDE DEF q, u
      <3>3. /\ Arranges(u, ids) /\ Len(u) = Len(q)
            /\ \A a, b \in ids :
                ~(a = q[p] /\ b = q[p + 1]) /\ ~(a = q[p + 1] /\ b = q[p])
                    => (<<a, b>> \in Pairs(u) <=> <<a, b>> \in Pairs(q))
        <4>1. Turned(u, q, p, ids)
          BY <3>1, <3>2, ExchangedFacts
        <4>2. QED
          BY <4>1 DEF Turned
      <3>4. QED
        BY <3>3 DEF q, u
    <2>7. ASSUME NEW a \in ids \ t.moved, NEW b \in ids \ t.moved
          PROVE  <<a, b>> \in Pairs(t.next) <=> <<a, b>> \in Pairs(painted)
      <3>1. a # s.next[j] /\ b # s.next[j] /\ a \in ids \ s.moved /\ b \in ids \ s.moved
        BY <2>1, <2>7
      <3>2. <<a, b>> \in Pairs(t.next) <=> <<a, b>> \in Pairs(s.next)
        BY <2>4, <2>6, <3>1
      <3>3. <<a, b>> \in Pairs(s.next) <=> <<a, b>> \in Pairs(painted)
        BY <3>1 DEF Stacks
      <3>4. QED
        BY <3>2, <3>3
    <2>8. Stacks(t, painted, ids)
      BY <2>1, <2>2, <2>3, <2>6, <2>7 DEF Stacks
    <2>9. QED
      BY <1>2, <2>1, <2>8 DEF t
  <1>3. QED
    BY <1>1, <1>2

\* What a step backward is to leave below what.
LEMMA BelowBackward ==
    ASSUME NEW painted, NEW chosen, NEW i \in Int, NEW j \in Int
    PROVE  Below(painted, chosen, "backward", i, j)
             <=> IF painted[j] \in chosen
                 THEN i < j /\ (painted[i] \in chosen
                                \/ \E x \in (i + 1)..(j - 1) : painted[x] \notin chosen)
                 ELSE i < j \/ (painted[i] \in chosen
                                /\ \A x \in (j + 1)..(i - 1) : painted[x] \in chosen)
  BY DEF Below

\* And forward.
LEMMA BelowForward ==
    ASSUME NEW painted, NEW chosen, NEW i \in Int, NEW j \in Int
    PROVE  Below(painted, chosen, "forward", i, j)
             <=> IF painted[i] \in chosen
                 THEN i < j /\ (painted[j] \in chosen
                                \/ \E x \in (i + 1)..(j - 1) : painted[x] \notin chosen)
                 ELSE i < j \/ (painted[j] \in chosen
                                /\ \A x \in (j + 1)..(i - 1) : painted[x] \in chosen)
  BY DEF Below

\* Of two, one is to be below the other.
LEMMA BelowOrder ==
    ASSUME NEW painted, NEW chosen, NEW to \in {"forward", "backward"}, NEW i \in Int, NEW j \in Int
    PROVE  /\ ~Below(painted, chosen, to, i, i)
           /\ i # j => (Below(painted, chosen, to, i, j) <=> ~Below(painted, chosen, to, j, i))
  <1>1. i < j \/ i = j \/ j < i
    OBVIOUS
  <1>2. ~(i < i) /\ (i < j => ~(j < i)) /\ (j < i => ~(i < j))
    OBVIOUS
  <1>3. \A p, q \in Int : ~(p < q) => \A x \in (p + 1)..(q - 1) : FALSE
    OBVIOUS
  <1>4. CASE to = "backward"
    <2>1. ~Below(painted, chosen, to, i, i)
      BY <1>2, <1>4, BelowBackward
    <2>2. i # j => (Below(painted, chosen, to, i, j) <=> ~Below(painted, chosen, to, j, i))
      BY <1>1, <1>2, <1>4, BelowBackward
    <2>3. QED
      BY <2>1, <2>2
  <1>5. CASE to = "forward"
    <2>1. ~Below(painted, chosen, to, i, i)
      BY <1>2, <1>5, BelowForward
    <2>2. i # j => (Below(painted, chosen, to, i, j) <=> ~Below(painted, chosen, to, j, i))
      BY <1>1, <1>2, <1>5, BelowForward
    <2>3. QED
      BY <2>1, <2>2
  <1>6. QED
    BY <1>4, <1>5

\* A walk backward has restacked the first k, and not touched the others.
LowDone(s, painted, chosen, k) ==
    /\ \A p \in DOMAIN painted : k < p => s.next[p] = painted[p]
    /\ \A i, j \in DOMAIN painted :
         <<painted[i], painted[j]>> \in Pairs(s.next)
           <=> IF i <= k /\ j <= k THEN Below(painted, chosen, "backward", i, j) ELSE i < j

\* The next step takes in one more.
LEMMA LowStep ==
    ASSUME NEW ids, NEW painted, NEW chosen, NEW s, NEW k \in 1..(Len(painted) - 1),
           Arranges(painted, ids), Stacks(s, painted, ids), LowDone(s, painted, chosen, k)
    PROVE  LowDone(Swapped(s, chosen, k + 1, k), painted, chosen, k + 1)
  <1> DEFINE n == Len(painted)
             r == k + 1
             q == s.next
             t == Swapped(s, chosen, r, k)
             v == t.next
             B(i, j) == Below(painted, chosen, "backward", i, j)
  <1>1. /\ n \in Nat /\ DOMAIN painted = 1..n /\ Arranges(q, ids) /\ DOMAIN q = 1..n
        /\ \A i \in 1..n : painted[i] \in ids
        /\ \A i, j \in 1..n : painted[i] = painted[j] => i = j
        /\ \A i, j \in 1..n : q[i] = q[j] => i = j
    <2>1. Arranges(q, ids) /\ Len(q) = n
      BY DEF Stacks
    <2>2. DOMAIN q = 1..n /\ n \in Nat /\ DOMAIN painted = 1..n
      BY <2>1, ArrangesFacts
    <2>3. \A i \in 1..n : painted[i] \in ids
      BY <2>2, ArrangesFacts
    <2>4. /\ \A i, j \in DOMAIN painted : painted[i] = painted[j] => i = j
          /\ \A i, j \in DOMAIN q : q[i] = q[j] => i = j
      <3> HIDE DEF q
      <3>1. QED
        BY <2>1 DEF Arranges
    <2> HIDE DEF q
    <2>5. QED
      BY <2>1, <2>2, <2>3, <2>4
  <1>2. k \in 1..n /\ r \in 1..n /\ \A i \in 1..n : i <= r <=> i <= k \/ i = r
    BY <1>1
  <1>3. /\ \A p \in 1..n : k < p => q[p] = painted[p]
        /\ \A i, j \in 1..n : <<painted[i], painted[j]>> \in Pairs(q)
                                <=> IF i <= k /\ j <= k THEN B(i, j) ELSE i < j
    BY <1>1 DEF LowDone
  <1>4. /\ Stacks(t, painted, ids)
        /\ q[r] \in chosen /\ q[k] \notin chosen => v = Exchanged(q, r, k)
        /\ ~(q[r] \in chosen /\ q[k] \notin chosen) => t = s
    <2>1. r \in DOMAIN s.next /\ k \in DOMAIN s.next /\ (k = r + 1 \/ r = k + 1)
      BY <1>1, <1>2
    <2> HIDE DEF r
    <2>2. QED
      BY <2>1, SwappedStacks
  <1>5. q[r] = painted[r]
    BY <1>2, <1>3
  <1> HIDE DEF q, t, B, n
  <1>6. PICK m \in 1..n : painted[m] = q[k]
    <2>1. q[k] \in ids
      BY <1>1, <1>2, ArrangesFacts
    <2>2. QED
      BY <1>1, <2>1, ArrangesFacts
  <1>7. m <= k
    <2>1. k < m => q[m] = q[k]
      BY <1>3, <1>6
    <2>2. k < m => m = k
      BY <1>1, <1>2, <2>1
    <2>3. QED
      BY <1>1, <2>2
  <1>8. \A i \in 1..k : i # m => B(i, m)
    <2> SUFFICES ASSUME NEW i \in 1..k, i # m PROVE B(i, m)
      OBVIOUS
    <2>1. i \in 1..n /\ i <= k
      BY <1>1, <1>2
    <2>2. PICK p \in 1..n : q[p] = painted[i]
      <3>1. painted[i] \in ids
        BY <1>1, <2>1
      <3>2. \A a \in ids : \E p \in DOMAIN q : q[p] = a
        <4>1. Arranges(q, ids)
          BY <1>1
        <4>2. QED
          BY ONLY <4>1, ArrangesFacts
      <3>3. QED
        BY <1>1, <3>1, <3>2
    <2>3. ~(k < p)
      <3>1. k < p => painted[p] = painted[i]
        BY <1>3, <2>2
      <3>2. k < p => p = i
        BY <1>1, <2>1, <3>1
      <3>3. QED
        BY <2>1, <3>2
    <2>4. p # k
      BY <1>1, <1>6, <2>1, <2>2
    <2>5. p < k
      BY <1>1, <2>3, <2>4
    <2>6. <<q[p], q[k]>> \in Pairs(q)
      BY <1>1, <1>2, <2>5, PairsAre
    <2>7. <<painted[i], painted[m]>> \in Pairs(q)
      BY <1>6, <2>2, <2>6
    <2>8. QED
      BY <1>3, <1>7, <2>1, <2>7
  <1> DEFINE past == painted[r] \in chosen /\ painted[m] \notin chosen
  <1>9. \A i \in 1..k : B(i, r) <=> ~(past /\ i = m)
    <2> TAKE i \in 1..k
    <2>1. i \in Int /\ m \in Int /\ r \in Int /\ i < r /\ i <= k
      BY <1>1, <1>2
    <2>2. B(i, r) <=> (painted[r] \in chosen
                         => \/ painted[i] \in chosen
                            \/ \E x \in (i + 1)..(r - 1) : painted[x] \notin chosen)
      BY <2>1, BelowBackward DEF B
    <2>3. CASE painted[r] \notin chosen \/ painted[i] \in chosen
      BY <2>2, <2>3
    <2>4. CASE painted[r] \in chosen /\ painted[i] \notin chosen /\ i # m
      <3>1. B(i, m)
        BY <1>8, <2>4
      <3>2. i < m /\ (painted[m] \in chosen
                        => \E x \in (i + 1)..(m - 1) : painted[x] \notin chosen)
        BY <2>1, <2>4, <3>1, BelowBackward DEF B
      <3>3. \E x \in (i + 1)..(r - 1) : painted[x] \notin chosen
        <4>1. CASE painted[m] \notin chosen
          <5>1. m \in (i + 1)..(r - 1)
            BY <1>7, <2>1, <3>2
          <5>2. QED
            BY <4>1, <5>1
        <4>2. CASE painted[m] \in chosen
          <5>1. PICK x \in (i + 1)..(m - 1) : painted[x] \notin chosen
            BY <3>2, <4>2
          <5>2. x \in (i + 1)..(r - 1)
            BY <1>7, <2>1
          <5>3. QED
            BY <5>1, <5>2
        <4>3. QED
          BY <4>1, <4>2
      <3>4. QED
        BY <2>2, <2>4, <3>3
    <2>5. CASE painted[r] \in chosen /\ painted[i] \notin chosen /\ i = m
      <3>1. \A x \in (i + 1)..(r - 1) : painted[x] \in chosen
        <4> SUFFICES ASSUME NEW x \in (i + 1)..(r - 1), painted[x] \notin chosen PROVE FALSE
          OBVIOUS
        <4>1. x \in 1..k /\ x # m /\ m < x /\ x \in Int /\ ~(x < m)
          BY <1>1, <2>1, <2>5
        <4>2. B(x, m)
          BY <1>8, <4>1
        <4>3. QED
          BY <2>1, <2>5, <4>1, <4>2, BelowBackward DEF B
      <3>2. QED
        BY <2>2, <2>5, <3>1
    <2>6. QED
      BY <2>3, <2>4, <2>5
  <1>10. CASE past
    <2>1. v = Exchanged(q, k + 1, k) /\ k \in DOMAIN q /\ k + 1 \in DOMAIN q
      BY <1>1, <1>2, <1>4, <1>5, <1>6, <1>10
    <2>2. Turned(v, q, k, ids)
      <3> HIDE DEF v
      <3>1. QED
        BY <1>1, <2>1, ExchangedFacts
    <2> HIDE DEF v
    <2>3. \A p \in 1..n : r < p => v[p] = painted[p]
      <3> SUFFICES ASSUME NEW p \in 1..n, r < p PROVE v[p] = painted[p]
        OBVIOUS
      <3>1. k < p /\ p # k /\ p # k + 1
        BY <1>2
      <3>2. v[p] = q[p]
        BY <1>1, <2>2, <3>1 DEF Turned
      <3>3. QED
        BY <1>3, <3>1, <3>2
    <2>4. ASSUME NEW i \in 1..n, NEW j \in 1..n
          PROVE  <<painted[i], painted[j]>> \in Pairs(v)
                   <=> IF i <= r /\ j <= r THEN B(i, j) ELSE i < j
      <3>1. CASE i = m /\ j = r
        <4>1. <<painted[i], painted[j]>> \notin Pairs(v)
          BY <1>5, <1>6, <2>2, <3>1 DEF Turned
        <4>2. ~B(m, r) /\ i <= r /\ j <= r
          BY <1>1, <1>2, <1>7, <1>9, <1>10, <3>1
        <4>3. QED
          BY <3>1, <4>1, <4>2
      <3>2. CASE i = r /\ j = m
        <4>1. <<painted[i], painted[j]>> \in Pairs(v)
          BY <1>5, <1>6, <2>2, <3>2 DEF Turned
        <4>2. ~B(m, r) /\ i <= r /\ j <= r /\ m # r /\ m \in Int /\ r \in Int
          BY <1>1, <1>2, <1>7, <1>9, <1>10, <3>2
        <4>3. B(r, m)
          BY <4>2, BelowOrder DEF B
        <4>4. QED
          BY <3>2, <4>1, <4>2, <4>3
      <3>3. CASE ~(i = m /\ j = r) /\ ~(i = r /\ j = m)
        <4>1. /\ ~(painted[i] = q[k] /\ painted[j] = q[r])
              /\ ~(painted[i] = q[r] /\ painted[j] = q[k])
          BY <1>1, <1>2, <1>5, <1>6, <3>3
        <4>2. <<painted[i], painted[j]>> \in Pairs(v) <=> <<painted[i], painted[j]>> \in Pairs(q)
          BY <1>1, <2>2, <4>1 DEF Turned
        <4>3. <<painted[i], painted[j]>> \in Pairs(q)
                <=> IF i <= k /\ j <= k THEN B(i, j) ELSE i < j
          BY <1>3
        <4>4. i \in Int /\ j \in Int /\ r \in Int /\ ~(r <= k)
          BY <1>1, <1>2
        <4>5. CASE i = r /\ j = r
          BY <1>2, <4>2, <4>3, <4>4, <4>5, BelowOrder DEF B
        <4>6. CASE i <= k /\ j = r
          <5>1. i \in 1..k /\ i < r
            BY <1>1, <1>2, <4>6
          <5>2. B(i, r)
            BY <1>9, <3>3, <4>6, <5>1
          <5>3. QED
            BY <1>2, <4>2, <4>3, <4>4, <4>6, <5>1, <5>2
        <4>7. CASE i = r /\ j <= k
          <5>1. j \in 1..k /\ j < r /\ ~(r < j)
            BY <1>1, <1>2, <4>7
          <5>2. B(j, r)
            BY <1>9, <3>3, <4>7, <5>1
          <5>3. ~B(r, j)
            BY <4>4, <5>1, <5>2, BelowOrder DEF B
          <5>4. QED
            BY <1>2, <4>2, <4>3, <4>4, <4>7, <5>1, <5>3
        <4>8. CASE i <= k /\ j <= k
          BY <1>2, <4>2, <4>3, <4>8
        <4>9. CASE ~(i <= r /\ j <= r)
          BY <1>2, <4>2, <4>3, <4>9
        <4>10. QED
          BY <1>2, <4>5, <4>6, <4>7, <4>8, <4>9
      <3>4. QED
        BY <3>1, <3>2, <3>3
    <2>5. QED
      BY <1>1, <2>3, <2>4 DEF LowDone, v, t, B, n
  <1>11. CASE ~past
    <2>1. v = q
      BY <1>4, <1>5, <1>6, <1>11 DEF q
    <2> HIDE DEF v
    <2>2. \A p \in 1..n : r < p => v[p] = painted[p]
      <3>1. \A p \in 1..n : r < p => k < p
        BY <1>2
      <3>2. QED
        BY <1>3, <2>1, <3>1
    <2>3. ASSUME NEW i \in 1..n, NEW j \in 1..n
          PROVE  <<painted[i], painted[j]>> \in Pairs(v)
                   <=> IF i <= r /\ j <= r THEN B(i, j) ELSE i < j
      <3>1. <<painted[i], painted[j]>> \in Pairs(v)
                <=> IF i <= k /\ j <= k THEN B(i, j) ELSE i < j
        BY <1>3, <2>1
      <3>2. i \in Int /\ j \in Int /\ r \in Int /\ ~(r <= k)
        BY <1>1, <1>2
      <3>3. CASE i = r /\ j = r
        BY <1>2, <3>1, <3>2, <3>3, BelowOrder DEF B
      <3>4. CASE i <= k /\ j = r
        <4>1. i \in 1..k /\ i < r
          BY <1>1, <1>2, <3>4
        <4>2. B(i, r)
          BY <1>9, <1>11, <4>1
        <4>3. QED
          BY <1>2, <3>1, <3>2, <3>4, <4>1, <4>2
      <3>5. CASE i = r /\ j <= k
        <4>1. j \in 1..k /\ j < r /\ ~(r < j)
          BY <1>1, <1>2, <3>5
        <4>2. B(j, r)
          BY <1>9, <1>11, <4>1
        <4>3. ~B(r, j)
          BY <3>2, <4>1, <4>2, BelowOrder DEF B
        <4>4. QED
          BY <1>2, <3>1, <3>2, <3>5, <4>1, <4>3
      <3>6. CASE i <= k /\ j <= k
        BY <1>2, <3>1, <3>6
      <3>7. CASE ~(i <= r /\ j <= r)
        BY <1>2, <3>1, <3>7
      <3>8. QED
        BY <1>2, <3>3, <3>4, <3>5, <3>6, <3>7
    <2>4. QED
      BY <1>1, <2>2, <2>3 DEF LowDone, v, t, B, n
  <1>12. QED
    BY <1>10, <1>11

\* A walk forward has restacked what is from h on, and not touched the others.
HighDone(s, painted, chosen, h) ==
    /\ \A p \in DOMAIN painted : p < h => s.next[p] = painted[p]
    /\ \A i, j \in DOMAIN painted :
         <<painted[i], painted[j]>> \in Pairs(s.next)
           <=> IF h <= i /\ h <= j THEN Below(painted, chosen, "forward", i, j) ELSE i < j

\* The next step takes in one more.
LEMMA HighStep ==
    ASSUME NEW ids, NEW painted, NEW chosen, NEW s, NEW r \in 1..(Len(painted) - 1),
           Arranges(painted, ids), Stacks(s, painted, ids), HighDone(s, painted, chosen, r + 1)
    PROVE  HighDone(Swapped(s, chosen, r, r + 1), painted, chosen, r)
  <1> DEFINE n == Len(painted)
             h == r + 1
             q == s.next
             t == Swapped(s, chosen, r, h)
             v == t.next
             B(i, j) == Below(painted, chosen, "forward", i, j)
  <1>1. /\ n \in Nat /\ DOMAIN painted = 1..n /\ Arranges(q, ids) /\ DOMAIN q = 1..n
        /\ \A i \in 1..n : painted[i] \in ids
        /\ \A i, j \in 1..n : painted[i] = painted[j] => i = j
        /\ \A i, j \in 1..n : q[i] = q[j] => i = j
    <2>1. Arranges(q, ids) /\ Len(q) = n
      BY DEF Stacks
    <2>2. DOMAIN q = 1..n /\ n \in Nat /\ DOMAIN painted = 1..n
      BY <2>1, ArrangesFacts
    <2>3. \A i \in 1..n : painted[i] \in ids
      BY <2>2, ArrangesFacts
    <2>4. /\ \A i, j \in DOMAIN painted : painted[i] = painted[j] => i = j
          /\ \A i, j \in DOMAIN q : q[i] = q[j] => i = j
      <3> HIDE DEF q
      <3>1. QED
        BY <2>1 DEF Arranges
    <2> HIDE DEF q
    <2>5. QED
      BY <2>1, <2>2, <2>3, <2>4
  <1>2. r \in 1..n /\ h \in 1..n /\ \A i \in 1..n : r <= i <=> h <= i \/ i = r
    BY <1>1
  <1>3. /\ \A p \in 1..n : p < h => q[p] = painted[p]
        /\ \A i, j \in 1..n : <<painted[i], painted[j]>> \in Pairs(q)
                                <=> IF h <= i /\ h <= j THEN B(i, j) ELSE i < j
    BY <1>1 DEF HighDone
  <1>4. /\ Stacks(t, painted, ids)
        /\ q[r] \in chosen /\ q[h] \notin chosen => v = Exchanged(q, r, h)
        /\ ~(q[r] \in chosen /\ q[h] \notin chosen) => t = s
    <2>1. r \in DOMAIN s.next /\ h \in DOMAIN s.next /\ (h = r + 1 \/ r = h + 1)
      BY <1>1, <1>2
    <2> HIDE DEF h, t, q, v
    <2>2. /\ Stacks(Swapped(s, chosen, r, h), painted, ids)
          /\ s.next[r] \in chosen /\ s.next[h] \notin chosen
               => Swapped(s, chosen, r, h).next = Exchanged(s.next, r, h)
          /\ ~(s.next[r] \in chosen /\ s.next[h] \notin chosen) => Swapped(s, chosen, r, h) = s
      <3>1. Stacks(Swapped(s, chosen, r, h), painted, ids)
        BY <2>1, SwappedStacks
      <3>2. s.next[r] \in chosen /\ s.next[h] \notin chosen
               => Swapped(s, chosen, r, h).next = Exchanged(s.next, r, h)
        BY <2>1, SwappedStacks
      <3>3. ~(s.next[r] \in chosen /\ s.next[h] \notin chosen) => Swapped(s, chosen, r, h) = s
        BY DEF Swapped
      <3>4. QED
        BY <3>1, <3>2, <3>3
    <2>3. QED
      BY <2>2 DEF t, q, v
  <1>5. q[r] = painted[r]
    BY <1>2, <1>3
  <1> HIDE DEF q, t, B, n
  <1>6. PICK m \in 1..n : painted[m] = q[h]
    <2>1. q[h] \in ids
      BY <1>1, <1>2, ArrangesFacts
    <2>2. QED
      BY <1>1, <2>1, ArrangesFacts
  <1>7. h <= m
    <2>1. m < h => q[m] = q[h]
      BY <1>3, <1>6
    <2>2. m < h => m = h
      BY <1>1, <1>2, <2>1
    <2>3. QED
      BY <1>1, <2>2
  <1>8. \A i \in h..n : i # m => B(m, i)
    <2> SUFFICES ASSUME NEW i \in h..n, i # m PROVE B(m, i)
      OBVIOUS
    <2>1. i \in 1..n /\ h <= i
      BY <1>1, <1>2
    <2>2. PICK p \in 1..n : q[p] = painted[i]
      <3>1. painted[i] \in ids
        BY <1>1, <2>1
      <3>2. \A a \in ids : \E p \in DOMAIN q : q[p] = a
        <4>1. Arranges(q, ids)
          BY <1>1
        <4>2. QED
          BY ONLY <4>1, ArrangesFacts
      <3>3. QED
        BY <1>1, <3>1, <3>2
    <2>3. ~(p < h)
      <3>1. p < h => painted[p] = painted[i]
        BY <1>3, <2>2
      <3>2. p < h => p = i
        BY <1>1, <2>1, <3>1
      <3>3. QED
        BY <1>1, <1>2, <2>1, <3>2
    <2>4. p # h
      BY <1>1, <1>6, <2>1, <2>2
    <2>5. h < p
      BY <1>1, <2>3, <2>4
    <2>6. <<q[h], q[p]>> \in Pairs(q)
      BY <1>1, <1>2, <2>5, PairsAre
    <2>7. <<painted[m], painted[i]>> \in Pairs(q)
      BY <1>6, <2>2, <2>6
    <2>8. QED
      BY <1>3, <1>7, <2>1, <2>7
  <1> DEFINE past == painted[r] \in chosen /\ painted[m] \notin chosen
  <1>9. \A i \in h..n : B(r, i) <=> ~(past /\ i = m)
    <2> TAKE i \in h..n
    <2>1. i \in Int /\ m \in Int /\ r \in Int /\ r < i /\ h <= i
      BY <1>1, <1>2
    <2>2. B(r, i) <=> (painted[r] \in chosen
                         => \/ painted[i] \in chosen
                            \/ \E x \in (r + 1)..(i - 1) : painted[x] \notin chosen)
      BY <2>1, BelowForward DEF B
    <2>3. CASE painted[r] \notin chosen \/ painted[i] \in chosen
      BY <2>2, <2>3
    <2>4. CASE painted[r] \in chosen /\ painted[i] \notin chosen /\ i # m
      <3>1. B(m, i)
        BY <1>8, <2>4
      <3>2. m < i /\ (painted[m] \in chosen
                        => \E x \in (m + 1)..(i - 1) : painted[x] \notin chosen)
        BY <2>1, <2>4, <3>1, BelowForward DEF B
      <3>3. \E x \in (r + 1)..(i - 1) : painted[x] \notin chosen
        <4>1. CASE painted[m] \notin chosen
          <5>1. m \in (r + 1)..(i - 1)
            BY <1>7, <2>1, <3>2
          <5>2. QED
            BY <4>1, <5>1
        <4>2. CASE painted[m] \in chosen
          <5>1. PICK x \in (m + 1)..(i - 1) : painted[x] \notin chosen
            BY <3>2, <4>2
          <5>2. x \in (r + 1)..(i - 1)
            BY <1>7, <2>1
          <5>3. QED
            BY <5>1, <5>2
        <4>3. QED
          BY <4>1, <4>2
      <3>4. QED
        BY <2>2, <2>4, <3>3
    <2>5. CASE painted[r] \in chosen /\ painted[i] \notin chosen /\ i = m
      <3>1. \A x \in (r + 1)..(i - 1) : painted[x] \in chosen
        <4> SUFFICES ASSUME NEW x \in (r + 1)..(i - 1), painted[x] \notin chosen PROVE FALSE
          OBVIOUS
        <4>1. x \in h..n /\ x # m /\ x < m /\ x \in Int /\ ~(m < x)
          BY <1>1, <2>1, <2>5
        <4>2. B(m, x)
          BY <1>8, <4>1
        <4>3. QED
          BY <2>1, <2>5, <4>1, <4>2, BelowForward DEF B
      <3>2. QED
        BY <2>2, <2>5, <3>1
    <2>6. QED
      BY <2>3, <2>4, <2>5
  <1>10. \A i, j \in 1..n : i \in Int /\ j \in Int /\ r \in Int /\ ~(h <= r)
    BY <1>1, <1>2
  <1>11. ASSUME NEW i \in 1..n, NEW j \in 1..n, ~(past /\ ((i = r /\ j = m) \/ (i = m /\ j = r)))
         PROVE  (IF h <= i /\ h <= j THEN B(i, j) ELSE i < j)
                  <=> (IF r <= i /\ r <= j THEN B(i, j) ELSE i < j)
    <2>1. CASE i = r /\ j = r
      BY <1>2, <1>10, <2>1, BelowOrder DEF B
    <2>2. CASE i = r /\ h <= j
      <3>1. j \in h..n /\ r < j
        BY <1>1, <1>2, <2>2
      <3>2. B(r, j)
        <4>1. ~(past /\ j = m)
          BY <1>11, <2>2
        <4>2. QED
          BY <1>9, <3>1, <4>1
      <3>3. QED
        BY <1>2, <1>10, <2>2, <3>1, <3>2
    <2>3. CASE h <= i /\ j = r
      <3>1. i \in h..n /\ r < i /\ ~(i < r) /\ i # r
        BY <1>1, <1>2, <2>3
      <3>2. B(r, i)
        <4>1. ~(past /\ i = m)
          BY <1>11, <2>3
        <4>2. QED
          BY <1>9, <3>1, <4>1
      <3>3. ~B(i, r)
        BY <1>10, <3>1, <3>2, BelowOrder DEF B
      <3>4. QED
        BY <1>2, <1>10, <2>3, <3>1, <3>3
    <2>4. CASE h <= i /\ h <= j
      BY <1>2, <2>4
    <2>5. CASE ~(r <= i /\ r <= j)
      BY <1>2, <2>5
    <2>6. QED
      BY <1>2, <2>1, <2>2, <2>3, <2>4, <2>5
  <1>12. CASE past
    <2>1. v = Exchanged(q, r, r + 1) /\ r \in DOMAIN q /\ r + 1 \in DOMAIN q
      BY <1>1, <1>2, <1>4, <1>5, <1>6, <1>12
    <2>2. Turned(v, q, r, ids)
      <3> HIDE DEF v
      <3>1. QED
        BY <1>1, <2>1, ExchangedFacts
    <2> HIDE DEF v
    <2>3. \A p \in 1..n : p < r => v[p] = painted[p]
      <3> SUFFICES ASSUME NEW p \in 1..n, p < r PROVE v[p] = painted[p]
        OBVIOUS
      <3>1. p < h /\ p # r /\ p # r + 1
        BY <1>2
      <3>2. v[p] = q[p]
        BY <1>1, <2>2, <3>1 DEF Turned
      <3>3. QED
        BY <1>3, <3>1, <3>2
    <2>4. ASSUME NEW i \in 1..n, NEW j \in 1..n
          PROVE  <<painted[i], painted[j]>> \in Pairs(v)
                   <=> IF r <= i /\ r <= j THEN B(i, j) ELSE i < j
      <3> DEFINE own == ~B(r, m) /\ r <= m /\ r <= r /\ m # r /\ m \in Int /\ r \in Int
      <3>1. CASE i = r /\ j = m
        <4>1. <<painted[i], painted[j]>> \notin Pairs(v)
          BY <1>5, <1>6, <2>2, <3>1 DEF Turned
        <4>2. own
          BY <1>1, <1>2, <1>7, <1>9, <1>12, <3>1
        <4>3. QED
          BY <3>1, <4>1, <4>2
      <3>2. CASE i = m /\ j = r
        <4>1. <<painted[i], painted[j]>> \in Pairs(v)
          BY <1>5, <1>6, <2>2, <3>2 DEF Turned
        <4>2. own
          BY <1>1, <1>2, <1>7, <1>9, <1>12, <3>2
        <4>3. B(m, r)
          BY <4>2, BelowOrder DEF B
        <4>4. QED
          BY <3>2, <4>1, <4>2, <4>3
      <3>3. CASE ~(i = r /\ j = m) /\ ~(i = m /\ j = r)
        <4>1. /\ ~(painted[i] = q[r] /\ painted[j] = q[h])
              /\ ~(painted[i] = q[h] /\ painted[j] = q[r])
          BY <1>1, <1>2, <1>5, <1>6, <3>3
        <4>2. <<painted[i], painted[j]>> \in Pairs(v) <=> <<painted[i], painted[j]>> \in Pairs(q)
          BY <1>1, <2>2, <4>1 DEF Turned
        <4>3. <<painted[i], painted[j]>> \in Pairs(q)
                <=> IF h <= i /\ h <= j THEN B(i, j) ELSE i < j
          BY <1>3
        <4>4. QED
          BY <1>11, <3>3, <4>2, <4>3
      <3>4. QED
        BY <3>1, <3>2, <3>3
    <2>5. QED
      BY <1>1, <2>3, <2>4 DEF HighDone, v, t, B, n
  <1>13. CASE ~past
    <2>1. v = q
      BY <1>4, <1>5, <1>6, <1>13 DEF q
    <2> HIDE DEF v
    <2>2. \A p \in 1..n : p < r => v[p] = painted[p]
      <3>1. \A p \in 1..n : p < r => p < h
        BY <1>2
      <3>2. QED
        BY <1>3, <2>1, <3>1
    <2>3. ASSUME NEW i \in 1..n, NEW j \in 1..n
          PROVE  <<painted[i], painted[j]>> \in Pairs(v)
                   <=> IF r <= i /\ r <= j THEN B(i, j) ELSE i < j
      <3>1. <<painted[i], painted[j]>> \in Pairs(v)
                <=> IF h <= i /\ h <= j THEN B(i, j) ELSE i < j
        BY <1>3, <2>1
      <3>2. QED
        BY <1>11, <1>13, <3>1
    <2>4. QED
      BY <1>1, <2>2, <2>3 DEF HighDone, v, t, B, n
  <1>14. QED
    BY <1>12, <1>13

\* What a restack is to be: what was asked, and what does not move in its order.
RestackOf(r, painted, chosen, to, ids) ==
    /\ Arranges(r.next, ids) /\ r.moved \subseteq ids
    /\ \A a, b \in ids \ r.moved : <<a, b>> \in Pairs(r.next) <=> <<a, b>> \in Pairs(painted)
    /\ \A i, j \in DOMAIN painted :
         <<painted[i], painted[j]>> \in Pairs(r.next) <=> Below(painted, chosen, to, i, j)

\* To the front, and to the back.
LEMMA EndsRestack ==
    ASSUME NEW ids, NEW painted, NEW chosen \in SUBSET ids, NEW to \in {"front", "back"},
           Arranges(painted, ids)
    PROVE  RestackOf(Restacked(painted, chosen, to), painted, chosen, to, ids)
  <1> DEFINE K == {i \in DOMAIN painted : painted[i] \notin chosen}
             C == {i \in DOMAIN painted : painted[i] \in chosen}
             kept == AtPlaces(painted, K)
             lifted == AtPlaces(painted, C)
             A == {painted[i] : i \in K}
             B == {painted[i] : i \in C}
             r == Restacked(painted, chosen, to)
  <1>1. r = [next |-> IF to = "front" THEN kept \o lifted ELSE lifted \o kept, moved |-> chosen]
    BY DEF Restacked
  <1>2. /\ K \in SUBSET (DOMAIN painted) /\ C \in SUBSET (DOMAIN painted)
        /\ \A i \in DOMAIN painted : i \in C <=> i \notin K
        /\ \A i \in DOMAIN painted : i \in C <=> painted[i] \in chosen
    OBVIOUS
  <1>3. A = ids \ chosen /\ B = chosen
    BY ArrangesFacts
  <1>4. \A i \in DOMAIN painted : (i \in C => painted[i] \in B) /\ (i \in K => painted[i] \in A)
    OBVIOUS
  <1> HIDE DEF K, C
  <1>5. /\ Arranges(kept, A) /\ \A i, j \in K : <<painted[i], painted[j]>> \in Pairs(kept) <=> i < j
        /\ Arranges(lifted, B)
        /\ \A i, j \in C : <<painted[i], painted[j]>> \in Pairs(lifted) <=> i < j
    <2>1. Arranges(kept, A) /\ \A i, j \in K : <<painted[i], painted[j]>> \in Pairs(kept) <=> i < j
      BY <1>2, AtPlacesArrange
    <2>2. /\ Arranges(lifted, B)
          /\ \A i, j \in C : <<painted[i], painted[j]>> \in Pairs(lifted) <=> i < j
      BY <1>2, AtPlacesArrange
    <2>3. QED
      BY <2>1, <2>2
  <1> HIDE DEF A, B, kept, lifted, r
  <1>6. /\ Arranges(kept \o lifted, A \cup B)
        /\ \A a, b \in A : <<a, b>> \in Pairs(kept \o lifted) <=> <<a, b>> \in Pairs(kept)
        /\ \A a, b \in B : <<a, b>> \in Pairs(kept \o lifted) <=> <<a, b>> \in Pairs(lifted)
        /\ \A a \in A, b \in B :
             <<a, b>> \in Pairs(kept \o lifted) /\ <<b, a>> \notin Pairs(kept \o lifted)
    <2>1. A \cap B = {}
      BY <1>3
    <2>2. QED
      BY <1>5, <2>1, JoinedFacts
  <1>7. /\ Arranges(lifted \o kept, B \cup A)
        /\ \A a, b \in B : <<a, b>> \in Pairs(lifted \o kept) <=> <<a, b>> \in Pairs(lifted)
        /\ \A a, b \in A : <<a, b>> \in Pairs(lifted \o kept) <=> <<a, b>> \in Pairs(kept)
        /\ \A b \in B, a \in A :
             <<b, a>> \in Pairs(lifted \o kept) /\ <<a, b>> \notin Pairs(lifted \o kept)
    <2>1. B \cap A = {}
      BY <1>3
    <2>2. QED
      BY <1>5, <2>1, JoinedFacts
  <1>8. A \cup B = ids /\ B \cup A = ids
    BY <1>3
  <1>9. Arranges(r.next, ids) /\ r.moved = chosen
    BY <1>1, <1>6, <1>7, <1>8
  <1>10. ASSUME NEW i \in DOMAIN painted, NEW j \in DOMAIN painted
         PROVE  /\ <<painted[i], painted[j]>> \in Pairs(r.next) <=> Below(painted, chosen, to, i, j)
                /\ i \in K /\ j \in K => (<<painted[i], painted[j]>> \in Pairs(r.next) <=> i < j)
    <2>1. CASE to = "front"
      <3>1. r.next = kept \o lifted
        BY <1>1, <2>1
      <3>2. CASE i \in K /\ j \in K
        <4>1. <<painted[i], painted[j]>> \in Pairs(r.next) <=> i < j
          BY <1>4, <1>5, <1>6, <3>1, <3>2
        <4>2. Below(painted, chosen, to, i, j) <=> i < j
          BY <1>2, <2>1, <3>2 DEF Below
        <4>3. QED
          BY <4>1, <4>2
      <3>3. CASE i \in C /\ j \in C
        <4>1. <<painted[i], painted[j]>> \in Pairs(r.next) <=> i < j
          BY <1>4, <1>5, <1>6, <3>1, <3>3
        <4>2. Below(painted, chosen, to, i, j) <=> i < j
          BY <1>2, <2>1, <3>3 DEF Below
        <4>3. QED
          BY <1>2, <3>3, <4>1, <4>2
      <3>4. CASE i \in K /\ j \in C
        <4>1. <<painted[i], painted[j]>> \in Pairs(r.next)
          BY <1>4, <1>6, <3>1, <3>4
        <4>2. Below(painted, chosen, to, i, j)
          BY <1>2, <2>1, <3>4 DEF Below
        <4>3. QED
          BY <1>2, <3>4, <4>1, <4>2
      <3>5. CASE i \in C /\ j \in K
        <4>1. <<painted[i], painted[j]>> \notin Pairs(r.next)
          BY <1>4, <1>6, <3>1, <3>5
        <4>2. ~Below(painted, chosen, to, i, j)
          BY <1>2, <2>1, <3>5 DEF Below
        <4>3. QED
          BY <1>2, <3>5, <4>1, <4>2
      <3>6. QED
        BY <1>2, <3>2, <3>3, <3>4, <3>5
    <2>2. CASE to = "back"
      <3>1. r.next = lifted \o kept
        BY <1>1, <2>2
      <3>2. CASE i \in K /\ j \in K
        <4>1. <<painted[i], painted[j]>> \in Pairs(r.next) <=> i < j
          BY <1>4, <1>5, <1>7, <3>1, <3>2
        <4>2. Below(painted, chosen, to, i, j) <=> i < j
          BY <1>2, <2>2, <3>2 DEF Below
        <4>3. QED
          BY <4>1, <4>2
      <3>3. CASE i \in C /\ j \in C
        <4>1. <<painted[i], painted[j]>> \in Pairs(r.next) <=> i < j
          BY <1>4, <1>5, <1>7, <3>1, <3>3
        <4>2. Below(painted, chosen, to, i, j) <=> i < j
          BY <1>2, <2>2, <3>3 DEF Below
        <4>3. QED
          BY <1>2, <3>3, <4>1, <4>2
      <3>4. CASE i \in K /\ j \in C
        <4>1. <<painted[i], painted[j]>> \notin Pairs(r.next)
          BY <1>4, <1>7, <3>1, <3>4
        <4>2. ~Below(painted, chosen, to, i, j)
          BY <1>2, <2>2, <3>4 DEF Below
        <4>3. QED
          BY <1>2, <3>4, <4>1, <4>2
      <3>5. CASE i \in C /\ j \in K
        <4>1. <<painted[i], painted[j]>> \in Pairs(r.next)
          BY <1>4, <1>7, <3>1, <3>5
        <4>2. Below(painted, chosen, to, i, j)
          BY <1>2, <2>2, <3>5 DEF Below
        <4>3. QED
          BY <1>2, <3>5, <4>1, <4>2
      <3>6. QED
        BY <1>2, <3>2, <3>3, <3>4, <3>5
    <2>3. QED
      BY <2>1, <2>2
  <1>11. ASSUME NEW a \in ids \ r.moved, NEW b \in ids \ r.moved
         PROVE  <<a, b>> \in Pairs(r.next) <=> <<a, b>> \in Pairs(painted)
    <2>1. PICK i \in DOMAIN painted, j \in DOMAIN painted : painted[i] = a /\ painted[j] = b
      BY ArrangesFacts
    <2>2. i \in K /\ j \in K
      BY <1>2, <1>9, <2>1
    <2>3. <<a, b>> \in Pairs(painted) <=> i < j
      BY <2>1, PairsAre
    <2>4. QED
      BY <1>10, <2>1, <2>2, <2>3
  <1>12. QED
    BY <1>9, <1>10, <1>11 DEF RestackOf, r

\* One place forward, and backward.
LEMMA WalksRestack ==
    ASSUME NEW ids, NEW painted, NEW chosen \in SUBSET ids, NEW to \in {"forward", "backward"},
           Arranges(painted, ids), chosen # {}
    PROVE  RestackOf(Restacked(painted, chosen, to), painted, chosen, to, ids)
  <1> DEFINE n == Len(painted)
             start == [next |-> painted, moved |-> {}]
             Done(s, k) == IF to = "forward" THEN HighDone(s, painted, chosen, n - k)
                           ELSE LowDone(s, painted, chosen, k + 1)
  <1>1. n \in Nat /\ DOMAIN painted = 1..n /\ n # 0
    <2>1. n \in Nat /\ DOMAIN painted = 1..n
      BY ArrangesFacts
    <2>2. PICK a \in ids : TRUE
      OBVIOUS
    <2>3. \E i \in DOMAIN painted : painted[i] = a
      BY ArrangesFacts
    <2>4. QED
      BY <2>1, <2>3
  <1>2. PICK w : /\ w[0] = start
                 /\ \A k \in 1..(n - 1) : w[k] = WalkStep(w[k - 1], chosen, to, n, k)
                 /\ Walked(painted, chosen, to) = w[n - 1]
    BY <1>1, WalkedFacts
  <1>3. \A i, j \in 1..n : <<painted[i], painted[j]>> \in Pairs(painted) <=> i < j
    BY <1>1, PairsAre
  <1>4. Stacks(start, painted, ids) /\ Done(start, 0)
    <2>1. Stacks(start, painted, ids)
      BY DEF Stacks
    <2>2. LowDone(start, painted, chosen, 1)
      <3>1. \A i, j \in 1..n : i <= 1 /\ j <= 1 => i = 1 /\ j = 1
        OBVIOUS
      <3>2. ~Below(painted, chosen, "backward", 1, 1) /\ ~(1 < 1)
        BY BelowOrder
      <3>3. QED
        BY <1>1, <1>3, <3>1, <3>2 DEF LowDone
    <2>3. HighDone(start, painted, chosen, n)
      <3>1. \A i, j \in 1..n : n <= i /\ n <= j => i = n /\ j = n
        <4> HIDE DEF n
        <4>1. QED
          BY <1>1
      <3>2. ~Below(painted, chosen, "forward", n, n) /\ ~(n < n)
        BY <1>1, BelowOrder
      <3>3. QED
        BY <1>1, <1>3, <3>1, <3>2 DEF HighDone
    <2>4. n - 0 = n /\ 0 + 1 = 1
      BY <1>1
    <2> HIDE DEF start, n
    <2>5. QED
      BY <2>1, <2>2, <2>3, <2>4
  <1> HIDE DEF start, n
  <1> DEFINE S == {k \in 0..(n - 1) : Stacks(w[k], painted, ids) /\ Done(w[k], k)}
  <1>5. 0 \in S
    BY <1>1, <1>2, <1>4
  <1>6. ASSUME NEW k \in 1..(n - 1), k - 1 \in S PROVE k \in S
    <2> DEFINE s == w[k - 1]
    <2>1. Stacks(s, painted, ids) /\ Done(s, k - 1)
      BY <1>6
    <2>2. DOMAIN s.next = 1..n
      <3>1. Arranges(s.next, ids) /\ Len(s.next) = n
        BY <2>1 DEF Stacks, n
      <3>2. QED
        BY <3>1, ArrangesFacts
    <2>3. w[k] = WalkStep(s, chosen, to, n, k)
      BY <1>2
    <2>4. k \in 0..(n - 1)
      OBVIOUS
    <2> HIDE DEF s
    <2>5. CASE to = "forward"
      <3> DEFINE r == n - k
      <3>1. r \in 1..(n - 1) /\ r \in 1..n /\ r + 1 \in 1..n /\ n - (k - 1) = r + 1 /\ r \in Int
        BY <1>1
      <3>2. w[k] = Swapped(s, chosen, r, r + 1)
        BY <2>3, <2>5 DEF WalkStep
      <3>3. HighDone(s, painted, chosen, r + 1)
        BY <2>1, <2>5, <3>1
      <3> HIDE DEF r
      <3>4. HighDone(Swapped(s, chosen, r, r + 1), painted, chosen, r)
        BY <2>1, <3>1, <3>3, HighStep DEF n
      <3>5. Stacks(Swapped(s, chosen, r, r + 1), painted, ids)
        BY <2>1, <2>2, <3>1, SwappedStacks
      <3>6. QED
        BY <2>4, <2>5, <3>2, <3>4, <3>5 DEF r
    <2>6. CASE to = "backward"
      <3>1. k \in 1..n /\ k + 1 \in 1..n /\ (k - 1) + 1 = k /\ k \in 1..(n - 1)
        BY <1>1
      <3>2. w[k] = Swapped(s, chosen, k + 1, k)
        BY <2>3, <2>6 DEF WalkStep
      <3>3. LowDone(s, painted, chosen, k)
        BY <2>1, <2>6, <3>1
      <3>4. LowDone(Swapped(s, chosen, k + 1, k), painted, chosen, k + 1)
        BY <2>1, <3>1, <3>3, LowStep DEF n
      <3>5. Stacks(Swapped(s, chosen, k + 1, k), painted, ids)
        BY <2>1, <2>2, <3>1, SwappedStacks
      <3>6. QED
        BY <2>4, <2>6, <3>2, <3>4, <3>5
    <2>7. QED
      BY <2>5, <2>6
  <1>7. n - 1 \in 0..(n - 1) /\ n - 1 \in Nat /\ S \in SUBSET (0..(n - 1))
    BY <1>1
  <1> HIDE DEF S
  <1>8. n - 1 \in S
    BY <1>5, <1>6, <1>7, Climb
  <1> DEFINE r == w[n - 1]
  <1>9. Stacks(r, painted, ids) /\ Done(r, n - 1)
    BY <1>8 DEF S
  <1>10. r = Restacked(painted, chosen, to)
    BY <1>2 DEF Restacked
  <1> HIDE DEF r
  <1>11. \A i, j \in 1..n : <<painted[i], painted[j]>> \in Pairs(r.next)
                              <=> Below(painted, chosen, to, i, j)
    <2>1. n - (n - 1) = 1 /\ (n - 1) + 1 = n /\ \A i \in 1..n : 1 <= i /\ i <= n
      BY <1>1
    <2>2. CASE to = "forward"
      BY <1>1, <1>9, <2>1, <2>2 DEF HighDone
    <2>3. CASE to = "backward"
      BY <1>1, <1>9, <2>1, <2>3 DEF LowDone
    <2>4. QED
      BY <2>2, <2>3
  <1>12. RestackOf(r, painted, chosen, to, ids)
    BY <1>1, <1>9, <1>11 DEF RestackOf, Stacks
  <1>13. QED
    BY <1>10, <1>12

\* A restack does what was asked.
LEMMA Restacks ==
    ASSUME NEW ids, NEW painted, NEW chosen \in SUBSET ids, NEW to \in Ways,
           Arranges(painted, ids), chosen # {}
    PROVE  RestackOf(Restacked(painted, chosen, to), painted, chosen, to, ids)
  BY EndsRestack, WalksRestack DEF Ways

-----------------------------------------------------------------------------
(* What it makes of the list.                                              *)

\* Entries are numbered as they are made, and are in the list once.
ListOk(l) ==
    /\ l \in Seq(Ids \X Nat)
    /\ \A i \in DOMAIN l : l[i][2] \in 1..Len(l)
    /\ \A i, j \in DOMAIN l : l[i] = l[j] => i = j

\* A list with one entry more.
PutAt(l, r, at, e) ==
    /\ r \in Seq(Ids \X Nat) /\ Len(r) = Len(l) + 1
    /\ r[at + 1] = e
    /\ \A i \in 1..at : r[i] = l[i]
    /\ \A i \in (at + 1)..Len(l) : r[i + 1] = l[i]

\* Where it moves the others.
Shift(at, i) == IF i <= at THEN i ELSE i + 1

\* An entry goes in behind the one it was inserted after, and what the browser
\* knows of is not between the two.
LEMMA SpotFacts ==
    ASSUME NEW l \in Seq(Ids \X Nat), NEW d, NEW after \in 0..Len(l), NEW late \in BOOLEAN
    PROVE  /\ Spot(l, d, after, late) \in after..Len(l)
           /\ \A i \in (after + 1)..Spot(l, d, after, late) : l[i] \notin d.items
  <1> DEFINE next == {i \in DOMAIN l : i > after /\ l[i] \in d.items}
             at == Spot(l, d, after, late)
  <1>1. Len(l) \in Nat /\ DOMAIN l = 1..Len(l)
    OBVIOUS
  <1>2. CASE ~late
    <2>1. at = after
      BY <1>2 DEF Spot
    <2>2. QED
      BY <1>1, <2>1
  <1>3. CASE late /\ next = {}
    <2>1. at = Len(l)
      BY <1>3 DEF Spot
    <2>2. \A i \in (after + 1)..Len(l) : i \in DOMAIN l /\ i > after
      BY <1>1
    <2>3. \A i \in (after + 1)..Len(l) : i \notin next
      <3> HIDE DEF next
      <3>1. QED
        BY <1>3
    <2>4. \A i \in (after + 1)..Len(l) : l[i] \notin d.items
      BY <2>2, <2>3
    <2>5. Len(l) \in after..Len(l)
      BY <1>1
    <2> HIDE DEF at
    <2>6. QED
      BY <2>1, <2>4, <2>5 DEF at
  <1>4. CASE late /\ next # {}
    <2>1. next \in SUBSET Nat
      BY <1>1
    <2> DEFINE x == CHOOSE i \in next : \A j \in next : i <= j
    <2>2. x \in next /\ \A j \in next : x <= j
      <3> HIDE DEF next
      <3>1. \E y \in next : \A j \in next : y <= j
        BY <1>4, <2>1, Lowest
      <3>2. QED
        BY <3>1
    <2>3. at = x - 1
      BY <1>4 DEF Spot
    <2> HIDE DEF x
    <2>4. at \in after..Len(l)
      BY <1>1, <2>2, <2>3
    <2> HIDE DEF at
    <2>5. \A i \in (after + 1)..at : i \in DOMAIN l /\ i > after /\ ~(x <= i)
      BY <1>1, <2>2, <2>3
    <2>6. \A i \in (after + 1)..at : i \notin next
      <3> HIDE DEF next
      <3>1. QED
        BY <2>2, <2>5
    <2>7. QED
      BY <2>4, <2>5, <2>6 DEF at
  <1>5. QED
    BY <1>2, <1>3, <1>4

\* It is the list with one entry more.
LEMMA InsertAtPuts ==
    ASSUME NEW l \in Seq(Ids \X Nat), NEW at \in 0..Len(l), NEW e \in Ids \X Nat
    PROVE  PutAt(l, InsertAt(l, at + 1, e), at, e)
  <1> DEFINE r == InsertAt(l, at + 1, e)
             n == Len(l)
  <1>1. n \in Nat /\ DOMAIN l = 1..n /\ at \in 0..n /\ \A i \in 1..n : l[i] \in Ids \X Nat
    OBVIOUS
  <1> DEFINE T == Ids \X Nat
             u == SubSeq(l, 1, at)
             v == SubSeq(l, at + 1, n)
             w == u \o <<e>>
  <1>2. r = w \o v
    <2>1. (at + 1) - 1 = at
      BY <1>1
    <2>2. QED
      BY <2>1 DEF InsertAt
  <1>3. u \in Seq(T) /\ Len(u) = at /\ \A i \in 1..at : u[i] = l[i]
    <2>1. \A i \in 1..at : i \in 1..n
      BY <1>1
    <2>2. u \in Seq(T) /\ Len(u) = (IF 1 <= at THEN at - 1 + 1 ELSE 0)
          /\ \A i \in 1..(at - 1 + 1) : u[i] = l[1 + i - 1]
      BY <1>1, <2>1, SubSeqProperties
    <2>3. (IF 1 <= at THEN at - 1 + 1 ELSE 0) = at /\ at - 1 + 1 = at
          /\ \A i \in 1..at : 1 + i - 1 = i
      BY <1>1
    <2> HIDE DEF u
    <2>4. QED
      BY <2>2, <2>3
  <1>4. v \in Seq(T) /\ Len(v) = n - at /\ \A i \in 1..(n - at) : v[i] = l[at + i]
    <2>1. \A i \in (at + 1)..n : i \in 1..n
      BY <1>1
    <2>2. v \in Seq(T) /\ Len(v) = (IF at + 1 <= n THEN n - (at + 1) + 1 ELSE 0)
          /\ \A i \in 1..(n - (at + 1) + 1) : v[i] = l[at + 1 + i - 1]
      BY <1>1, <2>1, SubSeqProperties
    <2>3. (IF at + 1 <= n THEN n - (at + 1) + 1 ELSE 0) = n - at /\ n - (at + 1) + 1 = n - at
          /\ \A i \in 1..(n - at) : at + 1 + i - 1 = at + i
      <3> HIDE DEF n, u, v
      <3>1. QED
        BY <1>1
    <2> HIDE DEF v, n
    <2>4. QED
      BY <2>2, <2>3
  <1> HIDE DEF u, v, n
  <1>5. w \in Seq(T) /\ Len(w) = at + 1 /\ w[at + 1] = e /\ \A i \in 1..at : w[i] = l[i]
    <2>1. <<e>> \in Seq(T) /\ Len(<<e>>) = 1 /\ <<e>>[1] = e
      OBVIOUS
    <2>2. /\ w \in Seq(T) /\ Len(w) = Len(u) + Len(<<e>>)
          /\ \A i \in 1..(Len(u) + Len(<<e>>)) :
               w[i] = IF i <= Len(u) THEN u[i] ELSE <<e>>[i - Len(u)]
      BY <1>3, <2>1, ConcatProperties
    <2>3. at \in Nat /\ at + 1 \in 1..(at + 1) /\ ~(at + 1 <= at) /\ (at + 1) - at = 1
          /\ \A i \in 1..at : i \in 1..(at + 1) /\ i <= at
      BY <1>1
    <2> HIDE DEF w
    <2>4. QED
      BY <1>3, <2>1, <2>2, <2>3
  <1> HIDE DEF w
  <1>6. /\ r \in Seq(T) /\ Len(r) = n + 1
        /\ \A i \in 1..(n + 1) : r[i] = IF i <= at + 1 THEN w[i] ELSE v[i - (at + 1)]
    <2>1. /\ r \in Seq(T) /\ Len(r) = Len(w) + Len(v)
          /\ \A i \in 1..(Len(w) + Len(v)) : r[i] = IF i <= Len(w) THEN w[i] ELSE v[i - Len(w)]
      <3> HIDE DEF T, r
      <3>1. /\ w \o v \in Seq(T) /\ Len(w \o v) = Len(w) + Len(v)
            /\ \A i \in 1..(Len(w) + Len(v)) :
                 (w \o v)[i] = IF i <= Len(w) THEN w[i] ELSE v[i - Len(w)]
        BY <1>4, <1>5, ConcatProperties
      <3>2. QED
        BY <1>2, <3>1
    <2>2. Len(w) = at + 1 /\ Len(w) + Len(v) = n + 1
      BY <1>1, <1>4, <1>5
    <2> HIDE DEF r
    <2>3. QED
      BY <2>1, <2>2
  <1> HIDE DEF r
  <1>7. r[at + 1] = e
    <2>1. at + 1 \in 1..(n + 1) /\ at + 1 <= at + 1
      BY <1>1 DEF n
    <2>2. QED
      BY <1>5, <1>6, <2>1
  <1>8. \A i \in 1..at : r[i] = l[i]
    <2>1. \A i \in 1..at : i \in 1..(n + 1) /\ i <= at + 1
      BY <1>1 DEF n
    <2>2. QED
      BY <1>5, <1>6, <2>1
  <1>9. \A i \in (at + 1)..n : r[i + 1] = l[i]
    <2>1. \A i \in (at + 1)..n : /\ i + 1 \in 1..(n + 1) /\ ~(i + 1 <= at + 1)
                                 /\ (i + 1) - (at + 1) \in 1..(n - at)
                                 /\ at + ((i + 1) - (at + 1)) = i
      BY <1>1 DEF n
    <2>2. QED
      BY <1>4, <1>6, <2>1
  <1>10. QED
    BY <1>6, <1>7, <1>8, <1>9 DEF PutAt, r, n

\* The others are where they were, or one on.
Shifted(l, r, at) ==
    /\ DOMAIN r = 1..Len(r) /\ at + 1 \in DOMAIN r
    /\ \A i \in DOMAIN l : Shift(at, i) \in DOMAIN r /\ r[Shift(at, i)] = l[i]
                           /\ Shift(at, i) # at + 1
    /\ \A j \in DOMAIN r : j # at + 1 => \E i \in DOMAIN l : j = Shift(at, i)
    /\ \A i, j \in DOMAIN l : Shift(at, i) < Shift(at, j) <=> i < j
    /\ \A i \in DOMAIN l : (Shift(at, i) < at + 1 <=> i <= at)
                           /\ (at + 1 < Shift(at, i) <=> ~(i <= at))

\* That is what inserting does.
LEMMA ShiftFacts ==
    ASSUME NEW l \in Seq(Ids \X Nat), NEW at \in 0..Len(l), NEW e, NEW r, PutAt(l, r, at, e)
    PROVE  Shifted(l, r, at)
  <1>1. /\ Len(l) \in Nat /\ DOMAIN l = 1..Len(l) /\ DOMAIN r = 1..Len(r) /\ Len(r) = Len(l) + 1
        /\ \A i \in 1..at : r[i] = l[i]
        /\ \A i \in (at + 1)..Len(l) : r[i + 1] = l[i]
    <2>1. Len(l) \in Nat /\ DOMAIN l = 1..Len(l)
      OBVIOUS
    <2>2. r \in Seq(Ids \X Nat)
      BY DEF PutAt
    <2>3. DOMAIN r = 1..Len(r)
      BY <2>2
    <2>4. Len(r) = Len(l) + 1
      BY DEF PutAt
    <2>5. \A i \in 1..at : r[i] = l[i]
      BY DEF PutAt
    <2>6. \A i \in (at + 1)..Len(l) : r[i + 1] = l[i]
      BY DEF PutAt
    <2>7. QED
      BY <2>1, <2>3, <2>4, <2>5, <2>6
  <1>2. at + 1 \in DOMAIN r
    BY <1>1
  <1>3. \A i \in DOMAIN l : Shift(at, i) \in DOMAIN r /\ r[Shift(at, i)] = l[i]
                            /\ Shift(at, i) # at + 1
    <2> TAKE i \in DOMAIN l
    <2>1. CASE i <= at
      <3>1. i \in 1..at /\ i # at + 1 /\ i \in DOMAIN r
        BY <1>1, <2>1
      <3>2. QED
        BY <1>1, <2>1, <3>1 DEF Shift
    <2>2. CASE ~(i <= at)
      <3>1. i \in (at + 1)..Len(l) /\ i + 1 # at + 1 /\ i + 1 \in DOMAIN r
        BY <1>1, <2>2
      <3>2. QED
        BY <1>1, <2>2, <3>1 DEF Shift
    <2>3. QED
      BY <2>1, <2>2
  <1>4. \A j \in DOMAIN r : j # at + 1 => \E i \in DOMAIN l : j = Shift(at, i)
    <2> SUFFICES ASSUME NEW j \in DOMAIN r, j # at + 1 PROVE \E i \in DOMAIN l : j = Shift(at, i)
      OBVIOUS
    <2>1. CASE j <= at
      <3>1. j \in DOMAIN l
        BY <1>1, <2>1
      <3>2. QED
        BY <2>1, <3>1 DEF Shift
    <2>2. CASE ~(j <= at)
      <3>1. j - 1 \in DOMAIN l /\ ~(j - 1 <= at) /\ j = (j - 1) + 1
        BY <1>1, <2>2
      <3>2. QED
        BY <3>1 DEF Shift
    <2>3. QED
      BY <2>1, <2>2
  <1>5. \A i, j \in DOMAIN l : Shift(at, i) < Shift(at, j) <=> i < j
    BY <1>1 DEF Shift
  <1>6. \A i \in DOMAIN l : (Shift(at, i) < at + 1 <=> i <= at)
                            /\ (at + 1 < Shift(at, i) <=> ~(i <= at))
    BY <1>1 DEF Shift
  <1>7. QED
    BY <1>1, <1>2, <1>3, <1>4, <1>5, <1>6 DEF Shifted

\* The entries there are.
In(l) == {l[i] : i \in DOMAIN l}

\* A new entry was not in the list, and is now, like the others.
LEMMA PutIsOk ==
    ASSUME NEW l, ListOk(l), NEW at \in 0..Len(l), NEW id \in Ids, NEW r,
           PutAt(l, r, at, NewEntry(l, id))
    PROVE  /\ ListOk(r)
           /\ NewEntry(l, id) \in Ids \X Nat /\ NewEntry(l, id) \notin In(l)
           /\ NewEntry(l, id)[1] = id
           /\ \A x \in In(l) : x[2] < NewEntry(l, id)[2]
           /\ In(r) = In(l) \cup {NewEntry(l, id)}
  <1> DEFINE e == NewEntry(l, id)
             n == Len(l)
  <1>1. n \in Nat /\ l \in Seq(Ids \X Nat) /\ DOMAIN l = 1..n
    BY DEF ListOk
  <1>2. e \in Ids \X Nat /\ e[1] = id /\ e[2] = n + 1
    BY <1>1 DEF NewEntry
  <1>3. \A i \in DOMAIN l : /\ l[i] \in Ids \X Nat /\ l[i][2] \in Nat
                            /\ l[i][2] <= n /\ l[i][2] < n + 1
    <2>1. \A i \in DOMAIN l : l[i] \in Ids \X Nat
      BY <1>1
    <2>2. \A i \in DOMAIN l : l[i][2] \in 1..n
      BY DEF ListOk
    <2>3. QED
      BY <1>1, <2>1, <2>2
  <1> DEFINE f(i) == Shift(at, i)
  <1>4. /\ r \in Seq(Ids \X Nat) /\ Len(r) = n + 1 /\ r[at + 1] = e
    BY DEF PutAt
  <1>5. /\ DOMAIN r = 1..Len(r) /\ at + 1 \in DOMAIN r
        /\ \A i \in DOMAIN l : f(i) \in DOMAIN r /\ r[f(i)] = l[i] /\ f(i) # at + 1
        /\ \A j \in DOMAIN r : j # at + 1 => \E i \in DOMAIN l : j = f(i)
    <2>1. Shifted(l, r, at)
      BY <1>1, ShiftFacts
    <2>2. QED
      BY <2>1 DEF Shifted
  <1> HIDE DEF e, n, f
  <1>6. \A x \in In(l) : x[2] < e[2] /\ x # e
    <2>1. \A i \in DOMAIN l : l[i][2] < e[2] /\ l[i][2] # e[2]
      BY <1>1, <1>2, <1>3
    <2>2. QED
      BY <2>1 DEF In
  <1>7. In(r) = In(l) \cup {e}
    <2>1. \A j \in DOMAIN r : r[j] \in In(l) \cup {e}
      BY <1>4, <1>5 DEF In
    <2>2. \A x \in In(l) \cup {e} : \E j \in DOMAIN r : r[j] = x
      BY <1>4, <1>5 DEF In
    <2>3. QED
      BY <2>1, <2>2 DEF In
  <1>8. ListOk(r)
    <2>1. \A j \in DOMAIN r : r[j][2] \in 1..Len(r)
      <3>1. \A x \in In(l) \cup {e} : x[2] \in 1..(n + 1)
        <4>1. \A i \in DOMAIN l : l[i][2] \in 1..(n + 1)
          <5>1. \A i \in DOMAIN l : l[i][2] \in 1..n
            BY DEF ListOk, n
          <5>2. QED
            BY <1>1, <5>1
        <4>2. e[2] \in 1..(n + 1)
          BY <1>1, <1>2
        <4>3. QED
          BY <4>1, <4>2 DEF In
      <3>2. QED
        BY <1>4, <1>7, <3>1 DEF In
    <2>2. ASSUME NEW j \in DOMAIN r, NEW k \in DOMAIN r, r[j] = r[k] PROVE j = k
      <3>1. CASE j = at + 1 /\ k # at + 1
        <4>1. r[k] \in In(l)
          BY <1>5, <3>1 DEF In
        <4>2. QED
          BY <1>4, <1>6, <2>2, <3>1, <4>1
      <3>2. CASE j # at + 1 /\ k = at + 1
        <4>1. r[j] \in In(l)
          BY <1>5, <3>2 DEF In
        <4>2. QED
          BY <1>4, <1>6, <2>2, <3>2, <4>1
      <3>3. CASE j # at + 1 /\ k # at + 1
        <4>1. PICK i \in DOMAIN l, m \in DOMAIN l : j = f(i) /\ k = f(m)
          BY <1>5, <3>3
        <4>2. l[i] = l[m]
          BY <1>5, <2>2, <4>1
        <4>3. i = m
          BY <4>2 DEF ListOk
        <4>4. QED
          BY <4>1, <4>3
      <3>4. QED
        BY <3>1, <3>2, <3>3
    <2>3. QED
      BY <1>4, <2>1, <2>2 DEF ListOk
  <1>9. QED
    BY <1>2, <1>6, <1>7, <1>8 DEF e

Documents == [items : SUBSET (Ids \X Nat), gone : SUBSET (Ids \X Nat),
         made : SUBSET Ids, removed : SUBSET Ids]

\* A document over a list: what was deleted had been there.
Over(l, d) == d \in Documents /\ d.items \subseteq In(l) /\ d.gone \subseteq d.items

\* Every element has an entry, and the newest of its entries is one there is, until
\* the element is removed: that is what two browsers that meet agree on.
DocOk(l, d) ==
    /\ Over(l, d) /\ d.removed \subseteq d.made
    /\ \A id \in d.made : \E e \in d.items : e[1] = id
    /\ \A e \in d.gone : e[1] \in d.removed \/ \E f \in d.items : f[1] = e[1] /\ e[2] < f[2]

\* So every element there is has an entry there is.
LEMMA DocListed ==
    ASSUME NEW l, NEW d, ListOk(l), DocOk(l, d)
    PROVE  Listed(l, d)
  <1> SUFFICES ASSUME NEW id \in Alive(d) PROVE PlacesOf(l, d, id) # {}
    BY DEF Listed
  <1> DEFINE E == {e \in d.items : e[1] = id}
             S == {e[2] : e \in E}
  <1>1. /\ Len(l) \in Nat /\ DOMAIN l = 1..Len(l) /\ d.items \subseteq In(l)
        /\ \A i \in DOMAIN l : l[i][2] \in Nat /\ l[i][2] <= Len(l)
    <2>1. l \in Seq(Ids \X Nat) /\ d.items \subseteq In(l)
      BY DEF ListOk, DocOk, Over
    <2>2. \A i \in DOMAIN l : l[i][2] \in 1..Len(l)
      BY DEF ListOk
    <2>3. QED
      BY <2>1, <2>2
  <1>2. \A e \in E : e[2] \in 0..Len(l) /\ \E i \in DOMAIN l : l[i] = e
    BY <1>1 DEF In
  <1>3. E # {}
    BY DEF Alive, DocOk
  <1> HIDE DEF E
  <1>4. S \in SUBSET (0..Len(l)) /\ S # {}
    BY <1>2, <1>3
  <1>5. PICK m \in S : \A z \in S : z <= m
    <2> HIDE DEF S
    <2>1. QED
      BY <1>1, <1>4, Highest
  <1>6. PICK e \in E : e[2] = m
    OBVIOUS
  <1>7. \A f \in E : ~(e[2] < f[2])
    <2> TAKE f \in E
    <2>1. f[2] \in S
      OBVIOUS
    <2> HIDE DEF S
    <2>2. f[2] <= e[2] /\ f[2] \in Nat /\ e[2] \in Nat
      BY <1>2, <1>5, <1>6, <2>1
    <2>3. QED
      BY <2>2
  <1>8. e \in d.items /\ e[1] = id /\ id \notin d.removed
    BY DEF E, Alive
  <1>9. e \notin d.gone
    <2>1. \A f \in d.items : f[1] = e[1] => f \in E
      BY <1>8 DEF E
    <2>2. QED
      BY <1>7, <1>8, <2>1 DEF DocOk
  <1>10. PICK i \in DOMAIN l : l[i] = e
    BY <1>2
  <1>11. i \in PlacesOf(l, d, id)
    BY <1>8, <1>9, <1>10 DEF PlacesOf, Places
  <1>12. QED
    BY <1>11

\* A document is one over any list with more entries.
LEMMA DocGrows ==
    ASSUME NEW l, NEW r, NEW d, DocOk(l, d), In(l) \subseteq In(r)
    PROVE  DocOk(r, d)
  BY DEF DocOk, Over

\* A new entry is first for its id, if it has no other, and the others are where
\* the list has moved them.
FirstsMoved(l, d, r, dd, at, id) ==
    /\ \A b : b # id /\ PlacesOf(l, d, b) # {}
                => /\ PlacesOf(r, dd, b) # {}
                   /\ FirstPlace(r, dd, b) = Shift(at, FirstPlace(l, d, b))
    /\ PlacesOf(l, d, id) = {} => PlacesOf(r, dd, id) # {} /\ FirstPlace(r, dd, id) = at + 1

\* That is what inserting does.
LEMMA FirstMoves ==
    ASSUME NEW l, ListOk(l), NEW d, Over(l, d), NEW at \in 0..Len(l), NEW id \in Ids,
           NEW r, PutAt(l, r, at, NewEntry(l, id)),
           NEW dd, dd.items = d.items \cup {NewEntry(l, id)}, dd.gone = d.gone
    PROVE  FirstsMoved(l, d, r, dd, at, id)
  <1> DEFINE e == NewEntry(l, id)
             f(i) == Shift(at, i)
  <1>1. l \in Seq(Ids \X Nat) /\ Len(l) \in Nat /\ DOMAIN l = 1..Len(l)
    BY DEF ListOk
  <1>2. r \in Seq(Ids \X Nat) /\ r[at + 1] = e /\ e[1] = id /\ e \notin In(l)
    <2>1. r \in Seq(Ids \X Nat) /\ r[at + 1] = e
      BY DEF PutAt
    <2>2. e[1] = id /\ e \notin In(l)
      BY PutIsOk
    <2>3. QED
      BY <2>1, <2>2
  <1>3. /\ DOMAIN r = 1..Len(r) /\ at + 1 \in DOMAIN r
        /\ \A i \in DOMAIN l : f(i) \in DOMAIN r /\ r[f(i)] = l[i] /\ f(i) # at + 1
        /\ \A j \in DOMAIN r : j # at + 1 => \E i \in DOMAIN l : j = f(i)
        /\ \A i, j \in DOMAIN l : f(i) < f(j) <=> i < j
    <2>1. Shifted(l, r, at)
      BY <1>1, ShiftFacts
    <2>2. QED
      BY <2>1 DEF Shifted
  <1>4. Len(r) \in Nat
    BY <1>2
  <1>5. dd.items = d.items \cup {e} /\ dd.gone = d.gone
    OBVIOUS
  <1> HIDE DEF e, f
  <1>6. \A i \in DOMAIN l : l[i] \in dd.items \ dd.gone <=> l[i] \in d.items \ d.gone
    <2>1. \A i \in DOMAIN l : l[i] # e
      BY <1>2 DEF In
    <2>2. QED
      BY <1>5, <2>1
  <1>7. e \in dd.items \ dd.gone
    BY <1>2, <1>5 DEF Over
  <1>8. \A b : \A i \in DOMAIN l : i \in PlacesOf(l, d, b) <=> f(i) \in PlacesOf(r, dd, b)
    BY <1>3, <1>6 DEF PlacesOf, Places
  <1>9. \A b : at + 1 \in PlacesOf(r, dd, b) <=> b = id
    BY <1>2, <1>3, <1>7 DEF PlacesOf, Places
  <1>10. \A b : \A j \in PlacesOf(r, dd, b) : j \in DOMAIN r
    BY DEF PlacesOf, Places
  <1>11. ASSUME NEW b, b # id, PlacesOf(l, d, b) # {}
         PROVE  PlacesOf(r, dd, b) # {} /\ FirstPlace(r, dd, b) = f(FirstPlace(l, d, b))
    <2> DEFINE p == FirstPlace(l, d, b)
    <2>1. p \in PlacesOf(l, d, b) /\ p \in DOMAIN l /\ \A j \in PlacesOf(l, d, b) : p <= j
      BY <1>1, <1>11, FirstFacts
    <2> HIDE DEF p
    <2>2. f(p) \in PlacesOf(r, dd, b)
      BY <1>8, <2>1
    <2>3. \A j \in PlacesOf(r, dd, b) : f(p) <= j
      <3> TAKE j \in PlacesOf(r, dd, b)
      <3>1. j \in DOMAIN r /\ j # at + 1
        BY <1>9, <1>10, <1>11
      <3>2. PICK i \in DOMAIN l : j = f(i)
        BY <1>3, <3>1
      <3>3. i \in PlacesOf(l, d, b)
        BY <1>8, <3>2
      <3>4. p <= i
        BY <2>1, <3>3
      <3>5. ~(i < p)
        BY <1>1, <2>1, <3>4
      <3>6. ~(f(i) < f(p))
        BY <1>3, <2>1, <3>5
      <3>7. f(i) \in Int /\ f(p) \in Int
        BY <1>3, <1>4, <2>1
      <3>8. QED
        BY <3>2, <3>6, <3>7
    <2>4. FirstPlace(r, dd, b) = f(p)
      BY <1>2, <2>2, <2>3, FirstIs
    <2>5. QED
      BY <2>2, <2>4 DEF p
  <1>12. ASSUME PlacesOf(l, d, id) = {}
         PROVE  PlacesOf(r, dd, id) # {} /\ FirstPlace(r, dd, id) = at + 1
    <2>1. at + 1 \in PlacesOf(r, dd, id)
      BY <1>9
    <2>2. \A j \in PlacesOf(r, dd, id) : j = at + 1
      BY <1>3, <1>8, <1>10, <1>12
    <2>3. \A j \in PlacesOf(r, dd, id) : at + 1 <= j
      BY <1>1, <2>2
    <2>4. FirstPlace(r, dd, id) = at + 1
      BY <1>2, <2>1, <2>3, FirstIs
    <2>5. QED
      BY <2>1, <2>4
  <1>13. QED
    BY <1>11, <1>12 DEF f, FirstsMoved

\* What takes an id's entries out leaves the others'.
LEMMA DelistedFacts ==
    ASSUME NEW s, NEW x \in Ids, ListOk(s.list), Over(s.list, s.doc)
    PROVE  /\ Delisted(s, x).list = s.list
           /\ Over(s.list, Delisted(s, x).doc)
           /\ Delisted(s, x).doc.items = s.doc.items
           /\ Delisted(s, x).doc.gone = s.doc.gone \cup Visible(s, x)
           /\ Delisted(s, x).doc.made = s.doc.made
           /\ Delisted(s, x).doc.removed = s.doc.removed
           /\ PlacesOf(s.list, Delisted(s, x).doc, x) = {}
           /\ \A b : b # x => PlacesOf(s.list, Delisted(s, x).doc, b) = PlacesOf(s.list, s.doc, b)
  <1> DEFINE d == s.doc
             out == Delisted(s, x)
             o == out.doc
  <1>1. d \in Documents /\ d.items \subseteq In(s.list) /\ d.gone \subseteq d.items
    BY DEF Over
  <1>2. Visible(s, x) = {e \in d.items \ d.gone : e[1] = x}
    BY DEF Visible
  <1>3. out.list = s.list /\ o = [d EXCEPT !.gone = d.gone \cup Visible(s, x)]
    BY DEF Delisted
  <1> HIDE DEF d, o, out
  <1>4. /\ o.items = d.items /\ o.gone = d.gone \cup Visible(s, x)
        /\ o.made = d.made /\ o.removed = d.removed
    BY <1>1, <1>3 DEF Documents
  <1>5. o \in Documents
    <2>1. Visible(s, x) \subseteq Ids \X Nat
      BY <1>1, <1>2 DEF Documents
    <2>2. QED
      BY <1>1, <1>3, <2>1 DEF Documents
  <1>6. Over(s.list, o)
    BY <1>1, <1>2, <1>4, <1>5 DEF Over
  <1>7. PlacesOf(s.list, o, x) = {}
    BY <1>2, <1>4 DEF PlacesOf, Places
  <1>8. ASSUME NEW b, b # x PROVE PlacesOf(s.list, o, b) = PlacesOf(s.list, d, b)
    BY <1>2, <1>4, <1>8 DEF PlacesOf, Places
  <1>9. QED
    BY <1>3, <1>4, <1>6, <1>7, <1>8 DEF d, o, out

\* An insertion: where it can go, and what it leaves.
InsertedAs(s, t, id, after, at) ==
    /\ at \in 0..Len(s.list)
    /\ \A i \in (after + 1)..at : s.list[i] \notin s.doc.items
    /\ PutAt(s.list, t.list, at, NewEntry(s.list, id))
    /\ Over(t.list, t.doc)
    /\ t.doc.items = s.doc.items \cup {NewEntry(s.list, id)}
    /\ t.doc.gone = s.doc.gone /\ t.doc.made = s.doc.made /\ t.doc.removed = s.doc.removed

\* Every insertion is such a one.
LEMMA InsertedFacts ==
    ASSUME NEW s, NEW id \in Ids, ListOk(s.list), Over(s.list, s.doc),
           NEW after \in 0..Len(s.list), NEW late \in BOOLEAN
    PROVE  \E at \in after..Len(s.list) :
             InsertedAs(s, Inserted(s, id, after, late), id, after, at)
  <1> DEFINE l == s.list
             d == s.doc
             e == NewEntry(l, id)
             at == Spot(l, d, after, late)
             t == Inserted(s, id, after, late)
             r == t.list
             o == t.doc
  <1>1. l \in Seq(Ids \X Nat) /\ Len(l) \in Nat
    BY DEF ListOk
  <1>2. at \in after..Len(l) /\ \A i \in (after + 1)..at : l[i] \notin d.items
    <2> HIDE DEF l, d, at
    <2>1. after \in 0..Len(l)
      BY DEF l
    <2>2. QED
      BY <1>1, <2>1, SpotFacts DEF at
  <1>3. at \in 0..Len(l)
    <2> HIDE DEF at
    <2>1. QED
      BY <1>1, <1>2
  <1>4. r = InsertAt(l, at + 1, e) /\ o = [d EXCEPT !.items = d.items \cup {e}]
    BY DEF Inserted
  <1>5. e \in Ids \X Nat
    BY <1>1 DEF NewEntry
  <1>6. d \in Documents /\ d.items \subseteq In(l) /\ d.gone \subseteq d.items
    BY DEF Over
  <1> HIDE DEF l, d, e, at, t, r, o
  <1>7. PutAt(l, r, at, e)
    BY <1>1, <1>3, <1>4, <1>5, InsertAtPuts
  <1>8. /\ o.items = d.items \cup {e} /\ o.gone = d.gone
        /\ o.made = d.made /\ o.removed = d.removed
    BY <1>4, <1>6 DEF Documents
  <1>9. o \in Documents
    BY <1>4, <1>5, <1>6 DEF Documents
  <1>10. In(r) = In(l) \cup {e}
    BY <1>3, <1>7, PutIsOk DEF l, e
  <1>11. Over(r, o)
    BY <1>6, <1>8, <1>9, <1>10 DEF Over
  <1>12. QED
    BY <1>2, <1>3, <1>7, <1>8, <1>11 DEF l, d, e, at, t, r, o, InsertedAs

\* Placing is under way: the documents are sound, and what has been placed, or is
\* not to move, is in its order.
Final(next, moved, k, a) == a \notin moved \/ \E m \in 1..k : next[m] = a

Placing(s, next, moved, k, ids) ==
    /\ ListOk(s.list) /\ DocOk(s.list, s.doc) /\ Alive(s.doc) = ids
    /\ \A a, b \in ids : Final(next, moved, k, a) /\ Final(next, moved, k, b)
         => (FirstPlace(s.list, s.doc, a) < FirstPlace(s.list, s.doc, b)
               <=> <<a, b>> \in Pairs(next))

\* An entry that replaces an id's others keeps the document sound.
LEMMA ReplacedIsOk ==
    ASSUME NEW s, NEW x \in Ids, ListOk(s.list), DocOk(s.list, s.doc), NEW r, NEW o,
           NEW at \in 0..Len(s.list), PutAt(s.list, r, at, NewEntry(s.list, x)), Over(r, o),
           o.items = s.doc.items \cup {NewEntry(s.list, x)},
           o.gone = s.doc.gone \cup Visible(s, x),
           o.made = s.doc.made, o.removed = s.doc.removed
    PROVE  ListOk(r) /\ DocOk(r, o) /\ In(s.list) \subseteq In(r) /\ Alive(o) = Alive(s.doc)
  <1> DEFINE l == s.list
             d == s.doc
             e == NewEntry(l, x)
  <1>1. /\ ListOk(r) /\ e[1] = x /\ \A y \in In(l) : y[2] < e[2]
        /\ In(r) = In(l) \cup {e}
    BY PutIsOk
  <1>2. /\ o.items = d.items \cup {e} /\ o.gone = d.gone \cup {y \in d.items \ d.gone : y[1] = x}
        /\ o.made = d.made /\ o.removed = d.removed
    BY DEF Visible
  <1>3. DocOk(l, d)
    OBVIOUS
  <1> HIDE DEF l, d, e
  <1>4. d.items \subseteq In(l) /\ d.gone \subseteq d.items
    BY <1>3 DEF DocOk, Over
  <1>5. o.removed \subseteq o.made /\ \A id \in o.made : \E y \in o.items : y[1] = id
    BY <1>2, <1>3 DEF DocOk
  <1>6. ASSUME NEW y \in o.gone
        PROVE  y[1] \in o.removed \/ \E f \in o.items : f[1] = y[1] /\ y[2] < f[2]
    <2>1. CASE y \in d.gone
      BY <1>2, <1>3, <2>1 DEF DocOk
    <2>2. CASE y \in d.items \ d.gone /\ y[1] = x
      <3>1. e \in o.items /\ e[1] = y[1] /\ y[2] < e[2]
        BY <1>1, <1>2, <1>4, <2>2
      <3>2. QED
        BY <3>1
    <2>3. QED
      BY <1>2, <2>1, <2>2
  <1>7. DocOk(r, o)
    BY <1>5, <1>6 DEF DocOk
  <1>8. Alive(o) = Alive(d)
    BY <1>2 DEF Alive
  <1>9. QED
    BY <1>1, <1>7, <1>8 DEF l, d

\* "Whatever each one is placed after is already final."
LEMMA PlacedOneFacts ==
    ASSUME NEW ids \in SUBSET Ids, NEW next, Arranges(next, ids), NEW moved \in SUBSET ids,
           NEW i \in DOMAIN next, NEW late \in BOOLEAN, NEW s, Placing(s, next, moved, i - 1, ids)
    PROVE  /\ Placing(PlacedOne(s, next, moved, i, late), next, moved, i, ids)
           /\ In(s.list) \subseteq In(PlacedOne(s, next, moved, i, late).list)
  <1> DEFINE l == s.list
             d == s.doc
             x == next[i]
             t == PlacedOne(s, next, moved, i, late)
  <1>1. /\ ListOk(l) /\ DocOk(l, d) /\ Alive(d) = ids
        /\ \A a, b \in ids : Final(next, moved, i - 1, a) /\ Final(next, moved, i - 1, b)
             => (FirstPlace(l, d, a) < FirstPlace(l, d, b) <=> <<a, b>> \in Pairs(next))
    BY DEF Placing
  <1>2. Len(next) \in Nat /\ DOMAIN next = 1..Len(next) /\ x \in ids
    BY ArrangesFacts
  <1>3. \A a : Final(next, moved, i, a) /\ a # x => Final(next, moved, i - 1, a)
    <2>1. \A m \in 1..i : m # i => m \in 1..(i - 1)
      BY <1>2
    <2>2. QED
      BY <2>1 DEF Final
  <1>4. CASE x \notin moved
    <2>1. t = s
      BY <1>4 DEF PlacedOne
    <2>2. \A a : Final(next, moved, i, a) => Final(next, moved, i - 1, a)
      BY <1>3, <1>4 DEF Final
    <2> HIDE DEF t
    <2>3. Placing(t, next, moved, i, ids)
      BY <1>1, <2>1, <2>2 DEF Placing
    <2>4. QED
      BY <2>1, <2>3 DEF t
  <1>5. CASE x \in moved
    <2> DEFINE out == Delisted(s, x)
               o == out.doc
               after == IF i = 1 THEN 0 ELSE FirstPlace(out.list, o, next[i - 1])
    <2>1. t = Inserted(out, x, after, late)
      BY <1>5 DEF PlacedOne
    <2>2. Over(l, d) /\ x \in Ids
      BY <1>1, <1>2 DEF DocOk
    <2>3. /\ out.list = l /\ Over(l, o) /\ o.items = d.items /\ o.gone = d.gone \cup Visible(s, x)
          /\ o.made = d.made /\ o.removed = d.removed
          /\ PlacesOf(l, o, x) = {}
          /\ \A b : b # x => PlacesOf(l, o, b) = PlacesOf(l, d, b)
      BY <1>1, <2>2, DelistedFacts
    <2> HIDE DEF out, o, t
    <2>4. l \in Seq(Ids \X Nat) /\ Len(l) \in Nat /\ DOMAIN l = 1..Len(l)
      BY <1>1 DEF ListOk
    <2> DEFINE first(b) == FirstPlace(l, o, b)
    <2>5. \A b \in ids : b # x => /\ PlacesOf(l, o, b) # {}
                                  /\ first(b) = FirstPlace(l, d, b)
                                  /\ first(b) \in 1..Len(l) /\ l[first(b)][1] = b
                                  /\ l[first(b)] \in o.items
      <3> SUFFICES ASSUME NEW b \in ids, b # x
                   PROVE  /\ PlacesOf(l, o, b) # {} /\ first(b) = FirstPlace(l, d, b)
                          /\ first(b) \in 1..Len(l) /\ l[first(b)][1] = b
                          /\ l[first(b)] \in o.items
        OBVIOUS
      <3>1. Listed(l, d)
        BY <1>1, DocListed
      <3>2. PlacesOf(l, o, b) # {}
        BY <1>1, <2>3, <3>1 DEF Listed
      <3>3. first(b) = FirstPlace(l, d, b)
        BY <2>3 DEF FirstPlace
      <3>4. first(b) \in 1..Len(l) /\ l[first(b)][1] = b /\ l[first(b)] \in o.items \ o.gone
        BY <2>4, <3>2, FirstFacts
      <3>5. QED
        BY <3>2, <3>3, <3>4
    <2>6. after \in 0..Len(l) /\ (i # 1 => after = first(next[i - 1]))
      <3>1. CASE i = 1
        BY <2>4, <3>1
      <3>2. CASE i # 1
        <4>1. i - 1 \in DOMAIN next /\ i - 1 # i
          BY <1>2, <3>2
        <4>2. next[i - 1] \in ids /\ next[i - 1] # x
          BY <4>1, ArrangesFacts DEF Arranges
        <4>3. first(next[i - 1]) \in 0..Len(l)
          BY <2>4, <2>5, <4>2
        <4>4. QED
          BY <2>3, <3>2, <4>3
      <3>3. QED
        BY <3>1, <3>2
    <2> HIDE DEF after
    <2>7. PICK at \in after..Len(l) :
             /\ at \in 0..Len(l)
             /\ \A j \in (after + 1)..at : l[j] \notin o.items
             /\ PutAt(l, t.list, at, NewEntry(l, x))
             /\ Over(t.list, t.doc)
             /\ t.doc.items = o.items \cup {NewEntry(l, x)}
             /\ t.doc.gone = o.gone /\ t.doc.made = o.made /\ t.doc.removed = o.removed
      <3>1. ListOk(out.list) /\ Over(out.list, out.doc) /\ after \in 0..Len(out.list)
        BY <1>1, <2>3, <2>6 DEF o
      <3>2. \E at \in after..Len(out.list) :
              InsertedAs(out, Inserted(out, x, after, late), x, after, at)
        BY <2>2, <3>1, InsertedFacts
      <3>3. PICK at \in after..Len(l) : InsertedAs(out, t, x, after, at)
        BY <2>1, <2>3, <3>2
      <3>4. QED
        BY <2>3, <3>3 DEF o, InsertedAs
    <2> DEFINE r == t.list
               dd == t.doc
               now(b) == FirstPlace(r, dd, b)
    <2>8. ListOk(r) /\ DocOk(r, dd) /\ In(l) \subseteq In(r) /\ Alive(dd) = Alive(d)
      <3> HIDE DEF r, dd
      <3>1. /\ PutAt(s.list, r, at, NewEntry(s.list, x)) /\ Over(r, dd)
            /\ at \in 0..Len(s.list)
            /\ dd.items = s.doc.items \cup {NewEntry(s.list, x)}
            /\ dd.gone = s.doc.gone \cup Visible(s, x)
            /\ dd.made = s.doc.made /\ dd.removed = s.doc.removed
        BY <2>3, <2>7 DEF r, dd
      <3>2. QED
        BY <1>1, <2>2, <3>1, ReplacedIsOk
    <2>9. /\ \A b \in ids : b # x => now(b) = Shift(at, first(b))
          /\ now(x) = at + 1
      <3>1. FirstsMoved(l, o, r, dd, at, x)
        <4> HIDE DEF l, r, dd
        <4>1. dd.items = o.items \cup {NewEntry(l, x)} /\ dd.gone = o.gone
          BY <2>7 DEF dd
        <4>2. PutAt(l, r, at, NewEntry(l, x)) /\ at \in 0..Len(l)
          BY <2>7 DEF r
        <4>3. QED
          BY <1>1, <2>2, <2>3, <4>1, <4>2, FirstMoves
      <3>2. QED
        BY <2>3, <2>5, <3>1 DEF FirstsMoved
    <2> HIDE DEF first, now, l, d
    <2>10. \A a, b \in ids : a # x /\ b # x => (now(a) < now(b) <=> first(a) < first(b))
      <3> SUFFICES ASSUME NEW a \in ids, NEW b \in ids, a # x, b # x
                   PROVE  now(a) < now(b) <=> first(a) < first(b)
        OBVIOUS
      <3>1. first(a) \in Int /\ first(b) \in Int /\ at \in Int
        BY <2>4, <2>5, <2>7
      <3>2. QED
        BY <2>9, <3>1 DEF Shift
    <2>11. \A a \in ids : a # x => /\ first(a) \in Int /\ at \in Int /\ after \in Int
                                   /\ (now(a) < now(x) <=> first(a) <= after)
                                   /\ (now(x) < now(a) <=> ~(first(a) <= after))
      <3> SUFFICES ASSUME NEW a \in ids, a # x
                   PROVE  /\ first(a) \in Int /\ at \in Int /\ after \in Int
                          /\ (now(a) < now(x) <=> first(a) <= after)
                          /\ (now(x) < now(a) <=> ~(first(a) <= after))
        OBVIOUS
      <3>1. first(a) \in Int /\ at \in Int /\ after \in Int /\ after <= at
        BY <2>4, <2>5, <2>6, <2>7
      <3>2. ~(first(a) \in (after + 1)..at)
        BY <2>5, <2>7
      <3>3. first(a) <= at <=> first(a) <= after
        BY <3>1, <3>2
      <3>4. /\ now(a) < now(x) <=> first(a) <= at
            /\ now(x) < now(a) <=> ~(first(a) <= at)
        BY <2>9, <3>1 DEF Shift
      <3>5. QED
        BY <3>1, <3>3, <3>4
    <2>12. ASSUME NEW a \in ids, Final(next, moved, i, a), a # x
           PROVE  /\ now(a) < now(x) <=> <<a, x>> \in Pairs(next)
                  /\ now(x) < now(a) <=> <<x, a>> \in Pairs(next)
      <3>1. PICK m \in DOMAIN next : next[m] = a
        BY ArrangesFacts
      <3>2. m # i /\ m \in Int /\ i \in Int
        BY <1>2, <2>12, <3>1
      <3>3. (<<a, x>> \in Pairs(next) <=> m < i) /\ (<<x, a>> \in Pairs(next) <=> i < m)
        BY <3>1, PairsAre
      <3>4. first(a) <= after <=> m < i
        <4>1. CASE i = 1
          <5>1. after = 0 /\ first(a) \in 1..Len(l)
            BY <2>5, <2>12, <4>1 DEF after
          <5>2. ~(m < i) /\ ~(first(a) <= after)
            BY <1>2, <4>1, <5>1
          <5>3. QED
            BY <5>2
        <4>2. CASE i # 1
          <5> DEFINE c == next[i - 1]
          <5>1. i - 1 \in DOMAIN next /\ i - 1 # i /\ i - 1 \in 1..(i - 1)
            BY <1>2, <4>2
          <5>2. c \in ids /\ c # x
            BY <5>1, ArrangesFacts DEF Arranges
          <5>3. Final(next, moved, i - 1, c) /\ Final(next, moved, i - 1, a)
            BY <1>3, <2>12, <5>1 DEF Final
          <5>4. first(a) < first(c) <=> <<a, c>> \in Pairs(next)
            BY <1>1, <2>5, <2>12, <5>2, <5>3
          <5>5. <<a, c>> \in Pairs(next) <=> m < i - 1
            BY <3>1, <5>1, PairsAre
          <5>6. a = c <=> m = i - 1
            BY <3>1, <5>1 DEF Arranges
          <5>7. after = first(c) /\ first(a) \in Int /\ first(c) \in Int
            BY <2>6, <2>11, <2>12, <4>2, <5>2
          <5>8. first(a) = first(c) <=> a = c
            BY <2>5, <2>12, <5>2
          <5> HIDE DEF c
          <5>9. first(a) <= after <=> first(a) < first(c) \/ first(a) = first(c)
            BY <5>7
          <5>10. m < i <=> m < i - 1 \/ m = i - 1
            BY <3>2
          <5>11. QED
            BY <5>4, <5>5, <5>6, <5>8, <5>9, <5>10
        <4>3. QED
          BY <4>1, <4>2
      <3>5. i < m <=> ~(m < i)
        BY <3>2
      <3>6. QED
        BY <2>11, <2>12, <3>3, <3>4, <3>5
    <2>13. ASSUME NEW a \in ids, NEW b \in ids, Final(next, moved, i, a), Final(next, moved, i, b)
           PROVE  now(a) < now(b) <=> <<a, b>> \in Pairs(next)
      <3>1. CASE a # x /\ b # x
        <4>1. first(a) < first(b) <=> <<a, b>> \in Pairs(next)
          BY <1>1, <1>3, <2>5, <2>13, <3>1
        <4>2. QED
          BY <2>10, <3>1, <4>1
      <3>2. CASE a # x /\ b = x
        BY <2>12, <2>13, <3>2
      <3>3. CASE a = x /\ b # x
        BY <2>12, <2>13, <3>3
      <3>4. CASE a = x /\ b = x
        <4>1. <<a, b>> \notin Pairs(next)
          BY <3>4, PairsOrder
        <4>2. now(a) \in Int /\ now(b) = now(a)
          BY <2>9, <2>7, <3>4
        <4>3. QED
          BY <4>1, <4>2
      <3>5. QED
        BY <3>1, <3>2, <3>3, <3>4
    <2>14. Placing(t, next, moved, i, ids)
      BY <1>1, <2>8, <2>13 DEF Placing, now, r, dd
    <2>15. QED
      BY <2>8, <2>14 DEF t, r, l
  <1>6. QED
    BY <1>4, <1>5

\* Placing is one after another.
IsPlacing(w, m, s, next, moved, late) ==
    w = [i \in 0..m |-> IF i = 0 THEN s ELSE PlacedOne(w[i - 1], next, moved, i, late)]

\* There is one of any length.
LEMMA PlacingExists ==
    ASSUME NEW s, NEW next, NEW moved, NEW late, NEW m \in Nat
    PROVE  \E w : IsPlacing(w, m, s, next, moved, late)
  <1> DEFINE S == {k \in 0..m : \E w : IsPlacing(w, k, s, next, moved, late)}
  <1>1. 0 \in S
    <2> DEFINE w == [k \in 0..0 |-> s]
    <2>1. IsPlacing(w, 0, s, next, moved, late)
      <3>1. \A k \in 0..0 : k = 0
        OBVIOUS
      <3>2. QED
        BY <3>1 DEF IsPlacing
    <2>2. QED
      BY <2>1
  <1>2. ASSUME NEW k \in 1..m, k - 1 \in S PROVE k \in S
    <2>1. PICK w : IsPlacing(w, k - 1, s, next, moved, late)
      BY <1>2
    <2> DEFINE v == [i \in 0..k |->
                        IF i = k THEN PlacedOne(w[k - 1], next, moved, k, late) ELSE w[i]]
               e(i) == IF i = 0 THEN s ELSE PlacedOne(v[i - 1], next, moved, i, late)
    <2>2. \A i \in 0..k : v[i] = e(i)
      <3> TAKE i \in 0..k
      <3>1. CASE i = k
        <4>1. k # 0 /\ k - 1 \in 0..k /\ k - 1 # k
          OBVIOUS
        <4>2. v[k] = PlacedOne(w[k - 1], next, moved, k, late) /\ v[k - 1] = w[k - 1]
          BY <4>1
        <4> HIDE DEF v
        <4>3. QED
          BY <3>1, <4>1, <4>2
      <3>2. CASE i # k
        <4>1. i \in 0..(k - 1) /\ (i # 0 => i - 1 \in 0..k /\ i - 1 # k)
          BY <3>2
        <4>2. w[i] = IF i = 0 THEN s ELSE PlacedOne(w[i - 1], next, moved, i, late)
          BY <2>1, <4>1 DEF IsPlacing
        <4>3. v[i] = w[i] /\ (i # 0 => v[i - 1] = w[i - 1])
          BY <3>2, <4>1
        <4> HIDE DEF v
        <4>4. QED
          BY <4>2, <4>3
      <3>3. QED
        BY <3>1, <3>2
    <2>3. v = [i \in 0..k |-> v[i]]
      OBVIOUS
    <2> HIDE DEF v
    <2>4. v = [i \in 0..k |-> e(i)]
      BY <2>2, <2>3
    <2>5. IsPlacing(v, k, s, next, moved, late)
      BY <2>4 DEF IsPlacing
    <2>6. QED
      BY <2>5
  <1> HIDE DEF S
  <1>3. S \in SUBSET (0..m)
    BY DEF S
  <1>4. m \in S
    <2>1. \A k \in 0..m : k \in S
      BY <1>1, <1>2, <1>3, Climb
    <2>2. QED
      BY <2>1
  <1>5. QED
    BY <1>4 DEF S

\* Once everything is placed, what is painted is what was to be.
LEMMA PlacedFacts ==
    ASSUME NEW ids \in SUBSET Ids, NEW next, Arranges(next, ids), NEW moved \in SUBSET ids,
           NEW late \in BOOLEAN, NEW s, Placing(s, next, moved, 0, ids)
    PROVE  /\ Placing(Placed(s, next, moved, late), next, moved, Len(next), ids)
           /\ In(s.list) \subseteq In(Placed(s, next, moved, late).list)
  <1> DEFINE n == Len(next)
             w == CHOOSE w : IsPlacing(w, n, s, next, moved, late)
  <1>1. n \in Nat /\ DOMAIN next = 1..n
    BY ArrangesFacts
  <1>2. IsPlacing(w, n, s, next, moved, late)
    <2>1. \E v : IsPlacing(v, n, s, next, moved, late)
      BY <1>1, PlacingExists
    <2>2. QED
      BY <2>1
  <1>3. Placed(s, next, moved, late) = w[n]
    BY DEF Placed, IsPlacing
  <1> HIDE DEF w, n
  <1>4. /\ w[0] = s
        /\ \A i \in 1..n : w[i] = PlacedOne(w[i - 1], next, moved, i, late)
    <2>1. 0 \in 0..n /\ \A i \in 1..n : i \in 0..n /\ i # 0
      BY <1>1
    <2>2. QED
      BY <1>2, <2>1 DEF IsPlacing
  <1> DEFINE S == {k \in 0..n : /\ Placing(w[k], next, moved, k, ids)
                                /\ In(s.list) \subseteq In(w[k].list)}
  <1>5. 0 \in S
    BY <1>1, <1>4
  <1>6. ASSUME NEW k \in 1..n, k - 1 \in S PROVE k \in S
    <2> DEFINE v == w[k - 1]
    <2>1. Placing(v, next, moved, k - 1, ids) /\ In(s.list) \subseteq In(v.list)
      BY <1>6
    <2>2. w[k] = PlacedOne(v, next, moved, k, late) /\ k \in DOMAIN next /\ k \in 0..n
      BY <1>1, <1>4
    <2> HIDE DEF v
    <2>3. /\ Placing(PlacedOne(v, next, moved, k, late), next, moved, k, ids)
          /\ In(v.list) \subseteq In(PlacedOne(v, next, moved, k, late).list)
      BY <2>1, <2>2, PlacedOneFacts
    <2>4. QED
      BY <2>1, <2>2, <2>3
  <1> HIDE DEF S
  <1>7. S \in SUBSET (0..n)
    BY DEF S
  <1>8. n \in S
    <2>1. \A k \in 0..n : k \in S
      BY <1>1, <1>5, <1>6, <1>7, Climb
    <2>2. QED
      BY <1>1, <2>1
  <1>9. QED
    BY <1>3, <1>8 DEF S, n

\* What is painted, then.
LEMMA PlacedIsPainted ==
    ASSUME NEW ids \in SUBSET Ids, NEW next, Arranges(next, ids), NEW moved,
           NEW s, Placing(s, next, moved, Len(next), ids)
    PROVE  \A a, b \in ids : <<a, b>> \in Pairs(OrderedIds(s.list, s.doc))
                               <=> <<a, b>> \in Pairs(next)
  <1>1. ListOk(s.list) /\ DocOk(s.list, s.doc) /\ Alive(s.doc) = ids
    BY DEF Placing
  <1>2. s.list \in Seq(Ids \X Nat) /\ Listed(s.list, s.doc)
    BY <1>1, DocListed DEF ListOk
  <1>3. \A a, b \in ids : <<a, b>> \in Pairs(OrderedIds(s.list, s.doc))
                            <=> FirstPlace(s.list, s.doc, a) < FirstPlace(s.list, s.doc, b)
    BY <1>1, <1>2, OrderedFacts
  <1>4. \A a \in ids : Final(next, moved, Len(next), a)
    BY ArrangesFacts DEF Final
  <1>5. QED
    BY <1>3, <1>4 DEF Placing

-----------------------------------------------------------------------------
(* The list is sound, and every document over it, so what is painted is.   *)

\* The list, and every browser's document over it.
DocsAreOk ==
    /\ ListOk(list) /\ Len(list) <= MaxEntries
    /\ \A b \in Browsers : DocOk(list, has[b])
    /\ has \in [Browsers -> Documents]
    /\ wrote \in 0..MaxTransactions

OrderInv == DocsAreOk /\ RestackLands

\* What is painted from a sound document.
LEMMA PaintedFacts ==
    ASSUME DocsAreOk, NEW b \in Browsers
    PROVE  Arranges(Painted(b), Alive(has[b])) /\ Alive(has[b]) \in SUBSET Ids
  <1>1. ListOk(list) /\ DocOk(list, has[b])
    BY DEF DocsAreOk
  <1>2. list \in Seq(Ids \X Nat) /\ Listed(list, has[b])
    BY <1>1, DocListed DEF ListOk
  <1>3. Arranges(Painted(b), Alive(has[b]))
    BY <1>2, OrderedFacts DEF Painted
  <1>4. Alive(has[b]) \in SUBSET Ids
    BY <1>1 DEF DocOk, Over, Documents, Alive
  <1>5. QED
    BY <1>3, <1>4

\* It is what the property says, and more.
LEMMA OrderInvImplies ==
    ASSUME OrderAssumption, OrderInv
    PROVE  OrderIsSound
  <1>1. DocsAreOk /\ RestackLands
    BY DEF OrderInv
  <1>2. OrderTyped
    <2>1. ListOk(list) /\ Len(list) <= MaxEntries /\ MaxEntries \in Nat
      BY <1>1 DEF DocsAreOk, OrderAssumption
    <2>2. list \in Seq(Ids \X (1..MaxEntries))
      <3>1. list \in Seq(Ids \X Nat) /\ \A i \in DOMAIN list : list[i][2] \in 1..Len(list)
        BY <2>1 DEF ListOk
      <3>2. Len(list) \in Nat /\ DOMAIN list = 1..Len(list)
            /\ \A i \in DOMAIN list : list[i] \in Ids \X Nat
        BY <3>1
      <3>3. \A k \in 1..Len(list) : k \in 1..MaxEntries
        BY <2>1, <3>2
      <3>4. \A i \in DOMAIN list : list[i] \in Ids \X (1..MaxEntries)
        BY <3>1, <3>2, <3>3
      <3>5. list \in [1..Len(list) -> Ids \X (1..MaxEntries)]
        <4>1. list = [i \in 1..Len(list) |-> list[i]]
          BY <3>1, <3>2
        <4>2. QED
          BY <3>2, <3>4, <4>1
      <3>6. QED
        BY <3>2, <3>5, SeqDef
    <2>3. IsInjective(list)
      BY <2>1 DEF ListOk, IsInjective
    <2>4. \A b \in Browsers :
            /\ has[b].items \subseteq Entries /\ has[b].gone \subseteq has[b].items
            /\ has[b].made \subseteq Ids /\ has[b].removed \subseteq has[b].made
      BY <1>1 DEF DocsAreOk, DocOk, Over, Documents, In, Entries
    <2>5. wrote \in 0..MaxTransactions
      BY <1>1 DEF DocsAreOk
    <2>6. QED
      BY <2>2, <2>3, <2>4, <2>5 DEF OrderTyped
  <1>3. EveryElementIsPainted
    <2> SUFFICES ASSUME NEW b \in Browsers
                 PROVE  /\ {Painted(b)[i] : i \in DOMAIN Painted(b)} = Alive(has[b])
                        /\ IsInjective(Painted(b))
      BY DEF EveryElementIsPainted
    <2>1. Arranges(Painted(b), Alive(has[b]))
      BY <1>1, PaintedFacts
    <2>2. QED
      BY <2>1 DEF Arranges, IsInjective
  <1>4. QED
    BY <1>1, <1>2, <1>3 DEF OrderIsSound

\* The board the browsers open.
LEMMA OrderInitHolds ==
    ASSUME OrderAssumption, OrderInit
    PROVE  OrderInv
  <1> DEFINE n == Len(Drawn)
  <1>1. /\ n \in Nat /\ DOMAIN Drawn = 1..n /\ \A i \in 1..n : Drawn[i] \in Ids
        /\ Drawn \in Seq(Ids)
    BY DEF OrderAssumption
  <1>2. /\ list = [i \in 1..n |-> <<Drawn[i], i>>] /\ has = [b \in Browsers |-> Opened]
        /\ wrote = 0 /\ due = Nothing
    BY <1>1 DEF OrderInit
  <1>3. MaxTransactions \in Nat /\ n <= MaxEntries
    BY DEF OrderAssumption
  <1> HIDE DEF n
  <1>4. list \in Seq(Ids \X Nat) /\ Len(list) = n /\ DOMAIN list = 1..n
        /\ \A i \in 1..n : list[i] = <<Drawn[i], i>>
    <2>1. \A i \in 1..n : <<Drawn[i], i>> \in Ids \X Nat
      BY <1>1
    <2>2. list \in [1..n -> Ids \X Nat]
      BY <1>2, <2>1
    <2>3. list \in Seq(Ids \X Nat)
      BY <1>1, <2>2, SeqDef
    <2>4. QED
      BY <1>1, <1>2, <2>3
  <1>5. ListOk(list)
    <2>1. \A i, j \in 1..n : list[i] = list[j] => i = j
      BY <1>4
    <2>2. \A i \in 1..n : list[i][2] = i
      BY <1>4
    <2>3. QED
      BY <1>4, <2>1, <2>2 DEF ListOk
  <1>6. /\ Opened \in Documents /\ Opened.items = In(list)
        /\ Opened.gone = {} /\ Opened.removed = {}
        /\ \A id \in Opened.made : \E e \in Opened.items : e[1] = id
    <2>1. Opened = [items |-> {<<Drawn[i], i>> : i \in 1..n}, gone |-> {},
                    made |-> {Drawn[i] : i \in 1..n}, removed |-> {}]
      BY <1>1 DEF Opened
    <2>2. In(list) = {<<Drawn[i], i>> : i \in 1..n}
      BY <1>4 DEF In
    <2>3. In(list) \subseteq Ids \X Nat
      BY <1>1, <2>2
    <2>4. Opened \in Documents
      BY <1>1, <2>1, <2>2, <2>3 DEF Documents
    <2>5. \A id \in Opened.made : \E e \in Opened.items : e[1] = id
      <3>1. \A i \in 1..n : <<Drawn[i], i>> \in Opened.items /\ <<Drawn[i], i>>[1] = Drawn[i]
        BY <2>1
      <3>2. \A id \in Opened.made : \E i \in 1..n : id = Drawn[i]
        BY <2>1
      <3>3. QED
        BY <3>1, <3>2
    <2>6. QED
      BY <2>1, <2>2, <2>4, <2>5
  <1>7. DocOk(list, Opened)
    BY <1>6 DEF DocOk, Over
  <1>8. DocsAreOk
    <2>1. has \in [Browsers -> Documents] /\ \A b \in Browsers : DocOk(list, has[b])
      <3>1. has \in [Browsers -> Documents]
        BY <1>2, <1>6
      <3>2. \A b \in Browsers : has[b] = Opened
        BY <1>2
      <3>3. QED
        BY <1>7, <3>1, <3>2
    <2>2. wrote \in 0..MaxTransactions /\ Len(list) <= MaxEntries
      <3>1. wrote = 0 /\ Len(list) = n
        BY <1>2, <1>4
      <3>2. QED
        BY <1>3, <3>1
    <2>3. QED
      BY <1>5, <2>1, <2>2 DEF DocsAreOk
  <1>9. RestackLands
    BY <1>2 DEF RestackLands
  <1>10. QED
    BY <1>8, <1>9 DEF OrderInv

\* A transaction on a sound document leaves all sound.
LEMMA WriteKeeps ==
    ASSUME OrderAssumption, DocsAreOk, NEW b \in Browsers, NEW s, Write(b, s),
           ListOk(s.list), DocOk(s.list, s.doc), In(list) \subseteq In(s.list)
    PROVE  DocsAreOk' /\ list' = s.list /\ has'[b] = s.doc
  <1>1. /\ list' = s.list /\ has' = [has EXCEPT ![b] = s.doc] /\ wrote' = wrote + 1
        /\ wrote < MaxTransactions /\ Len(s.list) <= MaxEntries
    BY DEF Write
  <1>2. has \in [Browsers -> Documents] /\ wrote \in 0..MaxTransactions /\ MaxTransactions \in Nat
    BY DEF DocsAreOk, OrderAssumption
  <1>3. has'[b] = s.doc /\ \A c \in Browsers : c # b => has'[c] = has[c]
    BY <1>1, <1>2
  <1>4. \A c \in Browsers : DocOk(list', has'[c])
    <2> SUFFICES ASSUME NEW c \in Browsers PROVE DocOk(list', has'[c])
      OBVIOUS
    <2>1. CASE c = b
      BY <1>1, <1>3, <2>1
    <2>2. CASE c # b
      <3>1. DocOk(list, has[c])
        BY DEF DocsAreOk
      <3>2. DocOk(s.list, has[c])
        BY <3>1, DocGrows
      <3>3. QED
        BY <1>1, <1>3, <2>2, <3>2
    <2>3. QED
      BY <2>1, <2>2
  <1>5. has' \in [Browsers -> Documents]
    <2>1. s.doc \in Documents
      BY DEF DocOk, Over
    <2>2. QED
      BY <1>1, <1>2, <2>1
  <1>6. wrote' \in 0..MaxTransactions
    BY <1>1, <1>2
  <1>7. QED
    BY <1>1, <1>3, <1>4, <1>5, <1>6 DEF DocsAreOk

\* createElement.
LEMMA CreateKeeps ==
    ASSUME OrderAssumption, OrderInv, NEW b \in Browsers, NEW id \in Ids, NEW late \in BOOLEAN,
           CreateElement(b, id, late)
    PROVE  OrderInv'
  <1> DEFINE d == [has[b] EXCEPT !.made = has[b].made \cup {id}]
             s == [list |-> list, doc |-> d]
             t == Pushed(s, id, late)
  <1>1. Write(b, t) /\ due' = Nothing
    BY DEF CreateElement
  <1>2. DocsAreOk /\ ListOk(list) /\ DocOk(list, has[b])
    BY DEF OrderInv, DocsAreOk
  <1>3. /\ has[b] \in Documents
        /\ has[b].items \subseteq In(list) /\ has[b].gone \subseteq has[b].items
        /\ has[b].removed \subseteq has[b].made
    BY <1>2 DEF DocOk, Over
  <1>4. /\ d \in Documents /\ d.items = has[b].items /\ d.gone = has[b].gone
        /\ d.made = has[b].made \cup {id} /\ d.removed = has[b].removed
    BY <1>3 DEF Documents
  <1> HIDE DEF d
  <1>5. s.list = list /\ s.doc = d
    OBVIOUS
  <1> HIDE DEF s
  <1>6. Over(s.list, s.doc) /\ ListOk(s.list)
    BY <1>2, <1>3, <1>4, <1>5 DEF Over
  <1> DEFINE known == {i \in DOMAIN s.list : s.list[i] \in s.doc.items}
             last == IF known = {} THEN 0 ELSE CHOOSE i \in known : \A j \in known : j <= i
  <1>7. t = Inserted(s, id, last, late)
    BY DEF Pushed
  <1>8. last \in 0..Len(s.list)
    <2>1. Len(s.list) \in Nat /\ DOMAIN s.list = 1..Len(s.list)
      BY <1>6 DEF ListOk
    <2>2. known \in SUBSET (0..Len(s.list))
      BY <2>1
    <2>3. known # {} => \E i \in known : \A j \in known : j <= i
      <3> HIDE DEF known
      <3>1. QED
        BY <2>1, <2>2, Highest
    <2> HIDE DEF known
    <2>4. CASE known = {}
      BY <2>1, <2>4
    <2>5. CASE known # {}
      <3>1. last \in known
        BY <2>3, <2>5
      <3> HIDE DEF last
      <3>2. QED
        BY <2>2, <3>1
    <2>6. QED
      BY <2>4, <2>5
  <1> HIDE DEF last, t
  <1>9. PICK at \in last..Len(s.list) : InsertedAs(s, t, id, last, at)
    BY <1>6, <1>7, <1>8, InsertedFacts
  <1> DEFINE e == NewEntry(list, id)
             r == t.list
             o == t.doc
  <1>10. /\ at \in 0..Len(list) /\ PutAt(list, r, at, e) /\ Over(r, o)
         /\ o.items = has[b].items \cup {e} /\ o.gone = has[b].gone
         /\ o.made = has[b].made \cup {id} /\ o.removed = has[b].removed
    BY <1>4, <1>5, <1>9 DEF InsertedAs
  <1> HIDE DEF r, o
  <1>11. ListOk(r) /\ e[1] = id /\ In(list) \subseteq In(r)
    <2>1. /\ ListOk(r) /\ e[1] = id /\ In(r) = In(list) \cup {e}
      BY <1>2, <1>10, PutIsOk
    <2>2. QED
      BY <2>1
  <1> HIDE DEF e
  <1>12. DocOk(r, o)
    <2>1. \A k \in o.made : \E y \in o.items : y[1] = k
      <3>1. \A k \in has[b].made : \E y \in has[b].items : y[1] = k
        BY <1>2 DEF DocOk
      <3>2. QED
        BY <1>10, <1>11, <3>1
    <2>2. \A y \in o.gone : y[1] \in o.removed \/ \E f \in o.items : f[1] = y[1] /\ y[2] < f[2]
      BY <1>2, <1>10 DEF DocOk
    <2>3. o.removed \subseteq o.made
      BY <1>3, <1>10
    <2>4. QED
      BY <1>10, <2>1, <2>2, <2>3 DEF DocOk
  <1>13. DocsAreOk'
    BY <1>1, <1>2, <1>11, <1>12, WriteKeeps DEF r, o
  <1>14. QED
    BY <1>1, <1>13 DEF OrderInv, RestackLands

\* removeElements.
LEMMA RemoveKeeps ==
    ASSUME OrderAssumption, OrderInv, NEW b \in Browsers, NEW id \in Ids, RemoveElement(b, id)
    PROVE  OrderInv'
  <1> DEFINE s == State(b)
             out == Delisted(s, id)
             d == out.doc
             o == [d EXCEPT !.removed = d.removed \cup {id}]
             t == [list |-> out.list, doc |-> o]
  <1>1. Write(b, t) /\ due' = Nothing /\ id \in Alive(has[b])
    BY DEF RemoveElement
  <1>2. DocsAreOk /\ ListOk(list) /\ DocOk(list, has[b]) /\ Over(list, has[b])
    BY DEF OrderInv, DocsAreOk, DocOk
  <1>3. s.list = list /\ s.doc = has[b]
    BY DEF State
  <1> HIDE DEF s
  <1>4. /\ out.list = list /\ Over(list, d) /\ d.items = has[b].items
        /\ d.gone = has[b].gone \cup Visible(s, id)
        /\ d.made = has[b].made /\ d.removed = has[b].removed
    BY <1>2, <1>3, DelistedFacts
  <1>5. \A y \in Visible(s, id) : y[1] = id
    BY DEF Visible
  <1> HIDE DEF out, d
  <1>6. /\ o \in Documents /\ o.items = d.items /\ o.gone = d.gone /\ o.made = d.made
        /\ o.removed = d.removed \cup {id}
    BY <1>4 DEF Over, Documents
  <1>7. t.list = list /\ t.doc = o
    BY <1>4
  <1> HIDE DEF o, t
  <1>8. DocOk(list, o)
    <2>1. Over(list, o)
      BY <1>4, <1>6 DEF Over
    <2>2. o.removed \subseteq o.made
      BY <1>1, <1>2, <1>4, <1>6 DEF DocOk, Alive
    <2>3. \A k \in o.made : \E y \in o.items : y[1] = k
      BY <1>2, <1>4, <1>6 DEF DocOk
    <2>4. \A y \in o.gone : y[1] \in o.removed \/ \E f \in o.items : f[1] = y[1] /\ y[2] < f[2]
      <3> TAKE y \in o.gone
      <3>1. CASE y \in has[b].gone
        BY <1>2, <1>4, <1>6, <3>1 DEF DocOk
      <3>2. CASE y \in Visible(s, id)
        BY <1>5, <1>6, <3>2
      <3>3. QED
        BY <1>4, <1>6, <3>1, <3>2
    <2>5. QED
      BY <2>1, <2>2, <2>3, <2>4 DEF DocOk
  <1>9. DocsAreOk'
    BY <1>1, <1>2, <1>7, <1>8, WriteKeeps
  <1>10. QED
    BY <1>1, <1>9 DEF OrderInv, RestackLands

\* A sequence has below what what a restack was to leave.
LEMMA RestackLeaves ==
    ASSUME NEW ids, NEW painted, NEW chosen, NEW to, NEW r, Arranges(painted, ids),
           RestackOf(r, painted, chosen, to, ids), NEW q, Arranges(q, ids),
           \A a, b \in ids : <<a, b>> \in Pairs(q) <=> <<a, b>> \in Pairs(r.next)
    PROVE  Pairs(q) = Wanted(painted, chosen, to)
  <1>1. \A i, j \in DOMAIN painted :
          <<painted[i], painted[j]>> \in Pairs(r.next) <=> Below(painted, chosen, to, i, j)
    BY DEF RestackOf
  <1>2. ASSUME NEW x \in Pairs(q) PROVE x \in Wanted(painted, chosen, to)
    <2>1. PICK a \in ids, b \in ids : x = <<a, b>>
      BY PairsOf
    <2>2. PICK i \in DOMAIN painted, j \in DOMAIN painted : painted[i] = a /\ painted[j] = b
      BY ArrangesFacts
    <2>3. Below(painted, chosen, to, i, j)
      BY <1>1, <1>2, <2>1, <2>2
    <2>4. x = <<painted[i], painted[j]>>
      BY <2>1, <2>2
    <2>5. QED
      BY <2>3, <2>4 DEF Wanted
  <1>3. ASSUME NEW x \in Wanted(painted, chosen, to) PROVE x \in Pairs(q)
    <2>1. PICK j \in DOMAIN painted : \E i \in DOMAIN painted :
            Below(painted, chosen, to, i, j) /\ x = <<painted[i], painted[j]>>
      BY DEF Wanted
    <2>2. PICK i \in DOMAIN painted :
            Below(painted, chosen, to, i, j) /\ x = <<painted[i], painted[j]>>
      BY <2>1
    <2>3. <<painted[i], painted[j]>> \in Pairs(r.next)
      BY <1>1, <2>2
    <2>4. painted[i] \in ids /\ painted[j] \in ids
      BY ArrangesFacts
    <2>5. QED
      BY <2>2, <2>3, <2>4
  <1>4. QED
    BY <1>2, <1>3

\* restack.
LEMMA RestackKeeps ==
    ASSUME OrderAssumption, OrderInv, NEW b \in Browsers, NEW chosen \in SUBSET Ids,
           NEW to \in Ways, NEW late \in BOOLEAN, Restack(b, chosen, to, late)
    PROVE  OrderInv'
  <1> DEFINE ids == Alive(has[b])
             painted == Painted(b)
             r == Restacked(painted, chosen, to)
             s == State(b)
             t == Placed(s, r.next, r.moved, late)
  <1>1. /\ chosen # {} /\ chosen \in SUBSET ids /\ Write(b, t)
        /\ due' = [who |-> b, below |-> Wanted(painted, chosen, to)]
    BY DEF Restack
  <1>2. DocsAreOk /\ ListOk(list) /\ DocOk(list, has[b])
    BY DEF OrderInv, DocsAreOk
  <1>3. Arranges(painted, ids) /\ ids \in SUBSET Ids
    BY <1>2, PaintedFacts
  <1>4. s.list = list /\ s.doc = has[b]
    BY DEF State
  <1>5. list \in Seq(Ids \X Nat) /\ Listed(list, has[b])
    BY <1>2, DocListed DEF ListOk
  <1>6. \A x, y \in ids : <<x, y>> \in Pairs(painted)
                            <=> FirstPlace(list, has[b], x) < FirstPlace(list, has[b], y)
    BY <1>5, OrderedFacts DEF Painted
  <1> HIDE DEF painted, s
  <1>7. RestackOf(r, painted, chosen, to, ids)
    BY <1>1, <1>3, Restacks
  <1> HIDE DEF r
  <1>8. /\ Arranges(r.next, ids) /\ r.moved \in SUBSET ids
        /\ \A x, y \in ids \ r.moved : <<x, y>> \in Pairs(r.next) <=> <<x, y>> \in Pairs(painted)
    BY <1>7 DEF RestackOf
  <1>9. Placing(s, r.next, r.moved, 0, ids)
    <2>1. \A x \in ids : Final(r.next, r.moved, 0, x) => x \in ids \ r.moved
      BY DEF Final
    <2>2. \A x, y \in ids : Final(r.next, r.moved, 0, x) /\ Final(r.next, r.moved, 0, y)
            => (FirstPlace(list, has[b], x) < FirstPlace(list, has[b], y)
                  <=> <<x, y>> \in Pairs(r.next))
      BY <1>6, <1>8, <2>1
    <2>3. QED
      BY <1>2, <1>4, <2>2 DEF Placing
  <1> DEFINE next == r.next
             moved == r.moved
  <1>10. Placing(t, next, moved, Len(next), ids) /\ In(list) \subseteq In(t.list)
    <2>1. Arranges(next, ids) /\ moved \in SUBSET ids /\ Placing(s, next, moved, 0, ids)
      BY <1>8, <1>9
    <2> HIDE DEF next, moved, ids
    <2>2. /\ Placing(Placed(s, next, moved, late), next, moved, Len(next), ids)
          /\ In(s.list) \subseteq In(Placed(s, next, moved, late).list)
      BY <1>3, <2>1, PlacedFacts
    <2>3. QED
      BY <1>4, <2>2 DEF next, moved
  <1> HIDE DEF t
  <1>11. ListOk(t.list) /\ DocOk(t.list, t.doc) /\ Alive(t.doc) = ids
    BY <1>10 DEF Placing
  <1>12. DocsAreOk' /\ list' = t.list /\ has'[b] = t.doc
    BY <1>1, <1>2, <1>10, <1>11, WriteKeeps
  <1> DEFINE q == OrderedIds(t.list, t.doc)
  <1>13. Arranges(q, ids)
    <2>1. t.list \in Seq(Ids \X Nat) /\ Listed(t.list, t.doc)
      BY <1>11, DocListed DEF ListOk
    <2>2. QED
      BY <1>11, <2>1, OrderedFacts
  <1>14. \A x, y \in ids : <<x, y>> \in Pairs(q) <=> <<x, y>> \in Pairs(next)
    <2>1. Arranges(next, ids)
      BY <1>8
    <2> HIDE DEF next, moved, ids
    <2>2. QED
      BY <1>3, <1>10, <2>1, PlacedIsPainted
  <1>15. Pairs(q) = Wanted(painted, chosen, to)
    <2> HIDE DEF q, ids
    <2>1. QED
      BY <1>3, <1>7, <1>13, <1>14, RestackLeaves
  <1>16. Pairs(Painted(b))' = Wanted(painted, chosen, to)
    BY <1>12, <1>15 DEF Painted
  <1>17. RestackLands'
    BY <1>1, <1>16 DEF RestackLands
  <1>18. QED
    BY <1>12, <1>17 DEF OrderInv

\* What a browser receives.
LEMMA MergeKeeps ==
    ASSUME OrderAssumption, OrderInv, NEW b \in Browsers, NEW from \in Browsers, Merge(b, from)
    PROVE  OrderInv'
  <1> DEFINE mine == has[b]
             news == has[from]
             both == [items |-> mine.items \cup news.items, gone |-> mine.gone \cup news.gone,
                      made |-> mine.made \cup news.made,
                      removed |-> mine.removed \cup news.removed]
  <1>1. /\ has' = [has EXCEPT ![b] = both] /\ due' = Nothing
        /\ list' = list /\ wrote' = wrote
    BY DEF Merge
  <1>2. DocsAreOk /\ DocOk(list, mine) /\ DocOk(list, news) /\ has \in [Browsers -> Documents]
    BY DEF OrderInv, DocsAreOk
  <1>3. mine \in Documents /\ news \in Documents
    BY <1>2
  <1> HIDE DEF mine, news
  <1>4. /\ both.items = mine.items \cup news.items /\ both.gone = mine.gone \cup news.gone
        /\ both.made = mine.made \cup news.made /\ both.removed = mine.removed \cup news.removed
    OBVIOUS
  <1>5. both \in Documents
    BY <1>3 DEF Documents
  <1> HIDE DEF both
  <1>6. DocOk(list, both)
    <2>1. Over(list, both) /\ both.removed \subseteq both.made
      BY <1>2, <1>4, <1>5 DEF DocOk, Over
    <2>2. \A k \in both.made : \E y \in both.items : y[1] = k
      BY <1>2, <1>4 DEF DocOk
    <2>3. \A y \in both.gone :
            y[1] \in both.removed \/ \E f \in both.items : f[1] = y[1] /\ y[2] < f[2]
      <3> TAKE y \in both.gone
      <3>1. CASE y \in mine.gone
        BY <1>2, <1>4, <3>1 DEF DocOk
      <3>2. CASE y \in news.gone
        BY <1>2, <1>4, <3>2 DEF DocOk
      <3>3. QED
        BY <1>4, <3>1, <3>2
    <2>4. QED
      BY <2>1, <2>2, <2>3 DEF DocOk
  <1>7. has' \in [Browsers -> Documents] /\ \A c \in Browsers : DocOk(list, has'[c])
    <2>1. \A c \in Browsers : has'[c] = IF c = b THEN both ELSE has[c]
      BY <1>1, <1>2
    <2>2. \A c \in Browsers : DocOk(list, has[c])
      BY <1>2 DEF DocsAreOk
    <2>3. \A c \in Browsers : DocOk(list, has'[c])
      BY <1>6, <2>1, <2>2
    <2>4. has' \in [Browsers -> Documents]
      BY <1>1, <1>2, <1>5
    <2>5. QED
      BY <2>3, <2>4
  <1>8. DocsAreOk'
    BY <1>1, <1>2, <1>7 DEF DocsAreOk
  <1>9. QED
    BY <1>1, <1>8 DEF OrderInv, RestackLands

\* However creations, removals and restacks of several browsers meet, every element
\* is painted, once, at every browser, and every restack leaves what was asked of it
\* (elements.ts, `orderedIds`, `restack`, `removeElements`).
THEOREM OrderHolds == OrderAssumption /\ OrderSpec => []OrderIsSound
  <1> SUFFICES ASSUME OrderAssumption PROVE OrderSpec => []OrderIsSound
    OBVIOUS
  <1>1. OrderInit => OrderInv
    BY OrderInitHolds
  <1>2. OrderInv /\ [OrderNext]_orderVars => OrderInv'
    <2> SUFFICES ASSUME OrderInv, [OrderNext]_orderVars PROVE OrderInv'
      OBVIOUS
    <2>1. CASE UNCHANGED orderVars
      BY <2>1 DEF orderVars, OrderInv, DocsAreOk, RestackLands, Painted
    <2>2. CASE \E b \in Browsers, id \in Ids, late \in BOOLEAN : CreateElement(b, id, late)
      BY <2>2, CreateKeeps
    <2>3. CASE \E b \in Browsers, id \in Ids : RemoveElement(b, id)
      BY <2>3, RemoveKeeps
    <2>4. CASE \E b \in Browsers, chosen \in SUBSET Ids, to \in Ways, late \in BOOLEAN :
                 Restack(b, chosen, to, late)
      BY <2>4, RestackKeeps
    <2>5. CASE \E b, from \in Browsers : Merge(b, from)
      BY <2>5, MergeKeeps
    <2>6. QED
      BY <2>1, <2>2, <2>3, <2>4, <2>5 DEF OrderNext
  <1>3. OrderInv => OrderIsSound
    BY OrderInvImplies
  <1>4. QED
    BY <1>1, <1>2, <1>3, PTL DEF OrderSpec
=============================================================================
