----------------------------- MODULE PaintOrder -----------------------------
(***************************************************************************)
(* The order elements are painted in, on browsers that draw, remove and    *)
(* restack at the same time (elements.ts).                                 *)
(*                                                                         *)
(* `order` is a list that merges: an entry keeps its place among all those *)
(* ever inserted, and a browser sees the ones it was sent and that were    *)
(* not deleted.  An id may have several entries, when two browsers moved   *)
(* it, or one without an element, when another browser removed it.         *)
(***************************************************************************)
EXTENDS Integers, Sequences, FiniteSets, SequencesExt

CONSTANTS
    Browsers,
    Ids,            \* ids of elements
    Drawn,          \* what is on the board when the browsers open it, bottom to top
    MaxEntries,     \* bound: entries ever inserted
    MaxTransactions \* bound: transactions

OrderAssumption ==
    /\ Drawn \in Seq(Ids) /\ IsInjective(Drawn)
    /\ {MaxEntries, MaxTransactions} \subseteq Nat
    /\ Len(Drawn) <= MaxEntries

VARIABLES
    list,   \* all entries, <<id, n>>, in their places
    has,    \* has[b]: what browser b was sent, or wrote
    wrote,  \* history: transactions
    due     \* history: what the last step was to leave, at whom, or Nothing

orderVars == <<list, has, wrote, due>>

Nothing == [who |-> "nobody"]

\* Yjs's part of a document: entries inserted and deleted, elements made and
\* removed.
Opened ==
    [items |-> {<<Drawn[i], i>> : i \in DOMAIN Drawn}, gone |-> {},
     made |-> {Drawn[i] : i \in DOMAIN Drawn}, removed |-> {}]

Entries == {list[i] : i \in DOMAIN list}

\* What a sequence has at some of its places.
Nth(places, n) == CHOOSE i \in places : Cardinality({j \in places : j <= i}) = n
AtPlaces(s, places) == [n \in 1..Cardinality(places) |-> s[Nth(places, n)]]

-----------------------------------------------------------------------------
(* What a browser sees.                                                    *)

Alive(d) == d.made \ d.removed

\* order(doc): the places of the entries there are, and of an id's.
Places(l, d) == {i \in DOMAIN l : l[i] \in d.items \ d.gone}
PlacesOf(l, d, id) == {i \in Places(l, d) : l[i][1] = id}

\* list.toArray().indexOf(id).
FirstPlace(l, d, id) ==
    CHOOSE i \in PlacesOf(l, d, id) : \A j \in PlacesOf(l, d, id) : i <= j

\* orderedIds: an element is painted where its id is first.
Shown(l, d) == {i \in Places(l, d) : l[i][1] \in Alive(d) /\ FirstPlace(l, d, l[i][1]) = i}
OrderedIds(l, d) == AtPlaces([i \in DOMAIN l |-> l[i][1]], Shown(l, d))

Painted(b) == OrderedIds(list, has[b])

-----------------------------------------------------------------------------
(* The list.                                                               *)

\* An entry goes in right behind the one it was inserted after, or, behind
\* what others inserted there that has not arrived, right before the next the
\* browser knows of, deleted or not: their client ids decide (`late`).
Spot(l, d, after, late) ==
    LET next == {i \in DOMAIN l : i > after /\ l[i] \in d.items}
    IN  IF ~late THEN after
        ELSE IF next = {} THEN Len(l)
        ELSE (CHOOSE i \in next : \A j \in next : i <= j) - 1

NewEntry(l, id) == <<id, Len(l) + 1>>

Inserted(s, id, after, late) ==
    LET entry == NewEntry(s.list, id)
        at == Spot(s.list, s.doc, after, late)
    IN  [list |-> InsertAt(s.list, at + 1, entry),
         doc  |-> [s.doc EXCEPT !.items = s.doc.items \cup {entry}]]

\* list.push: behind the last entry the browser knows of, deleted or not.
Pushed(s, id, late) ==
    LET known == {i \in DOMAIN s.list : s.list[i] \in s.doc.items}
        last  == IF known = {} THEN 0 ELSE CHOOSE i \in known : \A j \in known : j <= i
    IN  Inserted(s, id, last, late)

Visible(s, id) == {e \in s.doc.items \ s.doc.gone : e[1] = id}

\* Mutant: only an id's last entry is taken out.
UnlistedOnce(s, id) ==
    [s EXCEPT !.doc.gone = @ \cup
        {e \in Visible(s, id) : \A f \in Visible(s, id) : f = e \/ f[2] < e[2]}]

\* All entries of an id, "for what it moves".
Delisted(s, id) ==
    [list |-> s.list, doc |-> [s.doc EXCEPT !.gone = s.doc.gone \cup Visible(s, id)]]

-----------------------------------------------------------------------------
(* Restacking.                                                             *)

Ways == {"front", "back", "forward", "backward"}

\* One step: the chosen at place i swaps with what is not chosen at place j.
Swapped(s, chosen, i, j) ==
    IF s.next[i] \in chosen /\ s.next[j] \notin chosen
    THEN [next |-> [k \in DOMAIN s.next |-> IF k = i THEN s.next[j]
                                            ELSE IF k = j THEN s.next[i] ELSE s.next[k]],
          moved |-> s.moved \cup {s.next[j]}]
    ELSE s

\* "Walking from the far end": i from the last but one down, or from the second up.
Walked(painted, chosen, to) ==
    LET n == Len(painted)
        walk[k \in 0..(n - 1)] ==
            IF k = 0 THEN [next |-> painted, moved |-> {}]
            ELSE IF to = "forward" THEN Swapped(walk[k - 1], chosen, n - k, n - k + 1)
            ELSE Swapped(walk[k - 1], chosen, k + 1, k)
    IN  walk[n - 1]

Restacked(painted, chosen, to) ==
    LET kept   == AtPlaces(painted, {i \in DOMAIN painted : painted[i] \notin chosen})
        lifted == AtPlaces(painted, {i \in DOMAIN painted : painted[i] \in chosen})
    IN  CASE to = "front" -> [next |-> kept \o lifted, moved |-> chosen]
          [] to = "back"  -> [next |-> lifted \o kept, moved |-> chosen]
          [] OTHER        -> Walked(painted, chosen, to)

\* What moves comes out of the list, and goes in behind what is next to it.
PlacedOne(s, next, moved, i, late) ==
    LET out   == Delisted(s, next[i])
        after == IF i = 1 THEN 0 ELSE FirstPlace(out.list, out.doc, next[i - 1])
    IN  IF next[i] \in moved THEN Inserted(out, next[i], after, late) ELSE s

\* "Bottom to top, so whatever each one is placed after is already final."
Placed(s, next, moved, late) ==
    LET upTo[i \in 0..Len(next)] ==
            IF i = 0 THEN s ELSE PlacedOne(upTo[i - 1], next, moved, i, late)
    IN  upTo[Len(next)]

-----------------------------------------------------------------------------
(* What a browser does.                                                    *)

State(b) == [list |-> list, doc |-> has[b]]

Write(b, s) ==
    /\ wrote < MaxTransactions
    /\ Len(s.list) <= MaxEntries
    /\ list' = s.list
    /\ has' = [has EXCEPT ![b] = s.doc]
    /\ wrote' = wrote + 1

\* createElement: ids are random, and no two browsers make the same.
CreateElement(b, id, late) ==
    /\ \A c \in Browsers : id \notin has[c].made
    /\ LET doc == [has[b] EXCEPT !.made = has[b].made \cup {id}]
       IN  Write(b, Pushed([list |-> list, doc |-> doc], id, late))
    /\ due' = Nothing

\* removeElements: every entry of an id, and the element.
RemoveElement(b, id) ==
    /\ id \in Alive(has[b])
    /\ LET out == Delisted(State(b), id)
       IN  Write(b, [list |-> out.list, doc |-> [out.doc EXCEPT !.removed = out.doc.removed \cup {id}]])
    /\ due' = Nothing

\* What a sequence has below what.
Pairs(s) == UNION {{<<s[i], s[j]>> : i \in 1..(j - 1)} : j \in DOMAIN s}

\* The reference: whether a restack is to leave the i-th below the j-th.  What is
\* chosen goes past what is not: all of it, or what is next to its run.
Below(painted, chosen, to, i, j) ==
    LET Chosen(k)  == painted[k] \in chosen
        Next(k, m) == \A x \in (k + 1)..(m - 1) : Chosen(x)
    IN  \/ (Chosen(i) <=> Chosen(j)) /\ i < j
        \/ to = "front" /\ ~Chosen(i) /\ Chosen(j)
        \/ to = "back" /\ Chosen(i) /\ ~Chosen(j)
        \/ to = "forward" /\ Chosen(i) /\ ~Chosen(j) /\ i < j /\ ~Next(i, j)
        \/ to = "forward" /\ ~Chosen(i) /\ Chosen(j) /\ (i < j \/ Next(j, i))
        \/ to = "backward" /\ Chosen(i) /\ ~Chosen(j) /\ (i < j \/ Next(j, i))
        \/ to = "backward" /\ ~Chosen(i) /\ Chosen(j) /\ i < j /\ ~Next(i, j)

Wanted(painted, chosen, to) ==
    UNION {{<<painted[i], painted[j]>> :
                i \in {k \in DOMAIN painted : Below(painted, chosen, to, k, j)}} : j \in DOMAIN painted}

\* restack.
Restack(b, chosen, to, late) ==
    /\ wrote < MaxTransactions
    /\ chosen # {} /\ chosen \subseteq Alive(has[b])
    /\ LET painted == Painted(b)
           stack == Restacked(painted, chosen, to)
       IN  /\ stack.next # painted
           /\ Write(b, Placed(State(b), stack.next, stack.moved, late))
           /\ due' = [who |-> b, below |-> Wanted(painted, chosen, to)]

\* What one browser has reaches another.
Merge(b, from) ==
    /\ b # from
    /\ LET mine == has[b]
           news == has[from]
           both == [items |-> mine.items \cup news.items, gone |-> mine.gone \cup news.gone,
                    made |-> mine.made \cup news.made, removed |-> mine.removed \cup news.removed]
       IN  /\ both # mine
           /\ has' = [has EXCEPT ![b] = both]
    /\ due' = Nothing
    /\ UNCHANGED <<list, wrote>>

-----------------------------------------------------------------------------
OrderInit ==
    /\ list = [i \in DOMAIN Drawn |-> <<Drawn[i], i>>]
    /\ has = [b \in Browsers |-> Opened]
    /\ wrote = 0
    /\ due = Nothing

OrderNext ==
    \/ \E b \in Browsers, id \in Ids, late \in BOOLEAN : CreateElement(b, id, late)
    \/ \E b \in Browsers, id \in Ids : RemoveElement(b, id)
    \/ \E b \in Browsers, chosen \in SUBSET Ids, to \in Ways, late \in BOOLEAN :
            Restack(b, chosen, to, late)
    \/ \E b, from \in Browsers : Merge(b, from)

OrderSpec == OrderInit /\ [][OrderNext]_orderVars

-----------------------------------------------------------------------------
(* Properties.                                                             *)

OrderTyped ==
    /\ list \in Seq(Ids \X (1..MaxEntries))
    /\ IsInjective(list)
    /\ \A b \in Browsers :
        /\ has[b].items \subseteq Entries /\ has[b].gone \subseteq has[b].items
        /\ has[b].made \subseteq Ids /\ has[b].removed \subseteq has[b].made
    /\ wrote \in 0..MaxTransactions

\* A restack does to what is painted what was asked of it, whatever else is in
\* the order: entries of an id that two browsers moved at once, entries without an
\* element, and places that deleted entries and ones not heard of yet hold open
\* ("Steps count what is painted", elements.ts:306-308).
RestackLands == due # Nothing => Pairs(Painted(due.who)) = due.below

\* However creations, removals and restacks of several browsers meet, every
\* element there is is painted, once, at every browser, without repairOrder
\* having to find it.
EveryElementIsPainted ==
    \A b \in Browsers : /\ {Painted(b)[i] : i \in DOMAIN Painted(b)} = Alive(has[b])
                        /\ IsInjective(Painted(b))

\* The order of painting, at every browser and after every restack.
OrderIsSound == OrderTyped /\ RestackLands /\ EveryElementIsPainted

-----------------------------------------------------------------------------
(* What a comment says and the code does not do.                           *)

\* An entry that a restack replaces is one that could not have stayed: "only the
\* entries that have to move", "the fewest ids that have to move"
\* (elements.ts:305-306, 330).  Sending the lowest and the third to the back
\* replaces the lowest one's entry too.
FewestMove ==
    \A b \in Browsers, chosen \in SUBSET Ids, to \in Ways :
        LET painted == Painted(b)
            stack == Restacked(painted, chosen, to)
            Stays(ids) == Pairs(painted) \cap (ids \X ids) = Pairs(stack.next) \cap (ids \X ids)
            there == {painted[i] : i \in DOMAIN painted}
        IN  (chosen # {} /\ chosen \subseteq there /\ stack.next # painted) =>
                \A id \in stack.moved : ~Stays((there \ stack.moved) \cup {id})
=============================================================================
