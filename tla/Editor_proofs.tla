---------------------------- MODULE Editor_proofs ----------------------------
(***************************************************************************)
(* What Editor promises whatever the board, the tools and the peers:       *)
(* each gesture is one step of undo, a drag that ends leaves what the hand *)
(* did, or nothing of it, and nothing it needed stays behind.  And of the  *)
(* shape of one element (Drawing): a resize lands where it was asked to.   *)
(***************************************************************************)
EXTENDS Editor, SequenceTheorems, FiniteSetTheorems, WellFoundedInduction, TLAPS

------------------------------------------------------------------------------
(* What the document and its undo manager are made of. *)

Els     == {el \in Elements : el.kind = "none" => el = Nothing}
Docs    == [Ids -> Els]
Patches == UNION {[D -> Els] : D \in SUBSET Ids}
Steps   == {x \in [ops : SUBSET (1..MaxOps), was : Patches, is : Patches] : DOMAIN x.was = DOMAIN x.is}
Eds     == [doc : Docs, undo : Seq(Steps), redo : Seq(Steps), open : BOOLEAN, op : 0..MaxOps]

\* The steps that can be undone or redone.
Members(s) == {s[k] : k \in DOMAIN s}
Listed(e)  == Members(e.undo) \cup Members(e.redo)

\* Nothing knows an id that was not given out yet.
Fresh(e, U) == \A i \in U : e.doc[i] = Nothing /\ \A x \in Listed(e) : i \notin DOMAIN x.was

\* Performing x brings i back; no step does.
Restores(x, i)  == i \in DOMAIN x.was /\ x.is[i] = Nothing /\ x.was[i] # Nothing
NeverBack(e, i) == \A x \in Listed(e) : ~Restores(x, i)

\* Two steps hold nothing of one another, and do not both bring something back.
Apart(x, y)   == x.ops \cap y.ops = {} /\ \A i \in Ids : ~(Restores(x, i) /\ Restores(y, i))
Sundered(s)   == \A j, k \in DOMAIN s : j # k => Apart(s[j], s[k])
Aside(s, t)   == \A j \in DOMAIN s, k \in DOMAIN t : Apart(s[j], t[k])

\* A step is of one gesture so far, and brings back only what is gone; each is
\* apart from every other.
Single(op, d, x) == /\ \E n \in 1..op : x.ops = {n}
                    /\ \A i \in Ids : Restores(x, i) => d[i] = Nothing

Whole(op, d, s, t) ==
    /\ \A x \in Members(s) \cup Members(t) : Single(op, d, x)
    /\ Sundered(s) /\ Sundered(t) /\ Aside(s, t)

Sound(e) ==
    /\ Whole(e.op, e.doc, e.undo, e.redo)
    /\ e.open => e.redo = <<>> /\ (e.undo # <<>> => Last(e.undo).ops = {e.op})

\* What is written now belongs to the last step, or to none yet.
Current(e) == e.op # 0 /\ (e.open \/ \A x \in Listed(e) : e.op \notin x.ops)

------------------------------------------------------------------------------
(* Sequences, and the largest of some numbers. *)

LEMMA FrontFacts ==
    ASSUME NEW S, NEW s \in Seq(S), s # <<>>
    PROVE  /\ Front(s) \in Seq(S) /\ Len(Front(s)) = Len(s) - 1 /\ Len(s) \in Nat \ {0}
           /\ \A k \in 1..Len(s) - 1 : Front(s)[k] = s[k]
  <1> DEFINE n == Len(s)
             t == SubSeq(s, 1, n - 1)
  <1>1. n \in Nat \ {0} /\ \A k \in 1..n : s[k] \in S
    BY EmptySeq, ElementOfSeq
  <1>2. \A i \in 1..n - 1 : s[i] \in S
    BY <1>1
  <1>3. /\ t \in Seq(S)
        /\ Len(t) = IF 1 <= n - 1 THEN (n - 1) - 1 + 1 ELSE 0
        /\ \A k \in 1..(n - 1) - 1 + 1 : t[k] = s[1 + k - 1]
    <2> HIDE DEF n
    <2>1. 1 \in Int /\ n - 1 \in Int
      BY <1>1
    <2>2. QED
      BY <2>1, <1>2, SubSeqProperties
  <1>4. Front(s) = t
    BY DEF Front
  <1> HIDE DEF t, n
  <1>5. Len(t) = n - 1
    BY <1>1, <1>3
  <1>6. ASSUME NEW k \in 1..n - 1 PROVE t[k] = s[k]
    <2>1. k \in 1..(n - 1) - 1 + 1 /\ 1 + k - 1 = k
      BY <1>1
    <2>2. t[k] = s[1 + k - 1]
      BY <2>1, <1>3
    <2>3. QED
      BY <2>1, <2>2
  <1>7. QED
    BY <1>1, <1>3, <1>4, <1>5, <1>6 DEF n

LEMMA BelowFacts ==
    ASSUME NEW S, NEW s \in Seq(S), NEW k \in DOMAIN s
    PROVE  /\ SubSeq(s, 1, k - 1) \in Seq(S) /\ Len(SubSeq(s, 1, k - 1)) = k - 1
           /\ DOMAIN SubSeq(s, 1, k - 1) \subseteq DOMAIN s \ {k}
           /\ \A j \in DOMAIN SubSeq(s, 1, k - 1) : SubSeq(s, 1, k - 1)[j] = s[j]
  <1> DEFINE n == Len(s)
             t == SubSeq(s, 1, k - 1)
  <1>1. n \in Nat /\ DOMAIN s = 1..n /\ \A j \in 1..n : s[j] \in S
    BY LenProperties, ElementOfSeq
  <1> HIDE DEF n
  <1>2. k \in 1..n /\ k - 1 \in Int /\ 1 \in Int /\ \A j \in 1..k - 1 : s[j] \in S
    BY <1>1
  <1>3. /\ t \in Seq(S)
        /\ Len(t) = IF 1 <= k - 1 THEN (k - 1) - 1 + 1 ELSE 0
        /\ \A j \in 1..(k - 1) - 1 + 1 : t[j] = s[1 + j - 1]
    BY <1>2, SubSeqProperties
  <1> HIDE DEF t
  <1>4. Len(t) = k - 1 /\ DOMAIN t = 1..k - 1
    <2>1. Len(t) = k - 1
      BY <1>2, <1>3, <1>1
    <2>2. QED
      BY <2>1, <1>3, LenProperties
  <1>5. ASSUME NEW j \in 1..k - 1 PROVE t[j] = s[j]
    <2>1. j \in 1..(k - 1) - 1 + 1 /\ 1 + j - 1 = j
      BY <1>1, <1>2
    <2>2. t[j] = s[1 + j - 1]
      BY <2>1, <1>3
    <2>3. QED
      BY <2>1, <2>2
  <1>6. 1..k - 1 \subseteq DOMAIN s \ {k}
    BY <1>1, <1>2
  <1>7. QED
    BY <1>3, <1>4, <1>5, <1>6 DEF t

LEMMA MaxIsLargest ==
    ASSUME NEW n \in Nat, NEW S \in SUBSET (0..n), S # {}
    PROVE  Max(S) \in S /\ \A y \in S : Max(S) >= y
  <1> DEFINE T == {x \in Nat : n - x \in S}
  <1>1. T \subseteq Nat /\ T # {}
    <2>1. PICK m \in S : TRUE
      OBVIOUS
    <2>2. n - m \in Nat /\ n - (n - m) = m
      BY <2>1
    <2>3. n - m \in T
      BY <2>1, <2>2
    <2>4. QED
      BY <2>3
  <1>2. PICK x \in T : \A y \in T : ~(<<y, x>> \in OpToRel(<, Nat))
    BY <1>1, WFMin, NatLessThanWellFounded
  <1>3. \A y \in S : n - x >= y
    <2>1. SUFFICES ASSUME NEW y \in S PROVE n - x >= y
      OBVIOUS
    <2>2. n - y \in T
      OBVIOUS
    <2>3. ~(<<n - y, x>> \in OpToRel(<, Nat))
      BY <1>2, <2>2
    <2>4. ~(n - y < x)
      BY <2>2, <2>3, <1>1 DEF OpToRel
    <2>5. QED
      BY <2>4, <1>1
  <1>4. QED
    BY <1>2, <1>3 DEF Max

------------------------------------------------------------------------------
(* A transaction of ours. *)

LEMMA PatchFacts ==
    ASSUME NEW x \in Steps
    PROVE  /\ x.ops \subseteq 1..MaxOps /\ DOMAIN x.was \subseteq Ids /\ DOMAIN x.is = DOMAIN x.was
           /\ x.was \in [DOMAIN x.was -> Els] /\ x.is \in [DOMAIN x.was -> Els]
           /\ x.was \in Patches /\ x.is \in Patches
  <1>1. x.was \in Patches /\ x.is \in Patches /\ x.ops \subseteq 1..MaxOps /\ DOMAIN x.is = DOMAIN x.was
    BY DEF Steps
  <1>2. ASSUME NEW p \in Patches PROVE DOMAIN p \subseteq Ids /\ p \in [DOMAIN p -> Els]
    BY <1>2 DEF Patches
  <1>3. QED
    BY <1>1, <1>2

LEMMA ListedAreSteps ==
    ASSUME NEW e \in Eds
    PROVE  /\ \A x \in Listed(e) : x \in Steps
           /\ e.undo \in Seq(Steps) /\ e.redo \in Seq(Steps)
           /\ DOMAIN e.undo = 1..Len(e.undo) /\ DOMAIN e.redo = 1..Len(e.redo)
           /\ Len(e.undo) \in Nat /\ Len(e.redo) \in Nat
  <1>1. e.undo \in Seq(Steps) /\ e.redo \in Seq(Steps)
    BY DEF Eds
  <1>2. /\ DOMAIN e.undo = 1..Len(e.undo) /\ DOMAIN e.redo = 1..Len(e.redo)
        /\ Len(e.undo) \in Nat /\ Len(e.redo) \in Nat
    BY <1>1, LenProperties
  <1>3. \A k \in DOMAIN e.undo : e.undo[k] \in Steps
    BY <1>1, <1>2, ElementOfSeq
  <1>4. \A k \in DOMAIN e.redo : e.redo[k] \in Steps
    BY <1>1, <1>2, ElementOfSeq
  <1>5. QED
    BY <1>1, <1>2, <1>3, <1>4 DEF Listed, Members

\* A write that changes something leaves a step on top: its own, or the open
\* one with this added to it.
Starts(e, new, base, x) ==
    /\ base = e.undo /\ x.ops = {e.op}
    /\ DOMAIN x.was = DOMAIN new
    /\ \A i \in DOMAIN new : x.was[i] = e.doc[i] /\ x.is[i] = new[i]

Continues(e, new, base, x) ==
    LET top == e.undo[Len(e.undo)]
    IN /\ e.open /\ e.undo # <<>> /\ base = Front(e.undo)
       /\ x.ops = top.ops \cup {e.op}
       /\ DOMAIN x.was = DOMAIN new \cup DOMAIN top.was
       /\ \A i \in DOMAIN top.was : x.was[i] = top.was[i] /\ (i \notin DOMAIN new => x.is[i] = top.is[i])
       /\ \A i \in DOMAIN new : x.is[i] = new[i] /\ (i \notin DOMAIN top.was => x.was[i] = e.doc[i])

Tops(e, new, w, base, x) ==
    /\ base \in Seq(Steps) /\ x \in Steps /\ w.undo = Append(base, x)
    /\ \/ ~(e.open /\ e.undo # <<>>) /\ Starts(e, new, base, x)
       \/ Continues(e, new, base, x)

Topped(e, new, w) == \E base, x : Tops(e, new, w, base, x)

LEMMA Written ==
    ASSUME NEW e \in Eds, NEW D \in SUBSET Ids, NEW new \in [D -> Els], e.op # 0, NEW w, w = Write(e, new)
    PROVE  /\ w \in Eds /\ w.op = e.op /\ w.doc = [i \in Ids |-> IF i \in D THEN new[i] ELSE e.doc[i]]
           /\ D = {} => w = e
           /\ D # {} => w.open /\ w.redo = <<>> /\ Topped(e, new, w)
  <1> DEFINE was    == [i \in D |-> e.doc[i]]
             joined == e.open /\ e.undo # <<>>
             top    == e.undo[Len(e.undo)]
             base   == IF joined THEN Front(e.undo) ELSE e.undo
             x      == IF joined THEN [ops |-> top.ops \cup {e.op}, was |-> Over(top.was, was), is |-> Over(new, top.is)]
                                 ELSE [ops |-> {e.op}, was |-> was, is |-> new]
  <1>1. /\ e.doc \in Docs /\ e.op \in 1..MaxOps /\ e.open \in BOOLEAN /\ DOMAIN new = D
        /\ e.undo \in Seq(Steps) /\ e.redo \in Seq(Steps)
        /\ e = [doc |-> e.doc, undo |-> e.undo, redo |-> e.redo, open |-> e.open, op |-> e.op]
    BY EditorAssumption DEF Eds
  <1>2. CASE D = {}
    <2>1. w = e
      BY <1>1, <1>2 DEF Write
    <2>2. QED
      BY <1>1, <1>2, <2>1 DEF Docs
  <1>3. CASE D # {}
    <2>1. w = [doc |-> Over(new, e.doc), op |-> e.op, open |-> TRUE, redo |-> <<>>, undo |-> Append(base, x)]
      BY <1>1, <1>3 DEF Write, Last
    <2>2. Over(new, e.doc) = [i \in Ids |-> IF i \in D THEN new[i] ELSE e.doc[i]]
      BY <1>1 DEF Over, Docs
    <2>3. Over(new, e.doc) \in Docs
      BY <1>1, <2>2 DEF Docs
    <2>4. was \in [D -> Els]
      BY <1>1 DEF Docs
    <2>5. ASSUME ~joined PROVE base \in Seq(Steps) /\ x \in Steps /\ Starts(e, new, base, x)
      <3>1. x = [ops |-> {e.op}, was |-> was, is |-> new] /\ base = e.undo
        BY <2>5
      <3>2. was \in Patches /\ new \in Patches /\ DOMAIN was = D
        BY <2>4 DEF Patches
      <3> HIDE DEF x, base
      <3>3. x \in Steps
        BY <1>1, <3>1, <3>2 DEF Steps
      <3>4. QED
        BY <1>1, <3>1, <3>3 DEF Starts
    <2>6. ASSUME joined PROVE base \in Seq(Steps) /\ x \in Steps /\ Continues(e, new, base, x)
      <3>1. /\ x = [ops |-> top.ops \cup {e.op}, was |-> Over(top.was, was), is |-> Over(new, top.is)]
            /\ base = Front(e.undo)
        BY <2>6
      <3>2. base \in Seq(Steps) /\ top \in Steps
        BY <1>1, <2>6, <3>1, FrontFacts, ElementOfSeq
      <3> DEFINE T == DOMAIN top.was
      <3>3. /\ T \subseteq Ids /\ top.was \in [T -> Els] /\ top.is \in [T -> Els]
            /\ top.ops \subseteq 1..MaxOps
        BY <3>2, PatchFacts
      <3> HIDE DEF top, x, base, was, T
      <3>4. /\ Over(top.was, was) \in [T \cup D -> Els] /\ DOMAIN Over(top.was, was) = T \cup D
            /\ \A i \in T : Over(top.was, was)[i] = top.was[i]
            /\ \A i \in D \ T : Over(top.was, was)[i] = was[i]
        BY <2>4, <3>3 DEF Over
      <3>5. /\ Over(new, top.is) \in [T \cup D -> Els] /\ DOMAIN Over(new, top.is) = T \cup D
            /\ \A i \in D : Over(new, top.is)[i] = new[i]
            /\ \A i \in T \ D : Over(new, top.is)[i] = top.is[i]
        BY <3>3 DEF Over
      <3>6. Over(top.was, was) \in Patches /\ Over(new, top.is) \in Patches
        BY <3>3, <3>4, <3>5 DEF Patches
      <3>7. x \in Steps
        BY <1>1, <3>1, <3>3, <3>4, <3>5, <3>6 DEF Steps
      <3>8. Continues(e, new, base, x)
        <4>1. \A i \in D : was[i] = e.doc[i]
          BY DEF was
        <4>2. QED
          BY <1>1, <2>6, <3>1, <3>4, <3>5, <4>1 DEF Continues, T, top
      <3>9. QED
        BY <3>2, <3>7, <3>8
    <2>7. base \in Seq(Steps) /\ x \in Steps
      BY <2>5, <2>6
    <2>8. Append(base, x) \in Seq(Steps) /\ <<>> \in Seq(Steps)
      BY <2>7, AppendProperties, EmptySeq
    <2>9. Tops(e, new, w, base, x)
      BY <2>1, <2>5, <2>6, <2>7 DEF Tops
    <2> HIDE DEF base, x
    <2>10. w \in Eds
      BY <1>1, <2>1, <2>3, <2>8 DEF Eds
    <2>11. w.op = e.op /\ w.open /\ w.redo = <<>> /\ w.doc = Over(new, e.doc)
      BY <2>1
    <2>12. Topped(e, new, w)
      BY <2>9 DEF Topped
    <2>13. QED
      BY <1>3, <2>2, <2>10, <2>11, <2>12
  <1>4. QED
    BY <1>2, <1>3

LEMMA Listing ==
    ASSUME NEW e \in Eds, NEW new, NEW w, NEW base, NEW x, Tops(e, new, w, base, x), w.redo = <<>>
    PROVE  /\ Len(base) \in Nat /\ DOMAIN w.undo = 1..Len(base) + 1 /\ w.undo[Len(base) + 1] = x
           /\ Len(w.undo) = Len(base) + 1 /\ w.undo # <<>> /\ Last(w.undo) = x
           /\ \A k \in 1..Len(base) : k \in DOMAIN e.undo /\ w.undo[k] = e.undo[k] /\ w.undo[k] \in Listed(e)
           /\ Listed(w) = {w.undo[k] : k \in 1..Len(base)} \cup {x}
           /\ Continues(e, new, base, x) =>
                 /\ Len(e.undo) \in DOMAIN e.undo /\ Len(e.undo) = Len(base) + 1
                 /\ e.undo[Len(e.undo)] \in Listed(e)
  <1> DEFINE n == Len(base)
             m == Len(e.undo)
  <1>1. base \in Seq(Steps) /\ x \in Steps /\ w.undo = Append(base, x)
    BY DEF Tops
  <1>2. n \in Nat /\ DOMAIN base = 1..n /\ m \in Nat /\ DOMAIN e.undo = 1..m
    BY <1>1, ListedAreSteps, LenProperties
  <1>3. /\ w.undo \in Seq(Steps) /\ w.undo # <<>> /\ Len(w.undo) = n + 1
        /\ \A k \in 1..n : w.undo[k] = base[k]
        /\ w.undo[n + 1] = x
    BY <1>1, AppendProperties
  <1>4. DOMAIN w.undo = 1..n + 1
    BY <1>3, LenProperties
  <1>5. Continues(e, new, base, x) => n = m - 1 /\ m # 0 /\ \A k \in 1..n : base[k] = e.undo[k]
    <2>1. ASSUME Continues(e, new, base, x) PROVE base = Front(e.undo) /\ e.undo # <<>>
      BY <2>1 DEF Continues
    <2>2. QED
      BY <2>1, ListedAreSteps, FrontFacts
  <1>6. ~Continues(e, new, base, x) => base = e.undo
    BY DEF Tops, Starts
  <1> HIDE DEF n, m
  <1>7. \A k \in 1..n : k \in DOMAIN e.undo /\ w.undo[k] = e.undo[k]
    <2>1. CASE Continues(e, new, base, x)
      BY <1>2, <1>3, <1>5, <2>1
    <2>2. CASE ~Continues(e, new, base, x)
      BY <1>2, <1>3, <1>6, <2>2 DEF n, m
    <2>3. QED
      BY <2>1, <2>2
  <1>8. \A k \in 1..n : w.undo[k] \in Listed(e)
    BY <1>7 DEF Listed, Members
  <1>9. Listed(w) = {w.undo[k] : k \in 1..n} \cup {x}
    <2>1. DOMAIN w.redo = {}
      OBVIOUS
    <2>2. 1..n + 1 = 1..n \cup {n + 1}
      BY <1>2
    <2>3. QED
      BY <1>3, <1>4, <2>1, <2>2 DEF Listed, Members
  <1>10. Continues(e, new, base, x) => m \in DOMAIN e.undo /\ m = n + 1 /\ e.undo[m] \in Listed(e)
    BY <1>2, <1>5 DEF Listed, Members
  <1>11. Last(w.undo) = x
    BY <1>3 DEF Last
  <1>12. QED
    BY <1>2, <1>3, <1>4, <1>7, <1>8, <1>9, <1>10, <1>11 DEF n, m

LEMMA WriteFresh ==
    ASSUME NEW e \in Eds, NEW D \in SUBSET Ids, NEW new \in [D -> Els], e.op # 0, NEW w, w = Write(e, new),
           NEW U \in SUBSET Ids, NEW V \in SUBSET U, V \cap D = {}, Fresh(e, U)
    PROVE  Fresh(w, V)
  <1>1. CASE w = e
    BY <1>1 DEF Fresh
  <1>2. CASE w # e
    <2>1. w.redo = <<>> /\ w.doc = [i \in Ids |-> IF i \in D THEN new[i] ELSE e.doc[i]]
      BY <1>2, Written
    <2>2. PICK base, x : Tops(e, new, w, base, x)
      <3>1. Topped(e, new, w)
        BY <1>2, Written
      <3>2. QED
        BY <3>1 DEF Topped
    <2>3. \A i \in V : w.doc[i] = Nothing
      BY <2>1 DEF Fresh
    <2>4. ASSUME NEW i \in V PROVE i \notin DOMAIN x.was
      <3>1. CASE Continues(e, new, base, x)
        BY <2>1, <2>2, <3>1, Listing DEF Continues, Fresh
      <3>2. CASE Starts(e, new, base, x)
        BY <3>2 DEF Starts
      <3>3. QED
        BY <2>2, <3>1, <3>2 DEF Tops
    <2>5. \A y \in Listed(w) : y \in Listed(e) \/ y = x
      BY <2>1, <2>2, Listing
    <2>6. QED
      BY <2>3, <2>4, <2>5 DEF Fresh
  <1>3. QED
    BY <1>1, <1>2

LEMMA WriteSound ==
    ASSUME NEW e \in Eds, NEW D \in SUBSET Ids, NEW new \in [D -> Els], e.op # 0, NEW w, w = Write(e, new),
           Sound(e), Current(e),
           \A i \in D : \/ e.doc[i] # Nothing
                        \/ new[i] # Nothing /\ \A y \in Listed(e) : i \notin DOMAIN y.was
    PROVE  /\ Sound(w) /\ Current(w)
           /\ \A i \in Ids : NeverBack(e, i) /\ (i \in D => new[i] # Nothing) => NeverBack(w, i)
  <1>1. CASE w = e
    BY <1>1
  <1>2. CASE w # e
    <2>1. /\ w.redo = <<>> /\ w.doc = [i \in Ids |-> IF i \in D THEN new[i] ELSE e.doc[i]]
          /\ w.op = e.op /\ w.open /\ DOMAIN new = D
      BY <1>2, Written
    <2>2. PICK base, x : Tops(e, new, w, base, x)
      <3>1. Topped(e, new, w)
        BY <1>2, Written
      <3>2. QED
        BY <3>1 DEF Topped
    <2> DEFINE n   == Len(base)
               top == e.undo[Len(e.undo)]
               adds == Continues(e, new, base, x)
    <2>3. /\ n \in Nat /\ DOMAIN w.undo = 1..n + 1 /\ w.undo[n + 1] = x
          /\ w.undo # <<>> /\ Last(w.undo) = x
          /\ \A k \in 1..n : k \in DOMAIN e.undo /\ w.undo[k] = e.undo[k] /\ w.undo[k] \in Listed(e)
          /\ Listed(w) = {w.undo[k] : k \in 1..n} \cup {x}
          /\ adds => Len(e.undo) \in DOMAIN e.undo /\ Len(e.undo) = n + 1 /\ top \in Listed(e)
      BY <2>1, <2>2, Listing
    <2>4. adds => top.ops = {e.op}
      BY DEF Continues, Sound, Whole, Last
    <2>5. x.ops = {w.op}
      <3>1. CASE adds
        BY <2>1, <2>4, <3>1 DEF Continues
      <3>2. CASE Starts(e, new, base, x)
        BY <2>1, <3>2 DEF Starts
      <3>3. QED
        BY <2>2, <3>1, <3>2 DEF Tops
    <2>6. ASSUME NEW i \in Ids, Restores(x, i)
          PROVE  /\ w.doc[i] = Nothing
                 /\ \/ e.doc[i] # Nothing /\ i \in D /\ new[i] = Nothing
                    \/ adds /\ Restores(top, i)
      <3>1. CASE adds
        <4>1. CASE i \in D
          BY <2>1, <2>6, <3>1, <4>1 DEF Continues, Restores
        <4>2. CASE i \notin D
          <5>1. Restores(top, i)
            BY <2>1, <2>6, <3>1, <4>2 DEF Continues, Restores
          <5>2. e.doc[i] = Nothing
            BY <2>3, <3>1, <5>1 DEF Sound, Whole, Listed, Single
          <5>3. QED
            BY <2>1, <3>1, <4>2, <5>1, <5>2
        <4>3. QED
          BY <4>1, <4>2
      <3>2. CASE Starts(e, new, base, x)
        BY <2>1, <2>6, <3>2 DEF Starts, Restores
      <3>3. QED
        BY <2>2, <3>1, <3>2 DEF Tops
    <2>7. ASSUME NEW k \in 1..n PROVE Single(w.op, w.doc, w.undo[k]) /\ Apart(w.undo[k], x) /\ Apart(x, w.undo[k])
      <3> DEFINE y == w.undo[k]
      <3>1. y \in Listed(e) /\ Single(e.op, e.doc, y)
        BY <2>3 DEF Sound, Whole, Listed
      <3>2. \A i \in Ids : Restores(y, i) => w.doc[i] = Nothing
        <4>1. SUFFICES ASSUME NEW i \in Ids, Restores(y, i) PROVE w.doc[i] = Nothing
          OBVIOUS
        <4>2. e.doc[i] = Nothing /\ i \in DOMAIN y.was
          BY <3>1, <4>1 DEF Single, Restores
        <4>3. i \notin D
          BY <3>1, <4>2
        <4>4. QED
          BY <2>1, <4>2, <4>3
      <3>3. adds => Apart(y, top)
        <4>1. adds => k # Len(e.undo) /\ k \in DOMAIN e.undo /\ y = e.undo[k] /\ Len(e.undo) \in DOMAIN e.undo
          BY <2>3
        <4>2. QED
          BY <4>1 DEF Sound, Whole, Sundered
      <3> HIDE DEF y, top, adds, n
      <3>4. e.op \notin y.ops
        <4>1. CASE adds
          BY <2>4, <3>3, <4>1 DEF Apart
        <4>2. CASE ~adds
          <5>1. e.open => e.undo = <<>> /\ e.redo = <<>>
            BY <2>2, <4>2 DEF Tops, adds, Sound, Whole
          <5>2. ~e.open
            BY <3>1, <5>1 DEF Listed, Members
          <5>3. QED
            BY <3>1, <5>2 DEF Current
        <4>3. QED
          BY <4>1, <4>2
      <3>5. \A i \in Ids : ~(Restores(y, i) /\ Restores(x, i))
        BY <2>6, <3>1, <3>3 DEF Single, Apart
      <3>6. QED
        BY <2>1, <2>5, <3>1, <3>2, <3>4, <3>5 DEF Single, Apart, y
    <2>8. Single(w.op, w.doc, x)
      <3>1. w.op \in 1..w.op
        BY <2>1 DEF Eds
      <3>2. QED
        BY <2>5, <2>6, <3>1 DEF Single
    <2>9. \A y \in Listed(w) : Single(w.op, w.doc, y)
      BY <2>3, <2>7, <2>8
    <2>10. Sundered(w.undo)
      <3>1. SUFFICES ASSUME NEW j \in DOMAIN w.undo, NEW k \in DOMAIN w.undo, j # k
                     PROVE  Apart(w.undo[j], w.undo[k])
        BY DEF Sundered
      <3>2. CASE j = n + 1
        BY <2>3, <2>7, <3>1, <3>2
      <3>3. CASE k = n + 1
        BY <2>3, <2>7, <3>1, <3>3
      <3>4. CASE j # n + 1 /\ k # n + 1
        <4>1. j \in 1..n /\ k \in 1..n
          BY <2>3, <3>1, <3>4
        <4>2. QED
          BY <2>3, <3>1, <4>1 DEF Sound, Whole, Sundered
      <3>5. QED
        BY <3>2, <3>3, <3>4
    <2>11. Sundered(w.redo) /\ Aside(w.undo, w.redo)
      BY <2>1 DEF Sundered, Aside
    <2>12. Sound(w)
      BY <2>1, <2>3, <2>5, <2>9, <2>10, <2>11 DEF Sound, Whole, Listed
    <2>13. Current(w)
      BY <2>1 DEF Current
    <2>14. ASSUME NEW i \in Ids, NeverBack(e, i), i \in D => new[i] # Nothing PROVE NeverBack(w, i)
      <3>1. ~Restores(x, i)
        BY <2>3, <2>6, <2>14 DEF NeverBack
      <3>2. QED
        BY <2>3, <2>14, <3>1 DEF NeverBack
    <2>15. QED
      BY <2>12, <2>13, <2>14
  <1>3. QED
    BY <1>1, <1>2

------------------------------------------------------------------------------
(* Undo and redo. *)

LEMMA RevertedFacts ==
    ASSUME NEW cur \in Els, NEW from \in Els, NEW to \in Els, NEW over \in BOOLEAN
    PROVE  /\ Reverted(cur, from, to, over) \in Els
           /\ cur = Nothing /\ Reverted(cur, from, to, over) # Nothing => from = Nothing /\ to # Nothing
  <1> DEFINE new == Reverted(cur, from, to, over)
             Got(c, f, t) == IF f # t /\ (over \/ c = f) THEN t ELSE c
  <1>1. Nothing \in Els
    BY DEF Els, Elements, Nothing
  <1>2. CASE to = Nothing \/ from = Nothing \/ cur = Nothing
    BY <1>1, <1>2 DEF Reverted
  <1>3. CASE to # Nothing /\ from # Nothing /\ cur # Nothing
    <2>1. new = [cur EXCEPT !.at = Got(cur.at, from.at, to.at), !.size = Got(cur.size, from.size, to.size),
                            !.form = Got(cur.form, from.form, to.form), !.ink = Got(cur.ink, from.ink, to.ink),
                            !.said = (cur.said \ (from.said \ to.said)) \cup (to.said \ from.said)]
      BY <1>3 DEF Reverted
    <2>2. cur \in Elements /\ from \in Elements /\ to \in Elements /\ cur.kind # "none"
      BY <1>3 DEF Els
    <2>3. /\ Got(cur.at, from.at, to.at) \in Int /\ Got(cur.size, from.size, to.size) \in Nat
          /\ Got(cur.form, from.form, to.form) \in 0..1 /\ Got(cur.ink, from.ink, to.ink) \in 0..1
          /\ (cur.said \ (from.said \ to.said)) \cup (to.said \ from.said) \in SUBSET {"me", "peer"}
      BY <2>2 DEF Elements
    <2>4. new \in Elements /\ new.kind = cur.kind
      <3> DEFINE a == Got(cur.at, from.at, to.at)
                 n == Got(cur.size, from.size, to.size)
                 c == Got(cur.form, from.form, to.form)
                 k == Got(cur.ink, from.ink, to.ink)
                 w == (cur.said \ (from.said \ to.said)) \cup (to.said \ from.said)
      <3>1. a \in Int /\ n \in Nat /\ c \in 0..1 /\ k \in 0..1 /\ w \in SUBSET {"me", "peer"}
        BY <2>3
      <3>2. new = [cur EXCEPT !.at = a, !.size = n, !.form = c, !.ink = k, !.said = w]
        BY <2>1
      <3> HIDE DEF Got, new, a, n, c, k, w
      <3>3. QED
        BY <2>2, <3>1, <3>2 DEF Elements
    <2>5. QED
      BY <1>3, <2>2, <2>4 DEF Els
  <1>4. QED
    BY <1>2, <1>3

\* The step at k is performed, and x is how to take it back.
Turns(d, stack, p, k, x) ==
    /\ k \in DOMAIN stack /\ x \in Steps
    /\ p.doc \in Docs /\ p.rest = SubSeq(stack, 1, k - 1) /\ p.turned = <<x>>
    /\ x.ops = stack[k].ops /\ DOMAIN x.was = DOMAIN stack[k].was
    /\ \A i \in DOMAIN x.was : x.was[i] = d[i] /\ x.is[i] = p.doc[i]
    /\ \A i \in Ids : d[i] = Nothing /\ p.doc[i] # Nothing => Restores(stack[k], i)
    /\ \A i \in Ids \ DOMAIN x.was : p.doc[i] = d[i]

TurnsOne(d, stack, p) == \E k, x : Turns(d, stack, p, k, x)

LEMMA PoppedFacts ==
    ASSUME NEW d \in Docs, NEW stack \in Seq(Steps), NEW over \in BOOLEAN, NEW p, p = Popped(d, stack, over)
    PROVE  /\ p.turned = <<>> => p.doc = d /\ p.rest = <<>>
           /\ p.turned # <<>> => TurnsOne(d, stack, p)
  <1> DEFINE ks  == {0} \cup {j \in DOMAIN stack : Performs(d, stack[j], over)}
             k   == Max(ks)
             y   == stack[k]
             new == Without(d, y, over)
             on  == DOMAIN y.was
             x   == [ops |-> y.ops, was |-> Restrict(d, on), is |-> Restrict(new, on)]
  <1>1. k \in ks
    <2>1. Len(stack) \in Nat /\ DOMAIN stack = 1..Len(stack)
      BY LenProperties
    <2>2. ks \in SUBSET (0..Len(stack)) /\ ks # {}
      BY <2>1
    <2> HIDE DEF ks
    <2>3. QED
      BY <2>1, <2>2, MaxIsLargest
  <1>2. /\ k = 0 => p = [doc |-> d, rest |-> <<>>, turned |-> <<>>]
        /\ k # 0 => p = [doc |-> new, rest |-> SubSeq(stack, 1, k - 1), turned |-> <<x>>]
    BY DEF Popped
  <1> HIDE DEF k
  <1>3. CASE k = 0
    BY <1>2, <1>3
  <1>4. CASE k # 0
    <2>1. k \in DOMAIN stack /\ y \in Steps
      BY <1>1, <1>4, LenProperties, ElementOfSeq
    <2>2. /\ on \subseteq Ids /\ y.was \in [on -> Els] /\ y.is \in [on -> Els] /\ y.ops \subseteq 1..MaxOps
      BY <2>1, PatchFacts
    <2> HIDE DEF y, on
    <2>3. \A i \in on : new[i] = Reverted(d[i], y.is[i], y.was[i], over)
      BY <2>2 DEF Without, Over, on
    <2>4. /\ DOMAIN new = Ids /\ \A i \in Ids \ on : new[i] = d[i]
          /\ new = [i \in Ids |-> new[i]]
      BY <2>2 DEF Without, Over, on, Docs
    <2>5. \A i \in on : new[i] \in Els /\ (d[i] = Nothing /\ new[i] # Nothing => Restores(y, i))
      <3>1. SUFFICES ASSUME NEW i \in on
                     PROVE  new[i] \in Els /\ (d[i] = Nothing /\ new[i] # Nothing => Restores(y, i))
        OBVIOUS
      <3>2. d[i] \in Els /\ y.is[i] \in Els /\ y.was[i] \in Els
        BY <2>2 DEF Docs
      <3>3. /\ Reverted(d[i], y.is[i], y.was[i], over) \in Els
            /\ d[i] = Nothing /\ Reverted(d[i], y.is[i], y.was[i], over) # Nothing
                  => y.is[i] = Nothing /\ y.was[i] # Nothing
        BY ZenonT(60), <3>2, RevertedFacts
      <3>4. QED
        BY <2>3, <3>3 DEF Restores, on
    <2>6. new \in Docs
      BY <2>4, <2>5 DEF Docs
    <2> HIDE DEF new
    <2>7. Restrict(d, on) \in [on -> Els] /\ Restrict(new, on) \in [on -> Els]
      BY <2>2, <2>6 DEF Restrict, Docs
    <2>8. x \in Steps /\ DOMAIN x.was = on /\ \A i \in on : x.was[i] = d[i] /\ x.is[i] = new[i]
      BY <2>2, <2>7 DEF Steps, Patches, Restrict
    <2> HIDE DEF x
    <2>9. x.ops = y.ops
      BY DEF x
    <2>10. p.doc = new /\ p.rest = SubSeq(stack, 1, k - 1) /\ p.turned = <<x>>
      BY <1>2, <1>4
    <2>11. Turns(d, stack, p, k, x)
      BY <2>1, <2>4, <2>5, <2>6, <2>8, <2>9, <2>10 DEF Turns, y, on
    <2>12. QED
      BY <2>10, <2>11 DEF TurnsOne
  <1>5. QED
    BY <1>3, <1>4

\* What has become of the stack s it came from and of t, which it goes to.
Stacks(s, t, p, k, x) ==
    /\ p.rest \in Seq(Steps) /\ t \o p.turned \in Seq(Steps) /\ s[k] \in Steps /\ s[k] \in Members(s)
    /\ DOMAIN p.rest \subseteq DOMAIN s \ {k} /\ \A j \in DOMAIN p.rest : p.rest[j] = s[j]
    /\ Len(t) \in Nat /\ DOMAIN t = 1..Len(t) /\ DOMAIN (t \o p.turned) = 1..Len(t) + 1
    /\ \A j \in DOMAIN t : (t \o p.turned)[j] = t[j]
    /\ (t \o p.turned)[Len(t) + 1] = x
    /\ Members(p.rest) \subseteq Members(s) /\ Members(t \o p.turned) = Members(t) \cup {x}

LEMMA Turned ==
    ASSUME NEW d, NEW s \in Seq(Steps), NEW t \in Seq(Steps), NEW p, NEW k, NEW x, Turns(d, s, p, k, x)
    PROVE  Stacks(s, t, p, k, x)
  <1>1. k \in DOMAIN s /\ x \in Steps /\ p.rest = SubSeq(s, 1, k - 1) /\ p.turned = <<x>>
    BY DEF Turns
  <1>2. /\ p.rest \in Seq(Steps) /\ DOMAIN p.rest \subseteq DOMAIN s \ {k}
        /\ \A j \in DOMAIN p.rest : p.rest[j] = s[j]
    BY <1>1, BelowFacts
  <1>3. s[k] \in Steps /\ s[k] \in Members(s)
    BY <1>1, LenProperties, ElementOfSeq DEF Members
  <1>4. t \o p.turned = Append(t, x)
    BY <1>1, AppendIsConcat
  <1> DEFINE u == Append(t, x)
             n == Len(t)
  <1>5. /\ u \in Seq(Steps) /\ Len(u) = n + 1 /\ n \in Nat /\ DOMAIN t = 1..n
        /\ \A j \in 1..n : u[j] = t[j]
        /\ u[n + 1] = x
    BY <1>1, AppendProperties, LenProperties
  <1>6. DOMAIN u = 1..n + 1
    BY <1>5, LenProperties
  <1> HIDE DEF u, n
  <1>7. Members(p.rest) \subseteq Members(s)
    BY <1>2 DEF Members
  <1>8. Members(u) = Members(t) \cup {x}
    <2>1. 1..n + 1 = 1..n \cup {n + 1}
      BY <1>5
    <2>2. QED
      BY <1>5, <1>6, <2>1 DEF Members
  <1>9. QED
    BY <1>2, <1>3, <1>4, <1>5, <1>6, <1>7, <1>8 DEF u, n, Stacks

LEMMA TurnWhole ==
    ASSUME NEW op, NEW d, NEW s \in Seq(Steps), NEW t \in Seq(Steps), NEW p, NEW k, NEW x,
           Turns(d, s, p, k, x), Whole(op, d, s, t)
    PROVE  Whole(op, p.doc, p.rest, t \o p.turned)
  <1>0. k \in DOMAIN s /\ Stacks(s, t, p, k, x)
    BY Turned DEF Turns
  <1> DEFINE u == t \o p.turned
             r == p.rest
             n == Len(t)
  <1>1. /\ s[k] \in Members(s)
        /\ DOMAIN r \subseteq DOMAIN s \ {k} /\ \A j \in DOMAIN r : r[j] = s[j]
        /\ n \in Nat /\ DOMAIN t = 1..n /\ DOMAIN u = 1..n + 1
        /\ \A j \in DOMAIN t : u[j] = t[j]
        /\ u[n + 1] = x
        /\ Members(r) \subseteq Members(s) /\ Members(u) = Members(t) \cup {x}
    BY <1>0 DEF Stacks
  <1>2. /\ x.ops = s[k].ops /\ DOMAIN x.was = DOMAIN s[k].was
        /\ \A i \in DOMAIN x.was : x.was[i] = d[i] /\ x.is[i] = p.doc[i]
        /\ \A i \in Ids : d[i] = Nothing /\ p.doc[i] # Nothing => Restores(s[k], i)
    BY DEF Turns
  <1> HIDE DEF u, r, n
  <1>3. ASSUME NEW y \in Members(s) \cup Members(t), Apart(y, s[k])
        PROVE  Single(op, p.doc, y) /\ Apart(y, x) /\ Apart(x, y)
    <2>1. Single(op, d, y)
      BY DEF Whole
    <2>2. ASSUME NEW i \in Ids, Restores(y, i) PROVE p.doc[i] = Nothing /\ ~Restores(x, i)
      <3>1. d[i] = Nothing
        BY <2>1, <2>2 DEF Single
      <3>2. p.doc[i] = Nothing
        BY <1>2, <1>3, <2>2, <3>1 DEF Apart
      <3>3. QED
        BY <1>2, <3>1, <3>2 DEF Restores
    <2>3. QED
      BY <1>2, <1>3, <2>1, <2>2 DEF Single, Apart
  <1>4. Single(op, p.doc, x)
    <2>1. Single(op, d, s[k])
      BY <1>1 DEF Whole
    <2>2. QED
      BY <1>2, <2>1 DEF Single, Restores
  <1>5. ASSUME NEW j \in DOMAIN r PROVE r[j] = s[j] /\ j \in DOMAIN s /\ j # k /\ r[j] \in Members(s) /\ Apart(r[j], s[k])
    BY <1>0, <1>1 DEF Whole, Sundered, Members
  <1>6. ASSUME NEW j \in DOMAIN t PROVE u[j] = t[j] /\ t[j] \in Members(t) /\ Apart(t[j], s[k])
    BY <1>0, <1>1 DEF Whole, Aside, Members, Apart
  <1>7. \A y \in Members(r) \cup Members(u) : Single(op, p.doc, y)
    <2>1. \A y \in Members(r) : Single(op, p.doc, y)
      BY <1>3, <1>5 DEF Members
    <2>2. \A y \in Members(t) : Single(op, p.doc, y)
      BY <1>3, <1>6 DEF Members
    <2>3. QED
      BY <1>1, <1>4, <2>1, <2>2
  <1>8. Sundered(r)
    BY <1>5 DEF Whole, Sundered
  <1>9. Sundered(u)
    <2>1. SUFFICES ASSUME NEW i \in DOMAIN u, NEW j \in DOMAIN u, i # j PROVE Apart(u[i], u[j])
      BY DEF Sundered
    <2>2. CASE i = n + 1
      <3>1. j \in DOMAIN t
        BY <1>1, <2>1, <2>2
      <3>2. QED
        BY <1>1, <1>3, <1>6, <2>2, <3>1
    <2>3. CASE j = n + 1
      <3>1. i \in DOMAIN t
        BY <1>1, <2>1, <2>3
      <3>2. QED
        BY <1>1, <1>3, <1>6, <2>3, <3>1
    <2>4. CASE i # n + 1 /\ j # n + 1
      <3>1. i \in DOMAIN t /\ j \in DOMAIN t
        BY <1>1, <2>4
      <3>2. QED
        BY <1>6, <2>1, <3>1 DEF Whole, Sundered
    <2>5. QED
      BY <2>2, <2>3, <2>4
  <1>10. Aside(r, u)
    <2>1. SUFFICES ASSUME NEW i \in DOMAIN r, NEW j \in DOMAIN u PROVE Apart(r[i], u[j])
      BY DEF Aside
    <2>2. CASE j = n + 1
      BY <1>1, <1>3, <1>5, <2>2
    <2>3. CASE j # n + 1
      <3>1. j \in DOMAIN t
        BY <1>1, <2>3
      <3>2. QED
        BY <1>5, <1>6, <3>1 DEF Whole, Aside
    <2>4. QED
      BY <2>2, <2>3
  <1>11. QED
    BY <1>7, <1>8, <1>9, <1>10 DEF Whole, u, r

\* i is not on the board, and no step brings it back, or none knows it.
Gone(d, s, t, i)    == d[i] = Nothing /\ \A y \in Members(s) \cup Members(t) : ~Restores(y, i)
Unknown(d, s, t, i) == d[i] = Nothing /\ \A y \in Members(s) \cup Members(t) : i \notin DOMAIN y.was

\* What going one step back keeps.
Back(d, s, t, p) ==
    LET u == t \o p.turned
    IN /\ p.doc \in Docs /\ p.rest \in Seq(Steps) /\ u \in Seq(Steps)
       /\ \A op \in Nat : Whole(op, d, s, t) => Whole(op, p.doc, p.rest, u)
       /\ \A i \in Ids : Gone(d, s, t, i) => Gone(p.doc, p.rest, u, i)
       /\ \A i \in Ids : Unknown(d, s, t, i) => Unknown(p.doc, p.rest, u, i)

LEMMA PopGoesBack ==
    ASSUME NEW d \in Docs, NEW s \in Seq(Steps), NEW t \in Seq(Steps), NEW over \in BOOLEAN,
           NEW p, p = Popped(d, s, over)
    PROVE  Back(d, s, t, p)
  <1>1. CASE p.turned = <<>>
    <2>1. p.doc = d /\ p.rest = <<>> /\ t \o p.turned = t /\ <<>> \in Seq(Steps)
      BY <1>1, PoppedFacts, ConcatEmptySeq, EmptySeq
    <2>2. Members(<<>>) = {}
      BY DEF Members
    <2>3. QED
      BY <2>1, <2>2 DEF Back, Whole, Sundered, Aside, Gone, Unknown
  <1>2. CASE p.turned # <<>>
    <2>1. TurnsOne(d, s, p)
      BY <1>2, PoppedFacts
    <2>2. PICK k, x : Turns(d, s, p, k, x)
      BY <2>1 DEF TurnsOne
    <2>3. Stacks(s, t, p, k, x)
      BY <2>2, Turned
    <2> DEFINE u == t \o p.turned
    <2>4. \A op \in Nat : Whole(op, d, s, t) => Whole(op, p.doc, p.rest, u)
      BY <2>2, TurnWhole
    <2> HIDE DEF u
    <2>5. /\ s[k] \in Members(s) /\ Members(p.rest) \subseteq Members(s) /\ Members(u) = Members(t) \cup {x}
          /\ p.rest \in Seq(Steps) /\ u \in Seq(Steps)
      BY <2>3 DEF Stacks, u
    <2>6. /\ p.doc \in Docs /\ DOMAIN x.was = DOMAIN s[k].was
          /\ \A i \in DOMAIN x.was : x.was[i] = d[i] /\ x.is[i] = p.doc[i]
          /\ \A i \in Ids : d[i] = Nothing /\ p.doc[i] # Nothing => Restores(s[k], i)
      BY <2>2 DEF Turns
    <2>7. ASSUME NEW i \in Ids, Gone(d, s, t, i) PROVE Gone(p.doc, p.rest, u, i)
      <3>1. ~Restores(s[k], i) /\ d[i] = Nothing
        BY <2>5, <2>7 DEF Gone
      <3>2. p.doc[i] = Nothing /\ ~Restores(x, i)
        BY <2>6, <3>1 DEF Restores
      <3>3. QED
        BY <2>5, <2>7, <3>2 DEF Gone
    <2>8. ASSUME NEW i \in Ids, Unknown(d, s, t, i) PROVE Unknown(p.doc, p.rest, u, i)
      <3>1. i \notin DOMAIN s[k].was /\ d[i] = Nothing
        BY <2>5, <2>8 DEF Unknown
      <3>2. p.doc[i] = Nothing /\ i \notin DOMAIN x.was
        BY <2>6, <3>1 DEF Restores
      <3>3. QED
        BY <2>5, <2>8, <3>2 DEF Unknown
    <2>9. QED
      BY <2>4, <2>5, <2>6, <2>7, <2>8 DEF Back, u
  <1>3. QED
    BY <1>1, <1>2

\* What undo and redo keep of all there is to undo and redo.
Steady(e, f) ==
    /\ f \in Eds /\ f.op = e.op
    /\ Sound(e) => Sound(f)
    /\ \A U \in SUBSET Ids : Fresh(e, U) => Fresh(f, U)
    /\ \A i \in Ids : e.doc[i] = Nothing /\ NeverBack(e, i) => f.doc[i] = Nothing /\ NeverBack(f, i)

LEMMA UndoneSteady ==
    ASSUME NEW e \in Eds, NEW over \in BOOLEAN
    PROVE  Steady(e, Undone(e, over))
  <1> DEFINE p == Popped(e.doc, e.undo, over)
             f == Undone(e, over)
  <1>1. /\ e.doc \in Docs /\ e.undo \in Seq(Steps) /\ e.redo \in Seq(Steps) /\ e.open \in BOOLEAN /\ e.op \in 0..MaxOps
        /\ MaxOps \in Nat
    BY EditorAssumption DEF Eds
  <1>2. Back(e.doc, e.undo, e.redo, p)
    BY <1>1, PopGoesBack
  <1>3. f = [e EXCEPT !.doc = p.doc, !.undo = p.rest, !.redo = @ \o p.turned, !.open = @ /\ p.turned = <<>>]
    BY DEF Undone
  <1>4. p.turned = <<>> => p.rest = <<>> /\ e.redo \o p.turned = e.redo
    BY <1>1, PoppedFacts, ConcatEmptySeq
  <1> HIDE DEF p, f
  <1>5. /\ f.doc = p.doc /\ f.undo = p.rest /\ f.redo = e.redo \o p.turned /\ f.op = e.op
        /\ f.open <=> (e.open /\ p.turned = <<>>)
    BY <1>3 DEF Eds
  <1>6. f \in Eds
    <2>1. (e.open /\ p.turned = <<>>) \in BOOLEAN
      BY <1>1
    <2>2. QED
      BY <1>1, <1>2, <1>3, <2>1 DEF Back, Eds
  <1>7. Sound(e) => Sound(f)
    <2>1. SUFFICES ASSUME Sound(e) PROVE Sound(f)
      OBVIOUS
    <2>2. Whole(f.op, f.doc, f.undo, f.redo)
      BY <1>1, <1>2, <1>5, <2>1 DEF Back, Sound
    <2>3. f.open => f.redo = <<>> /\ f.undo = <<>>
      BY <1>4, <1>5, <2>1 DEF Sound
    <2>4. QED
      BY <2>2, <2>3 DEF Sound
  <1>8. ASSUME NEW U \in SUBSET Ids, Fresh(e, U) PROVE Fresh(f, U)
    BY <1>2, <1>5, <1>8 DEF Fresh, Back, Unknown, Listed
  <1>9. ASSUME NEW i \in Ids, e.doc[i] = Nothing, NeverBack(e, i) PROVE f.doc[i] = Nothing /\ NeverBack(f, i)
    BY <1>2, <1>5, <1>9 DEF NeverBack, Back, Gone, Listed
  <1>10. QED
    BY <1>5, <1>6, <1>7, <1>8, <1>9 DEF Steady, f

LEMMA RedoneSteady ==
    ASSUME NEW e \in Eds, NEW over \in BOOLEAN
    PROVE  Steady(e, Redone(e, over))
  <1> DEFINE p == Popped(e.doc, e.redo, over)
             f == Redone(e, over)
  <1>1. /\ e.doc \in Docs /\ e.undo \in Seq(Steps) /\ e.redo \in Seq(Steps) /\ e.open \in BOOLEAN /\ e.op \in 0..MaxOps
        /\ MaxOps \in Nat
    BY EditorAssumption DEF Eds
  <1>2. Back(e.doc, e.redo, e.undo, p)
    BY <1>1, PopGoesBack
  <1>3. f = [e EXCEPT !.doc = p.doc, !.redo = p.rest, !.undo = @ \o p.turned]
    BY DEF Redone
  <1>4. e.redo = <<>> => p.turned = <<>> /\ p.rest = <<>> /\ e.undo \o p.turned = e.undo
    <2>1. ASSUME e.redo = <<>> PROVE p.turned = <<>>
      <3>1. SUFFICES ASSUME p.turned # <<>> PROVE FALSE
        OBVIOUS
      <3>2. TurnsOne(e.doc, e.redo, p)
        BY <1>1, <3>1, PoppedFacts
      <3>3. PICK k, x : Turns(e.doc, e.redo, p, k, x)
        BY <3>2 DEF TurnsOne
      <3>4. k \in DOMAIN e.redo /\ DOMAIN e.redo = {}
        BY <2>1, <3>3 DEF Turns
      <3>5. QED
        BY <3>4
    <2>2. p.turned = <<>> => p.rest = <<>> /\ e.undo \o p.turned = e.undo
      BY <1>1, PoppedFacts, ConcatEmptySeq
    <2>3. QED
      BY <2>1, <2>2
  <1> HIDE DEF p, f
  <1>5. f.doc = p.doc /\ f.redo = p.rest /\ f.undo = e.undo \o p.turned /\ f.op = e.op /\ f.open = e.open
    BY <1>3 DEF Eds
  <1>6. f \in Eds
    BY <1>1, <1>2, <1>3 DEF Back, Eds
  <1>7. Sound(e) => Sound(f)
    <2>1. SUFFICES ASSUME Sound(e) PROVE Sound(f)
      OBVIOUS
    <2>2. Whole(f.op, f.doc, f.redo, f.undo)
      <3>1. Whole(e.op, e.doc, e.redo, e.undo)
        BY <2>1 DEF Sound, Whole, Aside, Apart
      <3>2. QED
        BY <1>1, <1>2, <1>5, <3>1 DEF Back
    <2>3. Whole(f.op, f.doc, f.undo, f.redo)
      BY <2>2 DEF Whole, Aside, Apart
    <2>4. f.open => f.redo = <<>> /\ f.undo = e.undo
      BY <1>4, <1>5, <2>1 DEF Sound
    <2>5. QED
      BY <1>5, <2>1, <2>3, <2>4 DEF Sound
  <1>8. ASSUME NEW U \in SUBSET Ids, Fresh(e, U) PROVE Fresh(f, U)
    BY <1>2, <1>5, <1>8 DEF Fresh, Back, Unknown, Listed
  <1>9. ASSUME NEW i \in Ids, e.doc[i] = Nothing, NeverBack(e, i) PROVE f.doc[i] = Nothing /\ NeverBack(f, i)
    BY <1>2, <1>5, <1>9 DEF NeverBack, Back, Gone, Listed
  <1>10. QED
    BY <1>5, <1>6, <1>7, <1>8, <1>9 DEF Steady, f

------------------------------------------------------------------------------
(* What each writer of elements.ts does to the document and to its steps. *)

\* f is e after writes on those of ids that are there.
Kept(e, f, ids) ==
    /\ f \in Eds /\ f.op = e.op
    /\ \A i \in Ids \ ids : f.doc[i] = e.doc[i]
    /\ \A i \in Ids : e.doc[i] = Nothing => f.doc[i] = Nothing
    /\ \A U \in SUBSET Ids : Fresh(e, U) => Fresh(f, U)
    /\ Sound(e) /\ Current(e) =>
          /\ Sound(f) /\ Current(f)
          /\ \A i \in Ids : NeverBack(e, i) /\ (e.doc[i] = Nothing \/ f.doc[i] # Nothing) => NeverBack(f, i)

\* f is e with ids, which nothing knew, on the board.
Added(e, f, ids) ==
    /\ f \in Eds /\ f.op = e.op
    /\ \A i \in Ids \ ids : f.doc[i] = e.doc[i]
    /\ \A i \in ids : f.doc[i] # Nothing
    /\ \A U \in SUBSET Ids : Fresh(e, U) => Fresh(f, U \ ids)
    /\ Sound(e) /\ Current(e) /\ Fresh(e, ids) =>
          Sound(f) /\ Current(f) /\ \A i \in Ids : NeverBack(e, i) => NeverBack(f, i)

\* f is e at the start of something new.
Started(e, f) ==
    /\ f \in Eds /\ f.op = e.op + 1 /\ f.op # 0 /\ f.doc = e.doc
    /\ \A U \in SUBSET Ids : Fresh(e, U) => Fresh(f, U)
    /\ \A i \in Ids : NeverBack(e, i) => NeverBack(f, i)
    /\ Sound(e) => Sound(f) /\ Current(f)

LEMMA KeptItself ==
    ASSUME NEW e \in Eds, NEW ids
    PROVE  Kept(e, e, ids)
  BY DEF Kept

LEMMA TouchKeeps ==
    ASSUME NEW e \in Eds, NEW ids \in SUBSET Ids, NEW D \in SUBSET ids, NEW new \in [D -> Els],
           e.op # 0, \A i \in D : e.doc[i] # Nothing
    PROVE  /\ Kept(e, Write(e, new), ids)
           /\ Write(e, new).doc = [i \in Ids |-> IF i \in D THEN new[i] ELSE e.doc[i]]
  <1> DEFINE w == Write(e, new)
  <1>1. w \in Eds /\ w.op = e.op /\ w.doc = [i \in Ids |-> IF i \in D THEN new[i] ELSE e.doc[i]]
    BY Written
  <1>2. ASSUME NEW U \in SUBSET Ids, Fresh(e, U) PROVE Fresh(w, U)
    <2>1. U \cap D = {} /\ U \in SUBSET U
      BY <1>2 DEF Fresh
    <2>2. QED
      BY <1>2, <2>1, WriteFresh
  <1>3. ASSUME Sound(e), Current(e)
        PROVE  /\ Sound(w) /\ Current(w)
               /\ \A i \in Ids : NeverBack(e, i) /\ (i \in D => new[i] # Nothing) => NeverBack(w, i)
    BY <1>3, WriteSound
  <1> HIDE DEF w
  <1>4. ASSUME Sound(e), Current(e), NEW i \in Ids, NeverBack(e, i), e.doc[i] = Nothing \/ w.doc[i] # Nothing
        PROVE  NeverBack(w, i)
    <2>1. i \in D => new[i] # Nothing
      BY <1>1, <1>4
    <2>2. QED
      BY <1>3, <1>4, <2>1
  <1>5. Kept(e, w, ids)
    BY <1>1, <1>2, <1>3, <1>4 DEF Kept
  <1>6. QED
    BY <1>1, <1>5 DEF w

LEMMA AddKeeps ==
    ASSUME NEW e \in Eds, NEW ids \in SUBSET Ids, NEW new \in [ids -> Els], e.op # 0, \A i \in ids : new[i] # Nothing
    PROVE  /\ Added(e, Write(e, new), ids)
           /\ Write(e, new).doc = [i \in Ids |-> IF i \in ids THEN new[i] ELSE e.doc[i]]
  <1> DEFINE w == Write(e, new)
  <1>1. w \in Eds /\ w.op = e.op /\ w.doc = [i \in Ids |-> IF i \in ids THEN new[i] ELSE e.doc[i]]
    BY Written
  <1>2. ASSUME NEW U \in SUBSET Ids, Fresh(e, U) PROVE Fresh(w, U \ ids)
    <2>1. (U \ ids) \cap ids = {} /\ U \ ids \in SUBSET U
      OBVIOUS
    <2>2. QED
      BY <1>2, <2>1, WriteFresh
  <1>3. ASSUME Sound(e), Current(e), Fresh(e, ids)
        PROVE  Sound(w) /\ Current(w) /\ \A i \in Ids : NeverBack(e, i) => NeverBack(w, i)
    <2>1. \A i \in ids : new[i] # Nothing /\ \A y \in Listed(e) : i \notin DOMAIN y.was
      BY <1>3 DEF Fresh
    <2>2. QED
      BY <1>3, <2>1, WriteSound
  <1> HIDE DEF w
  <1>4. Added(e, w, ids)
    BY <1>1, <1>2, <1>3 DEF Added
  <1>5. QED
    BY <1>1, <1>4 DEF w

LEMMA StartKeeps ==
    ASSUME NEW e \in Eds, e.op < MaxOps
    PROVE  Started(e, Starting(e))
  <1> DEFINE f == Starting(e)
  <1>1. e.op \in Nat /\ MaxOps \in Nat
    BY EditorAssumption DEF Eds
  <1>2. f = [e EXCEPT !.open = FALSE, !.op = e.op + 1]
    BY DEF Starting, Closed, Eds
  <1> HIDE DEF f
  <1>3. /\ f \in Eds /\ f.op = e.op + 1 /\ f.op # 0 /\ f.doc = e.doc /\ ~f.open
        /\ f.undo = e.undo /\ f.redo = e.redo
    <2>1. e.op + 1 \in 0..MaxOps /\ e.op + 1 # 0
      BY <1>1
    <2> DEFINE n == e.op + 1
    <2>2. n \in 0..MaxOps /\ n # 0 /\ f = [e EXCEPT !.open = FALSE, !.op = n]
      BY <1>2, <2>1
    <2> HIDE DEF n
    <2>3. f \in Eds /\ f.op = n /\ f.doc = e.doc /\ ~f.open /\ f.undo = e.undo /\ f.redo = e.redo
      BY <2>2 DEF Eds
    <2>4. QED
      BY <2>2, <2>3 DEF n
  <1>4. Listed(f) = Listed(e)
    BY <1>3 DEF Listed
  <1>5. ASSUME Sound(e) PROVE Sound(f) /\ Current(f)
    <2>1. \A x \in Listed(e) : Single(e.op, e.doc, x)
      BY <1>5 DEF Sound, Whole, Listed
    <2>2. \A x \in Listed(f) : Single(f.op, f.doc, x) /\ f.op \notin x.ops
      BY <1>1, <1>3, <1>4, <2>1 DEF Single
    <2>3. Sound(f)
      BY <1>3, <1>5, <2>2 DEF Sound, Whole, Listed
    <2>4. QED
      BY <1>3, <2>2, <2>3 DEF Current
  <1>6. QED
    BY <1>3, <1>4, <1>5 DEF Started, Fresh, NeverBack, f

\* Nothing is an element, and one with another place, extent, form, ink or words
\* is one still.
LEMMA ElementFacts ==
    /\ Nothing \in Els
    /\ \A el \in Els : el # Nothing =>
          /\ el.kind # "none" /\ el.at \in Int /\ el.size \in Nat /\ el.form \in 0..1 /\ el.ink \in 0..1
          /\ el.said \subseteq {"me", "peer"}
          /\ \A at \in Int, n \in Nat, c \in 0..1, said \in SUBSET {"me", "peer"} :
                /\ [el EXCEPT !.at = at] \in Els /\ [el EXCEPT !.at = at] # Nothing
                /\ [el EXCEPT !.size = n] \in Els /\ [el EXCEPT !.size = n] # Nothing
                /\ [el EXCEPT !.form = c] \in Els /\ [el EXCEPT !.form = c] # Nothing
                /\ [el EXCEPT !.ink = c] \in Els /\ [el EXCEPT !.ink = c] # Nothing
                /\ [el EXCEPT !.said = said] \in Els /\ [el EXCEPT !.said = said] # Nothing
  BY DEF Els, Elements, Nothing

LEMMA OnKeeps ==
    ASSUME NEW e \in Eds, NEW ids \in SUBSET Ids, NEW new \in [ids \cap Painted(e.doc) -> Els],
           ids \cap Painted(e.doc) # {} => e.op # 0
    PROVE  /\ Kept(e, Write(e, new), ids)
           /\ \A i \in ids : Write(e, new).doc[i] = IF e.doc[i] = Nothing THEN Nothing ELSE new[i]
  <1> DEFINE D == ids \cap Painted(e.doc)
             w == Write(e, new)
  <1>1. D \in SUBSET ids /\ new \in [D -> Els] /\ (D # {} => e.op # 0) /\ \A i \in ids : i \in D <=> e.doc[i] # Nothing
    BY DEF Painted
  <1> HIDE DEF D
  <1>2. CASE D = {}
    <2>1. w = e
      BY <1>1, <1>2 DEF Write
    <2>2. Kept(e, w, ids)
      BY <2>1, KeptItself
    <2>3. QED
      BY <1>1, <1>2, <2>1, <2>2
  <1>3. CASE D # {}
    <2>1. Kept(e, w, ids) /\ w.doc = [i \in Ids |-> IF i \in D THEN new[i] ELSE e.doc[i]]
      BY SMTT(30), <1>1, <1>3, TouchKeeps
    <2> HIDE DEF w
    <2>2. QED
      BY <1>1, <2>1 DEF w
  <1>4. QED
    BY <1>2, <1>3

Shifted(el, n)   == IF el = Nothing THEN Nothing ELSE [el EXCEPT !.at = @ + n]
Boxed(el, at, n) == IF el = Nothing THEN Nothing ELSE [el EXCEPT !.at = at, !.size = n, !.form = 0]
Grown(el, n)     == IF el = Nothing THEN Nothing ELSE [el EXCEPT !.size = @ + n]

Boxes(e, f, ids, at, n) == Kept(e, f, ids) /\ \A i \in ids : BboxOf(f.doc[i]) = Boxed(e.doc[i], at, n)

\* What a box tells of an element is an element in the same place.
LEMMA BboxPlaces ==
    ASSUME NEW el \in Els
    PROVE  /\ BboxOf(el) \in Els /\ (BboxOf(el) = Nothing <=> el = Nothing)
           /\ BboxOf(el).at = el.at /\ BboxOf(el).size = el.size
  <1>1. CASE el = Nothing
    <2>1. BboxOf(el) = Nothing
      BY <1>1 DEF BboxOf, Nothing
    <2>2. QED
      BY <1>1, <2>1
  <1>2. CASE el # Nothing
    <2>1. el \in Elements /\ el.kind # "none"
      BY <1>2 DEF Els
    <2>2. /\ BboxOf(el) \in Elements /\ BboxOf(el).kind = el.kind
          /\ BboxOf(el).at = el.at /\ BboxOf(el).size = el.size
      BY <2>1 DEF BboxOf, Elements
    <2>3. BboxOf(el) \in Els /\ BboxOf(el) # Nothing
      BY <2>1, <2>2 DEF Els, Nothing
    <2>4. QED
      BY <1>2, <2>2, <2>3
  <1>3. QED
    BY <1>1, <1>2

\* Nothing has no box, whatever it is fitted to.
LEMMA NothingBoxed == BboxOf(Nothing) = Nothing /\ Nothing \in Els /\ \A at, n : Boxed(Nothing, at, n) = Nothing
  <1>1. Nothing \in Els
    BY ElementFacts
  <1>2. BboxOf(Nothing) = Nothing
    BY <1>1, BboxPlaces
  <1>3. \A at, n : Boxed(Nothing, at, n) = Nothing
    BY DEF Boxed
  <1>4. QED
    BY <1>1, <1>2, <1>3

\* An element fitted to a box has that place and that extent, and its words.
LEMMA FittedBoxes ==
    ASSUME NEW el \in Els, el # Nothing, NEW box \in Els, NEW n \in Nat
    PROVE  /\ Fitted(el, box, n) \in Els /\ Fitted(el, box, n).kind = el.kind /\ Fitted(el, box, n).said = el.said
           /\ BboxOf(Fitted(el, box, n)) = Boxed(el, box.at, n)
  <1> DEFINE c == IF el.kind # "path" THEN box.form ELSE IF el.size \in {0, n} THEN el.form ELSE 0
             x == [el EXCEPT !.at = box.at, !.size = n, !.form = c]
  <1>1. el \in Elements /\ el.kind # "none" /\ box.at \in Int /\ c \in 0..1
    BY DEF Els, Elements
  <1>2. Fitted(el, box, n) = x
    BY DEF Fitted
  <1> HIDE DEF c
  <1>3. x \in Elements /\ x.kind = el.kind /\ x.said = el.said
    BY <1>1 DEF Elements
  <1>4. [x EXCEPT !.form = 0] = [el EXCEPT !.at = box.at, !.size = n, !.form = 0]
    BY <1>1 DEF Elements
  <1> HIDE DEF x
  <1>5. x \in Els
    BY <1>1, <1>3 DEF Els
  <1>6. QED
    BY <1>2, <1>3, <1>4, <1>5 DEF BboxOf, Boxed

LEMMA MoveByKeeps ==
    ASSUME NEW e \in Eds, NEW ids \in SUBSET Ids, NEW n \in Int, ids \cap Painted(e.doc) # {} => e.op # 0
    PROVE  /\ Kept(e, MoveBy(e, ids, n), ids)
           /\ \A i \in ids : MoveBy(e, ids, n).doc[i] =
                 IF e.doc[i] = Nothing THEN Nothing ELSE [e.doc[i] EXCEPT !.at = @ + n]
  <1>1. e.doc \in [Ids -> Els]
    BY DEF Eds, Docs
  <1>2. CASE n = 0
    <2>1. MoveBy(e, ids, n) = e
      BY <1>2 DEF MoveBy
    <2>2. \A i \in ids : e.doc[i] # Nothing => e.doc[i] = [e.doc[i] EXCEPT !.at = @ + n]
      BY <1>1, <1>2 DEF Els, Elements
    <2>3. QED
      BY <2>1, <2>2, KeptItself
  <1>3. CASE n # 0
    <2> DEFINE new == [i \in ids \cap Painted(e.doc) |-> [e.doc[i] EXCEPT !.at = @ + n]]
    <2>1. MoveBy(e, ids, n) = Write(e, new)
      BY <1>3 DEF MoveBy, On
    <2>2. new \in [ids \cap Painted(e.doc) -> Els]
      <3>1. SUFFICES ASSUME NEW i \in ids \cap Painted(e.doc) PROVE [e.doc[i] EXCEPT !.at = @ + n] \in Els
        OBVIOUS
      <3>2. e.doc[i] \in Els /\ e.doc[i] # Nothing
        BY <1>1 DEF Painted
      <3>3. e.doc[i].at + n \in Int
        BY <3>2 DEF Els, Elements
      <3>4. QED
        BY <3>2, <3>3, ElementFacts
    <2>3. \A i \in ids : e.doc[i] # Nothing => new[i] = [e.doc[i] EXCEPT !.at = @ + n]
      BY DEF Painted
    <2> HIDE DEF new
    <2>4. /\ Kept(e, Write(e, new), ids)
          /\ \A i \in ids : Write(e, new).doc[i] = IF e.doc[i] = Nothing THEN Nothing ELSE new[i]
      BY <2>2, OnKeeps
    <2>5. QED
      BY <2>1, <2>3, <2>4
  <1>4. QED
    BY <1>2, <1>3

LEMMA ResizeKeeps ==
    ASSUME NEW e \in Eds, NEW ids \in SUBSET Ids, NEW box \in Els, NEW n \in Nat,
           ids \cap Painted(e.doc) # {} => e.op # 0
    PROVE  Boxes(e, Resize(e, ids, box, n), ids, box.at, n)
  <1> DEFINE new == [i \in ids \cap Painted(e.doc) |-> Fitted(e.doc[i], box, n)]
  <1>1. Resize(e, ids, box, n) = Write(e, new)
    BY DEF Resize, On
  <1>2. ASSUME NEW i \in ids \cap Painted(e.doc)
        PROVE  Fitted(e.doc[i], box, n) \in Els /\ BboxOf(Fitted(e.doc[i], box, n)) = Boxed(e.doc[i], box.at, n)
    <2>1. e.doc[i] \in Els /\ e.doc[i] # Nothing
      BY DEF Eds, Docs, Painted
    <2>2. QED
      BY <2>1, FittedBoxes
  <1>3. new \in [ids \cap Painted(e.doc) -> Els]
    BY <1>2
  <1>4. \A i \in ids : BboxOf(IF e.doc[i] = Nothing THEN Nothing ELSE new[i]) = Boxed(e.doc[i], box.at, n)
    <2>1. TAKE i \in ids
    <2>2. CASE e.doc[i] = Nothing
      BY <2>2, NothingBoxed
    <2>3. CASE e.doc[i] # Nothing
      BY <1>2, <2>3 DEF Painted
    <2>4. QED
      BY <2>2, <2>3
  <1> HIDE DEF new
  <1>5. /\ Kept(e, Write(e, new), ids)
        /\ \A i \in ids : Write(e, new).doc[i] = IF e.doc[i] = Nothing THEN Nothing ELSE new[i]
    BY <1>3, OnKeeps
  <1>6. QED
    BY <1>1, <1>4, <1>5 DEF Boxes

LEMMA AppendPointsKeeps ==
    ASSUME NEW e \in Eds, NEW ids \in SUBSET Ids, NEW n \in Nat, ids \cap Painted(e.doc) # {} => e.op # 0
    PROVE  /\ Kept(e, AppendPoints(e, ids, n), ids)
           /\ \A i \in ids : AppendPoints(e, ids, n).doc[i] =
                 IF e.doc[i] = Nothing THEN Nothing ELSE [e.doc[i] EXCEPT !.size = @ + n]
  <1>1. e.doc \in [Ids -> Els]
    BY DEF Eds, Docs
  <1>2. CASE n = 0
    <2>1. AppendPoints(e, ids, n) = e
      BY <1>2 DEF AppendPoints
    <2>2. \A i \in ids : e.doc[i] # Nothing => e.doc[i] = [e.doc[i] EXCEPT !.size = @ + n]
      BY <1>1, <1>2 DEF Els, Elements
    <2>3. QED
      BY <2>1, <2>2, KeptItself
  <1>3. CASE n # 0
    <2> DEFINE new == [i \in ids \cap Painted(e.doc) |-> [e.doc[i] EXCEPT !.size = @ + n]]
    <2>1. AppendPoints(e, ids, n) = Write(e, new)
      BY <1>3 DEF AppendPoints, On
    <2>2. new \in [ids \cap Painted(e.doc) -> Els]
      <3>1. SUFFICES ASSUME NEW i \in ids \cap Painted(e.doc) PROVE [e.doc[i] EXCEPT !.size = @ + n] \in Els
        OBVIOUS
      <3>2. e.doc[i] \in Els /\ e.doc[i] # Nothing
        BY <1>1 DEF Painted
      <3>3. e.doc[i].size + n \in Nat
        BY <3>2 DEF Els, Elements
      <3>4. QED
        BY <3>2, <3>3, ElementFacts
    <2>3. \A i \in ids : e.doc[i] # Nothing => new[i] = [e.doc[i] EXCEPT !.size = @ + n]
      BY DEF Painted
    <2> HIDE DEF new
    <2>4. /\ Kept(e, Write(e, new), ids)
          /\ \A i \in ids : Write(e, new).doc[i] = IF e.doc[i] = Nothing THEN Nothing ELSE new[i]
      BY <2>2, OnKeeps
    <2>5. QED
      BY <2>1, <2>3, <2>4
  <1>4. QED
    BY <1>2, <1>3

LEMMA RemoveKeeps ==
    ASSUME NEW e \in Eds, NEW ids \in SUBSET Ids, ids \cap Painted(e.doc) # {} => e.op # 0
    PROVE  /\ Kept(e, RemoveElements(e, ids), ids)
           /\ \A i \in ids : RemoveElements(e, ids).doc[i] = Nothing
  <1> DEFINE new == [i \in ids \cap Painted(e.doc) |-> Nothing]
  <1>1. RemoveElements(e, ids) = Write(e, new)
    BY DEF RemoveElements, On
  <1>2. new \in [ids \cap Painted(e.doc) -> Els]
    BY ElementFacts
  <1>3. \A i \in ids : e.doc[i] # Nothing => new[i] = Nothing
    BY DEF Painted
  <1> HIDE DEF new
  <1>4. /\ Kept(e, Write(e, new), ids)
        /\ \A i \in ids : Write(e, new).doc[i] = IF e.doc[i] = Nothing THEN Nothing ELSE new[i]
    BY <1>2, OnKeeps
  <1>5. QED
    BY <1>1, <1>3, <1>4

LEMMA InkKeeps ==
    ASSUME NEW e \in Eds, NEW ids \in SUBSET Ids, ids \cap Painted(e.doc) # {} => e.op # 0
    PROVE  Kept(e, On(e, ids, LAMBDA el : [el EXCEPT !.ink = 1 - @]), ids)
  <1> DEFINE new == [i \in ids \cap Painted(e.doc) |-> [e.doc[i] EXCEPT !.ink = 1 - @]]
             w   == On(e, ids, LAMBDA el : [el EXCEPT !.ink = 1 - @])
  <1>1. w = Write(e, new)
    BY DEF On
  <1>2. new \in [ids \cap Painted(e.doc) -> Els]
    <2>1. SUFFICES ASSUME NEW i \in ids \cap Painted(e.doc) PROVE [e.doc[i] EXCEPT !.ink = 1 - @] \in Els
      OBVIOUS
    <2>2. e.doc[i] \in Els /\ e.doc[i] # Nothing
      BY DEF Eds, Docs, Painted
    <2>3. 1 - e.doc[i].ink \in 0..1
      BY <2>2 DEF Els, Elements
    <2>4. QED
      BY <2>2, <2>3, ElementFacts
  <1> HIDE DEF new, w
  <1>3. Kept(e, Write(e, new), ids)
    BY <1>2, OnKeeps
  <1>4. QED
    BY <1>1, <1>3 DEF w

------------------------------------------------------------------------------
(* The invariant that makes a step of each gesture: what the state is made *)
(* of and, until something comes between a gesture and its end, what is    *)
(* known of the steps.                                                     *)

Uis     == [tool : Tools, selection : SUBSET Ids, editing : Ids \cup {None}]
Drags   == [kind : {"none", "note", "stroke", "draw", "resize", "move", "marquee"}, ids : SUBSET Ids, from : Els,
            total : Int, flushed : Int, timer : BOOLEAN, frame : BOOLEAN, orphan : BOOLEAN]
Overlay == {"shift", "box", "marquee"} \X (Ids \cup {None})
Foci    == {"canvas", "editor", "body", "chrome"}
Screens == [painted : SUBSET Overlay, late : SUBSET Overlay, focus : Foci]

\* What a drag draws was made by it, and its numbers are those of its kind.
Measured(d) ==
    /\ d.kind \in {"resize", "draw", "stroke"} => d.total \in Nat
    /\ d.kind = "stroke" => d.flushed \in Nat /\ d.flushed <= d.total
    /\ d.kind \in {"draw", "stroke"} => d.ids # {}

Types ==
    /\ drag \in Drags /\ Measured(drag) /\ screen \in Screens
    /\ burst \in BOOLEAN /\ before \in Docs /\ upset \in BOOLEAN /\ meddled \in 0..MaxMeddling

FieldOpen(u, e) == u.editing # None /\ e.doc[u.editing] # Nothing

Good(e, u, U) ==
    /\ e \in Eds /\ u \in Uis /\ U \in SUBSET Ids
    /\ Fresh(e, U) /\ u.editing \notin U
    /\ u.editing # None => e.op # 0

Base ==
    /\ Types /\ Good(ed, ui, unused)
    /\ screen.focus = "editor" <=> FieldOpen(ui, ed)
    /\ dragging \/ burst => ed.op # 0
    /\ drag.kind = "draw" => drag.ids \cap unused = {}

\* What is edited does not come back once it is gone, and what is typed goes
\* into the step of the edit.
Sure(e, u) ==
    /\ Sound(e)
    /\ u.editing # None => NeverBack(e, u.editing)
    /\ FieldOpen(u, e) => Current(e)

Steadfast ==
    upset \/ /\ Sure(ed, ui)
             /\ dragging => Current(ed) /\ ~FieldOpen(ui, ed)
             /\ drag.kind = "draw" => \A i \in drag.ids : NeverBack(ed, i)

LEMMA PresentNeverBack ==
    ASSUME NEW e \in Eds, Sound(e), NEW i \in Ids, e.doc[i] # Nothing
    PROVE  NeverBack(e, i)
  BY DEF Sound, Whole, Listed, Single, NeverBack

LEMMA FreshNeverBack ==
    ASSUME NEW e, NEW U, Fresh(e, U), NEW i \in U
    PROVE  NeverBack(e, i)
  BY DEF Fresh, NeverBack, Restores

\* What keeps e keeps what is known of it.
LEMMA KeptGood ==
    ASSUME NEW e, NEW u, NEW U, Good(e, u, U), NEW f, NEW ids, Kept(e, f, ids)
    PROVE  Good(f, u, U)
  BY DEF Good, Kept

LEMMA KeptSure ==
    ASSUME NEW e, NEW u \in Uis, Sure(e, u), Current(e), NEW f, NEW ids, Kept(e, f, ids),
           u.editing # None => e.doc[u.editing] = Nothing \/ f.doc[u.editing] # Nothing
    PROVE  Sure(f, u) /\ Current(f)
  BY DEF Sure, Kept, Uis

\* The text box that was being edited goes if it was left empty.
DropsTo(e, u, U, d) ==
    /\ Good(d.ed, d.ui, U) /\ d.ed.op = e.op /\ Kept(e, d.ed, {ui.editing} \ {None})
    /\ d.ui.tool = u.tool /\ d.ui.selection \subseteq u.selection
    /\ \/ d.ed = e /\ d.ui = u
       \/ /\ d.ui.editing = None /\ ui.editing # None
          /\ e.doc[ui.editing] # Nothing /\ Blank(e.doc[ui.editing])
    /\ ui.editing # None => ~Blank(d.ed.doc[ui.editing])

LEMMA DroppedFacts ==
    ASSUME NEW e, NEW u, NEW U, Good(e, u, U), ui \in Uis, u.editing \in {ui.editing, None},
           ui.editing # None => e.op # 0
    PROVE  DropsTo(e, u, U, Dropped(e, u))
  <1> DEFINE i    == ui.editing
             left == DiscardIfBlank(e, i)
             d    == Dropped(e, u)
  <1>1. e \in Eds /\ u \in Uis /\ i \in Ids \cup {None} /\ None \notin Ids
    BY EditorAssumption DEF Good, Uis
  <1>2. d.ed = left /\ d.ui = IF left = e THEN u ELSE Forgotten(u, {i})
    BY DEF Dropped
  <1> HIDE DEF d
  <1>3. CASE i # None /\ Blank(e.doc[i])
    <2>1. i \in Ids /\ e.doc[i] # Nothing /\ {i} \ {None} = {i}
      BY <1>1, <1>3 DEF Blank, Nothing
    <2>2. left = RemoveElements(e, {i})
      BY <1>3 DEF DiscardIfBlank
    <2>3. Kept(e, left, {i}) /\ left.doc[i] = Nothing
      <3>1. {i} \in SUBSET Ids /\ e.op # 0
        BY <1>3, <2>1
      <3>2. /\ Kept(e, RemoveElements(e, {i}), {i})
            /\ \A j \in {i} : RemoveElements(e, {i}).doc[j] = Nothing
        BY <1>1, <3>1, RemoveKeeps
      <3> HIDE DEF left, i
      <3>3. QED
        BY <2>2, <3>2
    <2>4. left # e
      BY <2>1, <2>3
    <2> HIDE DEF left, i
    <2>5. d.ui = [u EXCEPT !.selection = @ \ {i}, !.editing = IF @ \in {i} THEN None ELSE @]
      BY <1>2, <2>4 DEF Forgotten
    <2>6. /\ d.ui \in Uis /\ d.ui.tool = u.tool /\ d.ui.selection \subseteq u.selection
          /\ d.ui.editing = None
      BY <1>1, <2>5 DEF Uis, i
    <2>7. Good(d.ed, d.ui, U)
      BY <1>1, <1>2, <2>3, <2>6, EditorAssumption DEF Good, Kept
    <2>8. ~Blank(left.doc[i])
      BY <2>3 DEF Blank, Nothing
    <2>9. QED
      BY <1>2, <1>3, <2>1, <2>3, <2>6, <2>7, <2>8 DEF DropsTo, Kept, i, d
  <1>4. CASE ~(i # None /\ Blank(e.doc[i]))
    <2>1. left = e
      BY <1>4 DEF DiscardIfBlank
    <2>2. d.ed = e /\ d.ui = u
      BY <1>2, <2>1
    <2>3. Kept(e, e, {i} \ {None})
      BY <1>1, KeptItself
    <2>4. QED
      BY <1>4, <2>2, <2>3 DEF DropsTo, d
  <1>5. QED
    BY <1>3, <1>4 DEF d

LEMMA DroppedSure ==
    ASSUME NEW e, NEW u, NEW U, NEW d, DropsTo(e, u, U, d), Good(e, u, U), Sure(e, u),
           ui.editing # None /\ e.doc[ui.editing] # Nothing => Current(e)
    PROVE  Sure(d.ed, d.ui) /\ (Current(e) => Current(d.ed))
  <1>1. CASE d.ed = e /\ d.ui = u
    BY <1>1
  <1>2. CASE d.ui.editing = None /\ ui.editing # None /\ e.doc[ui.editing] # Nothing
    <2>1. Current(e) /\ Sound(e) /\ Kept(e, d.ed, {ui.editing} \ {None})
      BY <1>2 DEF Sure, DropsTo
    <2>2. Sound(d.ed) /\ Current(d.ed)
      BY <2>1 DEF Kept
    <2>3. QED
      BY <1>2, <2>2 DEF Sure, FieldOpen
  <1>3. QED
    BY <1>1, <1>2 DEF DropsTo

\* onGestureStart.
Begun ==
    /\ Good(Pressed.ed, Pressed.ui, unused) /\ Pressed.ed.op # 0
    /\ Pressed.ui.tool = ui.tool /\ Pressed.ui.selection \subseteq ui.selection
    /\ Pressed.ui.editing \in {ui.editing, None}
    /\ \A i \in Ids : ed.doc[i] = Nothing => Pressed.ed.doc[i] = Nothing
    /\ ui.editing # None => ~Blank(Pressed.ed.doc[ui.editing])
    /\ Steadfast /\ ~upset => Sure(Pressed.ed, Pressed.ui) /\ Current(Pressed.ed)

LEMMA PressedFacts ==
    ASSUME Base, MayBegin
    PROVE  Begun
  <1> DEFINE d == Dropped(ed, ui)
             f == Starting(d.ed)
  <1>1. Good(ed, ui, unused) /\ ui \in Uis /\ (ui.editing # None => ed.op # 0)
    BY DEF Base, Good
  <1>2. DropsTo(ed, ui, unused, d)
    BY <1>1, DroppedFacts
  <1>3. Pressed.ed = f /\ Pressed.ui = d.ui
    <2>1. Pressed = [d EXCEPT !.ed = f]
      BY DEF Pressed
    <2>2. PICK left, v : d = [ed |-> left, ui |-> v]
      BY DEF Dropped
    <2> HIDE DEF d, f
    <2>3. QED
      BY <2>1, <2>2
  <1> HIDE DEF d
  <1>4. d.ed \in Eds /\ d.ed.op < MaxOps
    BY <1>1, <1>2 DEF DropsTo, Good, MayBegin
  <1>5. Started(d.ed, f)
    BY <1>4, StartKeeps
  <1> HIDE DEF f
  <1>6. Good(f, d.ui, unused)
    BY <1>2, <1>5 DEF DropsTo, Good, Started
  <1>7. ASSUME Steadfast, ~upset PROVE Sure(f, d.ui) /\ Current(f)
    <2>1. Sure(ed, ui)
      BY <1>7 DEF Steadfast
    <2>2. ui.editing # None /\ ed.doc[ui.editing] # Nothing => Current(ed)
      BY <2>1 DEF Sure, FieldOpen
    <2>3. Sure(d.ed, d.ui)
      BY <1>1, <1>2, <2>1, <2>2, DroppedSure
    <2>4. d.ui \in Uis
      BY <1>2 DEF DropsTo, Good
    <2>5. QED
      BY <1>5, <2>3, <2>4 DEF Sure, Started, Uis
  <1>8. /\ d.ui.tool = ui.tool /\ d.ui.selection \subseteq ui.selection /\ d.ui.editing \in {ui.editing, None}
        /\ \A i \in Ids : ed.doc[i] = Nothing => f.doc[i] = Nothing
        /\ ui.editing # None => ~Blank(f.doc[ui.editing])
    BY <1>2, <1>5 DEF DropsTo, Kept, Started
  <1>9. QED
    BY <1>3, <1>5, <1>6, <1>7, <1>8 DEF Begun, Started

\* host.focus().
BlursTo(e, u, U, b) ==
    /\ Good(b.ed, b.ui, U) /\ b.ed.op = e.op /\ Kept(e, b.ed, {ui.editing} \ {None})
    /\ b.ui.tool = u.tool /\ b.ui.selection \subseteq u.selection /\ b.ui.editing \in {u.editing, None}
    /\ ~FieldOpen(b.ui, b.ed)
    /\ (ui.editing # None => ~Blank(e.doc[ui.editing])) => b.ed = e
    /\ Sure(e, u) /\ (ui.editing # None /\ e.doc[ui.editing] # Nothing => Current(e)) =>
          Sure(b.ed, b.ui) /\ (Current(e) => Current(b.ed))

LEMMA BlurredFacts ==
    ASSUME Base, NEW e, NEW u, NEW U, Good(e, u, U), u.editing \in {ui.editing, None},
           ui.editing # None => e.op # 0,
           ui.editing # None /\ ed.doc[ui.editing] = Nothing => e.doc[ui.editing] = Nothing
    PROVE  BlursTo(e, u, U, Blurred(e, u))
  <1> DEFINE b == Blurred(e, u)
  <1>1. ui \in Uis /\ e \in Eds
    BY DEF Base, Good
  <1>2. CASE screen.focus # "editor"
    <2>1. b.ed = e /\ b.ui = u
      BY <1>2 DEF Blurred
    <2>2. ~FieldOpen(u, e)
      BY <1>2 DEF Base, FieldOpen
    <2>3. Kept(e, e, {ui.editing} \ {None})
      BY <1>1, KeptItself
    <2>4. QED
      BY <2>1, <2>2, <2>3 DEF BlursTo
  <1>3. CASE screen.focus = "editor"
    <2> DEFINE d == Dropped(e, u)
    <2>1. b.ed = d.ed /\ b.ui = [d.ui EXCEPT !.editing = None, !.selection = @]
      BY <1>3 DEF Blurred, Dropped, Edit
    <2>2. DropsTo(e, u, U, d)
      BY <1>1, DroppedFacts
    <2> HIDE DEF d, b
    <2>3. d.ui \in Uis
      BY <2>2 DEF DropsTo, Good
    <2>4. /\ b.ui \in Uis /\ b.ui.tool = d.ui.tool /\ b.ui.selection = d.ui.selection /\ b.ui.editing = None
          /\ ~FieldOpen(b.ui, b.ed)
      BY <2>1, <2>3 DEF Uis, FieldOpen
    <2>5. None \notin U
      BY EditorAssumption DEF Good
    <2>6. Good(b.ed, b.ui, U)
      BY <2>1, <2>2, <2>4, <2>5 DEF DropsTo, Good
    <2>7. ASSUME Sure(e, u), ui.editing # None /\ e.doc[ui.editing] # Nothing => Current(e)
          PROVE  Sure(b.ed, b.ui) /\ (Current(e) => Current(b.ed))
      <3>1. Sure(d.ed, d.ui) /\ (Current(e) => Current(d.ed))
        BY <2>2, <2>7, DroppedSure
      <3>2. QED
        BY <2>1, <2>4, <3>1 DEF Sure
    <2>8. (ui.editing # None => ~Blank(e.doc[ui.editing])) => b.ed = e
      BY <2>1, <2>2 DEF DropsTo
    <2>9. /\ b.ed.op = e.op /\ Kept(e, b.ed, {ui.editing} \ {None})
          /\ b.ui.tool = u.tool /\ b.ui.selection \subseteq u.selection
      BY <2>1, <2>2, <2>4 DEF DropsTo
    <2>10. BlursTo(e, u, U, b)
      BY <2>4, <2>6, <2>7, <2>8, <2>9 DEF BlursTo
    <2>11. QED
      BY <2>10 DEF b
  <1>4. QED
    BY <1>2, <1>3

\* A step ends with the focus where FocusFrom leaves it.
LEMMA Settle ==
    ASSUME Good(ed', ui', unused'), NEW f \in Foci, NEW P \in SUBSET Overlay, NEW L \in SUBSET Overlay,
           screen' = [painted |-> P, late |-> L, focus |-> FocusFrom(f, ed', ui')],
           drag' \in Drags, Measured(drag'), burst' \in BOOLEAN, before' \in Docs, upset' \in BOOLEAN,
           meddled' \in 0..MaxMeddling,
           drag'.kind # "none" \/ burst' => ed'.op # 0,
           drag'.kind = "draw" => drag'.ids \cap unused' = {}
    PROVE  Base'
  <1>1. FocusFrom(f, ed', ui') \in Foci /\ (FocusFrom(f, ed', ui') = "editor" <=> FieldOpen(ui', ed'))
    BY DEF FocusFrom, FieldOpen, Foci
  <1>2. screen' \in Screens /\ (screen'.focus = "editor" <=> FieldOpen(ui', ed'))
    BY <1>1 DEF Screens
  <1>3. Types'
    BY <1>2 DEF Types
  <1>4. QED
    BY <1>2, <1>3 DEF Base, dragging

LEMMA BecomesSettles ==
    ASSUME Types, NEW e, NEW u, NEW f \in Foci, Becomes(e, u, f), Good(e, u, unused'),
           drag' \in Drags, Measured(drag'), burst' \in BOOLEAN, before' \in Docs, upset' \in BOOLEAN,
           meddled' \in 0..MaxMeddling,
           drag'.kind # "none" \/ burst' => e.op # 0,
           drag'.kind = "draw" => drag'.ids \cap unused' = {}
    PROVE  Base' /\ ed' = e /\ ui' = u
  <1>1. ed' = e /\ ui' = u
    BY DEF Becomes
  <1>2. screen' = [painted |-> screen.painted, late |-> screen.late, focus |-> FocusFrom(f, ed', ui')]
    BY <1>1 DEF Becomes, Types, Screens
  <1>3. screen.painted \in SUBSET Overlay /\ screen.late \in SUBSET Overlay
    BY DEF Types, Screens
  <1>4. QED
    BY <1>1, <1>2, <1>3, Settle

LEMMA NoDragFacts ==
    Nothing \in Els /\ NoDrag \in Drags /\ Measured(NoDrag) /\ NoDrag.kind = "none"
  <1>1. Nothing \in Els
    BY DEF Els, Elements, Nothing
  <1>2. QED
    BY <1>1 DEF NoDrag, Drags, Measured

\* A drag as it begins.
Begins(d, k, ids, el, n) ==
    /\ d \in Drags /\ Measured(d)
    /\ d.kind = k /\ d.ids = ids /\ d.from = el /\ d.total = n /\ d.flushed = 0
    /\ ~d.timer /\ ~d.frame /\ ~d.orphan

LEMMA DragFacts ==
    ASSUME NEW k \in {"note", "stroke", "draw", "resize", "move", "marquee"}, NEW ids \in SUBSET Ids, NEW el \in Els,
           NEW n \in Nat, k \in {"draw", "stroke"} => ids # {}
    PROVE  /\ Begins(A(k, ids), k, ids, Nothing, 0)
           /\ Begins([A(k, ids) EXCEPT !.from = el], k, ids, el, 0)
           /\ Begins([A(k, ids) EXCEPT !.from = el, !.total = n], k, ids, el, n)
  <1>1. /\ NoDrag \in Drags /\ NoDrag.from = Nothing /\ NoDrag.total = 0 /\ NoDrag.flushed = 0
        /\ ~NoDrag.timer /\ ~NoDrag.frame /\ ~NoDrag.orphan
    BY NoDragFacts DEF NoDrag
  <1> DEFINE a == A(k, ids)
  <1>2. a = [NoDrag EXCEPT !.kind = k, !.ids = ids]
    BY DEF A
  <1> HIDE DEF a
  <1>3. /\ a \in Drags /\ a.kind = k /\ a.ids = ids /\ a.from = Nothing /\ a.total = 0 /\ a.flushed = 0
        /\ ~a.timer /\ ~a.frame /\ ~a.orphan
    BY <1>1, <1>2 DEF Drags
  <1>4. Begins(a, k, ids, Nothing, 0)
    BY <1>3 DEF Begins, Measured
  <1> DEFINE b == [a EXCEPT !.from = el]
             c == [a EXCEPT !.from = el, !.total = n]
  <1>5. /\ b \in Drags /\ b.kind = k /\ b.ids = ids /\ b.from = el /\ b.total = 0 /\ b.flushed = 0
        /\ ~b.timer /\ ~b.frame /\ ~b.orphan
    BY <1>3 DEF Drags
  <1>6. /\ c \in Drags /\ c.kind = k /\ c.ids = ids /\ c.from = el /\ c.total = n /\ c.flushed = 0
        /\ ~c.timer /\ ~c.frame /\ ~c.orphan
    <2>1. PICK m \in Int : m = n
      OBVIOUS
    <2> DEFINE g == [a EXCEPT !.from = el, !.total = m]
    <2>2. g = c
      BY <2>1
    <2> HIDE DEF c
    <2>3. /\ g \in Drags /\ g.kind = k /\ g.ids = ids /\ g.from = el /\ g.total = m /\ g.flushed = 0
          /\ ~g.timer /\ ~g.frame /\ ~g.orphan
      BY <1>3 DEF Drags
    <2> HIDE DEF g
    <2>4. QED
      BY <2>1, <2>2, <2>3
  <1> HIDE DEF b, c
  <1>7. Begins(b, k, ids, el, 0) /\ Begins(c, k, ids, el, n)
    BY <1>5, <1>6 DEF Begins, Measured
  <1>8. QED
    BY <1>4, <1>7 DEF a, b, c

------------------------------------------------------------------------------
(* The hand and the document: until something comes between a drag and its *)
(* end, what is dragged is where it was at the press, but for what the drag *)
(* has written, and the rest is as it was.                                 *)

Hand(d, was, is) ==
    /\ d.kind = "move"   => is = Shifted(was, d.flushed)
    /\ d.kind = "resize" => /\ BboxOf(is) = Boxed(was, d.from.at, is.size)
                            /\ was # Nothing => was.at = d.from.at /\ was.size = d.from.size
    /\ d.kind \in {"draw", "stroke"}  => was = Nothing
    /\ d.kind = "stroke" => is = Nothing \/ is.size = d.flushed
    /\ d.kind \in {"note", "marquee"} => is = was

Follows(d, was, doc) ==
    \A i \in Ids : IF i \in d.ids THEN Hand(d, was[i], doc[i]) ELSE doc[i] = was[i]

Traced == upset \/ ~dragging \/ Follows(drag, before, ed.doc)

LEMMA ShiftedFacts ==
    ASSUME NEW el \in Els
    PROVE  /\ Shifted(el, 0) = el
           /\ \A m, n \in Int : Shifted(Shifted(el, m), n) = Shifted(el, m + n)
           /\ \A n \in Int : el # Nothing => Shifted(el, n) # Nothing /\ Shifted(el, n).at = el.at + n
  <1>1. CASE el = Nothing
    BY <1>1 DEF Shifted
  <1>2. CASE el # Nothing
    <2>1. el.at \in Int /\ el.kind # "none" /\ el \in Elements
      BY <1>2 DEF Els, Elements
    <2>2. Shifted(el, 0) = el
      <3>1. el.at + 0 = el.at
        BY <2>1
      <3>2. [el EXCEPT !.at = el.at] = el
        BY <2>1 DEF Elements
      <3>3. QED
        BY <1>2, <3>1, <3>2 DEF Shifted
    <2>3. ASSUME NEW n \in Int
          PROVE  /\ Shifted(el, n) = [el EXCEPT !.at = el.at + n] /\ Shifted(el, n) # Nothing
                 /\ Shifted(el, n).at = el.at + n
      <3>1. Shifted(el, n) = [el EXCEPT !.at = el.at + n]
        BY <1>2 DEF Shifted
      <3>2. [el EXCEPT !.at = el.at + n].at = el.at + n /\ [el EXCEPT !.at = el.at + n].kind = el.kind
        BY <2>1 DEF Elements
      <3>3. QED
        BY <2>1, <3>1, <3>2 DEF Nothing
    <2>4. ASSUME NEW m \in Int, NEW n \in Int PROVE Shifted(Shifted(el, m), n) = Shifted(el, m + n)
      <3> DEFINE x == Shifted(el, m)
      <3>1. x = [el EXCEPT !.at = el.at + m] /\ x # Nothing /\ x.at = el.at + m
        BY <2>3
      <3>2. Shifted(x, n) = [x EXCEPT !.at = el.at + m + n]
        BY <3>1 DEF Shifted
      <3>3. Shifted(el, m + n) = [el EXCEPT !.at = el.at + (m + n)]
        BY <1>2 DEF Shifted
      <3>4. el.at + m + n = el.at + (m + n)
        BY <2>1
      <3> HIDE DEF x
      <3>5. [x EXCEPT !.at = el.at + m + n] = [el EXCEPT !.at = el.at + m + n]
        BY <2>1, <3>1 DEF Elements
      <3>6. QED
        BY <3>2, <3>3, <3>4, <3>5 DEF x
    <2>5. QED
      BY <2>2, <2>3, <2>4
  <1>3. QED
    BY <1>1, <1>2

LEMMA BoxedAgain ==
    ASSUME NEW el \in Els
    PROVE  /\ el # Nothing => Boxed(el, el.at, el.size) = BboxOf(el)
           /\ \A a \in Int, m, n \in Nat :
                 /\ Boxed(Boxed(el, a, m), a, n) = Boxed(el, a, n)
                 /\ Boxed(BboxOf(el), a, n) = Boxed(el, a, n)
                 /\ el # Nothing => Boxed(el, a, n) # Nothing /\ Boxed(el, a, n).size = n
  <1>1. CASE el = Nothing
    BY <1>1, BboxPlaces DEF Boxed
  <1>2. CASE el # Nothing
    <2>1. el.at \in Int /\ el.size \in Nat /\ el.kind # "none" /\ el \in Elements
      BY <1>2 DEF Els, Elements
    <2>2. Boxed(el, el.at, el.size) = BboxOf(el)
      <3>1. [el EXCEPT !.at = el.at, !.size = el.size, !.form = 0] = [el EXCEPT !.form = 0]
        BY <2>1 DEF Elements
      <3>2. QED
        BY <1>2, <3>1 DEF Boxed, BboxOf
    <2>3. ASSUME NEW a \in Int, NEW n \in Nat
          PROVE  /\ Boxed(el, a, n) = [el EXCEPT !.at = a, !.size = n, !.form = 0] /\ Boxed(el, a, n) # Nothing
                 /\ Boxed(el, a, n).size = n
      <3> DEFINE x == [el EXCEPT !.at = a, !.size = n, !.form = 0]
      <3>1. Boxed(el, a, n) = x
        BY <1>2 DEF Boxed
      <3>2. x.size = n /\ x.kind = el.kind
        BY <2>1 DEF Elements
      <3>3. Boxed(el, a, n) = x /\ x.size = n /\ x.kind # "none"
        BY <2>1, <3>1, <3>2
      <3> HIDE DEF x
      <3>4. x # Nothing
        BY <3>3 DEF Nothing
      <3>5. QED
        BY <3>3, <3>4 DEF x
    <2>4. ASSUME NEW a \in Int, NEW m \in Nat, NEW n \in Nat PROVE Boxed(Boxed(el, a, m), a, n) = Boxed(el, a, n)
      <3> DEFINE x == Boxed(el, a, m)
      <3>1. x = [el EXCEPT !.at = a, !.size = m, !.form = 0] /\ x # Nothing
        BY <2>3
      <3> HIDE DEF x
      <3>2. Boxed(x, a, n) = [x EXCEPT !.at = a, !.size = n, !.form = 0]
        BY <3>1 DEF Boxed
      <3>3. [x EXCEPT !.at = a, !.size = n, !.form = 0] = [el EXCEPT !.at = a, !.size = n, !.form = 0]
        BY <2>1, <3>1 DEF Elements
      <3>4. QED
        BY <2>3, <3>2, <3>3 DEF x
    <2>5. ASSUME NEW a \in Int, NEW n \in Nat PROVE Boxed(BboxOf(el), a, n) = Boxed(el, a, n)
      <3> DEFINE x == BboxOf(el)
      <3>1. x = [el EXCEPT !.form = 0] /\ x # Nothing
        BY <1>2, BboxPlaces DEF BboxOf
      <3> HIDE DEF x
      <3>2. Boxed(x, a, n) = [x EXCEPT !.at = a, !.size = n, !.form = 0]
        BY <3>1 DEF Boxed
      <3>3. [x EXCEPT !.at = a, !.size = n, !.form = 0] = [el EXCEPT !.at = a, !.size = n, !.form = 0]
        BY <2>1, <3>1 DEF Elements
      <3>4. QED
        BY <2>3, <3>2, <3>3 DEF x
    <2>6. QED
      BY ZenonT(60), <2>2, <2>3, <2>4, <2>5
  <1>3. QED
    BY <1>1, <1>2

LEMMA GrownFacts ==
    ASSUME NEW el \in Els, el # Nothing, NEW n \in Int
    PROVE  Grown(el, n).size = el.size + n
  BY DEF Grown, Els, Elements

\* At the press the hand has done nothing.
LEMMA HandAtRest ==
    ASSUME NEW k \in {"note", "resize", "move", "marquee"}, NEW ids, NEW el, NEW n, NEW d, Begins(d, k, ids, el, n),
           NEW x \in Els, k = "resize" => el = BboxOf(x)
    PROVE  Hand(d, x, x)
  <1>1. d.kind = k /\ d.from = el /\ d.flushed = 0
    BY DEF Begins
  <1>2. Shifted(x, 0) = x
    BY ShiftedFacts
  <1>3. x # Nothing => Boxed(x, x.at, x.size) = BboxOf(x)
    BY BoxedAgain
  <1>4. x = Nothing => \A a, m : Boxed(x, a, m) = BboxOf(x)
    BY BboxPlaces DEF Boxed
  <1>5. k = "resize" => BboxOf(x) = Boxed(x, d.from.at, x.size) /\ x.at = d.from.at /\ x.size = d.from.size
    BY <1>1, <1>3, <1>4, BboxPlaces
  <1>6. QED
    BY <1>1, <1>2, <1>5 DEF Hand

LEMMA TakesTraced ==
    ASSUME NEW k \in {"note", "resize", "move", "marquee"}, NEW ids, NEW el, NEW n, NEW d, Begins(d, k, ids, el, n),
           NEW doc \in Docs, k = "resize" => \A i \in ids : el = BboxOf(doc[i])
    PROVE  Follows(d, doc, doc)
  <1>1. SUFFICES ASSUME NEW i \in Ids, i \in ids PROVE Hand(d, doc[i], doc[i])
    BY DEF Follows, Begins
  <1>2. doc[i] \in Els
    BY DEF Docs
  <1>3. QED
    BY <1>1, <1>2, HandAtRest

------------------------------------------------------------------------------
(* Presses. *)

\* A press that takes the pointer for a drag.
LEMMA TakesKeeps ==
    ASSUME Base, MayBegin, NEW e, NEW u, NEW d \in Drags, Good(e, u, unused'), Measured(d),
           u.editing \in {ui.editing, None}, e.op # 0,
           ui.editing # None => e.doc[ui.editing] = Pressed.ed.doc[ui.editing],
           d.kind = "draw" => d.ids \cap unused' = {},
           Begun, Takes(e, u, d),
           Steadfast /\ ~upset => /\ Sure(e, u) /\ Current(e)
                                  /\ d.kind = "draw" => \A i \in d.ids : NeverBack(e, i)
    PROVE  /\ Base' /\ (Steadfast => Steadfast')
           /\ ed' = e /\ drag' = d /\ before' = Pressed.ed.doc
  <1> DEFINE b == Blurred(e, u)
  <1>1. ui \in Uis /\ (ui.editing # None => ui.editing \in Ids)
    BY DEF Base, Good, Uis
  <1>2. /\ ui.editing # None => ~Blank(e.doc[ui.editing])
        /\ ui.editing # None /\ ed.doc[ui.editing] = Nothing => e.doc[ui.editing] = Nothing
    BY <1>1 DEF Begun
  <1>3. BlursTo(e, u, unused', b)
    BY <1>2, BlurredFacts
  <1>4. /\ Becomes(b.ed, b.ui, "canvas") /\ drag' = d /\ before' = Pressed.ed.doc
        /\ burst' = FALSE /\ UNCHANGED <<upset, meddled>>
    BY DEF Takes
  <1> HIDE DEF b
  <1>5. b.ed = e /\ Good(e, b.ui, unused') /\ ~FieldOpen(b.ui, e) /\ (Sure(e, u) /\ Current(e) => Sure(e, b.ui))
    BY <1>2, <1>3 DEF BlursTo
  <1>6. before' \in Docs /\ upset' \in BOOLEAN /\ meddled' \in 0..MaxMeddling /\ Types
    BY <1>4 DEF Begun, Good, Eds, Base, Types
  <1>7. Base' /\ ed' = e /\ ui' = b.ui
    <2>1. "canvas" \in Foci /\ burst' \in BOOLEAN
      BY <1>4 DEF Foci
    <2>2. QED
      BY <1>4, <1>5, <1>6, <2>1, BecomesSettles
  <1>8. ASSUME Steadfast PROVE Steadfast'
    BY <1>4, <1>5, <1>7, <1>8 DEF Steadfast, dragging
  <1>9. QED
    BY <1>4, <1>7, <1>8

\* A press that opens the field of an element.
LEMMA OpensKeeps ==
    ASSUME Base, MayBegin, NEW i \in Ids, Pressed.ed.doc[i] # Nothing, Opens(i, Pressed.ui), ~dragging
    PROVE  Base' /\ (Steadfast => Steadfast') /\ drag' = drag
  <1> DEFINE u == Edit(Pressed.ui, i)
             e == Pressed.ed
  <1>1. Begun
    BY PressedFacts
  <1>2. Good(e, Pressed.ui, unused) /\ e.op # 0
    BY <1>1 DEF Begun
  <1>3. /\ u = [Pressed.ui EXCEPT !.editing = i, !.selection = {i}] /\ i # None
        /\ Becomes(e, u, screen.focus)
        /\ burst' = FALSE /\ UNCHANGED <<drag, unused, before, upset, meddled>>
    BY EditorAssumption DEF Edit, Opens, Quietly
  <1> HIDE DEF e, u
  <1>4. u \in Uis /\ u.editing = i
    BY <1>2, <1>3 DEF Good, Uis
  <1>5. i \notin unused
    BY <1>2 DEF Good, Fresh, e
  <1>6. Good(e, u, unused')
    BY <1>2, <1>3, <1>4, <1>5 DEF Good
  <1>7. /\ Types /\ screen.focus \in Foci /\ drag' \in Drags /\ Measured(drag') /\ burst' \in BOOLEAN
        /\ before' \in Docs /\ upset' \in BOOLEAN /\ meddled' \in 0..MaxMeddling
        /\ drag'.kind = "none"
    BY <1>3 DEF Base, Types, Screens, dragging
  <1>8. Base' /\ ed' = e /\ ui' = u
    BY <1>2, <1>3, <1>6, <1>7, BecomesSettles
  <1>9. ASSUME Steadfast, ~upset PROVE Steadfast'
    <2>1. Sound(e) /\ Current(e) /\ e.doc[i] # Nothing /\ e \in Eds
      BY <1>1, <1>2, <1>9 DEF Begun, Sure, Good, e
    <2>2. NeverBack(e, i)
      BY <2>1, PresentNeverBack
    <2>3. Sure(e, u)
      BY <1>4, <2>1, <2>2 DEF Sure
    <2>4. QED
      BY <1>7, <1>8, <2>3 DEF Steadfast, dragging
  <1>10. QED
    BY <1>3, <1>8, <1>9 DEF Steadfast

LEMMA NewElementFacts ==
    ASSUME NEW k \in {"note", "text", "shape", "path"}
    PROVE  NewElement(k) \in Els /\ NewElement(k) # Nothing /\ NewElement(k).size = 0
  <1> DEFINE c == IF k = "path" THEN 1 ELSE 0
  <1>1. NewElement(k) = [Nothing EXCEPT !.kind = k, !.form = c]
    BY DEF NewElement
  <1>2. c \in 0..1
    OBVIOUS
  <1> HIDE DEF c
  <1>3. NewElement(k) = [kind |-> k, at |-> 0, size |-> 0, form |-> c, ink |-> 0, said |-> {}]
    BY <1>1 DEF Nothing
  <1>4. QED
    BY <1>2, <1>3 DEF Els, Elements, Nothing

\* The way a line runs is no part of what it is.
LEMMA FormedFacts ==
    ASSUME NEW el \in Els, el # Nothing, NEW way \in IF ui.tool = "shape" THEN 0..1 ELSE {el.form}
    PROVE  [el EXCEPT !.form = way] \in Els /\ [el EXCEPT !.form = way].kind = el.kind
  <1>1. way \in 0..1
    BY ElementFacts
  <1>2. [el EXCEPT !.form = way] \in Els
    BY <1>1, ElementFacts
  <1>3. QED
    BY <1>2 DEF Els, Elements

\* Something new is on the board, of an id nothing knew.
LEMMA CreateAdds ==
    ASSUME NEW e \in Eds, e.op # 0, NEW i \in Ids, NEW el \in Els, el # Nothing
    PROVE  Added(e, Create(e, i, el), {i}) /\ Create(e, i, el).doc = [j \in Ids |-> IF j = i THEN el ELSE e.doc[j]]
  <1>1. /\ [j \in {i} |-> el] \in [{i} -> Els] /\ {i} \in SUBSET Ids
        /\ \A j \in {i} : [k \in {i} |-> el][j] # Nothing
    OBVIOUS
  <1>2. /\ Added(e, Write(e, [j \in {i} |-> el]), {i})
        /\ Write(e, [j \in {i} |-> el]).doc = [j \in Ids |-> IF j \in {i} THEN [k \in {i} |-> el][j] ELSE e.doc[j]]
    BY <1>1, AddKeeps
  <1>3. [j \in Ids |-> IF j \in {i} THEN [k \in {i} |-> el][j] ELSE e.doc[j]] = [j \in Ids |-> IF j = i THEN el ELSE e.doc[j]]
    OBVIOUS
  <1>4. QED
    BY <1>2, <1>3 DEF Create

LEMMA AddedGood ==
    ASSUME NEW e, NEW u, NEW U \in SUBSET Ids, Good(e, u, U), NEW f, NEW i \in U, Added(e, f, {i})
    PROVE  Good(f, u, U \ {i}) /\ (Sure(e, u) /\ Current(e) => Sure(f, u) /\ Current(f) /\ NeverBack(f, i))
  <1>1. Good(f, u, U \ {i})
    BY DEF Good, Added
  <1>2. ASSUME Sure(e, u), Current(e) PROVE Sure(f, u) /\ Current(f) /\ NeverBack(f, i)
    <2>1. Fresh(e, {i}) /\ NeverBack(e, i) /\ i \in Ids
      BY FreshNeverBack DEF Good, Fresh
    <2>2. Sound(f) /\ Current(f) /\ \A j \in Ids : NeverBack(e, j) => NeverBack(f, j)
      BY <1>2, <2>1 DEF Added, Sure
    <2>3. u.editing # None => u.editing \in Ids
      BY DEF Good, Uis
    <2>4. QED
      BY <1>2, <2>1, <2>2, <2>3 DEF Sure
  <1>3. QED
    BY <1>1, <1>2

LEMMA PressWithNoteKeeps ==
    ASSUME Base, PressWithNote
    PROVE  Base' /\ (Steadfast => Steadfast') /\ Traced'
  <1> DEFINE d == A("note", {})
  <1>1. Begins(d, "note", {}, Nothing, 0)
    BY NoDragFacts, DragFacts
  <1>2. MayBegin /\ unused' = unused /\ Takes(Pressed.ed, Pressed.ui, d)
    BY DEF PressWithNote
  <1> HIDE DEF d
  <1>3. Begun
    BY <1>2, PressedFacts
  <1>4. Base' /\ (Steadfast => Steadfast') /\ ed' = Pressed.ed /\ drag' = d /\ before' = Pressed.ed.doc
    BY <1>1, <1>2, <1>3, TakesKeeps DEF Begun, Begins
  <1>5. Pressed.ed.doc \in Docs
    BY <1>3 DEF Begun, Good, Eds
  <1>6. Follows(d, Pressed.ed.doc, Pressed.ed.doc)
    BY <1>1, <1>5, TakesTraced
  <1>7. QED
    BY <1>4, <1>6 DEF Traced

LEMMA PressToDrawKeeps ==
    ASSUME Base, PressToDraw
    PROVE  Base' /\ (Steadfast => Steadfast') /\ Traced'
  <1> DEFINE el == NewElement(IF ui.tool = "pen" THEN "path" ELSE ui.tool)
             k  == IF ui.tool = "pen" THEN "stroke" ELSE "draw"
  <1>1. MayBegin /\ ui.tool \in {"pen", "shape", "text"}
    BY DEF PressToDraw
  <1>2. PICK i \in unused, way \in IF ui.tool = "shape" THEN 0..1 ELSE {el.form} :
          /\ Takes(Create(Pressed.ed, i, el), Pressed.ui, [A(k, {i}) EXCEPT !.from = [el EXCEPT !.form = way]])
          /\ unused' = unused \ {i}
    BY DEF PressToDraw
  <1>3. el \in Els /\ el # Nothing /\ el.size = 0
    BY <1>1, NewElementFacts
  <1> DEFINE line == [el EXCEPT !.form = way]
             d == [A(k, {i}) EXCEPT !.from = line]
             e == Create(Pressed.ed, i, el)
             u == Pressed.ui
  <1>4. Begun
    BY <1>1, PressedFacts
  <1>5. i \in Ids /\ unused \in SUBSET Ids /\ Good(Pressed.ed, u, unused) /\ Pressed.ed.op # 0 /\ Pressed.ed \in Eds
    BY <1>4 DEF Begun, Good
  <1>6. d \in Drags /\ Measured(d) /\ d.kind = k /\ d.ids = {i} /\ d.flushed = 0 /\ k \in {"stroke", "draw"}
    <2>1. k \in {"stroke", "draw"} /\ {i} \in SUBSET Ids /\ {i} # {}
      BY <1>5
    <2>2. line \in Els
      BY <1>3, FormedFacts
    <2> HIDE DEF k, el, line
    <2>3. Begins(d, k, {i}, line, 0)
      BY <2>1, <2>2, DragFacts
    <2> HIDE DEF d
    <2>4. QED
      BY <2>1, <2>3 DEF Begins
  <1> HIDE DEF el
  <1>7. Added(Pressed.ed, e, {i}) /\ e.doc = [j \in Ids |-> IF j = i THEN el ELSE Pressed.ed.doc[j]]
    BY <1>3, <1>5, CreateAdds
  <1> HIDE DEF e, u, d
  <1>8. Good(e, u, unused') /\ (Sure(Pressed.ed, u) /\ Current(Pressed.ed) => Sure(e, u) /\ Current(e) /\ NeverBack(e, i))
    BY <1>2, <1>5, <1>7, AddedGood
  <1>9. e.op # 0 /\ d.ids \cap unused' = {}
    BY <1>2, <1>5, <1>6, <1>7 DEF Added
  <1>10. ui.editing # None => ui.editing \in Ids /\ ui.editing # i /\ e.doc[ui.editing] = Pressed.ed.doc[ui.editing]
    BY <1>7 DEF Base, Good, Uis
  <1>11. u.editing \in {ui.editing, None}
    BY <1>4 DEF Begun, u
  <1>12. Steadfast /\ ~upset => /\ Sure(e, u) /\ Current(e)
                                /\ d.kind = "draw" => \A j \in d.ids : NeverBack(e, j)
    BY <1>4, <1>6, <1>8 DEF Begun, u
  <1>13. Takes(e, u, d)
    BY <1>2 DEF e, u, d
  <1>14. Base' /\ (Steadfast => Steadfast') /\ ed' = e /\ drag' = d /\ before' = Pressed.ed.doc
    BY <1>1, <1>4, <1>6, <1>8, <1>9, <1>10, <1>11, <1>12, <1>13, TakesKeeps
  <1>15. Follows(d, Pressed.ed.doc, e.doc)
    <2>1. SUFFICES ASSUME NEW j \in Ids
                   PROVE  IF j \in d.ids THEN Hand(d, Pressed.ed.doc[j], e.doc[j]) ELSE e.doc[j] = Pressed.ed.doc[j]
      BY DEF Follows
    <2>2. CASE j = i
      <3>1. Pressed.ed.doc[j] = Nothing
        BY <1>5, <2>2 DEF Good, Fresh
      <3>2. e.doc[j].size = 0
        BY <1>3, <1>7, <2>2
      <3>3. d.flushed = 0 /\ d.kind \in {"stroke", "draw"}
        BY <1>6
      <3>4. QED
        BY <1>6, <2>2, <3>1, <3>2, <3>3 DEF Hand
    <2>3. CASE j # i
      BY <1>6, <1>7, <2>3
    <2>4. QED
      BY <2>2, <2>3
  <1>16. QED
    BY <1>14, <1>15 DEF Traced

LEMMA HoldsSomething ==
    ASSUME NEW el, HoldsText(el)
    PROVE  el # Nothing
  BY DEF HoldsText, Nothing

LEMMA PressTextOnKeeps ==
    ASSUME Base, NEW i \in Ids, PressTextOn(i) \/ DoublePress(i)
    PROVE  Base' /\ (Steadfast => Steadfast') /\ drag' = drag
  BY HoldsSomething, OpensKeeps DEF PressTextOn, DoublePress

LEMMA PressHandleKeeps ==
    ASSUME Base, NEW i \in Ids, PressHandle(i)
    PROVE  Base' /\ (Steadfast => Steadfast') /\ Traced'
  <1> DEFINE el == Pressed.ed.doc[i]
             d  == [A("resize", {i}) EXCEPT !.from = BboxOf(el), !.total = el.size]
  <1>1. MayBegin /\ unused' = unused /\ Takes(Pressed.ed, Pressed.ui, d)
    BY DEF PressHandle
  <1>2. Begun
    BY <1>1, PressedFacts
  <1>3. el \in Els /\ el.size \in Nat
    BY <1>2 DEF Begun, Good, Eds, Docs, Els, Elements
  <1> HIDE DEF el
  <1>4. Begins(d, "resize", {i}, BboxOf(el), el.size)
    BY <1>3, BboxPlaces, DragFacts
  <1> HIDE DEF d
  <1>5. Base' /\ (Steadfast => Steadfast') /\ ed' = Pressed.ed /\ drag' = d /\ before' = Pressed.ed.doc
    BY <1>1, <1>2, <1>4, TakesKeeps DEF Begun, Begins
  <1>6. Pressed.ed.doc \in Docs
    BY <1>2 DEF Begun, Good, Eds
  <1>7. Follows(d, Pressed.ed.doc, Pressed.ed.doc)
    BY <1>4, <1>6, TakesTraced DEF el
  <1>8. QED
    BY <1>5, <1>7 DEF Traced

LEMMA PressElementKeeps ==
    ASSUME Base, NEW i \in Ids, PressElement(i)
    PROVE  Base' /\ (Steadfast => Steadfast') /\ Traced'
  <1> DEFINE already == i \in ui.selection
             ids == IF already THEN ui.selection ELSE {i}
             u   == IF already THEN Pressed.ui ELSE Select(Pressed.ui, {i})
             d   == A("move", ids)
  <1>1. MayBegin /\ unused' = unused /\ Takes(Pressed.ed, u, d)
    BY DEF PressElement
  <1>2. Begun
    BY <1>1, PressedFacts
  <1>3. ids \in SUBSET Ids
    BY DEF Base, Good, Uis
  <1> HIDE DEF ids
  <1>4. Begins(d, "move", ids, Nothing, 0)
    BY <1>3, NoDragFacts, DragFacts
  <1> HIDE DEF d
  <1>5. /\ Good(Pressed.ed, u, unused) /\ u.editing \in {ui.editing, None}
        /\ Sure(Pressed.ed, Pressed.ui) => Sure(Pressed.ed, u)
    <2>1. CASE already
      BY <1>2, <2>1 DEF Begun
    <2>2. CASE ~already
      <3>1. u = [Pressed.ui EXCEPT !.selection = {i}, !.editing = None]
        BY <2>2 DEF Select
      <3> HIDE DEF u
      <3>2. u \in Uis /\ u.editing = None
        BY <1>2, <3>1 DEF Begun, Good, Uis
      <3>3. None \notin unused
        BY EditorAssumption DEF Base, Good
      <3>4. QED
        BY <1>2, <3>2, <3>3 DEF Begun, Good, Sure, FieldOpen
    <2>3. QED
      BY <2>1, <2>2
  <1> HIDE DEF u
  <1>6. Base' /\ (Steadfast => Steadfast') /\ ed' = Pressed.ed /\ drag' = d /\ before' = Pressed.ed.doc
    BY <1>1, <1>2, <1>4, <1>5, TakesKeeps DEF Begun, Begins
  <1>7. Pressed.ed.doc \in Docs
    BY <1>2 DEF Begun, Good, Eds
  <1>8. Follows(d, Pressed.ed.doc, Pressed.ed.doc)
    BY <1>4, <1>7, TakesTraced
  <1>9. QED
    BY <1>6, <1>8 DEF Traced

LEMMA PressEmptyKeeps ==
    ASSUME Base, PressEmpty
    PROVE  Base' /\ (Steadfast => Steadfast') /\ Traced'
  <1> DEFINE u == [Pressed.ui EXCEPT !.selection = {}, !.editing = None]
             d == A("marquee", Painted(Pressed.ed.doc))
  <1>1. MayBegin /\ unused' = unused /\ Takes(Pressed.ed, u, d)
    BY DEF PressEmpty
  <1>2. Begun
    BY <1>1, PressedFacts
  <1>3. Begins(d, "marquee", Painted(Pressed.ed.doc), Nothing, 0)
    <2>1. Painted(Pressed.ed.doc) \in SUBSET Ids
      BY DEF Painted
    <2>2. QED
      BY <2>1, NoDragFacts, DragFacts
  <1> HIDE DEF d
  <1>4. u \in Uis /\ u.editing = None
    BY <1>2 DEF Begun, Good, Uis
  <1>5. None \notin unused
    BY EditorAssumption DEF Base, Good
  <1>6. Good(Pressed.ed, u, unused) /\ (Sure(Pressed.ed, Pressed.ui) => Sure(Pressed.ed, u))
    BY <1>2, <1>4, <1>5 DEF Begun, Good, Sure, FieldOpen
  <1> HIDE DEF u
  <1>7. Base' /\ (Steadfast => Steadfast') /\ ed' = Pressed.ed /\ drag' = d /\ before' = Pressed.ed.doc
    BY <1>1, <1>2, <1>3, <1>4, <1>6, TakesKeeps DEF Begun, Begins
  <1>8. Pressed.ed.doc \in Docs
    BY <1>2 DEF Begun, Good, Eds
  <1>9. Follows(d, Pressed.ed.doc, Pressed.ed.doc)
    BY <1>3, <1>8, TakesTraced
  <1>10. QED
    BY <1>7, <1>9 DEF Traced

LEMMA ShiftPressKeeps ==
    ASSUME Base, NEW i \in Ids, ShiftPress(i)
    PROVE  Base' /\ (Steadfast => Steadfast') /\ drag' = drag
  <1> DEFINE e == Pressed.ed
             u == Toggle(Pressed.ui, i)
  <1>1. /\ MayBegin /\ ~dragging /\ Becomes(e, u, screen.focus)
        /\ burst' = FALSE /\ UNCHANGED <<drag, unused, before, upset, meddled>>
    BY DEF ShiftPress, Quietly
  <1>2. Begun
    BY <1>1, PressedFacts
  <1>3. u \in Uis /\ u.editing \in {Pressed.ui.editing, None}
    <2>1. Pressed.ui \in Uis
      BY <1>2 DEF Begun, Good
    <2>2. QED
      BY <2>1 DEF Toggle, Uis
  <1>4. Good(e, u, unused') /\ (Sure(e, Pressed.ui) => Sure(e, u)) /\ e.op # 0
    <2>1. None \notin unused
      BY EditorAssumption DEF Base, Good
    <2>2. QED
      BY <1>1, <1>2, <1>3, <2>1 DEF Begun, Good, Sure, FieldOpen
  <1> HIDE DEF e, u
  <1>5. /\ Types /\ screen.focus \in Foci /\ drag' \in Drags /\ Measured(drag') /\ burst' \in BOOLEAN
        /\ before' \in Docs /\ upset' \in BOOLEAN /\ meddled' \in 0..MaxMeddling
        /\ drag'.kind = "none"
    BY <1>1 DEF Base, Types, Screens, dragging
  <1>6. Base' /\ ed' = e /\ ui' = u
    BY <1>1, <1>4, <1>5, BecomesSettles
  <1>7. ASSUME Steadfast, ~upset PROVE Steadfast'
    BY <1>2, <1>4, <1>5, <1>6, <1>7 DEF Steadfast, dragging, Begun, e
  <1>8. QED
    BY <1>1, <1>6, <1>7 DEF Steadfast

------------------------------------------------------------------------------
(* Drags. *)

\* What Flushed(d) writes, and how it leaves the drag.
Flushes(d, f) ==
    /\ Kept(ed, f.ed, d.ids)
    /\ f.drag \in Drags /\ Measured(f.drag)
    /\ f.drag.kind = d.kind /\ f.drag.ids = d.ids /\ f.drag.from = d.from /\ f.drag.total = d.total
    /\ d.kind = "move" => /\ f.drag.flushed = d.flushed + Round(residue(d))
                          /\ \A i \in d.ids : f.ed.doc[i] = Shifted(ed.doc[i], Round(residue(d)))
    /\ d.kind \in {"resize", "draw"} => \A i \in d.ids : BboxOf(f.ed.doc[i]) = Boxed(ed.doc[i], d.from.at, d.total)
    /\ d.kind = "stroke" => /\ f.drag.flushed = d.total
                            /\ \A i \in d.ids : f.ed.doc[i] = Grown(ed.doc[i], d.total - d.flushed)
    /\ d.kind \notin {"move", "resize", "draw", "stroke"} => f.ed = ed

LEMMA FlushedFacts ==
    ASSUME Base, NEW d \in Drags, Measured(d), d.kind = drag.kind
    PROVE  Flushes(d, Flushed(d))
  <1> DEFINE n == Round(residue(d))
             f == Flushed(d)
  <1>1. ed \in Eds /\ (d.kind # "none" => ed.op # 0)
    BY DEF Base, Good, dragging
  <1>2. /\ d.total \in Int /\ d.flushed \in Int /\ d.ids \in SUBSET Ids /\ d.from.at \in Int /\ d.from.size \in Nat
        /\ residue(d) \in Int /\ n \in Int
    <2>1. d.total \in Int /\ d.flushed \in Int /\ d.ids \in SUBSET Ids /\ d.from.at \in Int /\ d.from.size \in Nat
      BY DEF Drags, Els, Elements
    <2>2. residue(d) \in Int
      BY <2>1 DEF residue
    <2>3. Round(residue(d)) \in Int
      BY <2>2 DEF Round
    <2>4. QED
      BY <2>1, <2>2, <2>3
  <1>3. CASE d.kind = "move" /\ n # 0
    <2> DEFINE g == [d EXCEPT !.timer = FALSE, !.flushed = @ + n, !.frame = FALSE, !.orphan = @ \/ d.frame]
               e == MoveBy(ed, d.ids, n)
    <2>1. f = [ed |-> e, drag |-> g]
      BY <1>3 DEF Flushed
    <2>2. Kept(ed, e, d.ids) /\ \A i \in d.ids : e.doc[i] = Shifted(ed.doc[i], n)
      BY ZenonT(60), <1>1, <1>2, <1>3, MoveByKeeps DEF Shifted
    <2> HIDE DEF e, n
    <2>3. /\ g \in Drags /\ g.kind = d.kind /\ g.ids = d.ids /\ g.from = d.from /\ g.total = d.total
          /\ g.flushed = d.flushed + n
      <3> DEFINE m == d.flushed + n
                 o == d.orphan \/ d.frame
                 k == [d EXCEPT !.timer = FALSE, !.flushed = m, !.frame = FALSE, !.orphan = o]
      <3>1. m \in Int /\ o \in BOOLEAN
        BY <1>2 DEF Drags
      <3>2. g = k
        OBVIOUS
      <3> HIDE DEF m, o, g
      <3>3. /\ k \in Drags /\ k.kind = d.kind /\ k.ids = d.ids /\ k.from = d.from /\ k.total = d.total
            /\ k.flushed = m
        BY <3>1 DEF Drags
      <3> HIDE DEF k
      <3>4. QED
        BY <3>2, <3>3 DEF m
    <2> HIDE DEF g, f
    <2>4. f.ed = e /\ f.drag = g
      BY <2>1
    <2>5. QED
      BY <1>3, <2>2, <2>3, <2>4 DEF Flushes, Measured, n, f
  <1> DEFINE h == [d EXCEPT !.timer = FALSE]
  <1>4. /\ h \in Drags /\ h.kind = d.kind /\ h.ids = d.ids /\ h.from = d.from /\ h.total = d.total
        /\ h.flushed = d.flushed /\ Measured(h)
    BY DEF Drags, Measured
  <1>5. CASE d.kind \in {"resize", "draw"}
    <2> DEFINE e == Resize(ed, d.ids, d.from, d.total)
    <2>1. f = [ed |-> e, drag |-> h]
      BY <1>5 DEF Flushed
    <2>2. d.total \in Nat
      BY <1>5 DEF Measured
    <2>3. Kept(ed, e, d.ids) /\ \A i \in d.ids : BboxOf(e.doc[i]) = Boxed(ed.doc[i], d.from.at, d.total)
      <3>1. d.kind # "none" /\ d.from \in Els /\ d.ids \in SUBSET Ids
        BY <1>2, <1>5 DEF Drags
      <3> HIDE DEF e, f, h, n
      <3>2. Boxes(ed, Resize(ed, d.ids, d.from, d.total), d.ids, d.from.at, d.total)
        BY <1>1, <2>2, <3>1, ResizeKeeps
      <3>3. QED
        BY <3>2 DEF Boxes, e
    <2> HIDE DEF e, h, f
    <2>4. f.ed = e /\ f.drag = h
      BY <2>1
    <2>5. QED
      BY <1>4, <1>5, <2>3, <2>4 DEF Flushes, f
  <1>6. CASE d.kind = "stroke"
    <2> DEFINE g == [d EXCEPT !.timer = FALSE, !.flushed = d.total]
               e == AppendPoints(ed, d.ids, d.total - d.flushed)
    <2>1. f = [ed |-> e, drag |-> g]
      BY <1>6 DEF Flushed
    <2>2. d.total \in Nat /\ d.total - d.flushed \in Nat
      BY <1>6 DEF Measured
    <2>3. Kept(ed, e, d.ids) /\ \A i \in d.ids : e.doc[i] = Grown(ed.doc[i], d.total - d.flushed)
      BY SMTT(30), <1>1, <1>2, <1>6, <2>2, AppendPointsKeeps DEF Grown
    <2> HIDE DEF e
    <2>4. /\ g \in Drags /\ g.kind = d.kind /\ g.ids = d.ids /\ g.from = d.from /\ g.total = d.total
          /\ g.flushed = d.total
      BY <1>2 DEF Drags
    <2> HIDE DEF g, f
    <2>5. Measured(g)
      BY <1>6, <2>2, <2>4 DEF Measured
    <2>6. f.ed = e /\ f.drag = g
      BY <2>1
    <2>7. QED
      BY <1>6, <2>3, <2>4, <2>5, <2>6 DEF Flushes, f
  <1>7. CASE d.kind \notin {"resize", "draw", "stroke"} /\ ~(d.kind = "move" /\ n # 0)
    <2>1. f = [ed |-> ed, drag |-> h]
      BY <1>7 DEF Flushed
    <2>2. Kept(ed, ed, d.ids)
      BY <1>1, KeptItself
    <2>3. ASSUME d.kind = "move" PROVE n = 0 /\ \A i \in d.ids : ed.doc[i] = Shifted(ed.doc[i], 0)
      <3>1. n = 0
        BY <1>7, <2>3
      <3>2. \A i \in d.ids : MoveBy(ed, d.ids, 0).doc[i] = Shifted(ed.doc[i], 0)
        BY <1>1, <1>2, <2>3, MoveByKeeps DEF Shifted
      <3>3. MoveBy(ed, d.ids, 0) = ed
        BY DEF MoveBy
      <3>4. QED
        BY <3>1, <3>2, <3>3
    <2> HIDE DEF h, f, n
    <2>4. f.ed = ed /\ f.drag = h
      BY <2>1
    <2>5. d.kind = "move" => h.flushed = d.flushed + n
      BY <1>2, <1>4, <2>3
    <2>6. QED
      BY <1>4, <1>7, <2>2, <2>3, <2>4, <2>5 DEF Flushes, n, f
  <1>8. QED
    BY <1>3, <1>5, <1>6, <1>7

\* What a drag paints, and what it leaves.
LEMMA ShownFacts ==
    ASSUME NEW d \in Drags
    PROVE  Shown(d) \in SUBSET Overlay
  <1>1. d.ids \in SUBSET Ids
    BY DEF Drags
  <1>2. \A i \in d.ids : <<"shift", i>> \in Overlay /\ <<"box", i>> \in Overlay
    BY <1>1 DEF Overlay
  <1>3. <<"marquee", None>> \in Overlay
    BY DEF Overlay
  <1>4. QED
    BY <1>2, <1>3 DEF Shown

LEMMA RepaintedFacts ==
    ASSUME Base, NEW d \in Drags
    PROVE  Repainted(d) \in SUBSET Overlay
  BY ShownFacts DEF Repainted, Base, Types, Screens

\* A drag goes on, with nothing written.
LEMMA DragStays ==
    ASSUME Base, UNCHANGED <<ed, ui, burst, unused, before, upset, meddled>>,
           drag' \in Drags, Measured(drag'), drag'.kind = drag.kind, drag'.ids = drag.ids,
           screen' \in Screens, screen'.focus = screen.focus
    PROVE  Base' /\ (Steadfast => Steadfast')
  <1>1. Base'
    BY DEF Base, Types, Good, Fresh, Listed, FieldOpen, dragging
  <1>2. ASSUME Steadfast PROVE Steadfast'
    BY <1>2 DEF Steadfast, dragging
  <1>3. QED
    BY <1>1, <1>2

LEMMA DragToKeeps ==
    ASSUME Base, DragTo
    PROVE  Base' /\ (Steadfast => Steadfast')
  <1>1. drag \in Drags /\ Measured(drag) /\ screen \in Screens
    BY DEF Base, Types
  <1>2. UNCHANGED <<ed, ui, screen, burst, unused, before, upset, meddled>>
    BY DEF DragTo, Quietly
  <1>3. ASSUME NEW n \in Int, drag' = Moved(drag, n), drag.kind \in {"resize", "draw", "stroke"} => n \in Nat,
               drag.kind = "stroke" => drag.flushed <= n
        PROVE  drag' \in Drags /\ Measured(drag') /\ drag'.kind = drag.kind /\ drag'.ids = drag.ids
    <2>1. drag' = [drag EXCEPT !.total = n, !.frame = TRUE, !.timer = TRUE]
      BY <1>3 DEF Moved
    <2>2. /\ drag' \in Drags /\ drag'.kind = drag.kind /\ drag'.ids = drag.ids /\ drag'.total = n
          /\ drag'.flushed = drag.flushed
      BY <1>1, <2>1 DEF Drags
    <2>3. QED
      BY <1>1, <1>3, <2>2 DEF Measured
  <1>4. drag' \in Drags /\ Measured(drag') /\ drag'.kind = drag.kind /\ drag'.ids = drag.ids
    <2>1. CASE drag.kind = "move" /\ \E n \in Offsets \ {drag.total} : drag' = Moved(drag, n)
      <3>1. PICK n \in Int : drag' = Moved(drag, n)
        BY <2>1, EditorAssumption
      <3>2. QED
        BY <1>3, <2>1, <3>1
    <2>2. CASE drag.kind \in {"resize", "draw"} /\ \E n \in Sizes \ {drag.total} : drag' = Moved(drag, n)
      <3>1. PICK n \in Nat : drag' = Moved(drag, n)
        BY <2>2, EditorAssumption
      <3>2. QED
        BY <1>3, <2>2, <3>1
    <2>3. CASE drag.kind = "stroke" /\ drag' = Moved(drag, drag.total + 1)
      <3>1. drag.total + 1 \in Nat /\ drag.total + 1 \in Int /\ drag.flushed <= drag.total + 1
        BY <1>1, <2>3 DEF Measured
      <3>2. QED
        BY <1>3, <2>3, <3>1
    <2>4. CASE drag.kind = "marquee" /\ drag' = [drag EXCEPT !.total = 1, !.frame = TRUE]
      <3>1. PICK n \in Int : n = 1
        OBVIOUS
      <3>2. drag' = [drag EXCEPT !.total = n, !.frame = TRUE]
        BY <2>4, <3>1
      <3>3. /\ drag' \in Drags /\ drag'.kind = drag.kind /\ drag'.ids = drag.ids
        BY <1>1, <3>2 DEF Drags
      <3>4. QED
        BY <2>4, <3>3 DEF Measured
    <2>5. QED
      BY <2>1, <2>2, <2>3, <2>4 DEF DragTo
  <1>5. QED
    BY <1>1, <1>2, <1>4, DragStays

LEMMA FrameKeeps ==
    ASSUME Base, Frame
    PROVE  Base' /\ (Steadfast => Steadfast')
  <1>1. drag \in Drags /\ Measured(drag) /\ screen \in Screens /\ Repainted(drag) \in SUBSET Overlay
    BY RepaintedFacts DEF Base, Types
  <1>2. UNCHANGED <<ed, ui, burst, unused, before, upset, meddled>>
    BY DEF Frame, Quietly
  <1>3. /\ drag' \in Drags /\ drag'.kind = drag.kind /\ drag'.ids = drag.ids /\ drag'.total = drag.total
        /\ drag'.flushed = drag.flushed
    BY <1>1 DEF Frame, Drags
  <1>4. screen' \in Screens /\ screen'.focus = screen.focus
    BY <1>1 DEF Frame, Screens
  <1>5. Measured(drag')
    BY <1>1, <1>3 DEF Measured
  <1>6. QED
    BY <1>2, <1>3, <1>4, <1>5, DragStays

LEMMA LateFrameKeeps ==
    ASSUME Base, LateFrame
    PROVE  Base' /\ (Steadfast => Steadfast')
  <1>1. drag \in Drags /\ Measured(drag) /\ screen \in Screens
    BY DEF Base, Types
  <1>2. UNCHANGED <<ed, ui, drag, burst, unused, before, upset, meddled>>
    BY DEF LateFrame, Quietly
  <1>3. screen' \in Screens /\ screen'.focus = screen.focus
    BY <1>1 DEF LateFrame, Screens
  <1>4. QED
    BY <1>1, <1>2, <1>3, DragStays

\* What a drag may write leaves what is known of the steps.
LEMMA DragWrites ==
    ASSUME Base, Steadfast, ~upset, dragging, NEW f, Kept(ed, f, drag.ids)
    PROVE  Sure(f, ui) /\ Current(f) /\ ~FieldOpen(ui, f)
  <1>1. Sure(ed, ui) /\ Current(ed) /\ ~FieldOpen(ui, ed) /\ ui \in Uis
    BY DEF Base, Good, Steadfast
  <1>2. Sure(f, ui) /\ Current(f)
    BY <1>1, KeptSure DEF FieldOpen
  <1>3. ~FieldOpen(ui, f)
    BY <1>1 DEF FieldOpen, Kept, Uis
  <1>4. QED
    BY <1>2, <1>3

LEMMA BoxedFacts ==
    ASSUME NEW el \in Els, NEW at \in Int, NEW n \in Nat
    PROVE  el = Nothing \/ Boxed(el, at, n) # Nothing
  <1>1. el # Nothing => el.kind # "none"
    BY DEF Els
  <1>2. [el EXCEPT !.at = at, !.size = n, !.form = 0].kind = el.kind
    BY DEF Els, Elements
  <1>3. QED
    BY <1>1, <1>2 DEF Boxed, Nothing

\* What is drawn stays, and does not come back once it is gone.
LEMMA DrawnNeverBack ==
    ASSUME Base, Steadfast, ~upset, drag.kind = "draw", NEW f, NEW at \in Int, NEW n \in Nat,
           Boxes(ed, f, drag.ids, at, n)
    PROVE  \A i \in drag.ids : NeverBack(f, i)
  <1>1. TAKE i \in drag.ids
  <1>2. Sound(ed) /\ Current(ed) /\ NeverBack(ed, i)
    BY DEF Steadfast, Sure, dragging
  <1>3. i \in Ids /\ ed.doc[i] \in Els
    BY DEF Base, Types, Drags, Good, Eds, Docs
  <1>4. ed.doc[i] = Nothing \/ f.doc[i] # Nothing
    BY <1>3, BoxedFacts, BboxPlaces, ElementFacts DEF Boxes
  <1>5. QED
    BY <1>2, <1>3, <1>4 DEF Boxes, Kept

LEMMA FlushKeeps ==
    ASSUME Base, Flush
    PROVE  Base' /\ (Steadfast => Steadfast')
  <1> DEFINE f == Flushed(drag)
             P == IF f.drag.flushed # drag.flushed THEN Repainted(f.drag) ELSE screen.painted
  <1>1. drag \in Drags /\ Measured(drag) /\ screen \in Screens
    BY DEF Base, Types
  <1>2. Flushes(drag, f)
    BY <1>1, FlushedFacts
  <1>3. ed' = f.ed /\ drag' = f.drag /\ screen' = [screen EXCEPT !.painted = P]
    BY DEF Flush
  <1>4. UNCHANGED <<ui, burst, unused, before, upset, meddled>>
    BY DEF Flush, Quietly
  <1> HIDE DEF f
  <1>5. Kept(ed, ed', drag.ids) /\ drag' \in Drags /\ Measured(drag') /\ drag'.kind = drag.kind /\ drag'.ids = drag.ids
    BY <1>2, <1>3 DEF Flushes
  <1>6. P \in SUBSET Overlay
    BY <1>1, <1>3, <1>5, RepaintedFacts DEF Screens
  <1> HIDE DEF P
  <1>7. screen' \in Screens /\ screen'.focus = screen.focus
    BY <1>1, <1>3, <1>6 DEF Screens
  <1>8. Good(ed', ui, unused)
    BY <1>5, KeptGood DEF Base
  <1>9. ~dragging => ed' = ed
    BY <1>2, <1>3 DEF dragging, Flushes
  <1>10. FieldOpen(ui, ed') <=> FieldOpen(ui, ed)
    <2>1. CASE ~dragging
      BY <1>9, <2>1
    <2>2. CASE dragging
      <3>1. \A i \in Ids : ed.doc[i] = Nothing <=> ed'.doc[i] = Nothing
        <4>1. TAKE i \in Ids
        <4>2. ed.doc[i] \in Els
          BY DEF Base, Good, Eds, Docs
        <4>3. CASE i \notin drag.ids
          BY <1>5, <4>3 DEF Kept
        <4>4. CASE i \in drag.ids
          <5>1. CASE drag.kind = "move"
            <6> DEFINE n == Round(residue(drag))
            <6>1. ed'.doc[i] = Shifted(ed.doc[i], n)
              BY <1>2, <1>3, <4>4, <5>1 DEF Flushes
            <6> HIDE DEF n
            <6>2. ed.doc[i] # Nothing => Shifted(ed.doc[i], n).kind # "none"
              BY <4>2 DEF Shifted, Els, Elements
            <6>3. QED
              BY <6>1, <6>2 DEF Shifted, Nothing
          <5>2. CASE drag.kind \in {"resize", "draw"}
            <6>1. BboxOf(ed'.doc[i]) = Boxed(ed.doc[i], drag.from.at, drag.total) /\ ed'.doc[i] \in Els
              BY <1>2, <1>3, <1>5, <4>4, <5>2 DEF Flushes, Kept, Eds, Docs
            <6>2. drag.from.at \in Int /\ drag.total \in Nat
              BY <1>1, <5>2 DEF Measured, Drags, Els, Elements
            <6>3. QED
              BY <4>2, <6>1, <6>2, BoxedFacts, BboxPlaces, NothingBoxed
          <5>3. CASE drag.kind = "stroke"
            <6> DEFINE n == drag.total - drag.flushed
            <6>1. ed'.doc[i] = Grown(ed.doc[i], n)
              BY <1>2, <1>3, <4>4, <5>3 DEF Flushes
            <6> HIDE DEF n
            <6>2. ed.doc[i] # Nothing => Grown(ed.doc[i], n).kind # "none"
              BY <4>2 DEF Grown, Els, Elements
            <6>3. QED
              BY <6>1, <6>2 DEF Grown, Nothing
          <5>4. QED
            BY <1>2, <1>3, <5>1, <5>2, <5>3 DEF Flushes
        <4>5. QED
          BY <4>3, <4>4
      <3>2. QED
        BY <3>1 DEF FieldOpen, Base, Good, Uis
    <2>3. QED
      BY <2>1, <2>2
  <1>11. ed'.op = ed.op
    BY <1>5 DEF Kept
  <1>12. Base'
    BY <1>4, <1>5, <1>7, <1>8, <1>10, <1>11 DEF Base, Types, dragging
  <1>13. ASSUME Steadfast, ~upset PROVE Steadfast'
    <2>1. CASE ~dragging
      BY <1>4, <1>5, <1>9, <1>13, <2>1 DEF Steadfast, dragging
    <2>2. CASE dragging
      <3>1. Sure(ed', ui) /\ Current(ed') /\ ~FieldOpen(ui, ed')
        BY <1>5, <1>13, <2>2, DragWrites
      <3>2. drag.kind = "draw" => \A i \in drag.ids : NeverBack(ed', i)
        <4>1. SUFFICES ASSUME drag.kind = "draw" PROVE \A i \in drag.ids : NeverBack(ed', i)
          OBVIOUS
        <4>2. Boxes(ed, ed', drag.ids, drag.from.at, drag.total)
          BY <1>2, <1>3, <4>1 DEF Flushes, Boxes
        <4>3. drag.from.at \in Int /\ drag.total \in Nat
          BY <1>1, <4>1 DEF Measured, Drags, Els, Elements
        <4>4. QED
          BY <1>13, <4>1, <4>2, <4>3, DrawnNeverBack
      <3>3. QED
        BY <1>4, <1>5, <3>1, <3>2 DEF Steadfast
    <2>3. QED
      BY <2>1, <2>2
  <1>14. QED
    BY <1>4, <1>12, <1>13 DEF Steadfast

LEMMA GivenFacts ==
    Given \in Docs
  <1>1. ASSUME NEW i \in Ids PROVE Given[i] \in Els
    BY EditorAssumption DEF Els, Elements
  <1>2. Given = [i \in Ids |-> Given[i]]
    BY EditorAssumption
  <1>3. QED
    BY <1>1, <1>2 DEF Docs

\* A drag ends.
LEMMA ClearsKeeps ==
    ASSUME Base, NEW d \in Drags, NEW e, NEW u, Good(e, u, unused'), e.op # 0, Clears(d, e, u),
           Steadfast /\ ~upset => Sure(e, u)
    PROVE  Base' /\ (Steadfast => Steadfast') /\ drag' = NoDrag
  <1> DEFINE P == screen.painted \ Wiped(d)
             L == screen.late \cup (IF d.orphan THEN Shown(d) ELSE {})
  <1>1. /\ drag' = NoDrag /\ ed' = e /\ ui' = u
        /\ screen' = [painted |-> P, late |-> L, focus |-> FocusFrom(screen.focus, ed', ui')]
        /\ before' = Given /\ UNCHANGED <<burst, upset, meddled>>
    BY DEF Clears
  <1>2. P \in SUBSET Overlay /\ L \in SUBSET Overlay /\ screen.focus \in Foci
    BY ShownFacts DEF Base, Types, Screens
  <1> HIDE DEF P, L
  <1>3. /\ drag' \in Drags /\ Measured(drag') /\ drag'.kind = "none"
        /\ before' \in Docs /\ burst' \in BOOLEAN /\ upset' \in BOOLEAN /\ meddled' \in 0..MaxMeddling
    BY <1>1, NoDragFacts, GivenFacts DEF Base, Types
  <1>4. Good(ed', ui', unused') /\ ed'.op # 0
    BY <1>1
  <1>5. Base'
    BY <1>1, <1>2, <1>3, <1>4, Settle
  <1>6. ASSUME Steadfast PROVE Steadfast'
    BY <1>1, <1>3, <1>6 DEF Steadfast, dragging
  <1>7. QED
    BY <1>1, <1>5, <1>6

LEMMA FinalFacts ==
    ASSUME Base
    PROVE  Flushes([drag EXCEPT !.frame = FALSE], Final(drag))
  <1> DEFINE d == [drag EXCEPT !.frame = FALSE]
  <1>1. drag \in Drags /\ Measured(drag)
    BY DEF Base, Types
  <1>2. /\ d \in Drags /\ d.kind = drag.kind /\ d.ids = drag.ids /\ d.total = drag.total /\ d.flushed = drag.flushed
    BY <1>1 DEF Drags
  <1>3. Measured(d)
    BY <1>1, <1>2 DEF Measured
  <1>4. Final(drag) = Flushed(d)
    BY DEF Final
  <1> HIDE DEF d
  <1>5. Flushes(d, Flushed(d))
    BY <1>2, <1>3, FlushedFacts
  <1>6. QED
    BY <1>4, <1>5 DEF d

LEMMA CreatedFacts ==
    ASSUME NEW u \in Uis, NEW i \in Ids
    PROVE  /\ Created(u, i) \in Uis /\ Created(u, i).editing \in {u.editing, None}
           /\ Edit(Created(u, i), i) \in Uis /\ Edit(Created(u, i), i).editing = i
  <1> DEFINE c == Created(u, i)
  <1>1. "select" \in Tools /\ i # None
    BY EditorAssumption
  <1>2. c \in Uis /\ c.editing \in {u.editing, None}
    BY <1>1 DEF Created, Uis
  <1> HIDE DEF c
  <1>3. Edit(c, i) = [c EXCEPT !.editing = i, !.selection = {i}]
    BY <1>1 DEF Edit
  <1>4. Edit(c, i) \in Uis /\ Edit(c, i).editing = i
    BY <1>2, <1>3 DEF Uis
  <1>5. QED
    BY <1>2, <1>4 DEF c

\* What ends with other things selected or another edited is good and sure.
LEMMA GoodElsewhere ==
    ASSUME NEW e, NEW u, NEW U, Good(e, u, U), NEW v \in Uis, v.editing \in {u.editing, None}
    PROVE  Good(e, v, U) /\ (Sure(e, u) => Sure(e, v))
  <1>1. None \notin U
    BY EditorAssumption DEF Good
  <1>2. QED
    BY <1>1 DEF Good, Sure, FieldOpen

LEMMA EndDragKeeps ==
    ASSUME Base, EndDrag
    PROVE  Base' /\ (Steadfast => Steadfast') /\ drag' = NoDrag
  <1> DEFINE done  == Final(drag)
             i     == CHOOSE j \in drag.ids : TRUE
             n     == IF drag.total = 0 THEN DefaultSize ELSE drag.total
             box   == IF drag.total = 0 THEN BboxOf(drag.from) ELSE drag.from
             sized == Resize(ed, drag.ids, box, n)
             made  == Created(ui, i)
  <1>1. /\ dragging /\ drag \in Drags /\ Measured(drag) /\ unused' = unused /\ ui \in Uis /\ ed \in Eds /\ ed.op # 0
        /\ Good(ed, ui, unused) /\ drag.ids \in SUBSET Ids
    BY DEF EndDrag, Base, Types, Good, Drags
  <1>2. /\ Kept(ed, done.ed, drag.ids) /\ done.drag \in Drags
    <2>1. Flushes([drag EXCEPT !.frame = FALSE], done)
      BY FinalFacts
    <2>2. [drag EXCEPT !.frame = FALSE].ids = drag.ids
      BY <1>1 DEF Drags
    <2> HIDE DEF done
    <2>3. QED
      BY <2>1, <2>2 DEF Flushes
  <1>3. ASSUME NEW e, Kept(ed, e, drag.ids)
        PROVE  Good(e, ui, unused') /\ e.op # 0 /\ (Steadfast /\ ~upset => Sure(e, ui) /\ Current(e))
    <2>1. Good(e, ui, unused) /\ e.op # 0
      BY <1>1, <1>3, KeptGood DEF Kept
    <2>2. Steadfast /\ ~upset => Sure(e, ui) /\ Current(e)
      BY <1>1, <1>3, DragWrites
    <2>3. QED
      BY <1>1, <2>1, <2>2
  <1>4. CASE drag.kind \in {"move", "resize"}
    <2>1. Clears(done.drag, done.ed, ui)
      BY <1>4 DEF EndDrag
    <2> HIDE DEF done
    <2>2. QED
      BY <1>2, <1>3, <2>1, ClearsKeeps
  <1>5. ASSUME drag.kind \in {"stroke", "draw"} PROVE i \in drag.ids /\ i \in Ids
    BY <1>1, <1>5 DEF Measured
  <1> HIDE DEF i
  <1>6. CASE drag.kind = "stroke"
    <2>1. Clears(drag, done.ed, made)
      BY <1>6 DEF EndDrag, i
    <2>2. made \in Uis /\ made.editing \in {ui.editing, None}
      BY <1>1, <1>5, <1>6, CreatedFacts
    <2> HIDE DEF done, made
    <2>3. Good(done.ed, ui, unused') /\ done.ed.op # 0 /\ (Steadfast /\ ~upset => Sure(done.ed, ui))
      BY <1>2, <1>3
    <2>4. Good(done.ed, made, unused') /\ (Sure(done.ed, ui) => Sure(done.ed, made))
      BY <2>2, <2>3, GoodElsewhere
    <2>5. QED
      BY <1>1, <2>1, <2>3, <2>4, ClearsKeeps
  <1>7. CASE drag.kind = "draw"
    <2> DEFINE v == IF drag.from.kind = "text" THEN Edit(made, i) ELSE made
    <2>1. Clears(drag, sized, v)
      BY <1>7 DEF EndDrag, i
    <2>2. /\ made \in Uis /\ made.editing \in {ui.editing, None}
          /\ Edit(made, i) \in Uis /\ Edit(made, i).editing = i
      BY <1>1, <1>5, <1>7, CreatedFacts
    <2> HIDE DEF made
    <2>3. v \in Uis /\ v.editing \in {ui.editing, None, i}
      BY <2>2
    <2> HIDE DEF v
    <2>4. box \in Els /\ box.at \in Int /\ n \in Nat
      <3>1. drag.from \in Els
        BY <1>1 DEF Drags
      <3>2. n \in Nat
        BY <1>1, <1>7, EditorAssumption DEF Measured
      <3>3. QED
        BY <3>1, <3>2, BboxPlaces DEF Els, Elements
    <2> HIDE DEF n, box
    <2>5. Boxes(ed, sized, drag.ids, box.at, n)
      BY <1>1, <2>4, ResizeKeeps
    <2> HIDE DEF sized
    <2>6. /\ Good(sized, ui, unused') /\ sized.op # 0
          /\ Steadfast /\ ~upset => Sure(sized, ui) /\ Current(sized) /\ \A j \in drag.ids : NeverBack(sized, j)
      <3>1. Kept(ed, sized, drag.ids)
        BY <2>5 DEF Boxes
      <3>2. Steadfast /\ ~upset => \A j \in drag.ids : NeverBack(sized, j)
        BY <1>7, <2>4, <2>5, DrawnNeverBack
      <3>3. QED
        BY <1>3, <3>1, <3>2
    <2>7. i \in drag.ids /\ i \notin unused'
      BY <1>1, <1>5, <1>7 DEF Base
    <2>8. Good(sized, v, unused') /\ (Steadfast /\ ~upset => Sure(sized, v))
      <3>1. CASE v.editing \in {ui.editing, None}
        BY <2>3, <2>6, <3>1, GoodElsewhere
      <3>2. CASE v.editing = i
        BY <2>3, <2>6, <2>7, <3>2 DEF Good, Sure
      <3>3. QED
        BY <2>3, <3>1, <3>2
    <2>9. QED
      BY <1>1, <2>1, <2>6, <2>8, ClearsKeeps
  <1>8. CASE drag.kind = "marquee"
    <2>1. PICK v \in Uis : Clears(drag, ed, v) /\ v.editing \in {ui.editing, None}
      <3>1. CASE Clears(drag, ed, ui)
        BY <1>1, <3>1
      <3>2. ASSUME NEW S \in SUBSET drag.ids, Clears(drag, ed, Select(ui, S))
            PROVE  \E v \in Uis : Clears(drag, ed, v) /\ v.editing \in {ui.editing, None}
        <4>1. Select(ui, S) \in Uis /\ Select(ui, S).editing = None
          BY <1>1 DEF Select, Uis
        <4>2. QED
          BY <3>2, <4>1
      <3>3. Clears(drag, ed, ui) \/ \E S \in SUBSET drag.ids : Clears(drag, ed, Select(ui, S))
        BY <1>8 DEF EndDrag
      <3>4. QED
        BY <3>1, <3>2, <3>3
    <2>2. Good(ed, v, unused') /\ (Sure(ed, ui) => Sure(ed, v))
      BY <1>1, <2>1, GoodElsewhere
    <2>3. Steadfast /\ ~upset => Sure(ed, v)
      BY <2>2 DEF Steadfast
    <2>4. QED
      BY <1>1, <2>1, <2>2, <2>3, ClearsKeeps
  <1>9. drag.kind \in {"move", "resize", "stroke", "draw", "marquee"}
    BY <1>1 DEF EndDrag, dragging, Drags
  <1>10. QED
    BY <1>4, <1>6, <1>7, <1>8, <1>9

LEMMA EndNoteKeeps ==
    ASSUME Base, EndNote
    PROVE  Base' /\ (Steadfast => Steadfast') /\ drag' = NoDrag
  <1> DEFINE el == NewElement("note")
  <1>1. PICK i \in unused : /\ Clears(drag, Create(ed, i, el), Edit(Created(ui, i), i))
                            /\ unused' = unused \ {i}
    BY DEF EndNote
  <1> DEFINE e == Create(ed, i, el)
             u == Edit(Created(ui, i), i)
  <1>2. dragging /\ drag \in Drags /\ ui \in Uis /\ ed \in Eds /\ ed.op # 0 /\ Good(ed, ui, unused) /\ i \in Ids
    BY DEF EndNote, dragging, Base, Types, Good
  <1>3. u \in Uis /\ u.editing = i
    BY <1>2, CreatedFacts
  <1>4. el \in Els /\ el # Nothing
    BY NewElementFacts
  <1> HIDE DEF el
  <1>5. Added(ed, e, {i})
    BY <1>2, <1>4, CreateAdds
  <1> HIDE DEF e, u
  <1>6. unused \in SUBSET Ids
    BY <1>2 DEF Good
  <1>7. Good(e, ui, unused \ {i}) /\ (Sure(ed, ui) /\ Current(ed) => Sure(e, ui) /\ Current(e) /\ NeverBack(e, i))
    BY <1>2, <1>5, <1>6, AddedGood
  <1>8. e.op # 0
    BY <1>2, <1>5 DEF Added
  <1>9. Good(e, u, unused')
    BY <1>1, <1>3, <1>7, <1>8 DEF Good
  <1>10. Steadfast /\ ~upset => Sure(e, u)
    BY <1>2, <1>3, <1>7 DEF Steadfast, Sure
  <1>11. Clears(drag, e, u)
    BY <1>1 DEF e, u
  <1>12. QED
    BY <1>2, <1>8, <1>9, <1>10, <1>11, ClearsKeeps

LEMMA CancelDragKeeps ==
    ASSUME Base, CancelDrag
    PROVE  Base' /\ (Steadfast => Steadfast') /\ drag' = NoDrag
  <1>1. /\ dragging /\ drag \in Drags /\ Measured(drag) /\ unused' = unused /\ ui \in Uis /\ ed \in Eds /\ ed.op # 0
        /\ Good(ed, ui, unused) /\ drag.ids \in SUBSET Ids /\ drag.from \in Els /\ drag.from.size \in Nat
        /\ -drag.flushed \in Int
    BY DEF CancelDrag, Base, Types, Good, Drags, Els, Elements
  <1>2. PICK e : Clears(drag, e, ui) /\ Kept(ed, e, drag.ids)
    <2>1. CASE drag.kind = "move"
      <3>1. Clears(drag, MoveBy(ed, drag.ids, -drag.flushed), ui)
        BY <2>1 DEF CancelDrag
      <3>2. QED
        BY <1>1, <3>1, MoveByKeeps
    <2>2. CASE drag.kind = "resize"
      <3>1. Clears(drag, Resize(ed, drag.ids, drag.from, drag.from.size), ui)
        BY <2>2 DEF CancelDrag
      <3>2. Boxes(ed, Resize(ed, drag.ids, drag.from, drag.from.size), drag.ids, drag.from.at, drag.from.size)
        BY <1>1, ResizeKeeps
      <3>3. QED
        BY <3>1, <3>2 DEF Boxes
    <2>3. CASE drag.kind \in {"draw", "stroke"}
      <3>1. Clears(drag, RemoveElements(ed, drag.ids), ui)
        BY <2>3 DEF CancelDrag
      <3>2. QED
        BY <1>1, <3>1, RemoveKeeps
    <2>4. CASE drag.kind \notin {"move", "resize", "draw", "stroke"}
      <3>1. Clears(drag, ed, ui)
        BY <2>4 DEF CancelDrag
      <3>2. QED
        BY <1>1, <3>1, KeptItself
    <2>5. QED
      BY <2>1, <2>2, <2>3, <2>4
  <1>3. Good(e, ui, unused') /\ e.op # 0
    BY <1>1, <1>2, KeptGood DEF Kept
  <1>4. Steadfast /\ ~upset => Sure(e, ui)
    BY <1>1, <1>2, DragWrites
  <1>5. QED
    BY <1>1, <1>2, <1>3, <1>4, ClearsKeeps

------------------------------------------------------------------------------
(* Typing, and the end of an edit. *)

LEMMA FitsKeeps ==
    ASSUME Base, NEW said \in SUBSET {"me", "peer"}, Fits(said)
    PROVE  Base' /\ (Steadfast => Steadfast')
  <1> DEFINE i  == ui.editing
             el == ed.doc[i]
  <1>1. PICK n \in {el.size} \cup {m \in Sizes : m > el.size} :
             ed' = Write(ed, [j \in {i} |-> [el EXCEPT !.said = said, !.size = n]])
    BY DEF Fits
  <1>2. UNCHANGED <<ui, drag, screen, burst, unused, before, upset, meddled>> /\ screen.focus = "editor"
    BY DEF Fits, Quietly
  <1>3. /\ ed \in Eds /\ ui \in Uis /\ FieldOpen(ui, ed) /\ i \in Ids /\ i # None /\ ed.op # 0
        /\ Good(ed, ui, unused)
    BY <1>2 DEF Base, Good, FieldOpen, Uis
  <1>4. el \in Els /\ el # Nothing
    BY <1>3 DEF FieldOpen, Eds, Docs
  <1> HIDE DEF i, el
  <1> DEFINE to  == [el EXCEPT !.said = said, !.size = n]
             new == [j \in {i} |-> to]
  <1>5. to \in Els /\ to # Nothing
    <2>1. n \in Nat
      BY <1>4, EditorAssumption DEF Els, Elements
    <2>2. [el EXCEPT !.said = said] \in Els /\ [el EXCEPT !.said = said] # Nothing
      BY <1>4, ElementFacts
    <2> DEFINE mid == [el EXCEPT !.said = said]
    <2>3. to = [mid EXCEPT !.size = n]
      BY <1>4 DEF Els, Elements
    <2> HIDE DEF mid, to
    <2>4. mid \in Els /\ mid # Nothing
      BY <2>2 DEF mid
    <2>5. QED
      BY <2>1, <2>3, <2>4, ElementFacts
  <1> HIDE DEF to
  <1>6. new \in [{i} -> Els] /\ new[i] = to
    BY <1>5
  <1> HIDE DEF new
  <1>7. Kept(ed, ed', {i}) /\ ed'.doc[i] # Nothing
    <2>1. {i} \in SUBSET Ids /\ {i} \in SUBSET {i} /\ \A j \in {i} : ed.doc[j] # Nothing
      BY <1>3, <1>4 DEF el
    <2>2. Kept(ed, Write(ed, new), {i})
      BY <1>3, <1>6, <2>1, TouchKeeps
    <2>3. Write(ed, new).doc = [j \in Ids |-> IF j \in {i} THEN new[j] ELSE ed.doc[j]]
      BY <1>3, <1>6, <2>1, TouchKeeps
    <2>4. ed' = Write(ed, new)
      BY <1>1 DEF new, to
    <2>5. QED
      BY <1>3, <1>5, <1>6, <2>2, <2>3, <2>4
  <1>8. Good(ed', ui, unused) /\ ed'.op = ed.op
    BY <1>3, <1>7, KeptGood DEF Kept
  <1>9. FieldOpen(ui, ed')
    BY <1>3, <1>7 DEF FieldOpen, i
  <1>10. Base'
    BY <1>2, <1>8, <1>9 DEF Base, Types, dragging
  <1>11. ASSUME Steadfast, ~upset PROVE Steadfast'
    <2>1. Sure(ed, ui) /\ Current(ed) /\ ~dragging
      BY <1>3, <1>11 DEF Steadfast, Sure
    <2>2. Sure(ed', ui) /\ Current(ed')
      BY <1>3, <1>7, <2>1, KeptSure DEF i
    <2>3. QED
      BY <1>2, <2>1, <2>2 DEF Steadfast, dragging
  <1>12. QED
    BY <1>2, <1>10, <1>11 DEF Steadfast

LEMMA FieldKeeps ==
    ASSUME Base, Opened \/ Type \/ Erase, screen.focus = "editor"
    PROVE  Base' /\ (Steadfast => Steadfast')
  <1>1. ed.doc[ui.editing] \in Els
    BY DEF Base, Good, FieldOpen, Uis, Eds, Docs
  <1>2. ed.doc[ui.editing].said \in SUBSET {"me", "peer"}
    BY <1>1 DEF Els, Elements
  <1>3. PICK said \in SUBSET {"me", "peer"} : Fits(said)
    <2>1. CASE Opened
      BY <1>2, <2>1 DEF Opened
    <2>2. CASE Type
      <3>1. ed.doc[ui.editing].said \cup {"me"} \in SUBSET {"me", "peer"}
        BY <1>2
      <3>2. QED
        BY <2>2, <3>1 DEF Type
    <2>3. CASE Erase
      <3>1. {} \in SUBSET {"me", "peer"}
        OBVIOUS
      <3>2. QED
        BY <2>3, <3>1 DEF Erase
    <2>4. QED
      BY <2>1, <2>2, <2>3
  <1>4. QED
    BY <1>3, FitsKeeps

\* The focus leaves an open field for the canvas or a button.
LEMMA LeavesTo ==
    ASSUME Base
    PROVE  BlursTo(ed, ui, unused, Blurred(ed, ui))
  <1>1. Good(ed, ui, unused) /\ (ui.editing # None => ed.op # 0)
    BY DEF Base, Good
  <1>2. QED
    BY <1>1, BlurredFacts

LEMMA LeavesSure ==
    ASSUME Base, Steadfast, ~upset, NEW b, BlursTo(ed, ui, unused, b)
    PROVE  Sure(b.ed, b.ui)
  BY DEF BlursTo, Steadfast, Sure, FieldOpen

LEMMA EndEditKeeps ==
    ASSUME Base, EndEdit
    PROVE  Base' /\ (Steadfast => Steadfast')
  <1> DEFINE b == Blurred(ed, ui)
  <1>1. /\ Becomes(b.ed, b.ui, "canvas") /\ screen.focus = "editor"
        /\ UNCHANGED <<drag, burst, unused, before, upset, meddled>>
    BY DEF EndEdit, Quietly
  <1>2. BlursTo(ed, ui, unused, b)
    BY LeavesTo
  <1> HIDE DEF b
  <1>3. Good(b.ed, b.ui, unused') /\ b.ed.op = ed.op
    BY <1>1, <1>2 DEF BlursTo
  <1>4. /\ Types /\ drag' \in Drags /\ Measured(drag') /\ burst' \in BOOLEAN /\ before' \in Docs /\ upset' \in BOOLEAN
        /\ meddled' \in 0..MaxMeddling /\ "canvas" \in Foci
        /\ drag'.kind # "none" \/ burst' => b.ed.op # 0
        /\ drag'.kind = "draw" => drag'.ids \cap unused' = {}
    BY <1>1, <1>3 DEF Base, Types, dragging, Foci
  <1>5. Base' /\ ed' = b.ed /\ ui' = b.ui
    BY <1>1, <1>3, <1>4, BecomesSettles
  <1>6. ASSUME Steadfast, ~upset PROVE Steadfast'
    <2>1. ~dragging
      BY <1>1, <1>6 DEF Base, Steadfast
    <2>2. Sure(b.ed, b.ui)
      BY <1>2, <1>6, LeavesSure
    <2>3. QED
      BY <1>1, <1>5, <2>1, <2>2 DEF Steadfast, dragging
  <1>7. QED
    BY <1>1, <1>5, <1>6 DEF Steadfast

LEMMA PickToolFacts ==
    ASSUME NEW u \in Uis, NEW t \in Tools
    PROVE  /\ PickTool(u, t) \in Uis /\ PickTool(u, t).editing \in {u.editing, None}
           /\ \A S \in SUBSET Ids : /\ Select(PickTool(u, t), S) \in Uis
                                    /\ Select(PickTool(u, t), S).editing = None
  <1> DEFINE v == PickTool(u, t)
  <1>1. v \in Uis /\ v.editing \in {u.editing, None}
    BY DEF PickTool, Uis
  <1> HIDE DEF v
  <1>2. ASSUME NEW S \in SUBSET Ids PROVE Select(v, S) \in Uis /\ Select(v, S).editing = None
    BY <1>1 DEF Select, Uis
  <1>3. QED
    BY <1>1, <1>2 DEF v

LEMMA ClickToolKeeps ==
    ASSUME Base, NEW t \in Tools, ClickTool(t)
    PROVE  Base' /\ (Steadfast => Steadfast')
  <1> DEFINE b == Blurred(ed, ui)
             v == PickTool(b.ui, t)
  <1>1. /\ Becomes(b.ed, v, "canvas") /\ ~dragging /\ burst' = FALSE
        /\ UNCHANGED <<drag, unused, before, upset, meddled>>
    BY DEF ClickTool, Quietly
  <1>2. BlursTo(ed, ui, unused, b)
    BY LeavesTo
  <1> HIDE DEF b
  <1>3. Good(b.ed, b.ui, unused) /\ b.ui \in Uis
    BY <1>2 DEF BlursTo, Good
  <1>4. v \in Uis /\ v.editing \in {b.ui.editing, None}
    BY <1>3, PickToolFacts
  <1> HIDE DEF v
  <1>5. Good(b.ed, v, unused') /\ (Sure(b.ed, b.ui) => Sure(b.ed, v))
    BY <1>1, <1>3, <1>4, GoodElsewhere
  <1>6. /\ Types /\ drag' \in Drags /\ Measured(drag') /\ burst' \in BOOLEAN /\ before' \in Docs /\ upset' \in BOOLEAN
        /\ meddled' \in 0..MaxMeddling /\ "canvas" \in Foci /\ drag'.kind = "none"
    BY <1>1 DEF Base, Types, dragging, Foci
  <1>7. Base' /\ ed' = b.ed /\ ui' = v
    BY <1>1, <1>5, <1>6, BecomesSettles
  <1>8. ASSUME Steadfast, ~upset PROVE Steadfast'
    <2>1. Sure(b.ed, v)
      BY <1>2, <1>5, <1>8, LeavesSure
    <2>2. QED
      BY <1>6, <1>7, <2>1 DEF Steadfast, dragging
  <1>9. QED
    BY <1>1, <1>7, <1>8 DEF Steadfast

LEMMA ClickStyleKeeps ==
    ASSUME Base, ClickStyle
    PROVE  Base' /\ (Steadfast => Steadfast')
  <1> DEFINE b == Blurred(ed, ui)
             e == Starting(b.ed)
             f == IF b.ui.selection = {} THEN b.ed
                  ELSE On(e, b.ui.selection, LAMBDA el : [el EXCEPT !.ink = 1 - @])
  <1>1. /\ Becomes(f, b.ui, "chrome") /\ ~dragging /\ MayBegin /\ burst' = (burst /\ ~selected)
        /\ UNCHANGED <<drag, unused, before, upset, meddled>>
    BY DEF ClickStyle, Quietly
  <1>2. BlursTo(ed, ui, unused, b)
    BY LeavesTo
  <1> HIDE DEF b
  <1>3. /\ Good(b.ed, b.ui, unused) /\ b.ui \in Uis /\ b.ed \in Eds /\ b.ed.op = ed.op /\ ~FieldOpen(b.ui, b.ed)
        /\ b.ui.selection \subseteq ui.selection /\ b.ui.selection \in SUBSET Ids
    BY <1>2 DEF BlursTo, Good, Uis
  <1>4. Started(b.ed, e)
    BY <1>1, <1>3, StartKeeps DEF MayBegin
  <1> HIDE DEF e
  <1>5. /\ Good(f, b.ui, unused) /\ (burst' => f.op # 0)
        /\ Sure(b.ed, b.ui) => Sure(f, b.ui)
    <2>1. CASE b.ui.selection = {}
      BY <1>1, <1>3, <2>1 DEF Base
    <2>2. CASE b.ui.selection # {}
      <3>1. e \in Eds /\ e.op # 0 /\ Good(e, b.ui, unused)
        BY <1>3, <1>4 DEF Started, Good
      <3>2. Kept(e, On(e, b.ui.selection, LAMBDA el : [el EXCEPT !.ink = 1 - @]), b.ui.selection)
        BY <1>3, <3>1, InkKeeps
      <3>3. f = On(e, b.ui.selection, LAMBDA el : [el EXCEPT !.ink = 1 - @])
        BY <2>2
      <3> HIDE DEF f
      <3>4. Kept(e, f, b.ui.selection)
        BY <3>2, <3>3
      <3>5. Good(f, b.ui, unused) /\ f.op # 0
        BY <3>1, <3>4, KeptGood DEF Kept
      <3>6. ASSUME Sure(b.ed, b.ui) PROVE Sure(f, b.ui)
        <4>1. Sure(e, b.ui) /\ Current(e) /\ (b.ui.editing # None => e.doc[b.ui.editing] = Nothing)
          BY <1>3, <1>4, <3>6 DEF Sure, Started, FieldOpen, Uis
        <4>2. QED
          BY <1>3, <3>4, <4>1, KeptSure
      <3>7. QED
        BY <3>5, <3>6
    <2>3. QED
      BY <2>1, <2>2
  <1> HIDE DEF f
  <1>6. /\ Types /\ drag' \in Drags /\ Measured(drag') /\ burst' \in BOOLEAN /\ before' \in Docs /\ upset' \in BOOLEAN
        /\ meddled' \in 0..MaxMeddling /\ "chrome" \in Foci /\ drag'.kind = "none"
    BY <1>1 DEF Base, Types, dragging, Foci
  <1>7. Base' /\ ed' = f /\ ui' = b.ui
    BY <1>1, <1>5, <1>6, BecomesSettles
  <1>8. ASSUME Steadfast, ~upset PROVE Steadfast'
    <2>1. Sure(f, b.ui)
      BY <1>2, <1>5, <1>8, LeavesSure
    <2>2. QED
      BY <1>6, <1>7, <2>1 DEF Steadfast, dragging
  <1>9. QED
    BY <1>1, <1>7, <1>8 DEF Steadfast

------------------------------------------------------------------------------
(* Keys. *)

LEMMA HeardKeeps ==
    ASSUME Base, NEW e, NEW u, NEW run \in BOOLEAN, Heard(e, u, run), Good(e, u, unused'),
           dragging \/ run => e.op # 0, unused' \subseteq unused,
           Steadfast /\ ~upset /\ ~dragging => Sure(e, u)
    PROVE  Base' /\ (Steadfast => Steadfast')
  <1>1. /\ Becomes(e, u, "canvas") /\ burst' = run /\ upset' = (upset \/ dragging)
        /\ UNCHANGED <<drag, before>>
        /\ IF dragging THEN Meddles ELSE UNCHANGED meddled
    BY DEF Heard
  <1>2. meddled' \in 0..MaxMeddling
    <2>1. CASE dragging
      <3>1. meddled \in Nat /\ MaxMeddling \in Nat /\ meddled < MaxMeddling /\ meddled' = meddled + 1
        BY <1>1, <2>1, EditorAssumption DEF Meddles, Base, Types
      <3>2. QED
        BY <3>1
    <2>2. CASE ~dragging
      BY <1>1, <2>2 DEF Base, Types
    <2>3. QED
      BY <2>1, <2>2
  <1>3. /\ Types /\ drag' \in Drags /\ Measured(drag') /\ burst' \in BOOLEAN /\ before' \in Docs /\ upset' \in BOOLEAN
        /\ "canvas" \in Foci
        /\ drag'.kind # "none" \/ burst' => e.op # 0
        /\ drag'.kind = "draw" => drag'.ids \cap unused' = {}
    BY <1>1 DEF Base, Types, dragging, Foci
  <1>4. Base' /\ ed' = e /\ ui' = u
    BY <1>1, <1>2, <1>3, BecomesSettles
  <1>5. ASSUME Steadfast PROVE Steadfast'
    BY <1>1, <1>4, <1>5 DEF Steadfast, dragging
  <1>6. QED
    BY <1>4, <1>5

\* The canvas hears keys, so no field is open.
LEMMA HeardOpen ==
    ASSUME Base, NEW e, NEW u, NEW run, Heard(e, u, run)
    PROVE  ~FieldOpen(ui, ed)
  BY DEF Heard, Base

LEMMA AnewFacts ==
    ASSUME Base, MayBegin, ~FieldOpen(ui, ed)
    PROVE  /\ Good(Anew, ui, unused) /\ Anew.op # 0 /\ Anew.doc = ed.doc /\ Anew \in Eds
           /\ Steadfast /\ ~upset => Sure(Anew, ui) /\ Current(Anew)
  <1>1. ed \in Eds /\ ed.op < MaxOps
    BY DEF Base, Good, MayBegin
  <1>2. Started(ed, Anew)
    BY <1>1, StartKeeps DEF Anew
  <1>3. ASSUME Steadfast, ~upset PROVE Sure(Anew, ui) /\ Current(Anew)
    BY <1>2, <1>3 DEF Steadfast, Sure, Started, FieldOpen, Base, Good, Uis
  <1>4. QED
    BY <1>2, <1>3 DEF Started, Good, Base

\* What a key writes on the elements there, leaves what is known of the steps.
LEMMA KeyWrites ==
    ASSUME Base, ~FieldOpen(ui, ed), NEW e, Good(e, ui, unused), e.op # 0, e.doc = ed.doc, NEW f, NEW ids, Kept(e, f, ids),
           Steadfast /\ ~upset => Sure(e, ui) /\ (~dragging => Current(e))
    PROVE  Good(f, ui, unused) /\ f.op # 0 /\ (Steadfast /\ ~upset /\ ~dragging => Sure(f, ui))
  <1>1. Good(f, ui, unused) /\ f.op # 0
    BY KeptGood DEF Kept
  <1>2. ASSUME Steadfast, ~upset, ~dragging PROVE Sure(f, ui)
    <2>1. Sure(e, ui) /\ Current(e) /\ (ui.editing # None => e.doc[ui.editing] = Nothing)
      BY <1>2 DEF FieldOpen
    <2>2. ui \in Uis
      BY DEF Base, Good
    <2>3. QED
      BY <2>1, <2>2, KeptSure
  <1>3. QED
    BY <1>1, <1>2

LEMMA SteadyFacts ==
    ASSUME Base, ~FieldOpen(ui, ed), NEW f, Steady(ed, f)
    PROVE  /\ Good(f, ui, unused) /\ (dragging \/ burst => f.op # 0)
           /\ Steadfast /\ ~upset /\ ~dragging => Sure(f, ui)
  <1>1. Good(f, ui, unused) /\ (dragging \/ burst => f.op # 0)
    BY DEF Base, Good, Steady
  <1>2. ASSUME Steadfast, ~upset, ~dragging PROVE Sure(f, ui)
    BY <1>2 DEF Steadfast, Sure, Steady, FieldOpen, Base, Good, Uis
  <1>3. QED
    BY <1>1, <1>2

LEMMA KeyUndoKeeps ==
    ASSUME Base, KeyUndo \/ KeyRedo
    PROVE  Base' /\ (Steadfast => Steadfast')
  <1>1. ed \in Eds /\ burst \in BOOLEAN
    BY DEF Base, Good, Types
  <1>2. PICK f : Heard(f, ui, burst) /\ Steady(ed, f) /\ unused' = unused
    <2>1. CASE KeyUndo
      <3>1. PICK over \in BOOLEAN : Heard(Undone(ed, over), ui, burst) /\ unused' = unused
        BY <2>1 DEF KeyUndo
      <3>2. QED
        BY <1>1, <3>1, UndoneSteady
    <2>2. CASE KeyRedo
      <3>1. PICK over \in BOOLEAN : Heard(Redone(ed, over), ui, burst) /\ unused' = unused
        BY <2>2 DEF KeyRedo
      <3>2. QED
        BY <1>1, <3>1, RedoneSteady
    <2>3. QED
      BY <2>1, <2>2
  <1>3. ~FieldOpen(ui, ed)
    BY <1>2, HeardOpen
  <1>4. /\ Good(f, ui, unused) /\ (dragging \/ burst => f.op # 0)
        /\ Steadfast /\ ~upset /\ ~dragging => Sure(f, ui)
    BY <1>2, <1>3, SteadyFacts
  <1>5. QED
    BY <1>1, <1>2, <1>4, HeardKeeps

LEMMA KeyDeleteKeeps ==
    ASSUME Base, KeyDelete
    PROVE  Base' /\ (Steadfast => Steadfast')
  <1> DEFINE f == RemoveElements(Anew, ui.selection)
             v == Forgotten(ui, ui.selection)
  <1>1. MayBegin /\ Heard(f, v, FALSE) /\ unused' = unused
    BY DEF KeyDelete
  <1>2. ~FieldOpen(ui, ed)
    BY <1>1, HeardOpen
  <1>3. /\ Good(Anew, ui, unused) /\ Anew.op # 0 /\ Anew.doc = ed.doc /\ Anew \in Eds
        /\ Steadfast /\ ~upset => Sure(Anew, ui) /\ Current(Anew)
    BY <1>1, <1>2, AnewFacts
  <1>4. ui \in Uis /\ ui.selection \in SUBSET Ids
    BY DEF Base, Good, Uis
  <1>5. Kept(Anew, f, ui.selection)
    BY <1>3, <1>4, RemoveKeeps
  <1>6. v \in Uis /\ v.editing \in {ui.editing, None}
    BY <1>4 DEF Forgotten, Uis
  <1> HIDE DEF f, v
  <1>7. Good(f, ui, unused) /\ f.op # 0 /\ (Steadfast /\ ~upset /\ ~dragging => Sure(f, ui))
    BY <1>2, <1>3, <1>5, KeyWrites
  <1>8. Good(f, v, unused) /\ (Sure(f, ui) => Sure(f, v))
    BY <1>6, <1>7, GoodElsewhere
  <1>9. QED
    BY <1>1, <1>7, <1>8, HeardKeeps

LEMMA KeyNudgeKeeps ==
    ASSUME Base, KeyNudge
    PROVE  Base' /\ (Steadfast => Steadfast')
  <1>1. unused' = unused
    BY DEF KeyNudge
  <1>2. ui.selection \in SUBSET Ids /\ ed \in Eds /\ 1 \in Int /\ Good(ed, ui, unused)
    BY DEF Base, Good, Uis
  <1>3. CASE burst /\ ed.open /\ Heard(MoveBy(ed, ui.selection, 1), ui, FALSE)
    <2> DEFINE f == MoveBy(ed, ui.selection, 1)
    <2>1. ~FieldOpen(ui, ed)
      BY <1>3, HeardOpen
    <2>2. ed.op # 0 /\ Current(ed)
      BY <1>3 DEF Base, Current
    <2>3. Kept(ed, f, ui.selection)
      BY <1>2, <2>2, MoveByKeeps
    <2> HIDE DEF f
    <2>4. Steadfast /\ ~upset => Sure(ed, ui)
      BY DEF Steadfast
    <2>5. Good(f, ui, unused) /\ f.op # 0 /\ (Steadfast /\ ~upset /\ ~dragging => Sure(f, ui))
      BY <1>2, <2>1, <2>2, <2>3, <2>4, KeyWrites
    <2>6. Heard(f, ui, FALSE)
      BY <1>3 DEF f
    <2>7. QED
      BY <1>1, <2>5, <2>6, HeardKeeps
  <1>4. CASE MayBegin /\ Heard(MoveBy(Anew, ui.selection, 1), ui, TRUE)
    <2> DEFINE f == MoveBy(Anew, ui.selection, 1)
    <2>1. ~FieldOpen(ui, ed)
      BY <1>4, HeardOpen
    <2>2. /\ Good(Anew, ui, unused) /\ Anew.op # 0 /\ Anew.doc = ed.doc /\ Anew \in Eds
          /\ Steadfast /\ ~upset => Sure(Anew, ui) /\ Current(Anew)
      BY <1>4, <2>1, AnewFacts
    <2>3. Kept(Anew, f, ui.selection)
      BY <1>2, <2>2, MoveByKeeps
    <2> HIDE DEF f
    <2>4. Good(f, ui, unused) /\ f.op # 0 /\ (Steadfast /\ ~upset /\ ~dragging => Sure(f, ui))
      BY <2>1, <2>2, <2>3, KeyWrites
    <2>5. Heard(f, ui, TRUE)
      BY <1>4 DEF f
    <2>6. QED
      BY <1>1, <2>4, <2>5, HeardKeeps
  <1>5. QED
    BY <1>3, <1>4 DEF KeyNudge

LEMMA CopiedFacts ==
    ASSUME NEW el \in Els, el # Nothing
    PROVE  Copied(el) \in Els /\ Copied(el) # Nothing
  <1> DEFINE at   == el.at + 1
             said == IF el.said = {} THEN {} ELSE {"me"}
             mid  == [el EXCEPT !.at = at]
  <1>1. at \in Int /\ said \in SUBSET {"me", "peer"}
    BY DEF Els, Elements
  <1>2. Copied(el) = [mid EXCEPT !.said = said]
    BY DEF Copied, Els, Elements
  <1> HIDE DEF at, said
  <1>3. mid \in Els /\ mid # Nothing
    BY <1>1, ElementFacts
  <1> HIDE DEF mid
  <1>4. QED
    BY <1>1, <1>2, <1>3, ElementFacts

LEMMA KeyCopiesKeeps ==
    ASSUME Base, KeyCopies
    PROVE  Base' /\ (Steadfast => Steadfast')
  <1> DEFINE from == ui.selection \cap Painted(ed.doc)
             v(to) == Select(PickTool(ui, "select"), to)
  <1>1. MayBegin
    BY DEF KeyCopies
  <1>2. PICK to \in SUBSET unused :
          /\ \E pair \in {f \in [to -> from] : \A i, j \in to : f[i] = f[j] => i = j} :
                Heard(Write(Anew, [i \in to |-> Copied(ed.doc[pair[i]])]), v(to), FALSE)
          /\ unused' = unused \ to
    BY DEF KeyCopies, kSubset
  <1>3. PICK pair \in [to -> from] :
          Heard(Write(Anew, [i \in to |-> Copied(ed.doc[pair[i]])]), v(to), FALSE)
    BY <1>2
  <1> DEFINE new == [i \in to |-> Copied(ed.doc[pair[i]])]
             f   == Write(Anew, new)
             w   == v(to)
  <1>4. /\ ui \in Uis /\ ed \in Eds /\ unused \in SUBSET Ids /\ to \in SUBSET Ids /\ "select" \in Tools
        /\ unused' = unused \ to /\ unused' \subseteq unused /\ None \notin unused
    BY <1>2, EditorAssumption DEF Base, Good
  <1>5. ~FieldOpen(ui, ed)
    BY <1>3, HeardOpen
  <1>6. /\ Good(Anew, ui, unused) /\ Anew.op # 0 /\ Anew.doc = ed.doc /\ Anew \in Eds
        /\ Steadfast /\ ~upset => Sure(Anew, ui) /\ Current(Anew)
    BY <1>1, <1>5, AnewFacts
  <1>7. new \in [to -> Els] /\ \A i \in to : new[i] # Nothing
    <2>1. ASSUME NEW i \in to PROVE Copied(ed.doc[pair[i]]) \in Els /\ Copied(ed.doc[pair[i]]) # Nothing
      <3>1. pair[i] \in Ids /\ ed.doc[pair[i]] # Nothing
        BY <1>4, <2>1 DEF Painted
      <3>2. ed.doc[pair[i]] \in Els
        BY <1>4, <3>1 DEF Eds, Docs
      <3>3. QED
        BY <3>1, <3>2, CopiedFacts
    <2>2. QED
      BY <2>1
  <1>8. w \in Uis /\ w.editing = None
    BY <1>4, PickToolFacts
  <1>9. Heard(f, w, FALSE)
    BY <1>3
  <1> HIDE DEF new, w, from, v
  <1>10. Added(Anew, f, to)
    BY <1>4, <1>6, <1>7, AddKeeps
  <1> HIDE DEF f
  <1>11. Good(f, w, unused') /\ f.op # 0
    BY <1>4, <1>6, <1>8, <1>10 DEF Good, Added
  <1>12. ASSUME Steadfast, ~upset PROVE Sure(f, w)
    <2>1. Fresh(Anew, to)
      BY <1>2, <1>6 DEF Good, Fresh
    <2>2. Sound(f)
      BY <1>6, <1>10, <1>12, <2>1 DEF Added, Sure
    <2>3. QED
      BY <1>8, <2>2 DEF Sure, FieldOpen
  <1>13. QED
    BY <1>4, <1>9, <1>11, <1>12, HeardKeeps

\* A key that changes what is selected and nothing else.
LEMMA KeyElsewhere ==
    ASSUME Base, NEW v \in Uis, v.editing \in {ui.editing, None}, NEW run \in BOOLEAN, run => burst,
           Heard(ed, v, run), unused' = unused
    PROVE  Base' /\ (Steadfast => Steadfast')
  <1>1. Good(ed, ui, unused) /\ (dragging \/ run => ed.op # 0)
    BY DEF Base
  <1>2. Good(ed, v, unused) /\ (Sure(ed, ui) => Sure(ed, v))
    BY <1>1, GoodElsewhere
  <1>3. Steadfast /\ ~upset => Sure(ed, v)
    BY <1>2 DEF Steadfast
  <1>4. QED
    BY <1>1, <1>2, <1>3, HeardKeeps

LEMMA KeySelectAllKeeps ==
    ASSUME Base, KeySelectAll
    PROVE  Base' /\ (Steadfast => Steadfast')
  <1> DEFINE v == Select(PickTool(ui, "select"), Painted(ed.doc))
  <1>1. Heard(ed, v, FALSE) /\ unused' = unused
    BY DEF KeySelectAll
  <1>2. ui \in Uis /\ "select" \in Tools /\ Painted(ed.doc) \in SUBSET Ids
    BY EditorAssumption DEF Base, Good, Painted
  <1>3. v \in Uis /\ v.editing = None
    BY <1>2, PickToolFacts
  <1> HIDE DEF v
  <1>4. QED
    BY <1>1, <1>3, KeyElsewhere

LEMMA KeyEscapeKeeps ==
    ASSUME Base, KeyEscape
    PROVE  Base' /\ (Steadfast => Steadfast')
  <1> DEFINE v == [ui EXCEPT !.selection = {}, !.editing = None]
  <1>1. Heard(ed, v, FALSE) /\ unused' = unused
    BY DEF KeyEscape
  <1>2. v \in Uis /\ v.editing = None
    BY DEF Base, Good, Uis
  <1> HIDE DEF v
  <1>3. QED
    BY <1>1, <1>2, KeyElsewhere

LEMMA KeyToolKeeps ==
    ASSUME Base, NEW t \in Tools, KeyTool(t)
    PROVE  Base' /\ (Steadfast => Steadfast')
  <1> DEFINE v   == PickTool(ui, t)
             run == burst /\ t = ui.tool
  <1>1. Heard(ed, v, run) /\ unused' = unused
    BY DEF KeyTool
  <1>2. v \in Uis /\ v.editing \in {ui.editing, None}
    BY PickToolFacts DEF Base, Good
  <1>3. run \in BOOLEAN /\ (run => burst)
    BY DEF Base, Types
  <1> HIDE DEF v, run
  <1>4. QED
    BY <1>1, <1>2, <1>3, KeyElsewhere

LEMMA KeyEnterKeeps ==
    ASSUME Base, KeyEnter
    PROVE  Base' /\ (Steadfast => Steadfast')
  <1>1. PICK i \in Ids : HoldsText(ed.doc[i]) /\ Heard(Anew, Edit(ui, i), FALSE) /\ unused' = unused /\ MayBegin
    BY DEF KeyEnter
  <1>2. ~FieldOpen(ui, ed)
    BY <1>1, HeardOpen
  <1>3. /\ Good(Anew, ui, unused) /\ Anew.op # 0 /\ Anew.doc = ed.doc /\ Anew \in Eds
        /\ Steadfast /\ ~upset => Sure(Anew, ui) /\ Current(Anew)
    BY <1>1, <1>2, AnewFacts
  <1> DEFINE v == Edit(ui, i)
  <1>4. v \in Uis /\ v.editing = i
    <2>1. v = [ui EXCEPT !.editing = i, !.selection = {i}]
      BY EditorAssumption DEF Edit
    <2> HIDE DEF v
    <2>2. QED
      BY <2>1 DEF Base, Good, Uis
  <1>5. Anew.doc[i] # Nothing
    BY <1>1, <1>3, HoldsSomething
  <1> HIDE DEF v
  <1>6. Good(Anew, v, unused')
    BY <1>1, <1>3, <1>4, <1>5 DEF Good, Fresh
  <1>7. ASSUME Steadfast, ~upset PROVE Sure(Anew, v)
    <2>1. Sound(Anew) /\ Current(Anew)
      BY <1>3, <1>7 DEF Sure
    <2>2. NeverBack(Anew, i)
      BY <1>3, <1>5, <2>1, PresentNeverBack
    <2>3. QED
      BY <1>4, <2>1, <2>2 DEF Sure
  <1>8. Heard(Anew, v, FALSE)
    BY <1>1 DEF v
  <1>9. QED
    BY <1>1, <1>3, <1>6, <1>7, <1>8, HeardKeeps

------------------------------------------------------------------------------
(* Ten seconds go by; peers change the board. *)

LEMMA CountsOn ==
    ASSUME Base, Meddles
    PROVE  meddled' \in 0..MaxMeddling
  <1>1. meddled \in Nat /\ MaxMeddling \in Nat /\ meddled < MaxMeddling /\ meddled' = meddled + 1
    BY EditorAssumption DEF Meddles, Base, Types
  <1>2. QED
    BY <1>1

LEMMA PauseKeeps ==
    ASSUME Base, Pause
    PROVE  Base' /\ Steadfast'
  <1>1. /\ ed' = [ed EXCEPT !.open = FALSE] /\ upset' = TRUE /\ meddled' \in 0..MaxMeddling
        /\ UNCHANGED <<ui, drag, screen, burst, unused, before>>
    BY CountsOn DEF Pause, Closed
  <1>2. /\ ed' \in Eds /\ ed'.doc = ed.doc /\ ed'.op = ed.op /\ ed'.undo = ed.undo /\ ed'.redo = ed.redo
    BY <1>1 DEF Base, Good, Eds
  <1>3. Good(ed', ui', unused')
    BY <1>1, <1>2 DEF Base, Good, Fresh, Listed
  <1>4. QED
    BY <1>1, <1>2, <1>3 DEF Base, Types, FieldOpen, dragging, Steadfast

\* e with one element set.
OneSet(e, i, el) == [e EXCEPT !.doc = [@ EXCEPT ![i] = el]]

\* A peer sets an element that is there to el, and the history of it to was.
PeerSets(i, el, was) ==
    /\ Meddles /\ ed.doc[i] # Nothing
    /\ ed' = OneSet(ed, i, el)
    /\ before' = IF dragging /\ before[i] # Nothing THEN [before EXCEPT ![i] = was] ELSE before
    /\ screen' = [screen EXCEPT !.focus = FocusFrom(@, ed', ui)]
    /\ UNCHANGED <<ui, drag, burst, unused>>

LEMMA OneIsSet ==
    ASSUME NEW e \in Eds, NEW i \in Ids, NEW el \in Els
    PROVE  /\ OneSet(e, i, el) \in Eds /\ OneSet(e, i, el).op = e.op /\ OneSet(e, i, el).undo = e.undo
           /\ OneSet(e, i, el).redo = e.redo /\ OneSet(e, i, el).open = e.open
           /\ OneSet(e, i, el).doc = [e.doc EXCEPT ![i] = el]
  <1> DEFINE d == [e.doc EXCEPT ![i] = el]
             f == OneSet(e, i, el)
  <1>1. d \in Docs
    BY DEF Eds, Docs
  <1>2. f = [e EXCEPT !.doc = d]
    BY DEF OneSet
  <1> HIDE DEF d, f
  <1>3. f \in Eds /\ f.op = e.op /\ f.undo = e.undo /\ f.redo = e.redo /\ f.open = e.open /\ f.doc = d
    BY <1>1, <1>2 DEF Eds
  <1>4. QED
    BY <1>3 DEF d, f

LEMMA PeerSetsKeeps ==
    ASSUME Base, NEW i \in Ids, NEW el \in Els, NEW was \in Els, PeerSets(i, el, was), upset' \in BOOLEAN,
           upset => upset'
    PROVE  Base' /\ (Steadfast => Steadfast')
  <1>1. ed \in Eds /\ ui \in Uis /\ screen \in Screens /\ before \in Docs /\ Good(ed, ui, unused)
    BY DEF Base, Good, Types
  <1>2. /\ ed' \in Eds /\ ed'.op = ed.op /\ ed'.undo = ed.undo /\ ed'.redo = ed.redo /\ ed'.open = ed.open
        /\ ed'.doc = [ed.doc EXCEPT ![i] = el]
    <2>1. /\ OneSet(ed, i, el) \in Eds /\ OneSet(ed, i, el).op = ed.op /\ OneSet(ed, i, el).undo = ed.undo
          /\ OneSet(ed, i, el).redo = ed.redo /\ OneSet(ed, i, el).open = ed.open
          /\ OneSet(ed, i, el).doc = [ed.doc EXCEPT ![i] = el]
      BY <1>1, OneIsSet
    <2>2. ed' = OneSet(ed, i, el)
      BY DEF PeerSets
    <2>3. QED
      BY <2>1, <2>2
  <1>3. /\ ed.doc \in [Ids -> Els] /\ ed.doc[i] # Nothing
        /\ UNCHANGED <<ui, drag, burst, unused>> /\ meddled' \in 0..MaxMeddling
    BY <1>1, CountsOn DEF PeerSets, Eds, Docs
  <1>4. \A j \in Ids : ed.doc[j] = Nothing => ed'.doc[j] = Nothing
    BY <1>2, <1>3
  <1>5. before' \in Docs
    BY <1>1 DEF PeerSets, Docs
  <1>6. Listed(ed') = Listed(ed)
    BY <1>2 DEF Listed
  <1>7. Good(ed', ui', unused')
    BY <1>1, <1>2, <1>3, <1>4, <1>6 DEF Good, Fresh
  <1>8. /\ screen' = [painted |-> screen.painted, late |-> screen.late, focus |-> FocusFrom(screen.focus, ed', ui')]
        /\ screen.painted \in SUBSET Overlay /\ screen.late \in SUBSET Overlay /\ screen.focus \in Foci
    BY <1>1, <1>3 DEF PeerSets, Screens
  <1>9. /\ drag' \in Drags /\ Measured(drag') /\ burst' \in BOOLEAN
        /\ drag'.kind # "none" \/ burst' => ed'.op # 0
        /\ drag'.kind = "draw" => drag'.ids \cap unused' = {}
    BY <1>2, <1>3 DEF Base, Types, dragging
  <1>10. Base'
    BY <1>3, <1>5, <1>7, <1>8, <1>9, Settle
  <1>11. ASSUME Steadfast, ~upset' PROVE Steadfast'
    <2>1. ~upset /\ Sure(ed, ui) /\ Sound(ed)
      BY <1>11 DEF Steadfast, Sure
    <2>2. Sound(ed')
      <3>1. \A x \in Listed(ed) : Single(ed.op, ed.doc, x)
        BY <2>1 DEF Sound, Whole, Listed
      <3>2. \A x \in Listed(ed) : Single(ed'.op, ed'.doc, x)
        BY <1>2, <1>4, <3>1 DEF Single
      <3>3. QED
        BY <1>2, <2>1, <3>2 DEF Sound, Whole, Listed
    <2>3. \A j \in Ids : NeverBack(ed, j) => NeverBack(ed', j)
      BY <1>6 DEF NeverBack
    <2>4. (Current(ed) => Current(ed')) /\ (FieldOpen(ui, ed') => FieldOpen(ui, ed))
      BY <1>1, <1>2, <1>4, <1>6 DEF Current, FieldOpen, Uis
    <2>5. Sure(ed', ui)
      BY <1>1, <2>1, <2>2, <2>3, <2>4 DEF Sure, Uis
    <2>6. drag.kind = "draw" => \A j \in drag.ids : NeverBack(ed', j)
      BY <1>11, <2>1, <2>3 DEF Steadfast, Base, Types, Drags
    <2>7. QED
      BY <1>3, <1>11, <2>1, <2>4, <2>5, <2>6 DEF Steadfast, dragging
  <1>12. QED
    BY <1>10, <1>11 DEF Steadfast

\* What a peer makes of an element.
LEMMA PeerElements ==
    ASSUME NEW el \in Els, el # Nothing
    PROVE  [el EXCEPT !.at = 9] \in Els /\ [el EXCEPT !.said = @ \cup {"peer"}] \in Els
  <1>1. 9 \in Int /\ el.said \cup {"peer"} \in SUBSET {"me", "peer"}
    BY DEF Els, Elements
  <1>2. QED
    BY <1>1, ElementFacts

LEMMA PeersSet ==
    ASSUME Base, NEW i \in Ids, PeerMoves(i) \/ PeerWrites(i) \/ PeerDeletes(i)
    PROVE  \E el \in Els, was \in Els : PeerSets(i, el, was) /\ upset' \in BOOLEAN /\ (upset => upset')
  <1>1. ed.doc[i] \in Els /\ before[i] \in Els /\ Nothing \in Els /\ ed \in Eds /\ upset \in BOOLEAN
    BY ElementFacts DEF Base, Types, Good, Eds, Docs
  <1>2. CASE PeerMoves(i)
    <2> DEFINE to == [ed.doc[i] EXCEPT !.at = 9]
               was == IF before[i] # Nothing THEN [before[i] EXCEPT !.at = 9] ELSE Nothing
    <2>1. ed.doc[i] # Nothing
      BY <1>2 DEF PeerMoves, Peer
    <2>2. to \in Els /\ was \in Els
      BY <1>1, <2>1, PeerElements
    <2>3. PeerSets(i, to, was)
      BY <1>2 DEF PeerMoves, Peer, PeerSets, OneSet
    <2>4. upset' \in BOOLEAN /\ (upset => upset')
      BY <1>1, <1>2 DEF PeerMoves
    <2>5. QED
      BY <2>2, <2>3, <2>4
  <1>3. CASE PeerWrites(i)
    <2> DEFINE to == [ed.doc[i] EXCEPT !.said = @ \cup {"peer"}]
               was == IF before[i] # Nothing THEN [before[i] EXCEPT !.said = @ \cup {"peer"}] ELSE Nothing
    <2>1. ed.doc[i] # Nothing
      BY <1>3 DEF PeerWrites, Peer
    <2>2. to \in Els /\ was \in Els
      BY <1>1, <2>1, PeerElements
    <2>3. PeerSets(i, to, was)
      BY <1>3 DEF PeerWrites, Peer, PeerSets, OneSet
    <2>4. upset' \in BOOLEAN /\ (upset => upset')
      BY <1>1, <1>3 DEF PeerWrites
    <2>5. QED
      BY <2>2, <2>3, <2>4
  <1>4. CASE PeerDeletes(i)
    <2>1. PeerSets(i, Nothing, Nothing)
      BY <1>4 DEF PeerDeletes, Peer, PeerSets, OneSet
    <2>2. upset' \in BOOLEAN /\ (upset => upset')
      BY <1>1, <1>4 DEF PeerDeletes
    <2>3. QED
      BY <1>1, <2>1, <2>2
  <1>5. QED
    BY <1>2, <1>3, <1>4

LEMMA PeerKeeps ==
    ASSUME Base, NEW i \in Ids, PeerMoves(i) \/ PeerWrites(i) \/ PeerDeletes(i)
    PROVE  Base' /\ (Steadfast => Steadfast')
  BY PeersSet, PeerSetsKeeps

------------------------------------------------------------------------------
(* The invariant, and that each gesture is one step. *)

LEMMA InitInv == Init => Base /\ Steadfast
  <1> SUFFICES ASSUME Init PROVE Base /\ Steadfast
    OBVIOUS
  <1> USE DEF Init
  <1>1. Given \in Docs /\ "select" \in Tools /\ None \notin Ids /\ MaxOps \in Nat /\ MaxMeddling \in Nat
    BY GivenFacts, EditorAssumption
  <1>2. ed.undo \in Seq(Steps) /\ ed.redo \in Seq(Steps) /\ Members(ed.undo) = {} /\ Members(ed.redo) = {}
        /\ DOMAIN ed.undo = {} /\ DOMAIN ed.redo = {}
    BY DEF Members
  <1>3. ed \in Eds
    BY <1>1, <1>2 DEF Eds
  <1>4. Listed(ed) = {}
    BY <1>2 DEF Listed
  <1>5. ui \in Uis /\ ui.editing = None /\ unused \in SUBSET Ids /\ \A i \in unused : ed.doc[i] = Nothing
    BY <1>1 DEF Uis, Painted
  <1>6. Good(ed, ui, unused)
    BY <1>1, <1>3, <1>4, <1>5 DEF Good, Fresh
  <1>7. drag \in Drags /\ Measured(drag) /\ drag.kind = "none"
    BY NoDragFacts
  <1>8. screen \in Screens /\ screen.focus = "canvas"
    BY DEF Screens, Foci
  <1>9. Types
    <2>1. burst \in BOOLEAN /\ upset \in BOOLEAN
      OBVIOUS
    <2>2. before \in Docs /\ meddled \in 0..MaxMeddling
      BY <1>1
    <2>3. QED
      BY <1>7, <1>8, <2>1, <2>2 DEF Types
  <1>10. ~FieldOpen(ui, ed)
    BY <1>5 DEF FieldOpen
  <1>11. Base
    BY <1>6, <1>7, <1>8, <1>9, <1>10 DEF Base, dragging
  <1>12. Sound(ed)
    BY <1>2 DEF Sound, Whole, Sundered, Aside
  <1>13. QED
    BY <1>5, <1>7, <1>10, <1>11, <1>12 DEF Steadfast, Sure, dragging

LEMMA NextInv == Base /\ [Next]_vars => Base' /\ (Steadfast => Steadfast')
  <1> SUFFICES ASSUME Base, [Next]_vars PROVE Base' /\ (Steadfast => Steadfast')
    OBVIOUS
  <1>1. CASE Press
    <2>1. CASE PressWithNote \/ PressToDraw \/ PressEmpty
      BY <2>1, PressWithNoteKeeps, PressToDrawKeeps, PressEmptyKeeps
    <2>2. ASSUME NEW i \in Ids, PressTextOn(i) \/ PressHandle(i) \/ PressElement(i) \/ ShiftPress(i) \/ DoublePress(i)
          PROVE  Base' /\ (Steadfast => Steadfast')
      BY <2>2, PressTextOnKeeps, PressHandleKeeps, PressElementKeeps, ShiftPressKeeps
    <2>3. QED
      BY <1>1, <2>1, <2>2 DEF Press
  <1>2. CASE Drag
    BY <1>2, DragToKeeps, FrameKeeps, FlushKeeps, LateFrameKeeps, EndDragKeeps, EndNoteKeeps, CancelDragKeeps DEF Drag
  <1>3. CASE Key
    <2>1. CASE \E t \in Tools : KeyTool(t) \/ ClickTool(t)
      BY <2>1, KeyToolKeeps, ClickToolKeeps
    <2>2. CASE KeyUndo \/ KeyRedo \/ KeyDelete \/ KeyNudge \/ KeyCopies
      BY <2>2, KeyUndoKeeps, KeyDeleteKeeps, KeyNudgeKeeps, KeyCopiesKeeps
    <2>3. CASE KeySelectAll \/ KeyEscape \/ KeyEnter \/ ClickStyle
      BY <2>3, KeySelectAllKeeps, KeyEscapeKeeps, KeyEnterKeeps, ClickStyleKeeps
    <2>4. QED
      BY <1>3, <2>1, <2>2, <2>3 DEF Key
  <1>4. CASE Field
    BY <1>4, FieldKeeps, EndEditKeeps DEF Field
  <1>5. CASE Other
    BY <1>5, PauseKeeps, PeerKeeps DEF Other
  <1>6. CASE UNCHANGED vars
    <2>1. UNCHANGED <<ed, ui, drag, screen, burst, unused, before, upset, meddled>>
      BY <1>6 DEF vars
    <2>2. drag \in Drags /\ Measured(drag) /\ screen \in Screens
      BY DEF Base, Types
    <2>3. QED
      BY <2>1, <2>2, DragStays
  <1>7. QED
    BY <1>1, <1>2, <1>3, <1>4, <1>5, <1>6 DEF Next

(* In every state the board, the tools and the undo manager are well formed; *)
(* and until something comes between a gesture and its end each step of undo *)
(* is of one gesture, apart from every other, and no two bring one back.    *)
THEOREM Invariance == Spec => [](Base /\ Steadfast)
  <1>1. Init => Base /\ Steadfast
    BY InitInv
  <1>2. Base /\ Steadfast /\ [Next]_vars => (Base /\ Steadfast)'
    BY NextInv
  <1>3. QED
    BY <1>1, <1>2, PTL DEF Spec

LEMMA SoundSteps ==
    ASSUME Base, Steadfast
    PROVE  OneStepEach
  <1> DEFINE s   == ed.undo
             t   == ed.redo
             all == s \o t
  <1> SUFFICES ASSUME ~upset, NEW j \in DOMAIN all, NEW k \in DOMAIN all
               PROVE  Cardinality(all[j].ops) = 1 /\ (j # k => all[j].ops \cap all[k].ops = {})
    BY DEF OneStepEach
  <1>1. s \in Seq(Steps) /\ t \in Seq(Steps) /\ Whole(ed.op, ed.doc, s, t)
    BY DEF Base, Good, Eds, Steadfast, Sure, Sound
  <1> HIDE DEF s, t
  <1>2. /\ Len(s) \in Nat /\ Len(t) \in Nat /\ DOMAIN s = 1..Len(s) /\ DOMAIN t = 1..Len(t)
        /\ Len(all) = Len(s) + Len(t) /\ DOMAIN all = 1..Len(all)
        /\ \A m \in 1..Len(all) : all[m] = IF m <= Len(s) THEN s[m] ELSE t[m - Len(s)]
    <2>1. all \in Seq(Steps) /\ Len(all) = Len(s) + Len(t)
      BY <1>1, ConcatProperties
    <2>2. \A m \in 1..Len(s) + Len(t) : all[m] = IF m <= Len(s) THEN s[m] ELSE t[m - Len(s)]
      BY <1>1, ConcatProperties
    <2> HIDE DEF all
    <2>3. QED
      BY <1>1, <2>1, <2>2, LenProperties
  <1> HIDE DEF all
  <1>3. ASSUME NEW m \in DOMAIN all
        PROVE  \/ m \in DOMAIN s /\ all[m] = s[m]
               \/ m - Len(s) \in DOMAIN t /\ all[m] = t[m - Len(s)] /\ m \notin DOMAIN s
    BY <1>2, <1>3
  <1>4. Cardinality(all[j].ops) = 1
    <2>1. all[j] \in Members(s) \cup Members(t)
      BY <1>3 DEF Members
    <2>2. PICK n : all[j].ops = {n}
      BY <1>1, <2>1 DEF Whole, Single
    <2>3. QED
      BY <2>2, FS_Singleton
  <1>5. ASSUME j # k PROVE all[j].ops \cap all[k].ops = {}
    <2>1. Apart(all[j], all[k]) \/ Apart(all[k], all[j])
      <3>1. CASE j \in DOMAIN s /\ k \in DOMAIN s
        BY <1>1, <1>3, <1>5, <3>1 DEF Whole, Sundered
      <3>2. CASE j \in DOMAIN s /\ k \notin DOMAIN s
        BY <1>1, <1>3, <3>2 DEF Whole, Aside
      <3>3. CASE j \notin DOMAIN s /\ k \in DOMAIN s
        BY <1>1, <1>3, <3>3 DEF Whole, Aside
      <3>4. CASE j \notin DOMAIN s /\ k \notin DOMAIN s
        <4>1. /\ j - Len(s) \in DOMAIN t /\ all[j] = t[j - Len(s)]
              /\ k - Len(s) \in DOMAIN t /\ all[k] = t[k - Len(s)]
          BY <1>3, <3>4
        <4>2. j - Len(s) # k - Len(s)
          BY <1>2, <1>5
        <4>3. QED
          BY <1>1, <4>1, <4>2 DEF Whole, Sundered
      <3>5. QED
        BY <3>1, <3>2, <3>3, <3>4
    <2>2. QED
      BY <2>1 DEF Apart
  <1>6. QED
    BY <1>4, <1>5

(* "Each gesture is exactly one Cmd+Z" (useBoardTools onGestureStart): until *)
(* a key or a long pause comes between, a step of undo or redo holds what   *)
(* one press, drag, run of keys or edit did, and no two hold parts of the   *)
(* same, whatever peers do in between.                                      *)
THEOREM GesturesAreSteps == Spec => []OneStepEach
  <1>1. Base /\ Steadfast => OneStepEach
    BY SoundSteps
  <1>2. QED
    BY <1>1, Invariance, PTL

LEMMA EntriesFacts ==
    ASSUME NEW s \in Seq(Steps)
    PROVE  Entries(s)
  <1>1. ASSUME NEW k \in DOMAIN s
        PROVE  /\ DOMAIN s[k].was = DOMAIN s[k].is /\ DOMAIN s[k].is \subseteq Ids
               /\ s[k].ops \subseteq 1..MaxOps
    <2>1. s[k] \in Steps
      BY ElementOfSeq, LenProperties
    <2>2. QED
      BY <2>1 DEF Steps, Patches
  <1>2. QED
    BY <1>1 DEF Entries

(* Every variable has its type, and an undo entry names what it changed.     *)
THEOREM TypesHold == Spec => []TypeOK
  <1>1. Base => TypeOK
    <2> SUFFICES ASSUME Base PROVE TypeOK
      OBVIOUS
    <2>1. /\ ed \in Eds /\ ui \in Uis /\ unused \in SUBSET Ids /\ drag \in Drags /\ screen \in Screens
          /\ meddled \in 0..MaxMeddling
      BY DEF Base, Good, Types
    <2>2. Entries(ed.undo) /\ Entries(ed.redo)
      BY <2>1, EntriesFacts DEF Eds
    <2>3. ed.doc \in [Ids -> Elements] /\ ed.open \in BOOLEAN /\ ed.op \in 0..MaxOps
      BY <2>1 DEF Eds, Docs, Els
    <2>4. ui.tool \in Tools /\ ui.selection \subseteq Ids /\ ui.editing \in Ids \cup {None}
      BY <2>1 DEF Uis
    <2>5. /\ drag.kind \in {"none", "note", "stroke", "draw", "resize", "move", "marquee"} /\ drag.ids \subseteq Ids
          /\ screen.painted \cup screen.late \subseteq {"shift", "box", "marquee"} \X (Ids \cup {None})
          /\ screen.focus \in {"canvas", "editor", "body", "chrome"}
      BY <2>1 DEF Drags, Screens, Overlay, Foci
    <2>6. QED
      BY <2>1, <2>2, <2>3, <2>4, <2>5 DEF TypeOK
  <1>2. QED
    BY <1>1, Invariance, PTL

------------------------------------------------------------------------------
(* What is dragged follows the hand. *)

\* Nothing dragged before, nor after.
LEMMA IdleTraced ==
    ASSUME Traced, upset => upset', UNCHANGED drag, ~dragging \/ (UNCHANGED before /\ ed'.doc = ed.doc)
    PROVE  Traced'
  BY DEF Traced, dragging

LEMMA DragToTraced ==
    ASSUME Base, Traced, DragTo \/ Frame \/ LateFrame
    PROVE  Traced'
  <1>1. UNCHANGED <<ed, before, upset>>
    BY DEF DragTo, Frame, LateFrame, Quietly
  <1>2. drag' \in Drags /\ drag'.kind = drag.kind /\ drag'.ids = drag.ids /\ drag'.from = drag.from
        /\ drag'.flushed = drag.flushed
    <2>1. drag \in Drags
      BY DEF Base, Types
    <2>2. CASE DragTo
      <3>1. \E n \in Int : drag' = Moved(drag, n) \/ drag' = [drag EXCEPT !.total = n, !.frame = TRUE]
        <4>1. drag.total \in Int /\ Offsets \subseteq Int /\ Sizes \subseteq Int
          BY <2>1, EditorAssumption DEF Drags
        <4>2. CASE \E n \in Offsets \cup Sizes : drag' = Moved(drag, n)
          BY <4>1, <4>2
        <4>3. CASE drag' = Moved(drag, drag.total + 1)
          <5>1. drag.total + 1 \in Int
            BY <4>1
          <5>2. QED
            BY <4>3, <5>1
        <4>4. CASE drag' = [drag EXCEPT !.total = 1, !.frame = TRUE]
          <5>1. 1 \in Int
            OBVIOUS
          <5>2. QED
            BY <4>4, <5>1
        <4>5. QED
          BY <2>2, <4>2, <4>3, <4>4 DEF DragTo
      <3>2. PICK n \in Int : drag' = Moved(drag, n) \/ drag' = [drag EXCEPT !.total = n, !.frame = TRUE]
        BY <3>1
      <3>3. QED
        BY <2>1, <3>2 DEF Moved, Drags
    <2>3. CASE Frame
      BY <2>1, <2>3 DEF Frame, Drags
    <2>4. CASE LateFrame
      BY <2>1, <2>4 DEF LateFrame
    <2>5. QED
      BY <2>2, <2>3, <2>4
  <1>3. QED
    BY <1>1, <1>2 DEF Traced, dragging, Follows, Hand

\* What is written follows the hand.
LEMMA FlushedTraced ==
    ASSUME Base, NEW d \in Drags, Measured(d), d.ids = drag.ids, d.kind = drag.kind, d.from = drag.from,
           d.flushed = drag.flushed, Follows(drag, before, ed.doc), NEW f, Flushes(d, f)
    PROVE  Follows(f.drag, before, f.ed.doc)
  <1>1. /\ f.drag.kind = d.kind /\ f.drag.ids = d.ids /\ f.drag.from = d.from /\ f.drag.total = d.total
        /\ Kept(ed, f.ed, d.ids) /\ d.ids \in SUBSET Ids
    BY DEF Flushes, Drags
  <1>2. SUFFICES ASSUME NEW i \in Ids, i \in d.ids PROVE Hand(f.drag, before[i], f.ed.doc[i])
    BY <1>1 DEF Follows, Kept
  <1> DEFINE was == before[i]
             is  == ed.doc[i]
             new == f.ed.doc[i]
  <1>3. Hand(drag, was, is) /\ was \in Els /\ is \in Els
    BY <1>2 DEF Follows, Base, Types, Good, Eds, Docs
  <1>4. d.total \in Int /\ d.flushed \in Int /\ d.from.at \in Int
    BY DEF Drags, Els, Elements
  <1>5. CASE d.kind = "move"
    <2> DEFINE n == Round(residue(d))
    <2>1. n \in Int
      <3>1. residue(d) \in Int
        BY <1>4 DEF residue
      <3>2. QED
        BY <3>1 DEF Round
    <2>2. f.drag.flushed = d.flushed + n /\ new = Shifted(is, n)
      BY <1>2, <1>5 DEF Flushes
    <2>3. is = Shifted(was, d.flushed)
      BY <1>3, <1>5 DEF Hand
    <2> HIDE DEF n, was, is, new
    <2>4. new = Shifted(was, d.flushed + n)
      BY ZenonT(60), <1>3, <1>4, <2>1, <2>2, <2>3, ShiftedFacts
    <2>5. Hand(f.drag, was, new)
      BY <1>1, <1>5, <2>2, <2>4 DEF Hand
    <2>6. QED
      BY <2>5 DEF was, new
  <1>6. CASE d.kind = "resize"
    <2>1. d.total \in Nat
      BY <1>6 DEF Measured
    <2>2. BboxOf(new) = Boxed(is, d.from.at, d.total) /\ new \in Els
      BY <1>1, <1>2, <1>6 DEF Flushes, Kept, Eds, Docs
    <2>3. BboxOf(is) = Boxed(was, d.from.at, is.size) /\ (was # Nothing => was.at = d.from.at /\ was.size = d.from.size)
      BY <1>3, <1>6 DEF Hand
    <2> HIDE DEF was, is, new
    <2>4. is.size \in Nat
      BY <1>3 DEF Els, Elements
    <2>5. BboxOf(new) = Boxed(was, d.from.at, d.total)
      BY <1>3, <1>4, <2>1, <2>2, <2>3, <2>4, BoxedAgain
    <2>6. BboxOf(new) = Boxed(was, d.from.at, new.size)
      <3>1. CASE was = Nothing
        BY <2>5, <3>1 DEF Boxed
      <3>2. CASE was # Nothing
        <4>1. new.size = d.total
          BY <1>3, <1>4, <2>1, <2>2, <2>5, <3>2, BoxedAgain, BboxPlaces
        <4>2. QED
          BY <2>5, <4>1
      <3>3. QED
        BY <3>1, <3>2
    <2>7. Hand(f.drag, was, new)
      BY <1>1, <1>6, <2>3, <2>6 DEF Hand
    <2>8. QED
      BY <2>7 DEF was, new
  <1>7. CASE d.kind = "draw"
    BY <1>1, <1>3, <1>7 DEF Hand
  <1>8. CASE d.kind = "stroke"
    <2> DEFINE n == d.total - d.flushed
    <2>1. f.drag.flushed = d.total /\ new = Grown(is, n)
      BY <1>2, <1>8 DEF Flushes
    <2>2. was = Nothing /\ (is = Nothing \/ is.size = d.flushed)
      BY <1>3, <1>8 DEF Hand
    <2>3. n \in Int /\ d.flushed + n = d.total
      BY <1>4
    <2> HIDE DEF n, was, is, new
    <2>4. new = Nothing \/ new.size = d.total
      <3>1. CASE is = Nothing
        BY <2>1, <3>1 DEF Grown
      <3>2. CASE is # Nothing
        <4>1. new.size = is.size + n
          BY <1>3, <2>1, <2>3, <3>2, GrownFacts
        <4>2. QED
          BY <2>2, <2>3, <3>2, <4>1
      <3>3. QED
        BY <3>1, <3>2
    <2>5. Hand(f.drag, was, new)
      BY <1>1, <1>8, <2>1, <2>2, <2>4 DEF Hand
    <2>6. QED
      BY <2>5 DEF was, new
  <1>9. CASE d.kind \notin {"move", "resize", "draw", "stroke"}
    <2>1. f.ed = ed
      BY <1>9 DEF Flushes
    <2>2. QED
      BY <1>1, <1>3, <1>9, <2>1 DEF Hand
  <1>10. QED
    BY <1>5, <1>6, <1>7, <1>8, <1>9

LEMMA FlushTraced ==
    ASSUME Base, Traced, Flush
    PROVE  Traced'
  <1> DEFINE f == Flushed(drag)
  <1>1. ed' = f.ed /\ drag' = f.drag /\ UNCHANGED <<before, upset>>
    BY DEF Flush, Quietly
  <1>2. drag \in Drags /\ Measured(drag)
    BY DEF Base, Types
  <1>3. Flushes(drag, f)
    BY <1>2, FlushedFacts
  <1> HIDE DEF f
  <1>4. CASE upset
    BY <1>1, <1>4 DEF Traced
  <1>5. CASE ~dragging
    BY <1>1, <1>3, <1>5 DEF Traced, dragging, Flushes
  <1>6. CASE Follows(drag, before, ed.doc)
    BY <1>1, <1>2, <1>3, <1>6, FlushedTraced DEF Traced
  <1>7. QED
    BY <1>4, <1>5, <1>6 DEF Traced

\* A peer changes what is dragged and the history of it alike.
LEMMA PeerFollows ==
    ASSUME Base, Follows(drag, before, ed.doc), dragging, NEW i \in Ids, NEW el \in Els, NEW was \in Els,
           PeerSets(i, el, was), i \in drag.ids => Hand(drag, IF before[i] # Nothing THEN was ELSE Nothing, el),
           i \notin drag.ids => el = was
    PROVE  Follows(drag', before', ed'.doc)
  <1>1. ed.doc \in [Ids -> Els] /\ before \in [Ids -> Els] /\ drag' = drag /\ ed.doc[i] # Nothing
    BY DEF Base, Types, Good, Eds, Docs, PeerSets
  <1>2. ed'.doc = [ed.doc EXCEPT ![i] = el]
    <2>1. ed \in Eds
      BY DEF Base, Good
    <2>2. QED
      BY <2>1, OneIsSet DEF PeerSets
  <1>3. before' = IF before[i] # Nothing THEN [before EXCEPT ![i] = was] ELSE before
    BY DEF PeerSets
  <1>4. \A j \in Ids \ {i} : ed'.doc[j] = ed.doc[j] /\ before'[j] = before[j]
    BY <1>1, <1>2, <1>3
  <1>5. ed'.doc[i] = el /\ before'[i] = IF before[i] # Nothing THEN was ELSE Nothing
    BY <1>1, <1>2, <1>3
  <1>6. CASE i \in drag.ids
    BY <1>1, <1>4, <1>5, <1>6 DEF Follows
  <1>7. CASE i \notin drag.ids
    <2>1. before[i] = ed.doc[i]
      BY <1>7 DEF Follows
    <2>2. ed'.doc[i] = before'[i]
      BY <1>1, <1>5, <1>7, <2>1
    <2>3. QED
      BY <1>1, <1>4, <1>7, <2>2 DEF Follows
  <1>8. QED
    BY <1>6, <1>7

\* Words added to an element leave it where it is.
Worded(el) == [el EXCEPT !.said = @ \cup {"peer"}]

LEMMA WordedFacts ==
    ASSUME NEW el \in Els, el # Nothing
    PROVE  /\ Worded(el) \in Els /\ Worded(el) # Nothing /\ Worded(el).at = el.at /\ Worded(el).size = el.size
           /\ \A n \in Int : Worded(Shifted(el, n)) = Shifted(Worded(el), n)
           /\ \A a \in Int, n \in Nat : Worded(Boxed(el, a, n)) = Boxed(Worded(el), a, n)
           /\ BboxOf(Worded(el)) = Worded(BboxOf(el))
  <1>1. el.at \in Int /\ el.size \in Nat /\ el.kind # "none" /\ el \in Elements /\ el.said \subseteq {"me", "peer"}
    BY DEF Els, Elements
  <1> DEFINE said == el.said \cup {"peer"}
             w    == [el EXCEPT !.said = said]
  <1>2. Worded(el) = w
    BY DEF Worded
  <1>3. said \in SUBSET {"me", "peer"}
    BY <1>1
  <1> HIDE DEF said
  <1>4. w \in Els /\ w # Nothing /\ w.at = el.at /\ w.size = el.size /\ w.said = said
    BY <1>1, <1>3, ElementFacts DEF Elements
  <1>5. ASSUME NEW n \in Int PROVE Worded(Shifted(el, n)) = Shifted(w, n)
    <2> DEFINE m == el.at + n
               x == [el EXCEPT !.at = m]
    <2>1. Shifted(el, n) = x /\ Shifted(w, n) = [w EXCEPT !.at = m]
      BY <1>4 DEF Shifted
    <2>2. Worded(x) = [x EXCEPT !.said = said]
      BY <1>1 DEF Worded, Elements, said
    <2> HIDE DEF m
    <2>3. [x EXCEPT !.said = said] = [w EXCEPT !.at = m]
      BY <1>1 DEF Elements
    <2>4. QED
      BY <2>1, <2>2, <2>3
  <1>6. ASSUME NEW a \in Int, NEW n \in Nat PROVE Worded(Boxed(el, a, n)) = Boxed(w, a, n)
    <2> DEFINE x == [el EXCEPT !.at = a, !.size = n, !.form = 0]
    <2>1. Boxed(el, a, n) = x /\ Boxed(w, a, n) = [w EXCEPT !.at = a, !.size = n, !.form = 0]
      BY <1>4 DEF Boxed
    <2>2. Worded(x) = [x EXCEPT !.said = said]
      BY <1>1 DEF Worded, Elements, said
    <2>3. [x EXCEPT !.said = said] = [w EXCEPT !.at = a, !.size = n, !.form = 0]
      BY <1>1 DEF Elements
    <2>4. QED
      BY <2>1, <2>2, <2>3
  <1>7. BboxOf(w) = Worded(BboxOf(el))
    <2> DEFINE x == [el EXCEPT !.form = 0]
    <2>1. BboxOf(el) = x /\ BboxOf(w) = [w EXCEPT !.form = 0]
      BY DEF BboxOf
    <2>2. Worded(x) = [x EXCEPT !.said = said]
      BY <1>1 DEF Worded, Elements, said
    <2>3. [x EXCEPT !.said = said] = [w EXCEPT !.form = 0]
      BY <1>1 DEF Elements
    <2>4. QED
      BY <2>1, <2>2, <2>3
  <1> HIDE DEF w
  <1>8. QED
    BY <1>2, <1>4, <1>5, <1>6, <1>7

LEMMA PeerWritesHand ==
    ASSUME NEW d \in Drags, NEW was \in Els, NEW is \in Els, is # Nothing, Hand(d, was, is)
    PROVE  Hand(d, IF was # Nothing THEN Worded(was) ELSE Nothing, Worded(is))
  <1>1. d.flushed \in Int /\ d.from.at \in Int /\ is.size \in Nat
    BY DEF Drags, Els, Elements
  <1> DEFINE x == IF was # Nothing THEN Worded(was) ELSE Nothing
             y == Worded(is)
  <1>2. y.size = is.size /\ y.at = is.at
    BY WordedFacts
  <1>3. d.kind = "move" => y = Shifted(x, d.flushed)
    <2>1. SUFFICES ASSUME d.kind = "move" PROVE y = Shifted(x, d.flushed)
      OBVIOUS
    <2>2. is = Shifted(was, d.flushed)
      BY <2>1 DEF Hand
    <2>3. was # Nothing
      BY <2>2 DEF Shifted
    <2>4. Worded(Shifted(was, d.flushed)) = Shifted(Worded(was), d.flushed)
      BY <1>1, <2>3, WordedFacts
    <2>5. QED
      BY <2>2, <2>3, <2>4
  <1>4. d.kind = "resize" => BboxOf(y) = Boxed(x, d.from.at, y.size) /\ (x # Nothing => x.at = d.from.at /\ x.size = d.from.size)
    <2>1. SUFFICES ASSUME d.kind = "resize"
                   PROVE  BboxOf(y) = Boxed(x, d.from.at, y.size) /\ (x # Nothing => x.at = d.from.at /\ x.size = d.from.size)
      OBVIOUS
    <2>2. BboxOf(is) = Boxed(was, d.from.at, is.size) /\ (was # Nothing => was.at = d.from.at /\ was.size = d.from.size)
      BY <2>1 DEF Hand
    <2>3. was # Nothing
      BY <2>2, BboxPlaces DEF Boxed
    <2>4. /\ Worded(Boxed(was, d.from.at, is.size)) = Boxed(Worded(was), d.from.at, is.size)
          /\ BboxOf(y) = Worded(BboxOf(is))
      BY <1>1, <2>3, WordedFacts
    <2>5. Worded(was).at = was.at /\ Worded(was).size = was.size
      BY <2>3, WordedFacts
    <2>6. QED
      BY <1>2, <2>2, <2>3, <2>4, <2>5
  <1>5. d.kind \in {"draw", "stroke"} => x = Nothing
    BY DEF Hand
  <1>6. d.kind = "stroke" => y.size = d.flushed
    BY <1>2 DEF Hand
  <1>7. d.kind \in {"note", "marquee"} => y = x
    BY DEF Hand
  <1> HIDE DEF x, y
  <1>8. Hand(d, x, y)
    BY <1>3, <1>4, <1>5, <1>6, <1>7 DEF Hand
  <1>9. QED
    BY <1>8 DEF x, y

LEMMA PeerTraced ==
    ASSUME Base, Traced, NEW i \in Ids, PeerMoves(i) \/ PeerWrites(i) \/ PeerDeletes(i)
    PROVE  Traced'
  <1>1. drag' = drag /\ (upset => upset')
    BY PeersSet DEF PeerSets
  <1>2. SUFFICES ASSUME ~upset', dragging, Follows(drag, before, ed.doc) PROVE Follows(drag', before', ed'.doc)
    BY <1>1 DEF Traced, dragging
  <1>3. /\ ed.doc[i] \in Els /\ before[i] \in Els /\ Nothing \in Els /\ drag \in Drags
    BY ElementFacts DEF Base, Types, Good, Eds, Docs
  <1>4. IF i \in drag.ids THEN Hand(drag, before[i], ed.doc[i]) ELSE ed.doc[i] = before[i]
    BY <1>2 DEF Follows
  <1>5. CASE PeerMoves(i)
    <2> DEFINE to == [ed.doc[i] EXCEPT !.at = 9]
    <2>1. i \notin drag.ids
      BY <1>2, <1>5 DEF PeerMoves
    <2>2. ed.doc[i] # Nothing /\ before[i] = ed.doc[i]
      BY <1>4, <1>5, <2>1 DEF PeerMoves, Peer
    <2>3. to \in Els
      BY <1>3, <2>2, PeerElements
    <2>4. PeerSets(i, to, to)
      BY <1>5, <2>2 DEF PeerMoves, Peer, PeerSets, OneSet
    <2>5. QED
      BY <1>2, <2>1, <2>3, <2>4, PeerFollows
  <1>6. CASE PeerWrites(i)
    <2> DEFINE to  == Worded(ed.doc[i])
               was == IF before[i] # Nothing THEN Worded(before[i]) ELSE Nothing
    <2>1. ed.doc[i] # Nothing
      BY <1>6 DEF PeerWrites, Peer
    <2>2. to \in Els /\ was \in Els
      BY <1>3, <2>1, WordedFacts
    <2>3. PeerSets(i, to, was)
      BY <1>6 DEF PeerWrites, Peer, PeerSets, OneSet, Worded
    <2>4. i \in drag.ids => Hand(drag, was, to)
      BY <1>3, <1>4, <2>1, PeerWritesHand
    <2>5. i \notin drag.ids => to = was
      BY <1>4, <2>1
    <2>6. (IF before[i] # Nothing THEN was ELSE Nothing) = was
      OBVIOUS
    <2> HIDE DEF to, was
    <2>7. QED
      BY <1>2, <2>2, <2>3, <2>4, <2>5, <2>6, PeerFollows
  <1>7. CASE PeerDeletes(i)
    <2>1. PeerSets(i, Nothing, Nothing)
      BY <1>7 DEF PeerDeletes, Peer, PeerSets, OneSet
    <2>2. ed.doc[i] # Nothing
      BY <1>7 DEF PeerDeletes, Peer
    <2>3. i \in drag.ids => Hand(drag, Nothing, Nothing)
      BY <1>4, NothingBoxed DEF Hand, Shifted
    <2>4. (IF before[i] # Nothing THEN Nothing ELSE Nothing) = Nothing
      OBVIOUS
    <2>5. QED
      BY <1>2, <1>3, <2>1, <2>3, <2>4, PeerFollows
  <1>8. QED
    BY <1>5, <1>6, <1>7

LEMMA NextTraced == Base /\ Steadfast /\ Traced /\ [Next]_vars => Traced'
  <1> SUFFICES ASSUME Base, Steadfast, Traced, [Next]_vars PROVE Traced'
    OBVIOUS
  <1>1. CASE Press
    <2>1. CASE PressWithNote \/ PressToDraw \/ PressEmpty
      BY <2>1, PressWithNoteKeeps, PressToDrawKeeps, PressEmptyKeeps
    <2>2. ASSUME NEW i \in Ids, PressHandle(i) \/ PressElement(i) PROVE Traced'
      BY <2>2, PressHandleKeeps, PressElementKeeps
    <2>3. ASSUME NEW i \in Ids, PressTextOn(i) \/ ShiftPress(i) \/ DoublePress(i) PROVE Traced'
      <3>1. ~dragging /\ UNCHANGED <<drag, upset>>
        BY <2>3 DEF PressTextOn, ShiftPress, DoublePress, Opens, Quietly
      <3>2. QED
        BY <3>1, IdleTraced
    <2>4. QED
      BY <1>1, <2>1, <2>2, <2>3 DEF Press
  <1>2. CASE Drag
    <2>1. CASE EndDrag \/ EndNote \/ CancelDrag
      <3>1. drag' = NoDrag
        BY <2>1, EndDragKeeps, EndNoteKeeps, CancelDragKeeps
      <3>2. QED
        BY <3>1, NoDragFacts DEF Traced, dragging
    <2>2. QED
      BY <1>2, <2>1, DragToTraced, FlushTraced DEF Drag
  <1>3. CASE Key
    <2>1. ASSUME NEW e, NEW u, NEW run, Heard(e, u, run) PROVE Traced'
      BY <2>1 DEF Heard, Traced, dragging
    <2>2. CASE ClickStyle \/ \E t \in Tools : ClickTool(t)
      <3>1. ~dragging /\ UNCHANGED <<drag, upset>>
        BY <2>2 DEF ClickStyle, ClickTool, Quietly
      <3>2. QED
        BY <3>1, IdleTraced
    <2>3. CASE KeyUndo \/ KeyRedo \/ KeyDelete \/ KeyNudge
      BY <2>1, <2>3 DEF KeyUndo, KeyRedo, KeyDelete, KeyNudge
    <2>4. CASE KeyCopies
      BY <2>1, <2>4 DEF KeyCopies
    <2>5. CASE KeySelectAll \/ KeyEscape \/ KeyEnter \/ \E t \in Tools : KeyTool(t)
      BY <2>1, <2>5 DEF KeySelectAll, KeyEscape, KeyEnter, KeyTool
    <2>6. QED
      BY <1>3, <2>2, <2>3, <2>4, <2>5 DEF Key
  <1>4. CASE Field
    <2>1. screen.focus = "editor" /\ FieldOpen(ui, ed)
      BY <1>4 DEF Field, Base
    <2>2. UNCHANGED <<drag, upset>>
      BY <1>4 DEF Field, Opened, Type, Erase, Fits, EndEdit, Quietly
    <2>3. upset \/ ~dragging
      BY <2>1 DEF Steadfast
    <2>4. QED
      BY <2>2, <2>3 DEF Traced, dragging
  <1>5. CASE Other
    <2>1. CASE Pause
      BY <2>1 DEF Pause, Traced
    <2>2. QED
      BY <1>5, <2>1, PeerTraced DEF Other
  <1>6. CASE UNCHANGED vars
    BY <1>6 DEF vars, Traced, dragging, Follows, Hand
  <1>7. QED
    BY <1>1, <1>2, <1>3, <1>4, <1>5, <1>6 DEF Next

(* Until something comes between a drag and its end, what is dragged is as it *)
(* was at the press but for what the drag has written, and nothing else has  *)
(* changed (useBoardTools begin*: move, flush).                             *)
THEOREM DragsFollow == Spec => []Traced
  <1>1. Init => Traced
    BY NoDragFacts DEF Init, Traced, dragging
  <1>2. QED
    BY <1>1, NextTraced, Invariance, PTL DEF Spec

------------------------------------------------------------------------------
(* However a drag ends. *)

\* Where a drag that ends leaves what it drags.
Lands(i) ==
    ed'.doc[i] # Nothing =>
        CASE drag.kind = "move" -> LET by == 2 * (ed'.doc[i].at - before[i].at) - drag.total IN by \in -1..1
          [] drag.kind \in {"resize", "stroke"} -> ed'.doc[i].size = drag.total
          [] OTHER -> TRUE

LEMMA RoundFacts ==
    ASSUME NEW n \in Int
    PROVE  Round(n) \in Int /\ 2 * Round(n) - n \in 0..1
  BY DEF Round

LEMMA EndDragLands ==
    ASSUME Base, Traced, EndDrag, ~upset, NEW i \in drag.ids
    PROVE  Lands(i)
  <1> DEFINE d    == [drag EXCEPT !.frame = FALSE]
             done == Final(drag)
             was  == before[i]
             is   == ed.doc[i]
             new  == ed'.doc[i]
  <1>1. dragging /\ drag \in Drags /\ Measured(drag) /\ i \in Ids /\ was \in Els /\ is \in Els
    BY DEF EndDrag, Base, Types, Good, Eds, Docs, Drags
  <1>2. d \in Drags /\ d.kind = drag.kind /\ d.ids = drag.ids /\ d.from = drag.from /\ d.total = drag.total
        /\ d.flushed = drag.flushed
    BY <1>1 DEF Drags
  <1>3. Measured(d)
    BY <1>1, <1>2 DEF Measured
  <1>4. Flushes(d, done)
    BY FinalFacts
  <1>5. Follows(drag, before, ed.doc)
    BY <1>1 DEF Traced
  <1> HIDE DEF d, done
  <1>6. /\ done.drag.kind = drag.kind /\ done.drag.ids = drag.ids
        /\ Follows(done.drag, before, done.ed.doc)
    BY <1>2, <1>3, <1>4, <1>5, FlushedTraced DEF Flushes
  <1>7. Hand(done.drag, was, done.ed.doc[i])
    BY <1>1, <1>6 DEF Follows
  <1>8. CASE drag.kind = "move"
    <2>1. ed' = done.ed
      <3>1. Clears(done.drag, done.ed, ui)
        BY <1>8 DEF EndDrag, done
      <3>2. QED
        BY <3>1 DEF Clears
    <2>2. drag.total \in Int /\ drag.flushed \in Int /\ residue(d) = drag.total - 2 * drag.flushed /\ residue(d) \in Int
      BY <1>1, <1>2 DEF Drags, residue
    <2> DEFINE n == Round(residue(d))
    <2>3. n \in Int /\ 2 * n - residue(d) \in 0..1
      BY <2>2, RoundFacts
    <2>4. done.drag.flushed = drag.flushed + n
      BY <1>2, <1>4, <1>8 DEF Flushes
    <2> HIDE DEF n
    <2>5. new = Shifted(was, drag.flushed + n)
      BY <1>6, <1>7, <1>8, <2>1, <2>4 DEF Hand
    <2> HIDE DEF new, was, is
    <2>6. drag.flushed + n \in Int
      BY <2>2, <2>3
    <2>7. SUFFICES ASSUME new # Nothing PROVE Lands(i)
      BY DEF Lands, new
    <2>8. was # Nothing
      BY <2>5, <2>7 DEF Shifted
    <2>9. new.at = was.at + (drag.flushed + n)
      BY <1>1, <2>5, <2>6, <2>8, ShiftedFacts
    <2>10. was.at \in Int
      BY <1>1 DEF Els, Elements
    <2>11. 2 * (new.at - was.at) - drag.total = 2 * n - residue(d)
      BY <2>2, <2>3, <2>9, <2>10
    <2>12. 2 * (new.at - was.at) - drag.total \in -1..1
      BY <2>2, <2>3, <2>11
    <2>13. QED
      BY <1>8, <2>12 DEF Lands, new, was
  <1>9. CASE drag.kind = "resize"
    <2>1. ed' = done.ed
      <3>1. Clears(done.drag, done.ed, ui)
        BY <1>9 DEF EndDrag, done
      <3>2. QED
        BY <3>1 DEF Clears
    <2>2. BboxOf(new) = Boxed(is, d.from.at, d.total) /\ new \in Els
      BY <1>1, <1>2, <1>4, <1>9, <2>1 DEF Flushes, Kept, Eds, Docs
    <2>3. d.from.at \in Int /\ d.total \in Nat
      BY <1>2, <1>3, <1>9 DEF Measured, Drags, Els, Elements
    <2> HIDE DEF new, was, is
    <2>4. new # Nothing => new.size = d.total
      BY <1>1, <2>2, <2>3, BoxedAgain, BboxPlaces, NothingBoxed
    <2>5. QED
      BY <1>2, <1>9, <2>4 DEF Lands, new
  <1>10. CASE drag.kind = "stroke"
    <2>1. ed' = done.ed
      <3>1. Clears(drag, done.ed, Created(ui, CHOOSE j \in drag.ids : TRUE))
        BY <1>10 DEF EndDrag, done
      <3>2. QED
        BY <3>1 DEF Clears
    <2>2. done.drag.flushed = drag.total
      BY <1>2, <1>4, <1>10 DEF Flushes
    <2>3. new = Nothing \/ new.size = drag.total
      BY <1>6, <1>7, <1>10, <2>1, <2>2 DEF Hand
    <2>4. QED
      BY <1>10, <2>3 DEF Lands
  <1>11. CASE drag.kind \notin {"move", "resize", "stroke"}
    BY <1>11 DEF Lands
  <1>12. QED
    BY <1>8, <1>9, <1>10, <1>11

LEMMA CancelTakes ==
    ASSUME Base, Traced, CancelDrag, ~upset
    PROVE  Told(ed'.doc) = Told(before)
  <1>1. /\ dragging /\ drag \in Drags /\ ed \in Eds /\ ed.op # 0 /\ drag.ids \in SUBSET Ids /\ before \in Docs
        /\ drag.from \in Els /\ drag.from.at \in Int /\ drag.from.size \in Nat
        /\ drag.flushed \in Int /\ -drag.flushed \in Int
        /\ drag.flushed + -drag.flushed = 0
    BY DEF CancelDrag, Base, Types, Good, Drags, Els, Elements
  <1>2. Follows(drag, before, ed.doc)
    BY <1>1 DEF Traced
  <1>3. /\ Kept(ed, ed', drag.ids)
        /\ \A i \in drag.ids : IF drag.kind = "resize" THEN BboxOf(ed'.doc[i]) = BboxOf(before[i])
                               ELSE ed'.doc[i] = before[i]
    <2>1. CASE drag.kind = "move"
      <3> DEFINE e == MoveBy(ed, drag.ids, -drag.flushed)
      <3>1. ed' = e
        <4>1. Clears(drag, MoveBy(ed, drag.ids, -drag.flushed), ui)
          BY <2>1 DEF CancelDrag
        <4>2. QED
          BY <4>1 DEF Clears
      <3>2. Kept(ed, e, drag.ids) /\ \A i \in drag.ids : e.doc[i] = Shifted(ed.doc[i], -drag.flushed)
        BY ZenonT(60), <1>1, MoveByKeeps DEF Shifted
      <3> HIDE DEF e
      <3>3. ASSUME NEW i \in drag.ids PROVE e.doc[i] = before[i]
        <4>1. before[i] \in Els /\ i \in Ids
          BY <1>1 DEF Docs
        <4>2. ed.doc[i] = Shifted(before[i], drag.flushed)
          BY <1>2, <2>1, <4>1 DEF Follows, Hand
        <4>3. Shifted(Shifted(before[i], drag.flushed), -drag.flushed) = Shifted(before[i], 0)
          BY <1>1, <4>1, ShiftedFacts
        <4>4. Shifted(before[i], 0) = before[i]
          BY <4>1, ShiftedFacts
        <4>5. QED
          BY <3>2, <4>2, <4>3, <4>4
      <3>4. QED
        BY <2>1, <3>1, <3>2, <3>3
    <2>2. CASE drag.kind = "resize"
      <3> DEFINE e == Resize(ed, drag.ids, drag.from, drag.from.size)
      <3>1. ed' = e
        <4>1. Clears(drag, Resize(ed, drag.ids, drag.from, drag.from.size), ui)
          BY <2>2 DEF CancelDrag
        <4>2. QED
          BY <4>1 DEF Clears
      <3>2. Boxes(ed, e, drag.ids, drag.from.at, drag.from.size)
        BY <1>1, ResizeKeeps
      <3> HIDE DEF e
      <3>3. ASSUME NEW i \in drag.ids PROVE BboxOf(e.doc[i]) = BboxOf(before[i])
        <4> DEFINE was == before[i]
                   is  == ed.doc[i]
        <4>1. was \in Els /\ is \in Els /\ i \in Ids
          BY <1>1 DEF Docs, Eds
        <4>2. BboxOf(is) = Boxed(was, drag.from.at, is.size) /\ (was # Nothing => was.at = drag.from.at /\ was.size = drag.from.size)
          BY <1>2, <2>2, <4>1 DEF Follows, Hand
        <4>3. is.size \in Nat
          BY <4>1 DEF Els, Elements
        <4>4. BboxOf(e.doc[i]) = Boxed(is, drag.from.at, drag.from.size)
          BY <3>2 DEF Boxes
        <4> HIDE DEF was, is
        <4>5. BboxOf(e.doc[i]) = Boxed(was, drag.from.at, drag.from.size)
          BY <1>1, <4>1, <4>2, <4>3, <4>4, BoxedAgain
        <4>6. Boxed(was, drag.from.at, drag.from.size) = BboxOf(was)
          <5>1. CASE was = Nothing
            BY <4>1, <5>1, BboxPlaces DEF Boxed
          <5>2. CASE was # Nothing
            BY <4>1, <4>2, <5>2, BoxedAgain
          <5>3. QED
            BY <5>1, <5>2
        <4>7. QED
          BY <4>5, <4>6 DEF was
      <3>4. QED
        BY <2>2, <3>1, <3>2, <3>3 DEF Boxes
    <2>3. CASE drag.kind \in {"draw", "stroke"}
      <3>1. Clears(drag, RemoveElements(ed, drag.ids), ui)
        BY <2>3 DEF CancelDrag
      <3>2. ed' = RemoveElements(ed, drag.ids)
        BY <3>1 DEF Clears
      <3>3. /\ Kept(ed, RemoveElements(ed, drag.ids), drag.ids)
            /\ \A i \in drag.ids : RemoveElements(ed, drag.ids).doc[i] = Nothing
        BY <1>1, RemoveKeeps
      <3>4. \A i \in drag.ids : before[i] = Nothing
        BY <1>1, <1>2, <2>3 DEF Follows, Hand
      <3>5. QED
        BY <2>3, <3>2, <3>3, <3>4
    <2>4. CASE drag.kind \in {"note", "marquee"}
      <3>1. Clears(drag, ed, ui)
        BY <2>4 DEF CancelDrag
      <3>2. ed' = ed
        BY <3>1 DEF Clears
      <3>3. QED
        BY <1>1, <1>2, <2>4, <3>2, KeptItself DEF Follows, Hand
    <2>5. drag.kind \in {"note", "stroke", "draw", "resize", "move", "marquee"}
      BY <1>1 DEF dragging, Drags
    <2>6. QED
      BY <2>1, <2>2, <2>3, <2>4, <2>5
  <1>4. ed'.doc \in Docs /\ \A i \in Ids \ drag.ids : ed'.doc[i] = before[i]
    BY <1>2, <1>3 DEF Kept, Eds, Follows
  <1>5. QED
    BY <1>3, <1>4 DEF Told

(* However a drag ends, the document has what the hand did, or nothing of it: *)
(* a move ends within half a unit of where the pointer let go, however the   *)
(* timer divided it; a resize and a stroke end exactly there; and a drag that *)
(* is cancelled leaves the document as it was at the press, but for what     *)
(* peers did and for the form of what a resize took hold of, of which its    *)
(* box does not tell (beginMove, beginResize, beginDrawOut, beginStroke).    *)
THEOREM DragsEndWhole == Spec => DragsLand
  <1>1. Base /\ Traced /\ [Next]_vars => [CancelDrag /\ ~upset => Told(ed'.doc) = Told(before)]_vars
    BY CancelTakes
  <1>2. Base /\ Traced /\ [Next]_vars =>
          [EndDrag /\ ~upset =>
             \A i \in drag.ids : ed'.doc[i] # Nothing =>
               CASE drag.kind = "move" -> LET by == 2 * (ed'.doc[i].at - before[i].at) - drag.total IN by \in -1..1
                 [] drag.kind \in {"resize", "stroke"} -> ed'.doc[i].size = drag.total
                 [] OTHER -> TRUE]_vars
    BY EndDragLands DEF Lands
  <1>3. Spec => CancelTakesBack
    BY <1>1, Invariance, DragsFollow, PTL DEF Spec, CancelTakesBack
  <1>4. Spec => LandsWhereReleased
    BY <1>2, Invariance, DragsFollow, PTL DEF Spec, LandsWhereReleased
  <1>5. QED
    BY <1>3, <1>4 DEF DragsLand

------------------------------------------------------------------------------
(* Why undo never leaves an empty text box: a step was begun where there   *)
(* was none, and the words it left are still there when it is undone, in   *)
(* the next step that holds the element or on the board.                   *)

\* An element of kind k, and one that has all the words of x.
Of(el, k)   == el = Nothing \/ el.kind = k
Backs(x, v) == (v = Nothing) \/ (x.said \subseteq v.said)

\* No step of s after j and before m holds i.
Skipped(s, i, j, m) == \A l \in DOMAIN s : j < l /\ l < m => i \notin DOMAIN s[l].was

\* What a step left is there for the next one to hold the element, or is on
\* the board.
Linked(d, s) ==
    \A j \in DOMAIN s : \A i \in DOMAIN s[j].was :
        /\ \A m \in DOMAIN s : j < m /\ i \in DOMAIN s[m].was /\ Skipped(s, i, j, m)
                               => Backs(s[j].is[i], s[m].was[i])
        /\ Skipped(s, i, j, Len(s) + 1) => Backs(s[j].is[i], d[i])

\* An id has one kind, and a step was never begun on an empty text box.
Proper(x, K) == \A i \in DOMAIN x.was : Of(x.was[i], K[i]) /\ Of(x.is[i], K[i]) /\ ~Blank(x.was[i])

\* The open step holds i.
Within(e, i) == e.open /\ e.undo # <<>> /\ i \in DOMAIN e.undo[Len(e.undo)].was

\* K says of each id what it can ever be; only the open step empties a box.
Firm(e, K) ==
    /\ \A i \in Ids : Of(e.doc[i], K[i])
    /\ \A x \in Listed(e) : Proper(x, K)
    /\ Linked(e.doc, e.undo) /\ Linked(e.doc, e.redo)
    /\ \A i \in Ids : Blank(e.doc[i]) => Within(e, i)

\* A write adds to the last step, or puts one on top.
LEMMA WriteLinked ==
    ASSUME NEW e \in Eds, NEW D \in SUBSET Ids, NEW new \in [D -> Els], NEW w \in Eds, NEW base, NEW x,
           Tops(e, new, w, base, x), w.redo = <<>>, Linked(e.doc, e.undo),
           w.doc = [i \in Ids |-> IF i \in D THEN new[i] ELSE e.doc[i]]
    PROVE  Linked(w.doc, w.undo)
  <1> DEFINE n    == Len(base)
             s    == e.undo
             t    == w.undo
             adds == Continues(e, new, base, x)
             N    == Len(s)
  <1>1. /\ n \in Nat /\ DOMAIN t = 1..n + 1 /\ t[n + 1] = x /\ Len(t) = n + 1
        /\ \A k \in 1..n : k \in DOMAIN s /\ t[k] = s[k]
        /\ adds => N \in DOMAIN s /\ N = n + 1
    BY Listing
  <1>2. N \in Nat /\ DOMAIN s = 1..N
    BY ListedAreSteps
  <1>3. ~adds => N = n /\ Starts(e, new, base, x)
    BY DEF Tops, Starts
  <1>4. DOMAIN new = D
    OBVIOUS
  <1>5. adds => /\ DOMAIN x.was = D \cup DOMAIN s[N].was
                /\ \A i \in DOMAIN s[N].was : x.was[i] = s[N].was[i] /\ (i \notin D => x.is[i] = s[N].is[i])
                /\ \A i \in D : x.is[i] = new[i] /\ (i \notin DOMAIN s[N].was => x.was[i] = e.doc[i])
    BY <1>4 DEF Continues
  <1>6. ~adds => DOMAIN x.was = D /\ \A i \in D : x.was[i] = e.doc[i] /\ x.is[i] = new[i]
    BY <1>3, <1>4 DEF Starts
  <1>7. \A i \in D : w.doc[i] = new[i]
    OBVIOUS
  <1>8. \A i \in DOMAIN x.was : i \in Ids
    <2>1. x \in Steps
      BY DEF Tops
    <2>2. QED
      BY <2>1, PatchFacts
  <1>9. \A i \in Ids \ D : w.doc[i] = e.doc[i]
    OBVIOUS
  <1>10. \A j \in DOMAIN s : \A i \in DOMAIN s[j].was : i \in Ids
    <2>1. \A j \in DOMAIN s : s[j] \in Steps
      BY ListedAreSteps, ElementOfSeq
    <2>2. QED
      BY <2>1, PatchFacts
  <1> DEFINE Links(j, i) ==
        /\ \A m \in DOMAIN s : j < m /\ i \in DOMAIN s[m].was /\ Skipped(s, i, j, m) => Backs(s[j].is[i], s[m].was[i])
        /\ Skipped(s, i, j, N + 1) => Backs(s[j].is[i], e.doc[i])
  <1>11. \A j \in DOMAIN s : \A i \in DOMAIN s[j].was : Links(j, i)
    BY DEF Linked
  <1>12. \A v : Backs(v, v)
    BY DEF Backs
  <1> HIDE DEF n, s, t, adds, N
  \* Between two of those that stay nothing has come.
  <1>13. ASSUME NEW j \in 1..n, NEW m \in 1..n, NEW i, Skipped(t, i, j, m) PROVE Skipped(s, i, j, m)
    <2>1. SUFFICES ASSUME NEW l \in DOMAIN s, j < l, l < m PROVE i \notin DOMAIN s[l].was
      BY DEF Skipped
    <2>2. l \in 1..n
      BY <1>1, <1>2, <2>1
    <2>3. QED
      BY <1>1, <1>13, <2>1, <2>2 DEF Skipped
  <1>14. ASSUME NEW j \in 1..n, NEW i, Skipped(t, i, j, n + 1)
         PROVE  /\ ~adds \/ i \notin DOMAIN s[N].was => Skipped(s, i, j, N + 1)
                /\ adds => Skipped(s, i, j, N)
    <2>1. \A l \in 1..n : j < l => i \notin DOMAIN s[l].was
      BY <1>1, <1>14 DEF Skipped
    <2>2. QED
      BY <1>1, <1>2, <1>3, <2>1 DEF Skipped
  <1>15. ASSUME NEW j \in 1..n, NEW i \in DOMAIN t[j].was, NEW m \in DOMAIN t, j < m, i \in DOMAIN t[m].was,
                Skipped(t, i, j, m)
         PROVE  Backs(t[j].is[i], t[m].was[i])
    <2>1. j \in DOMAIN s /\ t[j] = s[j] /\ Links(j, i)
      BY <1>1, <1>11, <1>15
    <2>2. CASE m \in 1..n
      BY <1>1, <1>13, <1>15, <2>1, <2>2
    <2>3. CASE m = n + 1
      <3>1. CASE adds /\ i \in DOMAIN s[N].was
        <4>1. Skipped(s, i, j, N) /\ N \in DOMAIN s /\ j < N
          BY <1>1, <1>14, <1>15, <2>3, <3>1
        <4>2. QED
          BY <1>1, <1>5, <2>1, <2>3, <3>1, <4>1
      <3>2. CASE ~adds \/ i \notin DOMAIN s[N].was
        <4>1. Skipped(s, i, j, N + 1)
          BY <1>14, <1>15, <2>3, <3>2
        <4>2. x.was[i] = e.doc[i]
          BY <1>1, <1>5, <1>6, <1>15, <2>3, <3>2
        <4>3. QED
          BY <1>1, <2>1, <2>3, <4>1, <4>2
      <3>3. QED
        BY <3>1, <3>2
    <2>4. QED
      BY <1>1, <2>2, <2>3
  <1>16. ASSUME NEW j \in 1..n, NEW i \in DOMAIN t[j].was, Skipped(t, i, j, n + 2)
         PROVE  Backs(t[j].is[i], w.doc[i])
    <2>1. j \in DOMAIN s /\ t[j] = s[j] /\ Links(j, i)
      BY <1>1, <1>11
    <2>2. i \notin DOMAIN x.was
      BY <1>1, <1>16 DEF Skipped
    <2>3. Skipped(t, i, j, n + 1)
      BY <1>1, <1>16 DEF Skipped
    <2>4. i \in Ids \ D /\ (~adds \/ i \notin DOMAIN s[N].was)
      BY <1>5, <1>6, <1>10, <1>1, <2>1, <2>2
    <2>5. QED
      BY <1>9, <1>14, <2>1, <2>3, <2>4
  <1>17. ASSUME NEW i \in DOMAIN x.was PROVE Backs(x.is[i], w.doc[i])
    <2>1. CASE i \in D
      BY <1>5, <1>6, <1>7, <1>12, <2>1
    <2>2. CASE i \notin D
      <3>1. adds /\ i \in DOMAIN s[N].was /\ x.is[i] = s[N].is[i] /\ N \in DOMAIN s
        BY <1>1, <1>5, <1>6, <1>17, <2>2
      <3>2. Skipped(s, i, N, N + 1)
        BY <1>2 DEF Skipped
      <3>3. QED
        BY <1>8, <1>9, <1>11, <1>17, <2>2, <3>1, <3>2
    <2>3. QED
      BY <2>1, <2>2
  <1>18. SUFFICES ASSUME NEW j \in DOMAIN t, NEW i \in DOMAIN t[j].was
                  PROVE  /\ \A m \in DOMAIN t : j < m /\ i \in DOMAIN t[m].was /\ Skipped(t, i, j, m)
                                                => Backs(t[j].is[i], t[m].was[i])
                         /\ Skipped(t, i, j, n + 2) => Backs(t[j].is[i], w.doc[i])
    <2>1. Len(t) + 1 = n + 2
      BY <1>1
    <2>2. QED
      BY <2>1 DEF Linked, t
  <1>19. CASE j \in 1..n
    BY <1>15, <1>16, <1>19
  <1>20. CASE j = n + 1
    <2>1. \A m \in DOMAIN t : ~(j < m)
      BY <1>1, <1>20
    <2>2. QED
      BY <1>1, <1>17, <1>18, <1>20, <2>1
  <1>21. QED
    BY <1>1, <1>18, <1>19, <1>20

LEMMA WriteFirm ==
    ASSUME NEW e \in Eds, NEW D \in SUBSET Ids, NEW new \in [D -> Els], D # {} => e.op # 0, NEW K, Firm(e, K),
           \A i \in D : Of(new[i], K[i])
    PROVE  Firm(Write(e, new), K)
  <1> DEFINE w == Write(e, new)
  <1>1. CASE D = {}
    <2>1. w = e
      BY <1>1 DEF Write
    <2>2. QED
      BY <2>1
  <1>2. CASE D # {}
    <2>1. /\ w \in Eds /\ w.open /\ w.redo = <<>> /\ Topped(e, new, w)
          /\ w.doc = [i \in Ids |-> IF i \in D THEN new[i] ELSE e.doc[i]]
      BY <1>2, Written
    <2> HIDE DEF w
    <2>2. PICK base, x : Tops(e, new, w, base, x)
      BY <2>1 DEF Topped
    <2> DEFINE n    == Len(base)
               adds == Continues(e, new, base, x)
               top  == e.undo[Len(e.undo)]
    <2>3. /\ w.undo # <<>> /\ Len(w.undo) = n + 1 /\ w.undo[n + 1] = x
          /\ \A k \in 1..n : w.undo[k] \in Listed(e)
          /\ Listed(w) = {w.undo[k] : k \in 1..n} \cup {x}
          /\ adds => top \in Listed(e)
      BY <2>1, <2>2, Listing
    <2>4. Linked(w.doc, w.undo) /\ Linked(w.doc, w.redo)
      <3>1. Linked(e.doc, e.undo)
        BY DEF Firm
      <3>2. Linked(w.doc, w.undo)
        BY <2>1, <2>2, <3>1, WriteLinked
      <3>3. DOMAIN w.redo = {}
        BY <2>1
      <3>4. QED
        BY <3>2, <3>3 DEF Linked
    <2>5. DOMAIN new = D
      OBVIOUS
    <2>6. adds => /\ e.open /\ e.undo # <<>> /\ DOMAIN x.was = D \cup DOMAIN top.was
                  /\ \A i \in DOMAIN top.was : x.was[i] = top.was[i] /\ (i \notin D => x.is[i] = top.is[i])
                  /\ \A i \in D : x.is[i] = new[i] /\ (i \notin DOMAIN top.was => x.was[i] = e.doc[i])
      BY <2>5 DEF Continues
    <2>7. ~adds => /\ ~(e.open /\ e.undo # <<>>)
                   /\ DOMAIN x.was = D /\ \A i \in D : x.was[i] = e.doc[i] /\ x.is[i] = new[i]
      BY <2>2, <2>5 DEF Tops, Starts
    <2>8. \A i \in Ids : Blank(e.doc[i]) => adds /\ i \in DOMAIN top.was
      BY <2>7 DEF Firm, Within
    <2> HIDE DEF top, adds, n
    <2>9. ASSUME NEW i \in DOMAIN x.was PROVE Of(x.was[i], K[i]) /\ Of(x.is[i], K[i]) /\ ~Blank(x.was[i])
      <3>1. CASE adds /\ i \in DOMAIN top.was
        <4>1. Proper(top, K)
          BY <2>3, <3>1 DEF Firm
        <4>2. QED
          BY <2>6, <3>1, <4>1 DEF Proper
      <3>2. CASE ~(adds /\ i \in DOMAIN top.was)
        <4>1. i \in D /\ x.was[i] = e.doc[i] /\ x.is[i] = new[i]
          BY <2>6, <2>7, <2>9, <3>2
        <4>2. QED
          BY <2>8, <3>2, <4>1 DEF Firm
      <3>3. QED
        BY <3>1, <3>2
    <2>10. \A y \in Listed(w) : Proper(y, K)
      <3>1. Proper(x, K)
        BY <2>9 DEF Proper
      <3>2. QED
        BY <2>3, <3>1 DEF Firm
    <2>11. \A i \in Ids : Of(w.doc[i], K[i])
      BY <2>1 DEF Firm
    <2>12. ASSUME NEW i \in Ids, Blank(w.doc[i]) PROVE Within(w, i)
      <3>1. i \in DOMAIN x.was
        <4>1. CASE i \in D
          BY <2>6, <2>7, <4>1
        <4>2. CASE i \notin D
          BY <2>1, <2>6, <2>8, <2>12, <4>2
        <4>3. QED
          BY <4>1, <4>2
      <3>2. QED
        BY <2>1, <2>3, <3>1 DEF Within
    <2>13. QED
      BY <2>4, <2>10, <2>11, <2>12 DEF Firm, w
  <1>3. QED
    BY <1>1, <1>2

\* No empty text box is on the board.
Filled(d) == \A i \in Ids : ~Blank(d[i])

LEMMA StartFirm ==
    ASSUME NEW e \in Eds, e.op < MaxOps, NEW K, Firm(e, K), Filled(e.doc)
    PROVE  Firm(Starting(e), K)
  <1> DEFINE f == Starting(e)
  <1>1. e.op \in Nat /\ MaxOps \in Nat
    BY EditorAssumption DEF Eds
  <1>2. f.doc = e.doc /\ f.undo = e.undo /\ f.redo = e.redo
    BY <1>1 DEF Starting, Closed, Eds
  <1> HIDE DEF f
  <1>3. Listed(f) = Listed(e)
    BY <1>2 DEF Listed
  <1>4. Firm(f, K)
    BY <1>2, <1>3 DEF Firm, Filled
  <1>5. QED
    BY <1>4 DEF f

\* An element that a step brings back, or takes back to what it was, has at
\* least the words it had.
\* Taking a step back on what has its words leaves what has those of before.
LEMMA RevertedBacks ==
    ASSUME NEW cur \in Els, NEW from \in Els, NEW to \in Els, NEW over \in BOOLEAN, NEW k,
           Of(cur, k), Of(from, k), Of(to, k), ~Blank(to), Backs(from, cur), NEW r, r = Reverted(cur, from, to, over)
    PROVE  Of(r, k) /\ ~Blank(r) /\ Backs(to, r) /\ (to = Nothing => r = Nothing)
  <1> DEFINE Got(c, f, t) == IF f # t /\ (over \/ c = f) THEN t ELSE c
  <1>1. CASE to = Nothing \/ from = Nothing \/ cur = Nothing
    <2>1. r = Nothing \/ r = to
      BY <1>1 DEF Reverted
    <2>2. to = Nothing => r = Nothing
      BY <1>1 DEF Reverted
    <2>3. QED
      BY <2>1, <2>2 DEF Of, Backs, Blank, Nothing
  <1>2. CASE to # Nothing /\ from # Nothing /\ cur # Nothing
    <2>1. r = [cur EXCEPT !.at = Got(cur.at, from.at, to.at), !.size = Got(cur.size, from.size, to.size),
                          !.form = Got(cur.form, from.form, to.form), !.ink = Got(cur.ink, from.ink, to.ink),
                          !.said = (cur.said \ (from.said \ to.said)) \cup (to.said \ from.said)]
      BY <1>2 DEF Reverted
    <2>2. cur \in Elements /\ from.said \subseteq cur.said /\ cur.kind = k /\ to.kind = k /\ cur.kind # "none"
      BY <1>2 DEF Els, Of, Backs
    <2> HIDE DEF Got
    <2>3. r.kind = cur.kind /\ r.said = (cur.said \ (from.said \ to.said)) \cup (to.said \ from.said)
      BY <2>1, <2>2 DEF Elements
    <2>4. to.said \subseteq r.said
      BY <2>2, <2>3
    <2>5. ~Blank(r)
      BY <2>2, <2>3, <2>4 DEF Blank
    <2>6. QED
      BY <1>2, <2>2, <2>3, <2>4, <2>5 DEF Of, Backs
  <1>3. QED
    BY <1>1, <1>2

\* The step at k is performed as it can be now, and those above it do nothing.
Undoes(d, s, over, p, k, x) ==
    /\ Turns(d, s, p, k, x)
    /\ \A i \in DOMAIN x.was : p.doc[i] = Reverted(d[i], s[k].is[i], s[k].was[i], over)
    /\ \A j \in DOMAIN s : j > k => \A i \in DOMAIN s[j].was : d[i] = Reverted(d[i], s[j].is[i], s[j].was[i], over)

UndoesOne(d, s, over, p) == \E k, x : Undoes(d, s, over, p, k, x)

LEMMA PoppedUndoes ==
    ASSUME NEW d \in Docs, NEW s \in Seq(Steps), NEW over \in BOOLEAN, NEW p, p = Popped(d, s, over), p.turned # <<>>
    PROVE  UndoesOne(d, s, over, p)
  <1> DEFINE ks == {0} \cup {j \in DOMAIN s : Performs(d, s[j], over)}
             m  == Max(ks)
  <1>1. TurnsOne(d, s, p)
    BY PoppedFacts
  <1>2. PICK k, x : Turns(d, s, p, k, x)
    BY <1>1 DEF TurnsOne
  <1>3. Len(s) \in Nat /\ DOMAIN s = 1..Len(s) /\ \A j \in DOMAIN s : s[j] \in Steps
    BY LenProperties, ElementOfSeq
  <1>4. m \in ks /\ \A y \in ks : m >= y
    <2>1. ks \in SUBSET (0..Len(s)) /\ ks # {}
      BY <1>3
    <2> HIDE DEF ks
    <2>2. QED
      BY <1>3, <2>1, MaxIsLargest
  <1>5. /\ m = 0 => p.turned = <<>>
        /\ m # 0 => /\ p.doc = Without(d, s[m], over) /\ p.rest = SubSeq(s, 1, m - 1)
                    /\ p.turned = <<[ops |-> s[m].ops, was |-> Restrict(d, DOMAIN s[m].was),
                                     is |-> Restrict(Without(d, s[m], over), DOMAIN s[m].was)]>>
    BY DEF Popped
  <1> HIDE DEF m
  <1>6. m # 0 /\ m \in DOMAIN s
    BY <1>4, <1>5
  <1>7. k = m
    <2>1. Len(SubSeq(s, 1, k - 1)) = k - 1 /\ Len(SubSeq(s, 1, m - 1)) = m - 1
      BY <1>2, <1>6, BelowFacts DEF Turns
    <2>2. k - 1 = m - 1
      BY <1>2, <1>5, <1>6, <2>1 DEF Turns
    <2>3. QED
      BY <1>2, <1>3, <1>6, <2>2 DEF Turns
  <1>8. ASSUME NEW j \in DOMAIN s
        PROVE  \A i \in DOMAIN s[j].was : Without(d, s[j], over)[i] = Reverted(d[i], s[j].is[i], s[j].was[i], over)
    BY DEF Without, Over
  <1>9. \A i \in DOMAIN x.was : p.doc[i] = Reverted(d[i], s[k].is[i], s[k].was[i], over)
    BY <1>2, <1>5, <1>6, <1>7, <1>8 DEF Turns
  <1>10. ASSUME NEW j \in DOMAIN s, j > k, NEW i \in DOMAIN s[j].was
         PROVE  d[i] = Reverted(d[i], s[j].is[i], s[j].was[i], over)
    <2>1. j \notin ks
      BY <1>3, <1>4, <1>6, <1>7, <1>10
    <2>2. Without(d, s[j], over) = d
      BY <2>1 DEF Performs
    <2>3. QED
      BY <1>8, <2>2
  <1>11. Undoes(d, s, over, p, k, x)
    BY <1>2, <1>9, <1>10 DEF Undoes
  <1>12. QED
    BY <1>11 DEF UndoesOne

LEMMA HasSmallest ==
    ASSUME NEW n \in Nat, NEW S \in SUBSET (1..n), S # {}
    PROVE  \E m \in S : \A y \in S : m <= y
  <1>1. S \subseteq Nat
    OBVIOUS
  <1>2. PICK m \in S : \A y \in S : ~(<<y, m>> \in OpToRel(<, Nat))
    BY <1>1, WFMin, NatLessThanWellFounded
  <1>3. \A y \in S : m <= y
    <2>1. SUFFICES ASSUME NEW y \in S PROVE m <= y
      OBVIOUS
    <2>2. ~(<<y, m>> \in OpToRel(<, Nat))
      BY <1>2
    <2>3. ~(y < m)
      BY <1>1, <2>2 DEF OpToRel
    <2>4. QED
      BY <1>1, <2>3
  <1>4. QED
    BY <1>3

\* Somewhere after j the next step that holds i, if any does.
LEMMA NextHolder ==
    ASSUME NEW s \in Seq(Steps), NEW j \in DOMAIN s, NEW i
    PROVE  \/ Skipped(s, i, j, Len(s) + 1)
           \/ \E m \in DOMAIN s : j < m /\ i \in DOMAIN s[m].was /\ Skipped(s, i, j, m)
  <1> DEFINE n == Len(s)
             S == {m \in 1..n : j < m /\ i \in DOMAIN s[m].was}
  <1>1. n \in Nat /\ DOMAIN s = 1..n
    BY LenProperties
  <1> HIDE DEF n
  <1>2. CASE S = {}
    BY <1>1, <1>2 DEF Skipped, n
  <1>3. CASE S # {}
    <2>1. PICK m \in S : \A y \in S : m <= y
      <3>1. S \in SUBSET (1..n)
        OBVIOUS
      <3> HIDE DEF S
      <3>2. QED
        BY <1>1, <1>3, <3>1, HasSmallest
    <2>2. ASSUME NEW l \in DOMAIN s, j < l, l < m PROVE i \notin DOMAIN s[l].was
      <3>1. l \notin S
        BY <1>1, <2>1, <2>2
      <3>2. QED
        BY <1>1, <2>2, <3>1
    <2>3. QED
      BY <1>1, <2>1, <2>2 DEF Skipped
  <1>4. QED
    BY <1>2, <1>3

\* The steps above the one that is undone do nothing, so their words are there.
LEMMA BackedAbove ==
    ASSUME NEW d \in Docs, NEW s \in Seq(Steps), NEW over \in BOOLEAN, NEW p, NEW k, NEW x, Undoes(d, s, over, p, k, x),
           NEW K, Linked(d, s), \A j \in DOMAIN s : Proper(s[j], K), \A i \in Ids : Of(d[i], K[i]),
           NEW j \in DOMAIN s, j >= k, NEW i \in DOMAIN s[j].was
    PROVE  Backs(s[j].is[i], d[i])
  <1> DEFINE n == Len(s)
             S == {a \in 1..n : a >= k /\ \E b \in DOMAIN s[a].was : ~Backs(s[a].is[b], d[b])}
  <1>1. /\ n \in Nat /\ DOMAIN s = 1..n /\ k \in 1..n
        /\ \A a \in DOMAIN s : s[a] \in Steps
    BY LenProperties, ElementOfSeq DEF Undoes, Turns
  <1> HIDE DEF n
  <1>2. ASSUME S # {} PROVE FALSE
    <2>1. PICK m \in S : \A y \in S : m >= y
      <3>1. S \in SUBSET (0..n)
        OBVIOUS
      <3> HIDE DEF S
      <3>2. Max(S) \in S /\ \A y \in S : Max(S) >= y
        BY <1>1, <1>2, <3>1, MaxIsLargest
      <3>3. QED
        BY <3>2
    <2>2. m \in 1..n /\ m >= k
      OBVIOUS
    <2>3. PICK b \in DOMAIN s[m].was : ~Backs(s[m].is[b], d[b])
      OBVIOUS
    <2>4. ~Skipped(s, b, m, Len(s) + 1)
      BY <1>1, <2>2, <2>3 DEF Linked
    <2>5. PICK l \in DOMAIN s : m < l /\ b \in DOMAIN s[l].was /\ Skipped(s, b, m, l)
      BY <1>1, <2>2, <2>4, NextHolder
    <2>6. Backs(s[m].is[b], s[l].was[b])
      BY <1>1, <2>2, <2>5 DEF Linked
    <2>7. l \notin S /\ l > k
      BY <1>1, <2>1, <2>2, <2>5
    <2>8. Backs(s[l].is[b], d[b])
      BY <1>1, <2>5, <2>7
    <2>9. d[b] = Reverted(d[b], s[l].is[b], s[l].was[b], over)
      BY <2>5, <2>7 DEF Undoes
    <2>10. b \in Ids /\ d[b] \in Els /\ s[l].was[b] \in Els /\ s[l].is[b] \in Els
      <3>1. DOMAIN s[l].was \subseteq Ids /\ s[l].was \in [DOMAIN s[l].was -> Els] /\ s[l].is \in [DOMAIN s[l].was -> Els]
        BY <1>1, <2>5, PatchFacts
      <3>2. QED
        BY <2>5, <3>1 DEF Docs
    <2>11. Of(d[b], K[b]) /\ Of(s[l].was[b], K[b]) /\ Of(s[l].is[b], K[b]) /\ ~Blank(s[l].was[b])
      BY <2>5, <2>10 DEF Proper
    <2> HIDE DEF S
    <2>12. Backs(s[l].was[b], d[b]) /\ (s[l].was[b] = Nothing => d[b] = Nothing)
      BY <2>8, <2>9, <2>10, <2>11, RevertedBacks
    <2>13. QED
      BY <2>3, <2>6, <2>12 DEF Backs
  <1>3. QED
    BY <1>1, <1>2

\* Undoing leaves the words of what is undone, and what was linked is.
\* What undoing a step leaves, and the step that will redo it.
LEMMA UndoLinked ==
    ASSUME NEW d \in Docs, NEW s \in Seq(Steps), NEW over \in BOOLEAN, NEW p, NEW k, NEW x, Undoes(d, s, over, p, k, x),
           NEW K, Linked(d, s), \A j \in DOMAIN s : Proper(s[j], K), \A i \in Ids : Of(d[i], K[i]), Filled(d)
    PROVE  /\ \A i \in Ids : Of(p.doc[i], K[i])
           /\ Filled(p.doc) /\ Proper(x, K) /\ Linked(p.doc, p.rest)
           /\ x \in Steps /\ p.turned = <<x>>
           /\ \A i \in DOMAIN x.was : x.was[i] = d[i] /\ x.is[i] = p.doc[i]
           /\ \A i \in Ids \ DOMAIN x.was : p.doc[i] = d[i]
  <1> DEFINE r == p.rest
             n == Len(s)
             f == p.doc
  <1>1. /\ n \in Nat /\ DOMAIN s = 1..n /\ k \in 1..n /\ x \in Steps /\ f \in Docs /\ p.turned = <<x>>
        /\ \A a \in DOMAIN s : s[a] \in Steps
        /\ DOMAIN x.was = DOMAIN s[k].was
        /\ \A i \in DOMAIN x.was : x.was[i] = d[i] /\ x.is[i] = f[i]
        /\ \A i \in Ids \ DOMAIN x.was : f[i] = d[i]
        /\ r = SubSeq(s, 1, k - 1)
    BY LenProperties, ElementOfSeq DEF Undoes, Turns
  <1>2. /\ r \in Seq(Steps) /\ Len(r) = k - 1 /\ DOMAIN r = 1..k - 1
        /\ \A j \in DOMAIN r : r[j] = s[j]
    <2>1. /\ r \in Seq(Steps) /\ Len(r) = k - 1
          /\ \A j \in DOMAIN r : r[j] = s[j]
      BY <1>1, BelowFacts
    <2>2. QED
      BY <2>1, LenProperties
  <1>3. \A j \in DOMAIN s : /\ DOMAIN s[j].was \subseteq Ids
                            /\ \A i \in DOMAIN s[j].was : s[j].was[i] \in Els /\ s[j].is[i] \in Els
    <2>1. SUFFICES ASSUME NEW j \in DOMAIN s
                   PROVE  /\ DOMAIN s[j].was \subseteq Ids
                          /\ \A i \in DOMAIN s[j].was : s[j].was[i] \in Els /\ s[j].is[i] \in Els
      OBVIOUS
    <2>2. DOMAIN s[j].was \subseteq Ids /\ s[j].was \in [DOMAIN s[j].was -> Els] /\ s[j].is \in [DOMAIN s[j].was -> Els]
      BY <1>1, PatchFacts
    <2>3. QED
      BY <2>2
  <1> HIDE DEF r, n, f
  <1>4. ASSUME NEW j \in DOMAIN s, j >= k, NEW i \in DOMAIN s[j].was,
               NEW g \in Els, g = Reverted(d[i], s[j].is[i], s[j].was[i], over)
        PROVE  Of(g, K[i]) /\ ~Blank(g) /\ Backs(s[j].was[i], g) /\ (s[j].was[i] = Nothing => g = Nothing)
    <2>1. Backs(s[j].is[i], d[i])
      BY <1>4, BackedAbove
    <2>2. i \in Ids /\ d[i] \in Els /\ s[j].was[i] \in Els /\ s[j].is[i] \in Els
      BY <1>3 DEF Docs
    <2>3. Of(d[i], K[i]) /\ Of(s[j].was[i], K[i]) /\ Of(s[j].is[i], K[i]) /\ ~Blank(s[j].was[i])
      BY <2>2 DEF Proper
    <2>4. QED
      BY <1>4, <2>1, <2>2, <2>3, RevertedBacks
  <1>5. ASSUME NEW i \in DOMAIN x.was
        PROVE  /\ i \in Ids /\ Of(f[i], K[i]) /\ ~Blank(f[i]) /\ Backs(s[k].was[i], f[i])
               /\ s[k].was[i] = Nothing => f[i] = Nothing
    <2>1. f[i] = Reverted(d[i], s[k].is[i], s[k].was[i], over)
      BY DEF Undoes, f
    <2>2. k \in DOMAIN s /\ k >= k /\ i \in DOMAIN s[k].was /\ i \in Ids /\ f[i] \in Els
      BY <1>1, <1>3 DEF Docs
    <2>3. QED
      BY <1>4, <2>1, <2>2
  <1>6. /\ \A i \in Ids : Of(f[i], K[i])
        /\ Filled(f)
    BY <1>1, <1>5 DEF Filled
  <1>7. Proper(x, K)
    BY <1>1, <1>5 DEF Proper, Filled
  <1>8. ASSUME NEW j \in DOMAIN r, NEW i \in DOMAIN r[j].was,
               NEW m \in DOMAIN r, j < m, i \in DOMAIN r[m].was, Skipped(r, i, j, m)
        PROVE  Backs(r[j].is[i], r[m].was[i])
    <2>1. j \in DOMAIN s /\ m \in DOMAIN s /\ r[j] = s[j] /\ r[m] = s[m]
      BY <1>1, <1>2
    <2>2. Skipped(s, i, j, m)
      BY <1>1, <1>2, <1>8 DEF Skipped
    <2>3. QED
      BY <1>8, <2>1, <2>2 DEF Linked
  <1>9. ASSUME NEW j \in DOMAIN r, NEW i \in DOMAIN r[j].was, Skipped(r, i, j, k)
        PROVE  Backs(r[j].is[i], f[i])
    <2>1. j \in DOMAIN s /\ r[j] = s[j] /\ i \in DOMAIN s[j].was /\ i \in Ids /\ j < k
      BY <1>1, <1>2, <1>3
    <2>2. Skipped(s, i, j, k)
      BY <1>1, <1>2, <1>9 DEF Skipped
    <2>3. CASE i \in DOMAIN x.was
      <3>1. Backs(s[j].is[i], s[k].was[i])
        BY <1>1, <2>1, <2>2, <2>3 DEF Linked
      <3>2. QED
        BY <1>5, <2>1, <2>3, <3>1 DEF Backs
    <2>4. CASE i \notin DOMAIN x.was
      <3>1. f[i] = d[i]
        BY <1>1, <2>1, <2>4
      <3>2. CASE Skipped(s, i, j, Len(s) + 1)
        BY <2>1, <3>1, <3>2 DEF Linked
      <3>3. CASE \E m \in DOMAIN s : j < m /\ i \in DOMAIN s[m].was /\ Skipped(s, i, j, m)
        <4>1. PICK m \in DOMAIN s : j < m /\ i \in DOMAIN s[m].was /\ Skipped(s, i, j, m)
          BY <3>3
        <4>2. Backs(s[j].is[i], s[m].was[i])
          BY <2>1, <4>1 DEF Linked
        <4>3. m # k /\ ~(m < k)
          BY <1>1, <2>1, <2>2, <2>4, <4>1 DEF Skipped
        <4>4. m > k
          BY <1>1, <4>3
        <4>5. d[i] = Reverted(d[i], s[m].is[i], s[m].was[i], over)
          BY <4>1, <4>4 DEF Undoes
        <4>6. m >= k /\ d[i] \in Els
          BY <1>1, <2>1, <4>4 DEF Docs
        <4>7. Backs(s[m].was[i], d[i]) /\ (s[m].was[i] = Nothing => d[i] = Nothing)
          BY <1>4, <4>1, <4>5, <4>6
        <4>8. QED
          BY <2>1, <3>1, <4>2, <4>7 DEF Backs
      <3>4. QED
        BY <2>1, <3>2, <3>3, NextHolder
    <2>5. QED
      BY <2>3, <2>4
  <1>10. Linked(f, r)
    <2>1. Len(r) + 1 = k
      BY <1>1, <1>2
    <2>2. QED
      BY <1>8, <1>9, <2>1 DEF Linked
  <1>11. QED
    BY <1>1, <1>6, <1>7, <1>10 DEF f, r

LEMMA TakenLinked ==
    ASSUME NEW d, NEW f, NEW t \in Seq(Steps), NEW x \in Steps, Linked(d, t),
           \A i \in DOMAIN x.was : x.was[i] = d[i] /\ x.is[i] = f[i],
           \A i \in Ids \ DOMAIN x.was : f[i] = d[i]
    PROVE  /\ t \o <<x>> \in Seq(Steps) /\ Members(t \o <<x>>) = Members(t) \cup {x}
           /\ Linked(f, t \o <<x>>)
  <1> DEFINE u == t \o <<x>>
             n == Len(t)
  <1>1. /\ u \in Seq(Steps) /\ Len(u) = n + 1 /\ n \in Nat /\ DOMAIN t = 1..n
        /\ \A j \in 1..n : u[j] = t[j]
        /\ u[n + 1] = x
    <2>1. u = Append(t, x)
      BY AppendIsConcat
    <2> HIDE DEF u
    <2>2. QED
      BY <2>1, AppendProperties, LenProperties
  <1>2. DOMAIN u = 1..n + 1 /\ 1..n + 1 = 1..n \cup {n + 1}
    <2> HIDE DEF u, n
    <2>1. QED
      BY <1>1, LenProperties
  <1>3. \A j \in DOMAIN t : \A i \in DOMAIN t[j].was : i \in Ids
    <2>1. \A j \in DOMAIN t : t[j] \in Steps
      BY <1>1, ElementOfSeq
    <2>2. QED
      BY <2>1, PatchFacts
  <1> HIDE DEF u, n
  <1>4. Members(u) = Members(t) \cup {x}
    BY <1>1, <1>2 DEF Members
  <1>5. ASSUME NEW j \in 1..n, NEW m \in 1..n, NEW i, Skipped(u, i, j, m) PROVE Skipped(t, i, j, m)
    BY <1>1, <1>2, <1>5 DEF Skipped
  <1>6. ASSUME NEW j \in 1..n, NEW i, Skipped(u, i, j, n + 1) PROVE Skipped(t, i, j, n + 1)
    BY <1>1, <1>2, <1>6 DEF Skipped
  <1>7. ASSUME NEW j \in 1..n, NEW i \in DOMAIN u[j].was, NEW m \in DOMAIN u, j < m, i \in DOMAIN u[m].was,
               Skipped(u, i, j, m)
        PROVE  Backs(u[j].is[i], u[m].was[i])
    <2>1. j \in DOMAIN t /\ u[j] = t[j] /\ i \in DOMAIN t[j].was
      BY <1>1, <1>7
    <2>2. CASE m \in 1..n
      <3>1. Skipped(t, i, j, m) /\ m \in DOMAIN t /\ u[m] = t[m]
        BY <1>1, <1>5, <1>7, <2>2
      <3>2. QED
        BY <1>7, <2>1, <3>1 DEF Linked
    <2>3. CASE m = n + 1
      <3>1. Skipped(t, i, j, Len(t) + 1)
        BY <1>6, <1>7, <2>3 DEF n
      <3>2. Backs(t[j].is[i], d[i])
        BY <2>1, <3>1 DEF Linked
      <3>3. QED
        BY <1>1, <1>7, <2>1, <2>3, <3>2
    <2>4. QED
      BY <1>2, <2>2, <2>3
  <1>8. ASSUME NEW j \in 1..n, NEW i \in DOMAIN u[j].was, Skipped(u, i, j, n + 2)
        PROVE  Backs(u[j].is[i], f[i])
    <2>1. j \in DOMAIN t /\ u[j] = t[j] /\ i \in DOMAIN t[j].was /\ i \in Ids
      BY <1>1, <1>3
    <2>2. i \notin DOMAIN x.was
      BY <1>1, <1>2, <1>8 DEF Skipped
    <2>3. Skipped(u, i, j, n + 1)
      BY <1>1, <1>2, <1>8 DEF Skipped
    <2>4. Skipped(t, i, j, Len(t) + 1)
      BY <1>6, <2>3 DEF n
    <2>5. QED
      BY <2>1, <2>2, <2>4 DEF Linked
  <1>9. \A i \in DOMAIN x.was : Backs(x.is[i], f[i])
    BY DEF Backs
  <1>10. SUFFICES ASSUME NEW j \in DOMAIN u, NEW i \in DOMAIN u[j].was
                  PROVE  /\ \A m \in DOMAIN u : j < m /\ i \in DOMAIN u[m].was /\ Skipped(u, i, j, m)
                                                => Backs(u[j].is[i], u[m].was[i])
                         /\ Skipped(u, i, j, n + 2) => Backs(u[j].is[i], f[i])
    <2>1. Len(u) + 1 = n + 2
      BY <1>1
    <2>2. QED
      BY <1>1, <1>4, <2>1 DEF Linked, u
  <1>11. CASE j \in 1..n
    BY <1>7, <1>8, <1>11
  <1>12. CASE j = n + 1
    <2>1. \A m \in DOMAIN u : ~(j < m)
      BY <1>1, <1>2, <1>12
    <2>2. QED
      BY <1>1, <1>9, <1>10, <1>12, <2>1
  <1>13. QED
    BY <1>2, <1>10, <1>11, <1>12

\* What a pop makes of two stacks and the document.
LEMMA PopFirm ==
    ASSUME NEW d \in Docs, NEW s \in Seq(Steps), NEW t \in Seq(Steps), NEW over \in BOOLEAN,
           NEW p, p = Popped(d, s, over), NEW K, Linked(d, s), Linked(d, t),
           \A y \in Members(s) \cup Members(t) : Proper(y, K), \A i \in Ids : Of(d[i], K[i]), Filled(d)
    PROVE  /\ \A i \in Ids : Of(p.doc[i], K[i])
           /\ Filled(p.doc) /\ Linked(p.doc, p.rest) /\ Linked(p.doc, t \o p.turned)
           /\ \A y \in Members(p.rest) \cup Members(t \o p.turned) : Proper(y, K)
  <1>1. CASE p.turned = <<>>
    <2>1. p.doc = d /\ p.rest = <<>> /\ t \o p.turned = t
      BY <1>1, PoppedFacts, ConcatEmptySeq
    <2>2. DOMAIN p.rest = {} /\ Members(p.rest) = {}
      BY <2>1 DEF Members
    <2>3. QED
      BY <2>1, <2>2 DEF Linked
  <1>2. CASE p.turned # <<>>
    <2>1. PICK k, x : Undoes(d, s, over, p, k, x)
      <3>1. UndoesOne(d, s, over, p)
        BY <1>2, PoppedUndoes
      <3>2. QED
        BY <3>1 DEF UndoesOne
    <2>2. \A j \in DOMAIN s : Proper(s[j], K)
      BY DEF Members
    <2>3. /\ \A i \in Ids : Of(p.doc[i], K[i])
          /\ Filled(p.doc) /\ Proper(x, K) /\ Linked(p.doc, p.rest)
          /\ x \in Steps /\ p.turned = <<x>>
          /\ \A i \in DOMAIN x.was : x.was[i] = d[i] /\ x.is[i] = p.doc[i]
          /\ \A i \in Ids \ DOMAIN x.was : p.doc[i] = d[i]
      BY <2>1, <2>2, UndoLinked
    <2>4. Members(t \o p.turned) = Members(t) \cup {x} /\ Linked(p.doc, t \o p.turned)
      BY <2>3, TakenLinked
    <2>5. Members(p.rest) \subseteq Members(s)
      <3>1. Stacks(s, t, p, k, x)
        BY <2>1, Turned DEF Undoes
      <3>2. QED
        BY <3>1 DEF Stacks
    <2>6. QED
      BY <2>3, <2>4, <2>5
  <1>3. QED
    BY <1>1, <1>2

LEMMA UndoFirm ==
    ASSUME NEW e \in Eds, NEW over \in BOOLEAN, NEW K, Firm(e, K), Filled(e.doc),
           NEW f, f = Undone(e, over) \/ f = Redone(e, over)
    PROVE  Firm(f, K) /\ Filled(f.doc)
  <1> DEFINE undone == Popped(e.doc, e.undo, over)
             redone == Popped(e.doc, e.redo, over)
  <1>1. /\ e.doc \in Docs /\ e.undo \in Seq(Steps) /\ e.redo \in Seq(Steps)
        /\ Linked(e.doc, e.undo) /\ Linked(e.doc, e.redo) /\ \A i \in Ids : Of(e.doc[i], K[i])
        /\ \A y \in Members(e.undo) \cup Members(e.redo) : Proper(y, K)
    BY DEF Eds, Firm, Listed
  <1>2. CASE f = Undone(e, over)
    <2>1. f = [e EXCEPT !.doc = undone.doc, !.undo = undone.rest, !.redo = @ \o undone.turned,
                        !.open = @ /\ undone.turned = <<>>]
      BY <1>2 DEF Undone
    <2>2. /\ \A i \in Ids : Of(undone.doc[i], K[i])
          /\ Filled(undone.doc) /\ Linked(undone.doc, undone.rest) /\ Linked(undone.doc, e.redo \o undone.turned)
          /\ \A y \in Members(undone.rest) \cup Members(e.redo \o undone.turned) : Proper(y, K)
      BY <1>1, PopFirm
    <2> HIDE DEF undone
    <2>3. f.doc = undone.doc /\ f.undo = undone.rest /\ f.redo = e.redo \o undone.turned
      BY <2>1 DEF Eds
    <2>4. QED
      BY <2>2, <2>3 DEF Firm, Listed, Filled
  <1>3. CASE f = Redone(e, over)
    <2>1. f = [e EXCEPT !.doc = redone.doc, !.redo = redone.rest, !.undo = @ \o redone.turned]
      BY <1>3 DEF Redone
    <2>2. /\ \A i \in Ids : Of(redone.doc[i], K[i])
          /\ Filled(redone.doc) /\ Linked(redone.doc, redone.rest) /\ Linked(redone.doc, e.undo \o redone.turned)
          /\ \A y \in Members(redone.rest) \cup Members(e.undo \o redone.turned) : Proper(y, K)
      BY <1>1, PopFirm
    <2> HIDE DEF redone
    <2>3. f.doc = redone.doc /\ f.redo = redone.rest /\ f.undo = e.undo \o redone.turned
      BY <2>1 DEF Eds
    <2>4. QED
      BY <2>2, <2>3 DEF Firm, Listed, Filled
  <1>4. QED
    BY <1>2, <1>3

\* A peer changes an element and takes no words from it, or takes it away.
\* A peer moves an element, adds words to it or takes it away.
LEMMA PeerFirm ==
    ASSUME NEW e \in Eds, NEW K, Firm(e, K), NEW i \in Ids, NEW el, Of(el, K[i]), el = Nothing \/ e.doc[i] # Nothing,
           el = Nothing \/ e.doc[i].said \subseteq el.said,
           NEW f \in Eds, f.doc = [e.doc EXCEPT ![i] = el], f.undo = e.undo, f.redo = e.redo, f.open = e.open
    PROVE  Firm(f, K) /\ \A j \in Ids : Blank(f.doc[j]) => Blank(e.doc[j])
  <1>1. e.doc \in [Ids -> Els] /\ Listed(f) = Listed(e)
    BY DEF Eds, Docs, Listed
  <1>2. \A j \in Ids : f.doc[j] = e.doc[j] \/ (j = i /\ f.doc[j] = el)
    BY <1>1
  <1>3. \A j \in Ids : Of(f.doc[j], K[j])
    BY <1>2 DEF Firm
  <1>4. ASSUME NEW j \in Ids, Blank(f.doc[j]) PROVE Blank(e.doc[j])
    <2>1. CASE f.doc[j] = e.doc[j]
      BY <1>4, <2>1
    <2>2. CASE j = i /\ f.doc[j] = el
      <3>1. el # Nothing /\ el.kind = "text" /\ el.said = {} /\ e.doc[i] # Nothing /\ K[i] = "text"
        BY <1>4, <2>2 DEF Blank, Nothing, Of
      <3>2. e.doc[i].kind = "text" /\ e.doc[i].said = {}
        BY <3>1 DEF Firm, Of
      <3>3. QED
        BY <2>2, <3>2 DEF Blank
    <2>3. QED
      BY <1>2, <2>1, <2>2
  <1>5. ASSUME NEW v, NEW j \in Ids, Backs(v, e.doc[j]) PROVE Backs(v, f.doc[j])
    BY <1>2, <1>5 DEF Backs
  <1>6. ASSUME NEW s, s = e.undo \/ s = e.redo PROVE Linked(f.doc, s)
    <2>1. Linked(e.doc, s)
      BY <1>6 DEF Firm
    <2>2. \A k \in DOMAIN s : \A j \in DOMAIN s[k].was : j \in Ids
      <3>1. \A k \in DOMAIN s : s[k] \in Steps
        BY <1>6, ListedAreSteps, ElementOfSeq
      <3>2. QED
        BY <3>1, PatchFacts
    <2>3. QED
      BY <1>5, <2>1, <2>2 DEF Linked
  <1>7. QED
    BY <1>1, <1>3, <1>4, <1>6 DEF Firm, Within

\* Every element of f is one of e with the same words, and f is as firm.
Spares(e, f) ==
    /\ \A K : Firm(e, K) => Firm(f, K)
    /\ \A i \in Ids : \/ f.doc[i] = Nothing
                      \/ e.doc[i] # Nothing /\ f.doc[i].kind = e.doc[i].kind /\ f.doc[i].said = e.doc[i].said

LEMMA SparesBlanks ==
    ASSUME NEW e, NEW f, Spares(e, f), NEW i \in Ids, Blank(f.doc[i])
    PROVE  Blank(e.doc[i])
  BY DEF Spares, Blank, Nothing

LEMMA SparesOnwards ==
    ASSUME NEW e, NEW f, NEW g, Spares(e, f), Spares(f, g)
    PROVE  Spares(e, g)
  BY DEF Spares

LEMMA SparesItself ==
    ASSUME NEW e
    PROVE  Spares(e, e)
  BY DEF Spares

LEMMA OnSpares ==
    ASSUME NEW e \in Eds, NEW ids \in SUBSET Ids, NEW new \in [ids \cap Painted(e.doc) -> Els],
           ids \cap Painted(e.doc) # {} => e.op # 0,
           \A i \in ids \cap Painted(e.doc) :
              new[i] = Nothing \/ (new[i].kind = e.doc[i].kind /\ new[i].said = e.doc[i].said)
    PROVE  Spares(e, Write(e, new))
  <1> DEFINE D == ids \cap Painted(e.doc)
             w == Write(e, new)
  <1>1. D \in SUBSET Ids /\ new \in [D -> Els] /\ (D # {} => e.op # 0) /\ \A i \in D : e.doc[i] # Nothing
    BY DEF Painted
  <1>2. \A i \in D : new[i] = Nothing \/ (new[i].kind = e.doc[i].kind /\ new[i].said = e.doc[i].said)
    OBVIOUS
  <1> HIDE DEF D
  <1>3. ASSUME NEW K, Firm(e, K) PROVE Firm(w, K)
    <2>1. \A i \in D : Of(new[i], K[i])
      BY <1>1, <1>2, <1>3 DEF Firm, Of
    <2>2. QED
      BY <1>1, <1>3, <2>1, WriteFirm
  <1>4. w.doc = [i \in Ids |-> IF i \in D THEN new[i] ELSE e.doc[i]]
    <2>1. CASE D = {}
      <3>1. w = e /\ e.doc \in [Ids -> Els]
        BY <1>1, <2>1 DEF Write, Eds, Docs
      <3>2. QED
        BY <2>1, <3>1
    <2>2. CASE D # {}
      BY <1>1, <2>2, Written
    <2>3. QED
      BY <2>1, <2>2
  <1> HIDE DEF w
  <1>5. \A i \in Ids : \/ w.doc[i] = Nothing
                       \/ e.doc[i] # Nothing /\ w.doc[i].kind = e.doc[i].kind /\ w.doc[i].said = e.doc[i].said
    BY <1>1, <1>2, <1>4
  <1>6. Spares(e, w)
    BY <1>3, <1>5 DEF Spares
  <1>7. QED
    BY <1>6 DEF w

\* x is el somewhere else, of another size or another colour: it has its words.
Like(x, el) == x \in Els /\ x.kind = el.kind /\ x.said = el.said

LEMMA SameWords ==
    ASSUME NEW el \in Els, el # Nothing
    PROVE  /\ \A at \in Int : Like([el EXCEPT !.at = at], el)
           /\ \A n \in Nat  : Like([el EXCEPT !.size = n], el)
           /\ \A c \in 0..1 : Like([el EXCEPT !.ink = c], el)
  <1>1. el \in Elements /\ el.kind # "none"
    BY DEF Els
  <1>2. ASSUME NEW at \in Int PROVE Like([el EXCEPT !.at = at], el)
    BY <1>1, ElementFacts DEF Elements, Like
  <1>3. ASSUME NEW n \in Nat PROVE Like([el EXCEPT !.size = n], el)
    BY <1>1, ElementFacts DEF Elements, Like
  <1>4. ASSUME NEW c \in 0..1 PROVE Like([el EXCEPT !.ink = c], el)
    BY <1>1, ElementFacts DEF Elements, Like
  <1>5. QED
    BY <1>2, <1>3, <1>4

LEMMA MoveBySpares ==
    ASSUME NEW e \in Eds, NEW ids \in SUBSET Ids, NEW n \in Int, ids \cap Painted(e.doc) # {} => e.op # 0
    PROVE  Spares(e, MoveBy(e, ids, n))
  <1>1. CASE n = 0
    BY <1>1, SparesItself DEF MoveBy
  <1>2. CASE n # 0
    <2> DEFINE new == [i \in ids \cap Painted(e.doc) |-> [e.doc[i] EXCEPT !.at = @ + n]]
    <2>1. MoveBy(e, ids, n) = Write(e, new)
      BY <1>2 DEF MoveBy, On
    <2>2. ASSUME NEW i \in ids \cap Painted(e.doc)
          PROVE  new[i] \in Els /\ new[i].kind = e.doc[i].kind /\ new[i].said = e.doc[i].said
      <3>1. e.doc[i] \in Els /\ e.doc[i] # Nothing
        BY DEF Eds, Docs, Painted
      <3>2. e.doc[i].at + n \in Int
        BY <3>1 DEF Els, Elements
      <3>3. new[i] = [e.doc[i] EXCEPT !.at = e.doc[i].at + n]
        OBVIOUS
      <3> HIDE DEF new
      <3>4. Like(new[i], e.doc[i])
        BY <3>1, <3>2, <3>3, SameWords
      <3>5. QED
        BY <3>4 DEF Like
    <2>3. new = [i \in ids \cap Painted(e.doc) |-> new[i]]
      OBVIOUS
    <2> HIDE DEF new
    <2>4. new \in [ids \cap Painted(e.doc) -> Els]
      BY <2>2, <2>3
    <2>5. QED
      BY <2>1, <2>2, <2>4, OnSpares
  <1>3. QED
    BY <1>1, <1>2

LEMMA ResizeSpares ==
    ASSUME NEW e \in Eds, NEW ids \in SUBSET Ids, NEW box \in Els, NEW n \in Nat,
           ids \cap Painted(e.doc) # {} => e.op # 0
    PROVE  Spares(e, Resize(e, ids, box, n))
  <1> DEFINE new == [i \in ids \cap Painted(e.doc) |-> Fitted(e.doc[i], box, n)]
  <1>1. Resize(e, ids, box, n) = Write(e, new)
    BY DEF Resize, On
  <1>2. ASSUME NEW i \in ids \cap Painted(e.doc)
        PROVE  new[i] \in Els /\ new[i].kind = e.doc[i].kind /\ new[i].said = e.doc[i].said
    <2>1. e.doc[i] \in Els /\ e.doc[i] # Nothing
      BY DEF Eds, Docs, Painted
    <2>2. QED
      BY <2>1, FittedBoxes
  <1>3. new = [i \in ids \cap Painted(e.doc) |-> new[i]]
    OBVIOUS
  <1> HIDE DEF new
  <1>4. new \in [ids \cap Painted(e.doc) -> Els]
    BY <1>2, <1>3
  <1>5. QED
    BY <1>1, <1>2, <1>4, OnSpares

LEMMA AppendSpares ==
    ASSUME NEW e \in Eds, NEW ids \in SUBSET Ids, NEW n \in Nat, ids \cap Painted(e.doc) # {} => e.op # 0
    PROVE  Spares(e, AppendPoints(e, ids, n))
  <1>1. CASE n = 0
    BY <1>1, SparesItself DEF AppendPoints
  <1>2. CASE n # 0
    <2> DEFINE new == [i \in ids \cap Painted(e.doc) |-> [e.doc[i] EXCEPT !.size = @ + n]]
    <2>1. AppendPoints(e, ids, n) = Write(e, new)
      BY <1>2 DEF AppendPoints, On
    <2>2. ASSUME NEW i \in ids \cap Painted(e.doc)
          PROVE  new[i] \in Els /\ new[i].kind = e.doc[i].kind /\ new[i].said = e.doc[i].said
      <3>1. e.doc[i] \in Els /\ e.doc[i] # Nothing
        BY DEF Eds, Docs, Painted
      <3>2. e.doc[i].size + n \in Nat
        BY <3>1 DEF Els, Elements
      <3>3. new[i] = [e.doc[i] EXCEPT !.size = e.doc[i].size + n]
        OBVIOUS
      <3> HIDE DEF new
      <3>4. Like(new[i], e.doc[i])
        BY <3>1, <3>2, <3>3, SameWords
      <3>5. QED
        BY <3>4 DEF Like
    <2>3. new = [i \in ids \cap Painted(e.doc) |-> new[i]]
      OBVIOUS
    <2> HIDE DEF new
    <2>4. new \in [ids \cap Painted(e.doc) -> Els]
      BY <2>2, <2>3
    <2>5. QED
      BY <2>1, <2>2, <2>4, OnSpares
  <1>3. QED
    BY <1>1, <1>2

LEMMA RemoveSpares ==
    ASSUME NEW e \in Eds, NEW ids \in SUBSET Ids, ids \cap Painted(e.doc) # {} => e.op # 0
    PROVE  Spares(e, RemoveElements(e, ids))
  <1> DEFINE new == [i \in ids \cap Painted(e.doc) |-> Nothing]
  <1>1. RemoveElements(e, ids) = Write(e, new)
    BY DEF RemoveElements, On
  <1>2. new \in [ids \cap Painted(e.doc) -> Els] /\ \A i \in ids \cap Painted(e.doc) : new[i] = Nothing
    BY ElementFacts
  <1> HIDE DEF new
  <1>3. QED
    BY <1>1, <1>2, OnSpares

LEMMA InkSpares ==
    ASSUME NEW e \in Eds, NEW ids \in SUBSET Ids, ids \cap Painted(e.doc) # {} => e.op # 0
    PROVE  Spares(e, On(e, ids, LAMBDA el : [el EXCEPT !.ink = 1 - @]))
  <1> DEFINE new == [i \in ids \cap Painted(e.doc) |-> [e.doc[i] EXCEPT !.ink = 1 - @]]
             w   == On(e, ids, LAMBDA el : [el EXCEPT !.ink = 1 - @])
  <1>1. w = Write(e, new)
    BY DEF On
  <1>2. ASSUME NEW i \in ids \cap Painted(e.doc)
        PROVE  new[i] \in Els /\ new[i].kind = e.doc[i].kind /\ new[i].said = e.doc[i].said
    <2>1. e.doc[i] \in Els /\ e.doc[i] # Nothing
      BY DEF Eds, Docs, Painted
    <2>2. 1 - e.doc[i].ink \in 0..1
      BY <2>1 DEF Els, Elements
    <2>3. new[i] = [e.doc[i] EXCEPT !.ink = 1 - e.doc[i].ink]
      OBVIOUS
    <2> HIDE DEF new
    <2>4. Like(new[i], e.doc[i])
      BY <2>1, <2>2, <2>3, SameWords
    <2>5. QED
      BY <2>4 DEF Like
  <1>3. new = [i \in ids \cap Painted(e.doc) |-> new[i]]
    OBVIOUS
  <1> HIDE DEF new, w
  <1>4. new \in [ids \cap Painted(e.doc) -> Els]
    BY <1>2, <1>3
  <1>5. Spares(e, Write(e, new))
    BY <1>2, <1>4, OnSpares
  <1>6. QED
    BY <1>1, <1>5 DEF w

LEMMA DroppedSpares ==
    ASSUME NEW e \in Eds, ui \in Uis, ui.editing # None => e.op # 0, NEW u
    PROVE  Spares(e, Dropped(e, u).ed)
  <1> DEFINE i    == ui.editing
             left == DiscardIfBlank(e, i)
  <1>1. Dropped(e, u).ed = left
    BY DEF Dropped
  <1>2. CASE i # None /\ Blank(e.doc[i])
    <2>1. {i} \in SUBSET Ids /\ e.op # 0
      BY <1>2 DEF Uis
    <2>2. left = RemoveElements(e, {i})
      BY <1>2 DEF DiscardIfBlank
    <2>3. Spares(e, RemoveElements(e, {i}))
      BY <2>1, RemoveSpares
    <2>4. QED
      BY <1>1, <2>2, <2>3
  <1>3. CASE ~(i # None /\ Blank(e.doc[i]))
    BY <1>1, <1>3, SparesItself DEF DiscardIfBlank
  <1>4. QED
    BY <1>2, <1>3

LEMMA BlurredSpares ==
    ASSUME NEW e \in Eds, ui \in Uis, ui.editing # None => e.op # 0, NEW u
    PROVE  Spares(e, Blurred(e, u).ed)
  <1>1. CASE screen.focus # "editor"
    BY <1>1, SparesItself DEF Blurred
  <1>2. CASE screen.focus = "editor"
    <2>1. Blurred(e, u).ed = Dropped(e, u).ed
      BY <1>2 DEF Blurred, Dropped
    <2>2. QED
      BY <2>1, DroppedSpares
  <1>3. QED
    BY <1>1, <1>2

------------------------------------------------------------------------------
(* An empty text box is being drawn or edited. *)

\* Every id has a kind, and the steps are linked.
Rooted(e)  == \E K : Firm(e, K)
Drawing(d) == d.kind = "draw" /\ d.from.kind = "text"

\* Whoever is left without words is being drawn or edited.
Owned(e, u, d) == \A i \in Ids : Blank(e.doc[i]) => i = u.editing \/ (Drawing(d) /\ i \in d.ids)

\* Until something comes between a gesture and its end.
Tidy == upset \/ (Rooted(ed) /\ Owned(ed, ui, drag))

\* What draws a box draws one.
OneDrawn == drag.kind = "draw" => \E i \in Ids : drag.ids = {i}

LEMMA SparesRooted ==
    ASSUME NEW e, NEW f, Spares(e, f)
    PROVE  /\ Rooted(e) => Rooted(f)
           /\ Filled(e.doc) => Filled(f.doc)
           /\ \A u, d : Owned(e, u, d) => Owned(f, u, d)
  <1>1. Rooted(e) => Rooted(f)
    BY DEF Rooted, Spares
  <1>2. QED
    BY <1>1, SparesBlanks DEF Filled, Owned

LEMMA FilledOwned ==
    ASSUME NEW e, Filled(e.doc), NEW u, NEW d
    PROVE  Owned(e, u, d)
  BY DEF Filled, Owned

\* With no field open, and no text box being drawn, none is empty.
LEMMA FilledElsewhere ==
    ASSUME Base, Tidy, ~upset, ~Drawing(drag), ~FieldOpen(ui, ed)
    PROVE  Rooted(ed) /\ Filled(ed.doc)
  <1>1. \A i \in Ids : Blank(ed.doc[i]) => i = ui.editing /\ i # None /\ ed.doc[i] # Nothing
    BY EditorAssumption DEF Tidy, Owned, Blank, Nothing
  <1>2. QED
    BY <1>1 DEF Tidy, FieldOpen, Filled

\* A press drops the box that is edited, if it is empty.
LEMMA PressedTidy ==
    ASSUME Base, MayBegin, ~dragging, Tidy, ~upset
    PROVE  Rooted(Pressed.ed) /\ Filled(Pressed.ed.doc)
  <1> DEFINE d == Dropped(ed, ui)
             f == Starting(d.ed)
  <1>1. Good(ed, ui, unused) /\ ui \in Uis /\ (ui.editing # None => ed.op # 0) /\ ed \in Eds
    BY DEF Base, Good
  <1>2. DropsTo(ed, ui, unused, d) /\ Spares(ed, d.ed)
    BY <1>1, DroppedFacts, DroppedSpares
  <1>3. Pressed.ed = f
    <2>1. Pressed = [d EXCEPT !.ed = f]
      BY DEF Pressed
    <2>2. PICK left, v : d = [ed |-> left, ui |-> v]
      BY DEF Dropped
    <2> HIDE DEF d, f
    <2>3. QED
      BY <2>1, <2>2
  <1> HIDE DEF d
  <1>4. d.ed \in Eds /\ d.ed.op < MaxOps
    BY <1>1, <1>2 DEF DropsTo, Good, MayBegin
  <1>5. Rooted(d.ed)
    BY <1>2, SparesRooted DEF Tidy
  <1>6. Filled(d.ed.doc)
    <2>1. SUFFICES ASSUME NEW i \in Ids, Blank(d.ed.doc[i]) PROVE FALSE
      BY DEF Filled
    <2>2. Blank(ed.doc[i])
      BY <1>2, <2>1, SparesBlanks
    <2>3. i = ui.editing
      BY <2>2 DEF Tidy, Owned, Drawing, dragging
    <2>4. ui.editing # None
      BY <2>1, <2>3, EditorAssumption
    <2>5. QED
      BY <1>2, <2>1, <2>3, <2>4 DEF DropsTo
  <1>7. f.doc = d.ed.doc
    BY <1>4, StartKeeps DEF Started
  <1>8. Rooted(f)
    BY <1>4, <1>5, <1>6, StartFirm DEF Rooted
  <1>9. QED
    BY <1>3, <1>6, <1>7, <1>8

\* No text box on the board is empty.
Clean(e) == Rooted(e) /\ Filled(e.doc)

LEMMA CleanTidy ==
    ASSUME NEW e, Clean(e), ed' = e
    PROVE  Tidy'
  BY FilledOwned DEF Tidy, Clean

LEMMA CleanSpares ==
    ASSUME NEW e, NEW f, Spares(e, f), Clean(e)
    PROVE  Clean(f)
  BY SparesRooted DEF Clean

\* What is made goes where no entry reaches.
LEMMA MadeRooted ==
    ASSUME NEW e \in Eds, e.op # 0, Rooted(e), NEW U \in SUBSET Ids, Fresh(e, U), NEW D \in SUBSET U, NEW new \in [D -> Els]
    PROVE  Rooted(Write(e, new)) /\ Write(e, new).doc = [i \in Ids |-> IF i \in D THEN new[i] ELSE e.doc[i]]
  <1>1. PICK K : Firm(e, K)
    BY DEF Rooted
  <1> DEFINE k == [i \in Ids |-> IF i \in D THEN new[i].kind ELSE K[i]]
  <1>2. \A i \in Ids : k[i] = IF i \in D THEN new[i].kind ELSE K[i]
    OBVIOUS
  <1> HIDE DEF k
  <1>3. Firm(e, k)
    <2>1. \A i \in Ids : Of(e.doc[i], k[i])
      BY <1>1, <1>2 DEF Firm, Fresh, Of
    <2>2. ASSUME NEW x \in Listed(e) PROVE Proper(x, k)
      <3>1. DOMAIN x.was \subseteq Ids \ D
        BY ListedAreSteps, PatchFacts DEF Fresh
      <3>2. Proper(x, K)
        BY <1>1 DEF Firm
      <3>3. QED
        BY <1>2, <3>1, <3>2 DEF Proper
    <2>3. QED
      BY <1>1, <2>1, <2>2 DEF Firm
  <1>4. D \in SUBSET Ids /\ \A i \in D : Of(new[i], k[i])
    BY <1>2 DEF Of
  <1>5. Firm(Write(e, new), k)
    BY <1>3, <1>4, WriteFirm
  <1>6. Write(e, new).doc = [i \in Ids |-> IF i \in D THEN new[i] ELSE e.doc[i]]
    BY <1>4, Written
  <1>7. QED
    BY <1>5, <1>6 DEF Rooted

LEMMA CreateTidy ==
    ASSUME NEW e \in Eds, e.op # 0, Clean(e), NEW U \in SUBSET Ids, Fresh(e, U), NEW i \in U, NEW el \in Els
    PROVE  /\ Rooted(Create(e, i, el)) /\ \A j \in Ids \ {i} : ~Blank(Create(e, i, el).doc[j])
           /\ ~Blank(el) => Clean(Create(e, i, el))
  <1> DEFINE new == [j \in {i} |-> el]
             w   == Write(e, new)
  <1>1. Create(e, i, el) = w
    BY DEF Create
  <1>2. new \in [{i} -> Els] /\ new[i] = el /\ {i} \in SUBSET U /\ i \in Ids
    OBVIOUS
  <1> HIDE DEF new
  <1>3. Rooted(w) /\ w.doc = [j \in Ids |-> IF j \in {i} THEN new[j] ELSE e.doc[j]]
    BY <1>2, MadeRooted DEF Clean
  <1> HIDE DEF w
  <1>4. \A j \in Ids : w.doc[j] = IF j = i THEN el ELSE e.doc[j]
    BY <1>2, <1>3
  <1>5. \A j \in Ids : ~Blank(e.doc[j])
    BY DEF Clean, Filled
  <1>6. Rooted(w) /\ (\A j \in Ids \ {i} : ~Blank(w.doc[j])) /\ (~Blank(el) => Clean(w))
    BY <1>3, <1>4, <1>5 DEF Clean, Filled
  <1>7. QED
    BY <1>1, <1>6

------------------------------------------------------------------------------
(* Presses. *)

\* Giving the canvas the focus empties nothing.
LEMMA TakesTidy ==
    ASSUME Base, NEW e \in Eds, e.op # 0, NEW u, NEW d, Takes(e, u, d), Rooted(e), \A v : Owned(e, v, d)
    PROVE  Tidy'
  <1> DEFINE b == Blurred(e, u)
  <1>1. ed' = b.ed /\ ui' = b.ui /\ drag' = d
    BY DEF Takes, Becomes
  <1>2. Spares(e, b.ed)
    BY BlurredSpares DEF Base, Good
  <1> HIDE DEF b
  <1>3. Rooted(b.ed) /\ Owned(b.ed, b.ui, d)
    BY <1>2, SparesRooted
  <1>4. QED
    BY <1>1, <1>3 DEF Tidy

LEMMA PressesTidy ==
    ASSUME Base, Tidy, ~upset, MayBegin, ~dragging
    PROVE  /\ Clean(Pressed.ed) /\ Pressed.ed \in Eds /\ Pressed.ed.op # 0 /\ Fresh(Pressed.ed, unused)
           /\ unused \in SUBSET Ids /\ \A v, d : Owned(Pressed.ed, v, d)
  <1>1. Begun
    BY PressedFacts
  <1>2. Clean(Pressed.ed)
    BY PressedTidy DEF Clean
  <1>3. \A v, d : Owned(Pressed.ed, v, d)
    BY <1>2, FilledOwned DEF Clean
  <1>4. QED
    BY <1>1, <1>2, <1>3 DEF Begun, Good

LEMMA PressWithNoteTidy ==
    ASSUME Base, Tidy, ~upset, PressWithNote
    PROVE  Tidy'
  <1>1. MayBegin /\ ~dragging /\ Takes(Pressed.ed, Pressed.ui, A("note", {}))
    BY DEF PressWithNote
  <1>2. QED
    BY <1>1, PressesTidy, TakesTidy DEF Clean

LEMMA PressEmptyTidy ==
    ASSUME Base, Tidy, ~upset, PressEmpty
    PROVE  Tidy'
  <1>1. PICK u, d : MayBegin /\ ~dragging /\ Takes(Pressed.ed, u, d)
    BY DEF PressEmpty
  <1>2. QED
    BY <1>1, PressesTidy, TakesTidy DEF Clean

LEMMA PressOnTidy ==
    ASSUME Base, Tidy, ~upset, NEW i \in Ids, PressHandle(i) \/ PressElement(i)
    PROVE  Tidy'
  <1>1. PICK u, d : MayBegin /\ ~dragging /\ Takes(Pressed.ed, u, d)
    BY DEF PressHandle, PressElement
  <1>2. QED
    BY <1>1, PressesTidy, TakesTidy DEF Clean

LEMMA PressOpensTidy ==
    ASSUME Base, Tidy, ~upset, NEW i \in Ids, PressTextOn(i) \/ DoublePress(i) \/ ShiftPress(i)
    PROVE  Tidy'
  <1>1. MayBegin /\ ~dragging /\ ed' = Pressed.ed
    BY DEF PressTextOn, DoublePress, ShiftPress, Opens, Becomes
  <1>2. QED
    BY <1>1, PressesTidy, CleanTidy

LEMMA PressToDrawTidy ==
    ASSUME Base, Tidy, ~upset, PressToDraw
    PROVE  Tidy'
  <1> DEFINE el == NewElement(IF ui.tool = "pen" THEN "path" ELSE ui.tool)
             k  == IF ui.tool = "pen" THEN "stroke" ELSE "draw"
  <1>1. MayBegin /\ ~dragging /\ ui.tool \in {"pen", "shape", "text"}
    BY DEF PressToDraw
  <1>2. PICK i \in unused, way \in IF ui.tool = "shape" THEN 0..1 ELSE {el.form} :
          Takes(Create(Pressed.ed, i, el), Pressed.ui, [A(k, {i}) EXCEPT !.from = [el EXCEPT !.form = way]])
    BY DEF PressToDraw
  <1> DEFINE line == [el EXCEPT !.form = way]
             d == [A(k, {i}) EXCEPT !.from = line]
             e == Create(Pressed.ed, i, el)
  <1>3. el \in Els /\ el # Nothing /\ (Blank(el) => el.kind = "text" /\ k = "draw")
    BY <1>1, NewElementFacts DEF NewElement, Nothing, Blank
  <1>4. i \in Ids
    BY DEF Base, Good
  <1>5. d.kind = k /\ d.ids = {i} /\ d.from.kind = el.kind
    <2>1. k \in {"stroke", "draw"} /\ {i} \in SUBSET Ids /\ {i} # {}
      BY <1>4
    <2>2. line \in Els
      BY <1>3, FormedFacts
    <2> HIDE DEF k, el, line
    <2>3. Begins(d, k, {i}, line, 0)
      BY <2>1, <2>2, DragFacts
    <2>4. line.kind = el.kind
      BY <1>3, FormedFacts DEF line
    <2> HIDE DEF d
    <2>5. QED
      BY <2>3, <2>4 DEF Begins
  <1>6. /\ Clean(Pressed.ed) /\ Pressed.ed \in Eds /\ Pressed.ed.op # 0 /\ Fresh(Pressed.ed, unused)
        /\ unused \in SUBSET Ids
    BY <1>1, PressesTidy
  <1> HIDE DEF el, d, k
  <1>7. /\ Rooted(e) /\ \A j \in Ids \ {i} : ~Blank(e.doc[j])
        /\ ~Blank(el) => Clean(e)
    BY <1>3, <1>6, CreateTidy
  <1>8. e \in Eds /\ e.op # 0
    <2>1. Added(Pressed.ed, e, {i})
      BY <1>3, <1>4, <1>6, CreateAdds
    <2> HIDE DEF e
    <2>2. QED
      BY <1>6, <2>1 DEF Added
  <1>9. Takes(e, Pressed.ui, d)
    BY <1>2 DEF d, k, el
  <1> HIDE DEF e
  <1>10. ASSUME NEW v PROVE Owned(e, v, d)
    <2>1. CASE Blank(el)
      BY <1>3, <1>5, <1>7, <2>1 DEF Owned, Drawing
    <2>2. CASE ~Blank(el)
      BY <1>7, <2>2, FilledOwned DEF Clean
    <2>3. QED
      BY <2>1, <2>2
  <1>11. QED
    BY <1>7, <1>8, <1>9, <1>10, TakesTidy

------------------------------------------------------------------------------
(* Drags. *)

LEMMA FlushedSpares ==
    ASSUME Base, dragging, NEW d \in Drags, Measured(d), d.kind = drag.kind
    PROVE  Spares(ed, Flushed(d).ed)
  <1> DEFINE n == Round(residue(d))
  <1>1. ed \in Eds /\ ed.op # 0
    BY DEF Base, Good
  <1>2. /\ d.total \in Int /\ d.flushed \in Int /\ d.ids \in SUBSET Ids /\ d.from \in Els /\ n \in Int
    <2>1. d.total \in Int /\ d.flushed \in Int /\ d.ids \in SUBSET Ids /\ d.from \in Els
      BY DEF Drags
    <2>2. n \in Int
      BY <2>1 DEF residue, Round
    <2>3. QED
      BY <2>1, <2>2
  <1>3. CASE d.kind = "move" /\ n # 0
    <2>1. Flushed(d).ed = MoveBy(ed, d.ids, n)
      BY <1>3 DEF Flushed
    <2> HIDE DEF n
    <2>2. Spares(ed, MoveBy(ed, d.ids, n))
      BY <1>1, <1>2, MoveBySpares
    <2>3. QED
      BY <2>1, <2>2
  <1>4. CASE d.kind \in {"resize", "draw"}
    <2>1. Flushed(d).ed = Resize(ed, d.ids, d.from, d.total)
      BY <1>4 DEF Flushed
    <2>2. d.total \in Nat
      BY <1>4 DEF Measured
    <2>3. Spares(ed, Resize(ed, d.ids, d.from, d.total))
      BY <1>1, <1>2, <2>2, ResizeSpares
    <2>4. QED
      BY <2>1, <2>3
  <1>5. CASE d.kind = "stroke"
    <2> DEFINE m == d.total - d.flushed
    <2>1. Flushed(d).ed = AppendPoints(ed, d.ids, m)
      BY <1>5 DEF Flushed
    <2>2. m \in Nat
      BY <1>5 DEF Measured
    <2> HIDE DEF m
    <2>3. Spares(ed, AppendPoints(ed, d.ids, m))
      BY <1>1, <1>2, <2>2, AppendSpares
    <2>4. QED
      BY <2>1, <2>3
  <1>6. CASE ~(d.kind = "move" /\ n # 0) /\ d.kind \notin {"resize", "draw", "stroke"}
    <2>1. Flushed(d).ed = ed
      BY <1>6 DEF Flushed
    <2>2. QED
      BY <2>1, SparesItself
  <1>7. QED
    BY <1>3, <1>4, <1>5, <1>6

LEMMA FlushTidy ==
    ASSUME Base, Tidy, ~upset, Flush
    PROVE  Tidy'
  <1> DEFINE f == Flushed(drag)
  <1>1. ed' = f.ed /\ drag' = f.drag /\ ui' = ui
    BY DEF Flush
  <1>2. Flushes(drag, f)
    BY FlushedFacts DEF Base, Types
  <1>3. Spares(ed, f.ed)
    <2>1. CASE dragging
      BY <2>1, FlushedSpares DEF Base, Types
    <2>2. CASE ~dragging
      <3>1. f.ed = ed
        BY <1>2, <2>2 DEF Flushes, dragging
      <3>2. QED
        BY <3>1, SparesItself
    <2>3. QED
      BY <2>1, <2>2
  <1> HIDE DEF f
  <1>4. Rooted(f.ed) /\ Owned(f.ed, ui, drag)
    BY <1>3, SparesRooted DEF Tidy
  <1>5. f.drag.kind = drag.kind /\ f.drag.ids = drag.ids /\ f.drag.from = drag.from
    BY <1>2 DEF Flushes
  <1>6. Owned(f.ed, ui, f.drag)
    BY <1>4, <1>5 DEF Owned, Drawing
  <1>7. QED
    BY <1>1, <1>4, <1>6 DEF Tidy

LEMMA PaintsTidy ==
    ASSUME Base, Tidy, ~upset, DragTo \/ Frame \/ LateFrame
    PROVE  Tidy'
  <1>1. ed' = ed /\ ui' = ui /\ drag'.kind = drag.kind /\ drag'.ids = drag.ids /\ drag'.from = drag.from
    <2>1. drag \in Drags
      BY DEF Base, Types
    <2>2. \A n : LET d == Moved(drag, n) IN d.kind = drag.kind /\ d.ids = drag.ids /\ d.from = drag.from
      BY <2>1 DEF Drags, Moved
    <2>3. CASE DragTo
      <3>1. UNCHANGED <<ed, ui>> /\ \/ \E n : drag' = Moved(drag, n)
                                    \/ drag' = [drag EXCEPT !.total = 1, !.frame = TRUE]
        BY <2>3 DEF DragTo
      <3>2. QED
        BY <2>1, <2>2, <3>1 DEF Drags
    <2>4. CASE Frame
      BY <2>1, <2>4 DEF Frame, Drags
    <2>5. CASE LateFrame
      BY <2>5 DEF LateFrame
    <2>6. QED
      BY <2>3, <2>4, <2>5
  <1>2. Owned(ed', ui', drag')
    BY <1>1 DEF Tidy, Owned, Drawing
  <1>3. QED
    BY <1>1, <1>2 DEF Tidy

\* Nobody types while he drags, so what is empty is being drawn.
LEMMA DraggedClean ==
    ASSUME Base, Steadfast, Tidy, ~upset, dragging
    PROVE  /\ ~Drawing(drag) => Clean(ed)
           /\ Rooted(ed) /\ \A i \in Ids : Blank(ed.doc[i]) => i \in drag.ids
  <1>1. ~FieldOpen(ui, ed)
    BY DEF Steadfast
  <1>2. ~Drawing(drag) => Clean(ed)
    BY <1>1, FilledElsewhere DEF Clean
  <1>3. Rooted(ed)
    BY DEF Tidy
  <1>4. ASSUME NEW i \in Ids, Blank(ed.doc[i]) PROVE i \in drag.ids
    BY <1>1, <1>4, EditorAssumption DEF FieldOpen, Tidy, Owned, Blank, Nothing
  <1>5. QED
    BY <1>2, <1>3, <1>4

LEMMA EndDragTidy ==
    ASSUME Base, Steadfast, Tidy, OneDrawn, ~upset, EndDrag
    PROVE  Tidy'
  <1> DEFINE done  == Final(drag)
             i     == CHOOSE j \in drag.ids : TRUE
             n     == IF drag.total = 0 THEN DefaultSize ELSE drag.total
             box   == IF drag.total = 0 THEN BboxOf(drag.from) ELSE drag.from
             sized == Resize(ed, drag.ids, box, n)
             made  == Created(ui, i)
  <1>1. dragging /\ drag \in Drags /\ Measured(drag) /\ ed \in Eds /\ ed.op # 0
    BY DEF EndDrag, Base, Types, Good
  <1>2. Spares(ed, done.ed)
    <2> DEFINE d == [drag EXCEPT !.frame = FALSE]
    <2>1. d \in Drags /\ Measured(d) /\ d.kind = drag.kind
      BY <1>1 DEF Drags, Measured
    <2> HIDE DEF d
    <2>2. Spares(ed, Flushed(d).ed)
      BY <1>1, <2>1, FlushedSpares
    <2>3. QED
      BY <2>2 DEF Final, d
  <1>3. ~Drawing(drag) => Clean(ed)
    BY <1>1, DraggedClean
  <1>4. CASE drag.kind \in {"move", "resize", "stroke"}
    <2>1. ed' = done.ed
      BY <1>4 DEF EndDrag, Clears
    <2> HIDE DEF done
    <2>2. Clean(done.ed)
      BY <1>2, <1>3, <1>4, CleanSpares DEF Drawing
    <2>3. QED
      BY <2>1, <2>2, CleanTidy
  <1>5. CASE drag.kind = "marquee"
    <2>1. ed' = ed
      BY <1>5 DEF EndDrag, Clears
    <2>2. QED
      BY <1>3, <1>5, <2>1, CleanTidy DEF Drawing
  <1>6. CASE drag.kind = "draw"
    <2>1. Clears(drag, sized, IF drag.from.kind = "text" THEN Edit(made, i) ELSE made)
      BY <1>6 DEF EndDrag
    <2>2. Spares(ed, sized)
      <3>1. drag.ids \in SUBSET Ids /\ box \in Els /\ n \in Nat
        BY <1>1, <1>6, EditorAssumption, BboxPlaces DEF Drags, Measured
      <3> HIDE DEF n, box
      <3>2. QED
        BY <1>1, <3>1, ResizeSpares
    <2>3. ed' = sized
      BY <2>1 DEF Clears
    <2>4. PICK k \in Ids : drag.ids = {k}
      BY <1>6 DEF OneDrawn
    <2>5. i = k
      BY <2>4
    <2> HIDE DEF sized, i
    <2>6. CASE drag.from.kind = "text"
      <3>1. ui'.editing = k /\ drag' = NoDrag
        <4>1. ui' = Edit(made, k) /\ drag' = NoDrag
          BY <2>1, <2>5, <2>6 DEF Clears
        <4>2. Edit(made, k).editing = k
          BY <2>4, CreatedFacts, <2>5 DEF Base, Good
        <4>3. QED
          BY <4>1, <4>2
      <3>2. Rooted(sized) /\ \A j \in Ids : Blank(sized.doc[j]) => j = k
        BY <1>1, <2>2, <2>4, DraggedClean, SparesRooted, SparesBlanks
      <3>3. QED
        BY <2>3, <3>1, <3>2 DEF Tidy, Owned
    <2>7. CASE drag.from.kind # "text"
      <3>1. Clean(sized)
        BY <1>3, <2>2, <2>7, CleanSpares DEF Drawing
      <3>2. QED
        BY <2>3, <3>1, CleanTidy
    <2>8. QED
      BY <2>6, <2>7
  <1>7. QED
    BY <1>1, <1>4, <1>5, <1>6 DEF EndDrag, Drags, dragging

LEMMA EndNoteTidy ==
    ASSUME Base, Steadfast, Tidy, ~upset, EndNote
    PROVE  Tidy'
  <1>1. dragging /\ drag.kind = "note"
    BY DEF EndNote, dragging
  <1>2. PICK i \in unused : ed' = Create(ed, i, NewElement("note"))
    BY DEF EndNote, Clears
  <1>3. /\ ed \in Eds /\ ed.op # 0 /\ unused \in SUBSET Ids /\ Fresh(ed, unused)
    BY <1>1 DEF Base, Good
  <1>4. NewElement("note") \in Els /\ ~Blank(NewElement("note"))
    BY NewElementFacts DEF NewElement, Nothing, Blank
  <1>5. Clean(ed)
    BY <1>1, DraggedClean DEF Drawing
  <1>6. Clean(Create(ed, i, NewElement("note")))
    BY <1>3, <1>4, <1>5, CreateTidy
  <1>7. QED
    BY <1>2, <1>6, CleanTidy

LEMMA CancelDragTidy ==
    ASSUME Base, Steadfast, Tidy, ~upset, CancelDrag
    PROVE  Tidy'
  <1>1. dragging /\ drag \in Drags /\ Measured(drag) /\ ed \in Eds /\ ed.op # 0
    BY DEF CancelDrag, Base, Types, Good
  <1>2. drag.ids \in SUBSET Ids /\ drag.from \in Els /\ drag.from.size \in Nat /\ -drag.flushed \in Int
    BY <1>1 DEF Drags, Els, Elements
  <1>3. ~Drawing(drag) => Clean(ed)
    BY <1>1, DraggedClean
  <1>4. CASE drag.kind = "move"
    <2> DEFINE n == -drag.flushed
    <2>1. ed' = MoveBy(ed, drag.ids, n)
      BY <1>4 DEF CancelDrag, Clears
    <2> HIDE DEF n
    <2>2. Spares(ed, MoveBy(ed, drag.ids, n))
      BY <1>1, <1>2, MoveBySpares DEF n
    <2>3. QED
      BY <1>3, <1>4, <2>1, <2>2, CleanSpares, CleanTidy DEF Drawing
  <1>5. CASE drag.kind = "resize"
    <2>1. ed' = Resize(ed, drag.ids, drag.from, drag.from.size)
      BY <1>5 DEF CancelDrag, Clears
    <2>2. Spares(ed, Resize(ed, drag.ids, drag.from, drag.from.size))
      BY <1>1, <1>2, ResizeSpares
    <2>3. QED
      BY <1>3, <1>5, <2>1, <2>2, CleanSpares, CleanTidy DEF Drawing
  <1>6. CASE drag.kind \in {"draw", "stroke"}
    <2> DEFINE f == RemoveElements(ed, drag.ids)
    <2>1. ed' = f
      BY <1>6 DEF CancelDrag, Clears
    <2>2. Spares(ed, f) /\ \A j \in drag.ids : f.doc[j] = Nothing
      BY <1>1, <1>2, RemoveSpares, RemoveKeeps
    <2> HIDE DEF f
    <2>3. ASSUME NEW j \in Ids, Blank(f.doc[j]) PROVE FALSE
      <3>1. Blank(ed.doc[j])
        BY <2>2, <2>3, SparesBlanks
      <3>2. j \in drag.ids
        BY <1>1, <3>1, DraggedClean
      <3>3. QED
        BY <2>2, <2>3, <3>2 DEF Blank, Nothing
    <2>4. Clean(f)
      BY <1>1, <2>2, <2>3, DraggedClean, SparesRooted DEF Clean, Filled
    <2>5. QED
      BY <2>1, <2>4, CleanTidy
  <1>7. CASE drag.kind \notin {"move", "resize", "draw", "stroke"}
    <2>1. ed' = ed
      BY <1>7 DEF CancelDrag, Clears
    <2>2. QED
      BY <1>3, <1>7, <2>1, CleanTidy DEF Drawing
  <1>8. QED
    BY <1>4, <1>5, <1>6, <1>7

------------------------------------------------------------------------------
(* The field, keys, clicks and peers. *)

LEMMA FieldTidy ==
    ASSUME Base, Tidy, ~upset, screen.focus = "editor", Opened \/ Type \/ Erase
    PROVE  Tidy'
  <1> DEFINE i  == ui.editing
             el == ed.doc[i]
  <1>1. PICK said, n : /\ ed' = Write(ed, [j \in {i} |-> [el EXCEPT !.said = said, !.size = n]])
                       /\ said \in SUBSET {"me", "peer"} /\ n \in {el.size} \cup {m \in Sizes : m > el.size}
    <2>1. ed.doc[i].said \in SUBSET {"me", "peer"}
      BY DEF Base, Good, FieldOpen, Uis, Eds, Docs, Els, Elements
    <2>2. PICK said \in SUBSET {"me", "peer"} : Fits(said)
      BY <2>1 DEF Opened, Type, Erase
    <2>3. QED
      BY <2>2 DEF Fits
  <1>2. ui' = ui /\ drag' = drag
    BY DEF Opened, Type, Erase, Fits
  <1>3. ed \in Eds /\ i \in Ids /\ ed.op # 0 /\ ed.doc[i] # Nothing
    BY DEF Base, Good, FieldOpen, Uis
  <1>4. el \in Els /\ el # Nothing
    BY <1>3 DEF Eds, Docs
  <1> HIDE DEF i, el
  <1> DEFINE to  == [el EXCEPT !.said = said, !.size = n]
             new == [j \in {i} |-> to]
  <1>5. to \in Els /\ to.kind = el.kind
    <2>1. n \in Nat
      BY <1>1, <1>4, EditorAssumption DEF Els, Elements
    <2> DEFINE mid == [el EXCEPT !.said = said]
    <2>2. mid \in Els /\ mid # Nothing
      BY <1>1, <1>4, ElementFacts
    <2>3. mid.kind = el.kind
      BY <1>4 DEF Els, Elements
    <2>4. to = [mid EXCEPT !.size = n]
      BY <1>4 DEF Els, Elements
    <2> HIDE DEF mid, to
    <2>5. Like(to, mid)
      BY <2>1, <2>2, <2>4, SameWords
    <2>6. QED
      BY <2>3, <2>5 DEF Like
  <1> HIDE DEF to
  <1>6. new \in [{i} -> Els] /\ new[i] = to /\ {i} \in SUBSET Ids
    BY <1>3, <1>5
  <1>7. ed' = Write(ed, new)
    BY <1>1 DEF to
  <1> HIDE DEF new
  <1>8. PICK K : Firm(ed, K)
    BY DEF Tidy, Rooted
  <1>9. Of(to, K[i])
    BY <1>3, <1>4, <1>5, <1>8 DEF Firm, Of, el
  <1>10. Firm(Write(ed, new), K)
    BY <1>3, <1>6, <1>8, <1>9, WriteFirm
  <1>11. Write(ed, new).doc = [j \in Ids |-> IF j \in {i} THEN new[j] ELSE ed.doc[j]]
    BY <1>3, <1>6, Written
  <1>12. ASSUME NEW j \in Ids, Blank(ed'.doc[j]) PROVE j = ui.editing \/ (Drawing(drag) /\ j \in drag.ids)
    <2>1. j # i => ed'.doc[j] = ed.doc[j]
      BY <1>7, <1>11
    <2>2. QED
      BY <1>12, <2>1 DEF Tidy, Owned, i
  <1>13. QED
    BY <1>2, <1>7, <1>10, <1>12 DEF Tidy, Rooted, Owned

\* The box that is edited goes with its field, if it is empty.
LEMMA LeftClean ==
    ASSUME Base, Tidy, ~upset, ~Drawing(drag)
    PROVE  Clean(Blurred(ed, ui).ed)
  <1> DEFINE b == Blurred(ed, ui)
  <1>1. Good(ed, ui, unused) /\ ui \in Uis /\ (ui.editing # None => ed.op # 0) /\ ed \in Eds
    BY DEF Base, Good
  <1>2. CASE screen.focus # "editor"
    <2>1. b.ed = ed
      BY <1>2 DEF Blurred
    <2>2. ~FieldOpen(ui, ed)
      BY <1>2 DEF Base
    <2>3. QED
      BY <2>1, <2>2, FilledElsewhere DEF Clean
  <1>3. CASE screen.focus = "editor"
    <2> DEFINE d == Dropped(ed, ui)
    <2>1. b.ed = d.ed
      BY <1>3 DEF Blurred, Dropped
    <2>2. DropsTo(ed, ui, unused, d) /\ Spares(ed, d.ed)
      BY <1>1, DroppedFacts, DroppedSpares
    <2> HIDE DEF d, b
    <2>3. Rooted(d.ed)
      BY <2>2, SparesRooted DEF Tidy
    <2>4. ASSUME NEW i \in Ids, Blank(d.ed.doc[i]) PROVE FALSE
      <3>1. Blank(ed.doc[i])
        BY <2>2, <2>4, SparesBlanks
      <3>2. i = ui.editing /\ ui.editing # None
        BY <3>1, EditorAssumption DEF Tidy, Owned
      <3>3. QED
        BY <2>2, <2>4, <3>2 DEF DropsTo
    <2>5. Clean(d.ed)
      BY <2>3, <2>4 DEF Clean, Filled
    <2>6. QED
      BY <2>1, <2>5 DEF b
  <1>4. QED
    BY <1>2, <1>3

LEMMA EndEditTidy ==
    ASSUME Base, Steadfast, Tidy, ~upset, EndEdit
    PROVE  Tidy'
  <1>1. ed' = Blurred(ed, ui).ed
    BY DEF EndEdit, Becomes
  <1>2. ~Drawing(drag)
    BY DEF EndEdit, Base, Steadfast, Drawing, dragging
  <1>3. QED
    BY <1>1, <1>2, LeftClean, CleanTidy

LEMMA ClickToolTidy ==
    ASSUME Base, Tidy, ~upset, NEW t \in Tools, ClickTool(t)
    PROVE  Tidy'
  <1>1. ed' = Blurred(ed, ui).ed /\ ~Drawing(drag)
    BY DEF ClickTool, Becomes, dragging, Drawing
  <1>2. QED
    BY <1>1, LeftClean, CleanTidy

LEMMA ClickStyleTidy ==
    ASSUME Base, Tidy, ~upset, ClickStyle
    PROVE  Tidy'
  <1> DEFINE b == Blurred(ed, ui)
             e == Starting(b.ed)
             S == b.ui.selection
             g == On(e, S, LAMBDA el : [el EXCEPT !.ink = 1 - @])
  <1>1. MayBegin /\ ~Drawing(drag) /\ ed' = IF S = {} THEN b.ed ELSE g
    BY DEF ClickStyle, Becomes, dragging, Drawing
  <1>2. BlursTo(ed, ui, unused, b) /\ Clean(b.ed)
    BY <1>1, LeavesTo, LeftClean
  <1> HIDE DEF b
  <1>3. b.ed \in Eds /\ b.ed.op = ed.op /\ S \in SUBSET Ids
    BY <1>2 DEF BlursTo, Good, Uis
  <1>4. Started(b.ed, e)
    BY <1>1, <1>3, StartKeeps DEF MayBegin
  <1>5. Clean(e)
    <2>1. Rooted(e)
      BY <1>1, <1>2, <1>3, StartFirm DEF Clean, Rooted, MayBegin
    <2>2. QED
      BY <1>2, <1>4, <2>1 DEF Clean, Started
  <1> HIDE DEF e, S
  <1>6. Spares(e, g)
    BY <1>3, <1>4, InkSpares DEF Started
  <1> HIDE DEF g
  <1>7. QED
    BY <1>1, <1>2, <1>5, <1>6, CleanSpares, CleanTidy

LEMMA HeardTidy ==
    ASSUME Base, Tidy, ~upset, NEW e, NEW u, NEW run, Heard(e, u, run), ~dragging /\ Clean(ed) => Clean(e)
    PROVE  Tidy'
  <1>1. ed' = e /\ upset' = (upset \/ dragging)
    BY DEF Heard, Becomes
  <1>2. CASE dragging
    BY <1>1, <1>2 DEF Tidy
  <1>3. CASE ~dragging
    <2>1. Clean(ed)
      BY <1>3, HeardOpen, FilledElsewhere DEF Drawing, dragging, Clean
    <2>2. QED
      BY <1>1, <1>3, <2>1, CleanTidy
  <1>4. QED
    BY <1>2, <1>3

LEMMA AnewClean ==
    ASSUME Base, MayBegin, Clean(ed)
    PROVE  Clean(Anew) /\ Anew \in Eds /\ Anew.op # 0 /\ Anew.doc = ed.doc /\ Fresh(Anew, unused)
  <1>1. ed \in Eds /\ ed.op < MaxOps /\ Fresh(ed, unused) /\ unused \in SUBSET Ids
    BY DEF Base, Good, MayBegin
  <1>2. Started(ed, Anew)
    BY <1>1, StartKeeps DEF Anew
  <1>3. Rooted(Anew)
    BY <1>1, StartFirm DEF Clean, Rooted, Anew
  <1>4. QED
    BY <1>1, <1>2, <1>3 DEF Started, Clean

LEMMA KeyUndoTidy ==
    ASSUME Base, Tidy, ~upset, KeyUndo \/ KeyRedo
    PROVE  Tidy'
  <1>1. PICK f : Heard(f, ui, burst) /\ \E over \in BOOLEAN : f = Undone(ed, over) \/ f = Redone(ed, over)
    BY DEF KeyUndo, KeyRedo
  <1>2. Clean(ed) => Clean(f)
    BY <1>1, UndoFirm DEF Clean, Rooted, Base, Good
  <1>3. QED
    BY <1>1, <1>2, HeardTidy

LEMMA KeyDeleteTidy ==
    ASSUME Base, Tidy, ~upset, KeyDelete
    PROVE  Tidy'
  <1>1. MayBegin /\ Heard(RemoveElements(Anew, ui.selection), Forgotten(ui, ui.selection), FALSE)
    BY DEF KeyDelete
  <1>2. ASSUME Clean(ed) PROVE Clean(RemoveElements(Anew, ui.selection))
    BY <1>1, <1>2, AnewClean, RemoveSpares, CleanSpares DEF Base, Good, Uis
  <1>3. QED
    BY <1>1, <1>2, HeardTidy

LEMMA KeyNudgeTidy ==
    ASSUME Base, Tidy, ~upset, KeyNudge
    PROVE  Tidy'
  <1>1. ui.selection \in SUBSET Ids /\ ed \in Eds /\ 1 \in Int
    BY DEF Base, Good, Uis
  <1>2. CASE burst /\ Heard(MoveBy(ed, ui.selection, 1), ui, FALSE)
    <2>1. ASSUME Clean(ed) PROVE Clean(MoveBy(ed, ui.selection, 1))
      BY <1>1, <1>2, <2>1, MoveBySpares, CleanSpares DEF Base
    <2>2. QED
      BY <1>2, <2>1, HeardTidy
  <1>3. CASE MayBegin /\ Heard(MoveBy(Anew, ui.selection, 1), ui, TRUE)
    <2>1. ASSUME Clean(ed) PROVE Clean(MoveBy(Anew, ui.selection, 1))
      BY <1>1, <1>3, <2>1, AnewClean, MoveBySpares, CleanSpares
    <2>2. QED
      BY <1>3, <2>1, HeardTidy
  <1>4. QED
    BY <1>2, <1>3 DEF KeyNudge

LEMMA KeyCopiesTidy ==
    ASSUME Base, Tidy, ~upset, KeyCopies
    PROVE  Tidy'
  <1> DEFINE from == ui.selection \cap Painted(ed.doc)
  <1>1. PICK to \in SUBSET unused : \E pair \in [to -> from] : \E u :
          MayBegin /\ Heard(Write(Anew, [i \in to |-> Copied(ed.doc[pair[i]])]), u, FALSE)
    BY DEF KeyCopies, kSubset
  <1>2. PICK pair \in [to -> from] : \E u :
          MayBegin /\ Heard(Write(Anew, [i \in to |-> Copied(ed.doc[pair[i]])]), u, FALSE)
    BY <1>1
  <1>3. PICK u : MayBegin /\ Heard(Write(Anew, [i \in to |-> Copied(ed.doc[pair[i]])]), u, FALSE)
    BY <1>2
  <1> DEFINE new == [i \in to |-> Copied(ed.doc[pair[i]])]
  <1>4. ASSUME NEW i \in to
        PROVE  Copied(ed.doc[pair[i]]) \in Els /\ (Filled(ed.doc) => ~Blank(Copied(ed.doc[pair[i]])))
    <2>1. pair[i] \in Ids /\ ed.doc[pair[i]] # Nothing
      BY DEF Base, Good, Uis, Painted
    <2>2. ed.doc[pair[i]] \in Els
      BY <2>1 DEF Base, Good, Eds, Docs
    <2> DEFINE el == ed.doc[pair[i]]
    <2>3. Filled(ed.doc) => ~Blank(el)
      BY <2>1 DEF Filled
    <2> HIDE DEF el
    <2>4. el \in Els /\ el # Nothing
      BY <2>1, <2>2 DEF el
    <2>5. ~Blank(el) => ~Blank(Copied(el))
      BY <2>4 DEF Els, Elements, Copied, Blank
    <2>6. Copied(el) \in Els
      BY <2>4, CopiedFacts
    <2>7. QED
      BY <2>3, <2>5, <2>6 DEF el
  <1>5. new \in [to -> Els] /\ (Filled(ed.doc) => \A i \in to : ~Blank(new[i]))
    BY <1>4
  <1>6. MayBegin /\ Heard(Write(Anew, new), u, FALSE)
    BY <1>3
  <1> HIDE DEF new, from
  <1>7. ASSUME Clean(ed) PROVE Clean(Write(Anew, new))
    <2>1. Clean(Anew) /\ Anew \in Eds /\ Anew.op # 0 /\ Anew.doc = ed.doc /\ Fresh(Anew, unused)
      BY <1>6, <1>7, AnewClean
    <2>2. unused \in SUBSET Ids
      BY DEF Base, Good
    <2> DEFINE w == Write(Anew, new)
    <2>3. Rooted(w) /\ w.doc = [i \in Ids |-> IF i \in to THEN new[i] ELSE Anew.doc[i]]
      BY <1>5, <2>1, <2>2, MadeRooted DEF Clean
    <2> HIDE DEF w
    <2>4. Filled(w.doc)
      BY <1>5, <1>7, <2>1, <2>3 DEF Clean, Filled
    <2>5. Clean(w)
      BY <2>3, <2>4 DEF Clean
    <2>6. QED
      BY <2>5 DEF w
  <1>8. QED
    BY <1>6, <1>7, HeardTidy

LEMMA KeyElsewhereTidy ==
    ASSUME Base, Tidy, ~upset, KeySelectAll \/ KeyEscape \/ \E t \in Tools : KeyTool(t)
    PROVE  Tidy'
  <1>1. PICK u, run : Heard(ed, u, run)
    BY DEF KeySelectAll, KeyEscape, KeyTool
  <1>2. QED
    BY <1>1, HeardTidy

LEMMA KeyEnterTidy ==
    ASSUME Base, Tidy, ~upset, KeyEnter
    PROVE  Tidy'
  <1>1. PICK i \in Ids : MayBegin /\ Heard(Anew, Edit(ui, i), FALSE)
    BY DEF KeyEnter
  <1>2. QED
    BY <1>1, AnewClean, HeardTidy

LEMMA PeerTidy ==
    ASSUME Base, Tidy, ~upset, NEW i \in Ids, PeerMoves(i) \/ PeerWrites(i) \/ PeerDeletes(i)
    PROVE  Tidy'
  <1>1. PICK K : Firm(ed, K)
    BY DEF Tidy, Rooted
  <1>2. ed \in Eds /\ ed.doc[i] \in Els /\ ed.doc[i] # Nothing /\ Nothing \in Els
    BY ElementFacts DEF Base, Good, Eds, Docs, PeerMoves, PeerWrites, PeerDeletes, Peer
  <1>3. PICK el \in Els : /\ ed' = OneSet(ed, i, el) /\ UNCHANGED <<ui, drag>>
                          /\ el = Nothing \/ (el.kind = ed.doc[i].kind /\ ed.doc[i].said \subseteq el.said)
    <2>1. CASE PeerMoves(i)
      <3> DEFINE to == [ed.doc[i] EXCEPT !.at = 9]
      <3>1. ed' = OneSet(ed, i, to) /\ UNCHANGED <<ui, drag>>
        BY <2>1 DEF PeerMoves, Peer, OneSet
      <3>2. to \in Els
        BY <1>2, PeerElements
      <3>3. to.kind = ed.doc[i].kind /\ to.said = ed.doc[i].said
        BY <1>2 DEF Els, Elements
      <3> HIDE DEF to
      <3>4. QED
        BY <3>1, <3>2, <3>3
    <2>2. CASE PeerWrites(i)
      <3> DEFINE to == [ed.doc[i] EXCEPT !.said = @ \cup {"peer"}]
      <3>1. ed' = OneSet(ed, i, to) /\ UNCHANGED <<ui, drag>>
        BY <2>2 DEF PeerWrites, Peer, OneSet
      <3>2. to \in Els
        BY <1>2, PeerElements
      <3>3. to.kind = ed.doc[i].kind /\ ed.doc[i].said \subseteq to.said
        BY <1>2 DEF Els, Elements
      <3> HIDE DEF to
      <3>4. QED
        BY <3>1, <3>2, <3>3
    <2>3. CASE PeerDeletes(i)
      BY <1>2, <2>3 DEF PeerDeletes, Peer, OneSet
    <2>4. QED
      BY <2>1, <2>2, <2>3
  <1> DEFINE f == OneSet(ed, i, el)
  <1>4. /\ f \in Eds /\ f.undo = ed.undo /\ f.redo = ed.redo /\ f.open = ed.open
        /\ f.doc = [ed.doc EXCEPT ![i] = el]
    BY <1>2, OneIsSet
  <1>5. Of(el, K[i])
    BY <1>1, <1>2, <1>3 DEF Firm, Of
  <1> HIDE DEF f
  <1>6. Firm(f, K) /\ \A j \in Ids : Blank(f.doc[j]) => Blank(ed.doc[j])
    BY <1>1, <1>2, <1>3, <1>4, <1>5, PeerFirm
  <1>7. Owned(f, ui, drag)
    BY <1>6 DEF Tidy, Owned
  <1>8. ed' = f /\ ui' = ui /\ drag' = drag
    BY <1>3 DEF f
  <1>9. QED
    BY <1>6, <1>7, <1>8 DEF Tidy, Rooted

------------------------------------------------------------------------------
(* What is on show, and what is not written yet. *)

\* What a late frame sets is a displacement, of a move that is over.
Paints ==
    /\ drag.orphan => drag.kind = "move"
    /\ \A p \in screen.late : p[1] = "shift"
    /\ \A p \in screen.painted : p[1] = "marquee" => p[2] = None

\* What is on show belongs to the drag under way, and only a move leaves more.
Showing == Paints /\ PreviewsEnd

\* A step that leaves the drag and what is painted alone.
Aloof == drag' = drag /\ screen'.painted = screen.painted /\ screen'.late = screen.late

\* A press that hands over a drag.
HandsOver ==
    /\ ~dragging /\ ~drag'.orphan /\ screen'.painted = screen.painted /\ screen'.late = screen.late
    /\ OneDrawn' /\ PendingIsScheduled'

LEMMA AloofShows ==
    ASSUME Showing, OneDrawn, Aloof
    PROVE  Showing' /\ OneDrawn'
  BY DEF Showing, Paints, PreviewsEnd, OneDrawn, Aloof

LEMMA AloofPending ==
    ASSUME PendingIsScheduled, Aloof, upset' \/ ~dragging
    PROVE  PendingIsScheduled'
  BY DEF PendingIsScheduled, Aloof, dragging, residue

LEMMA HandsOverShows ==
    ASSUME Showing, HandsOver
    PROVE  Showing'
  BY DEF Showing, Paints, PreviewsEnd, HandsOver, dragging

LEMMA BecomesAloof ==
    ASSUME Base, NEW e, NEW u, NEW f, Becomes(e, u, f)
    PROVE  screen'.painted = screen.painted /\ screen'.late = screen.late
  BY DEF Base, Types, Screens, Becomes

LEMMA HeardAloof ==
    ASSUME Base, NEW e, NEW u, NEW run, Heard(e, u, run)
    PROVE  Aloof /\ (upset' \/ ~dragging)
  BY BecomesAloof DEF Heard, Aloof

LEMMA KeyAloof ==
    ASSUME Base, \/ KeyUndo \/ KeyRedo \/ KeyDelete \/ KeyNudge \/ KeyCopies \/ KeySelectAll \/ KeyEscape \/ KeyEnter
                 \/ \E t \in Tools : KeyTool(t)
    PROVE  Aloof /\ (upset' \/ ~dragging)
  <1>1. PICK e, u, run : Heard(e, u, run)
    BY DEF KeyUndo, KeyRedo, KeyDelete, KeyNudge, KeyCopies, KeySelectAll, KeyEscape, KeyEnter, KeyTool
  <1>2. QED
    BY <1>1, HeardAloof

LEMMA ClickAloof ==
    ASSUME Base, ClickStyle \/ \E t \in Tools : ClickTool(t)
    PROVE  Aloof /\ (upset' \/ ~dragging)
  <1>1. PICK e, u, f : Becomes(e, u, f) /\ drag' = drag /\ ~dragging
    BY DEF ClickStyle, ClickTool
  <1>2. QED
    BY <1>1, BecomesAloof DEF Aloof

LEMMA FieldAloof ==
    ASSUME Base, Steadfast, Field
    PROVE  Aloof /\ (upset' \/ ~dragging)
  <1>1. screen.focus = "editor" /\ upset' = upset
    BY DEF Field, Opened, Type, Erase, EndEdit, Fits, Quietly
  <1>2. upset \/ ~dragging
    BY <1>1 DEF Steadfast, Base
  <1>3. CASE EndEdit
    <2>1. PICK e, u : Becomes(e, u, "canvas") /\ drag' = drag
      BY <1>3 DEF EndEdit
    <2>2. QED
      BY <1>1, <1>2, <2>1, BecomesAloof DEF Aloof
  <1>4. CASE Opened \/ Type \/ Erase
    BY <1>1, <1>2, <1>4 DEF Opened, Type, Erase, Fits, Aloof
  <1>5. QED
    BY <1>3, <1>4 DEF Field

LEMMA OpensAloof ==
    ASSUME Base, NEW i \in Ids, PressTextOn(i) \/ DoublePress(i) \/ ShiftPress(i)
    PROVE  Aloof /\ (upset' \/ ~dragging)
  <1>1. PICK e, u, f : Becomes(e, u, f) /\ drag' = drag /\ ~dragging
    BY DEF PressTextOn, DoublePress, ShiftPress, Opens
  <1>2. QED
    BY <1>1, BecomesAloof DEF Aloof

LEMMA PauseAloof ==
    ASSUME Pause
    PROVE  Aloof /\ (upset' \/ ~dragging)
  BY DEF Pause, Aloof

LEMMA PeerAloof ==
    ASSUME Base, NEW i \in Ids, PeerMoves(i) \/ PeerWrites(i) \/ PeerDeletes(i)
    PROVE  Aloof
  <1>1. drag' = drag /\ screen' = [screen EXCEPT !.focus = FocusFrom(@, ed', ui)]
    BY DEF PeerMoves, PeerWrites, PeerDeletes, Peer
  <1>2. QED
    BY <1>1 DEF Aloof, Base, Types, Screens

\* A peer who changes what is being sized moves it, writes in it or takes it away.
LEMMA PeerPending ==
    ASSUME Base, PendingIsScheduled, NEW i \in Ids, PeerMoves(i) \/ PeerWrites(i) \/ PeerDeletes(i)
    PROVE  PendingIsScheduled'
  <1>1. drag' = drag /\ (upset => upset')
    BY PeerAloof, PeersSet DEF Aloof
  <1>2. ed \in Eds /\ ed.doc[i] \in Els /\ ed.doc[i] # Nothing
    BY DEF Base, Good, Eds, Docs, PeerMoves, PeerWrites, PeerDeletes, Peer
  <1>3. ASSUME ~upset', NEW j \in drag.ids
        PROVE  ed'.doc[j] = Nothing \/ (ed.doc[j] # Nothing /\ ed'.doc[j].size = ed.doc[j].size)
    <2>1. PICK el \in Els : /\ ed' = OneSet(ed, i, el)
                            /\ el = Nothing \/ el.size = ed.doc[i].size \/ i \notin drag.ids
      <3>1. CASE PeerMoves(i)
        <4> DEFINE to == [ed.doc[i] EXCEPT !.at = 9]
        <4>1. ed' = OneSet(ed, i, to) /\ i \notin drag.ids
          BY <1>3, <3>1 DEF PeerMoves, Peer, OneSet
        <4>2. to \in Els
          BY <1>2, PeerElements
        <4> HIDE DEF to
        <4>3. QED
          BY <4>1, <4>2
      <3>2. CASE PeerWrites(i)
        <4> DEFINE to == [ed.doc[i] EXCEPT !.said = @ \cup {"peer"}]
        <4>1. ed' = OneSet(ed, i, to)
          BY <3>2 DEF PeerWrites, Peer, OneSet
        <4>2. to \in Els
          BY <1>2, PeerElements
        <4>3. to.size = ed.doc[i].size
          BY <1>2 DEF Els, Elements
        <4> HIDE DEF to
        <4>4. QED
          BY <4>1, <4>2, <4>3
      <3>3. CASE PeerDeletes(i)
        BY <3>3, ElementFacts DEF PeerDeletes, Peer, OneSet
      <3>4. QED
        BY <3>1, <3>2, <3>3
    <2>2. ed'.doc = [ed.doc EXCEPT ![i] = el]
      BY <1>2, <2>1, OneIsSet
    <2>3. j \in Ids /\ ed.doc \in [Ids -> Els]
      BY <1>2, <1>3 DEF Base, Types, Drags, Eds, Docs
    <2>4. QED
      BY <1>2, <1>3, <2>1, <2>2, <2>3
  <1>4. CASE drag.kind \in {"resize", "draw"}
    <2>1. ASSUME ~upset', NEW j \in drag.ids, ed'.doc[j].size # drag.total PROVE drag.timer \/ ed'.doc[j] = Nothing
      BY <1>1, <1>3, <1>4, <2>1 DEF PendingIsScheduled
    <2>2. QED
      BY <1>1, <1>4, <2>1 DEF PendingIsScheduled
  <1>5. CASE drag.kind \notin {"resize", "draw"}
    BY <1>1, <1>5 DEF PendingIsScheduled
  <1>6. QED
    BY <1>4, <1>5

------------------------------------------------------------------------------
(* A drag begins. *)

LEMMA NothingPends ==
    ASSUME NEW k \in {"note", "stroke", "move", "marquee"}, NEW ids, NEW el, NEW d, Begins(d, k, ids, el, 0), drag' = d
    PROVE  OneDrawn' /\ PendingIsScheduled'
  <1>1. d.total = 0 /\ d.flushed = 0 /\ d.kind = k
    BY DEF Begins
  <1>2. residue(d) = 0 /\ Round(0) = 0
    BY <1>1 DEF residue, Round
  <1>3. QED
    BY <1>1, <1>2 DEF OneDrawn, PendingIsScheduled

LEMMA TakesHandsOver ==
    ASSUME Base, NEW e, NEW u, NEW d, Takes(e, u, d), ~dragging, ~d.orphan, OneDrawn' /\ PendingIsScheduled'
    PROVE  HandsOver
  <1>1. PICK f, v : Becomes(f, v, "canvas") /\ drag' = d
    BY DEF Takes
  <1>2. QED
    BY <1>1, BecomesAloof DEF HandsOver

LEMMA PressIdleHandsOver ==
    ASSUME Base, PressWithNote \/ PressEmpty \/ \E i \in Ids : PressElement(i)
    PROVE  HandsOver
  <1>1. PICK k \in {"note", "move", "marquee"}, ids \in SUBSET Ids : \E e, u : Takes(e, u, A(k, ids)) /\ ~dragging
    <2>1. CASE PressWithNote
      BY <2>1 DEF PressWithNote
    <2>2. CASE PressEmpty
      <3>1. Painted(Pressed.ed.doc) \in SUBSET Ids
        BY DEF Painted
      <3>2. QED
        BY <2>2, <3>1 DEF PressEmpty
    <2>3. CASE \E i \in Ids : PressElement(i)
      <3>1. PICK i \in Ids : PressElement(i)
        BY <2>3
      <3>2. ui.selection \in SUBSET Ids /\ {i} \in SUBSET Ids
        BY DEF Base, Good, Uis
      <3>3. QED
        BY <3>1, <3>2 DEF PressElement
    <2>4. QED
      BY <2>1, <2>2, <2>3
  <1> DEFINE d == A(k, ids)
  <1>2. PICK e, u : Takes(e, u, d) /\ ~dragging
    BY <1>1
  <1>3. Begins(d, k, ids, Nothing, 0)
    BY ElementFacts, DragFacts
  <1>4. drag' = d
    BY <1>2 DEF Takes
  <1> HIDE DEF d
  <1>5. OneDrawn' /\ PendingIsScheduled'
    BY <1>3, <1>4, NothingPends
  <1>6. ~d.orphan
    BY <1>3 DEF Begins
  <1>7. QED
    BY <1>2, <1>5, <1>6, TakesHandsOver

LEMMA PressHandleHandsOver ==
    ASSUME Base, NEW i \in Ids, PressHandle(i)
    PROVE  HandsOver
  <1> DEFINE el == Pressed.ed.doc[i]
             d  == [A("resize", {i}) EXCEPT !.from = BboxOf(el), !.total = el.size]
  <1>1. MayBegin /\ ~dragging /\ unused' = unused /\ Takes(Pressed.ed, Pressed.ui, d)
    BY DEF PressHandle
  <1>2. Begun
    BY <1>1, PressedFacts
  <1>3. el \in Els /\ el.size \in Nat
    BY <1>2 DEF Begun, Good, Eds, Docs, Els, Elements
  <1> HIDE DEF el
  <1>4. Begins(d, "resize", {i}, BboxOf(el), el.size)
    BY <1>3, BboxPlaces, DragFacts
  <1> HIDE DEF d
  <1>5. ed' = Pressed.ed /\ drag' = d
    BY <1>1, <1>2, <1>4, TakesKeeps DEF Begun, Begins
  <1>6. OneDrawn' /\ PendingIsScheduled'
    BY <1>4, <1>5 DEF OneDrawn, PendingIsScheduled, Begins, el
  <1>7. ~d.orphan
    BY <1>4 DEF Begins
  <1>8. QED
    BY <1>1, <1>6, <1>7, TakesHandsOver

LEMMA PressToDrawHandsOver ==
    ASSUME Base, PressToDraw
    PROVE  HandsOver
  <1> DEFINE el == NewElement(IF ui.tool = "pen" THEN "path" ELSE ui.tool)
             k  == IF ui.tool = "pen" THEN "stroke" ELSE "draw"
  <1>1. MayBegin /\ ~dragging /\ ui.tool \in {"pen", "shape", "text"}
    BY DEF PressToDraw
  <1>2. PICK i \in unused, way \in IF ui.tool = "shape" THEN 0..1 ELSE {el.form} :
          Takes(Create(Pressed.ed, i, el), Pressed.ui, [A(k, {i}) EXCEPT !.from = [el EXCEPT !.form = way]])
    BY DEF PressToDraw
  <1>3. el \in Els /\ el # Nothing /\ el.size = 0
    BY <1>1, NewElementFacts
  <1> DEFINE line == [el EXCEPT !.form = way]
             d == [A(k, {i}) EXCEPT !.from = line]
             e == Create(Pressed.ed, i, el)
             b == Blurred(e, Pressed.ui)
  <1>4. Begun
    BY <1>1, PressedFacts
  <1>5. i \in Ids /\ Pressed.ed.op # 0 /\ Pressed.ed \in Eds
    BY <1>4 DEF Begun, Good, Base
  <1>6. Begins(d, k, {i}, line, 0) /\ k \in {"stroke", "draw"}
    <2>1. k \in {"stroke", "draw"} /\ {i} \in SUBSET Ids /\ {i} # {}
      BY <1>5
    <2>2. line \in Els
      BY <1>3, FormedFacts
    <2> HIDE DEF k, el, line
    <2>3. QED
      BY <2>1, <2>2, DragFacts
  <1> HIDE DEF el
  <1>7. e.doc = [j \in Ids |-> IF j = i THEN el ELSE Pressed.ed.doc[j]] /\ e \in Eds /\ e.op # 0
    <2>1. Added(Pressed.ed, Create(Pressed.ed, i, el), {i})
      BY <1>3, <1>5, CreateAdds
    <2>2. e.doc = [j \in Ids |-> IF j = i THEN el ELSE Pressed.ed.doc[j]]
      BY <1>3, <1>5, CreateAdds
    <2>3. QED
      BY <1>5, <2>1, <2>2 DEF Added
  <1> HIDE DEF e, k, d
  <1>8. ed' = b.ed /\ drag' = d /\ Takes(e, Pressed.ui, d)
    BY <1>2 DEF e, k, d, Takes, Becomes
  <1>9. ~Blank(e.doc[ui.editing]) \/ ui.editing \notin Ids
    BY <1>4, <1>5, <1>7, EditorAssumption DEF Begun, Base, Good, Uis
  <1>10. ed' = e
    <2>1. Blurred(e, Pressed.ui).ed = e
      BY <1>9, EditorAssumption DEF Blurred, Dropped, DiscardIfBlank, Base, Good, Uis
    <2>2. QED
      BY <1>8, <2>1
  <1>11. CASE k = "stroke"
    BY <1>6, <1>8, <1>11, NothingPends, TakesHandsOver, <1>1 DEF Begins
  <1>12. CASE k = "draw"
    <2>1. ed'.doc[i].size = 0 /\ d.total = 0 /\ d.ids = {i} /\ d.kind = "draw" /\ ~d.orphan
      BY <1>3, <1>5, <1>6, <1>7, <1>10, <1>12 DEF Begins
    <2>2. OneDrawn' /\ PendingIsScheduled'
      BY <1>5, <1>8, <2>1 DEF OneDrawn, PendingIsScheduled
    <2>3. QED
      BY <1>1, <1>8, <2>1, <2>2, TakesHandsOver
  <1>13. QED
    BY <1>6, <1>11, <1>12

------------------------------------------------------------------------------
(* A drag goes on, and ends. *)

\* p may be on show while d is under way.
Belongs(p, d) ==
    /\ p[1] = "box" => d.kind \in {"resize", "draw"} /\ p[2] \in d.ids
    /\ p[1] = "marquee" => d.kind = "marquee" /\ p[2] = None

LEMMA ShowsItself ==
    ASSUME NEW d, NEW p \in Shown(d)
    PROVE  Belongs(p, d) /\ (d.kind = "move" => p[1] = "shift")
  <1>1. CASE d.kind = "move"
    BY <1>1 DEF Shown, Belongs
  <1>2. CASE d.kind \in {"resize", "draw"}
    BY <1>2 DEF Shown, Belongs
  <1>3. CASE d.kind = "marquee"
    BY <1>3 DEF Shown, Belongs
  <1>4. CASE d.kind \notin {"move", "resize", "draw", "marquee"}
    BY <1>4 DEF Shown
  <1>5. QED
    BY <1>1, <1>2, <1>3, <1>4

LEMMA ShowingFits ==
    Showing <=> /\ drag.orphan => drag.kind = "move"
                /\ \A p \in screen.late : p[1] = "shift"
                /\ \A p \in screen.painted : Belongs(p, drag)
  BY DEF Showing, Paints, PreviewsEnd, Belongs

\* The same drag, a frame or a write later.
LEMMA SameDragShows ==
    ASSUME Showing, OneDrawn, drag'.kind = drag.kind, drag'.ids = drag.ids,
           drag'.orphan => drag.orphan \/ drag.kind = "move",
           screen'.painted \subseteq screen.painted \cup Shown(drag') \cup screen.late \cup Shown(drag), screen'.late \subseteq screen.late
    PROVE  Showing' /\ OneDrawn'
  <1>1. /\ drag.orphan => drag.kind = "move"
        /\ \A p \in screen.late : p[1] = "shift"
        /\ \A p \in screen.painted : Belongs(p, drag)
    BY ShowingFits
  <1>2. ASSUME NEW p \in screen'.painted PROVE Belongs(p, drag')
    <2>1. CASE p \in screen.painted
      BY <1>1, <2>1 DEF Belongs
    <2>2. CASE p \in Shown(drag') \cup Shown(drag)
      <3>1. Belongs(p, drag) \/ Belongs(p, drag')
        BY <2>2, ShowsItself
      <3>2. QED
        BY <3>1 DEF Belongs
    <2>3. CASE p \in screen.late
      BY <1>1, <2>3 DEF Belongs
    <2>4. QED
      BY <1>2, <2>1, <2>2, <2>3
  <1>3. Showing'
    <2>1. /\ drag'.orphan => drag'.kind = "move"
          /\ \A p \in screen'.late : p[1] = "shift"
      BY <1>1
    <2>2. QED
      BY <1>2, <2>1 DEF Showing, Paints, PreviewsEnd, Belongs
  <1>4. QED
    BY <1>3 DEF OneDrawn

LEMMA DragToGoesOn ==
    ASSUME Base, Showing, OneDrawn, DragTo
    PROVE  Showing' /\ OneDrawn' /\ PendingIsScheduled'
  <1>1. drag \in Drags /\ screen' = screen /\ ed' = ed
    BY DEF DragTo, Base, Types
  <1>2. /\ drag'.kind = drag.kind /\ drag'.ids = drag.ids /\ drag'.orphan = drag.orphan
        /\ drag'.timer \/ drag'.kind = "marquee"
    <2>1. \A n : LET d == Moved(drag, n) IN d.kind = drag.kind /\ d.ids = drag.ids /\ d.orphan = drag.orphan /\ d.timer
      BY <1>1 DEF Drags, Moved
    <2>2. \/ \E n : drag' = Moved(drag, n)
          \/ drag.kind = "marquee" /\ drag' = [drag EXCEPT !.total = 1, !.frame = TRUE]
      BY DEF DragTo
    <2>3. QED
      BY <1>1, <2>1, <2>2 DEF Drags
  <1>3. Showing' /\ OneDrawn'
    BY <1>1, <1>2, SameDragShows
  <1>4. PendingIsScheduled'
    BY <1>2 DEF PendingIsScheduled
  <1>5. QED
    BY <1>3, <1>4

LEMMA FrameGoesOn ==
    ASSUME Base, Showing, OneDrawn, PendingIsScheduled, Frame
    PROVE  Showing' /\ OneDrawn' /\ PendingIsScheduled'
  <1>1. drag \in Drags /\ screen \in Screens /\ ed' = ed /\ upset' = upset
    BY DEF Frame, Quietly, Base, Types
  <1>2. /\ drag'.kind = drag.kind /\ drag'.ids = drag.ids /\ drag'.orphan = FALSE
        /\ drag'.total = drag.total /\ drag'.flushed = drag.flushed /\ drag'.timer = drag.timer
    BY <1>1 DEF Frame, Drags
  <1>3. screen'.painted = Repainted(drag) /\ screen'.late = screen.late
    BY <1>1 DEF Frame, Screens
  <1>4. Showing' /\ OneDrawn'
    BY <1>2, <1>3, SameDragShows DEF Repainted
  <1>5. PendingIsScheduled'
    BY <1>1, <1>2 DEF PendingIsScheduled, residue
  <1>6. QED
    BY <1>4, <1>5

LEMMA LateFrameGoesOn ==
    ASSUME Base, Showing, OneDrawn, PendingIsScheduled, LateFrame
    PROVE  Showing' /\ OneDrawn' /\ PendingIsScheduled'
  <1>1. screen \in Screens /\ ed' = ed /\ upset' = upset /\ drag' = drag
    BY DEF LateFrame, Quietly, Base, Types
  <1>2. screen'.painted = screen.painted \cup screen.late /\ screen'.late = {}
    BY <1>1 DEF LateFrame, Screens
  <1>3. Showing' /\ OneDrawn'
    BY <1>1, <1>2, SameDragShows
  <1>4. PendingIsScheduled'
    BY <1>1 DEF PendingIsScheduled, residue
  <1>5. QED
    BY <1>3, <1>4

\* Only a move forgets a frame it asked for.
LEMMA FlushedOrphan ==
    ASSUME NEW d \in Drags
    PROVE  Flushed(d).drag.orphan => d.orphan \/ d.kind = "move"
  <1> DEFINE n == Round(residue(d))
  <1>1. CASE d.kind = "move"
    BY <1>1
  <1>2. CASE d.kind = "stroke"
    <2>1. Flushed(d).drag = [d EXCEPT !.timer = FALSE, !.flushed = d.total]
      BY <1>2 DEF Flushed
    <2>2. QED
      BY <2>1 DEF Drags
  <1>3. CASE d.kind \notin {"move", "stroke"}
    <2>1. Flushed(d).drag = [d EXCEPT !.timer = FALSE]
      BY <1>3 DEF Flushed
    <2>2. QED
      BY <2>1 DEF Drags
  <1>4. QED
    BY <1>1, <1>2, <1>3

LEMMA FlushGoesOn ==
    ASSUME Base, Showing, OneDrawn, Flush
    PROVE  Showing' /\ OneDrawn' /\ PendingIsScheduled'
  <1> DEFINE f == Flushed(drag)
  <1>1. drag \in Drags /\ Measured(drag) /\ screen \in Screens
    BY DEF Base, Types
  <1>2. Flushes(drag, f) /\ (f.drag.orphan => drag.orphan \/ drag.kind = "move")
    BY <1>1, FlushedFacts, FlushedOrphan
  <1>3. ed' = f.ed /\ drag' = f.drag
    BY DEF Flush
  <1>4. /\ screen'.painted = screen.painted \/ screen'.painted = Repainted(f.drag)
        /\ screen'.late = screen.late
    BY <1>1 DEF Flush, Screens
  <1> HIDE DEF f
  <1>5. f.drag.kind = drag.kind /\ f.drag.ids = drag.ids /\ f.drag.total = drag.total
    BY <1>2 DEF Flushes
  <1>6. Showing' /\ OneDrawn'
    BY <1>2, <1>3, <1>4, <1>5, SameDragShows DEF Repainted
  <1>7. PendingIsScheduled'
    <2>1. CASE drag.kind = "move"
      <3> DEFINE r == residue(drag)
      <3>1. r \in Int /\ drag.total \in Int /\ drag.flushed \in Int
        BY <1>1 DEF residue, Drags
      <3>2. f.drag.flushed = drag.flushed + Round(r)
        BY <1>2, <2>1 DEF Flushes
      <3>3. Round(r) \in Int /\ 2 * Round(r) - r \in 0..1
        BY <3>1, RoundFacts
      <3> DEFINE s == r - 2 * Round(r)
      <3>4. residue(f.drag) = s
        BY <1>5, <3>1, <3>2, <3>3 DEF residue
      <3>5. s \in {0, -1}
        BY <3>1, <3>3
      <3> HIDE DEF s, r
      <3>6. Round(s) = 0
        BY <3>5 DEF Round
      <3>7. QED
        BY <1>3, <1>5, <2>1, <3>4, <3>6 DEF PendingIsScheduled
    <2>2. CASE drag.kind = "stroke"
      BY <1>2, <1>3, <1>5, <2>2 DEF Flushes, PendingIsScheduled
    <2>3. CASE drag.kind \in {"resize", "draw"}
      <3>1. ASSUME NEW i \in drag.ids PROVE f.ed.doc[i] = Nothing \/ f.ed.doc[i].size = drag.total
        <4> DEFINE el  == ed.doc[i]
                   new == f.ed.doc[i]
        <4>1. BboxOf(new) = Boxed(el, drag.from.at, drag.total) /\ new \in Els
          BY <1>1, <1>2, <2>3 DEF Flushes, Kept, Eds, Docs, Drags
        <4>2. el \in Els /\ drag.from.at \in Int /\ drag.total \in Nat
          BY <1>1, <2>3 DEF Measured, Drags, Els, Elements, Base, Good, Eds, Docs
        <4> HIDE DEF el, new
        <4>3. CASE el = Nothing
          BY <4>1, <4>3, BboxPlaces DEF Boxed, new
        <4>4. CASE el # Nothing
          BY <4>1, <4>2, <4>4, BoxedAgain, BboxPlaces DEF new
        <4>5. QED
          BY <4>3, <4>4
      <3>2. QED
        BY <1>3, <1>5, <2>3, <3>1 DEF PendingIsScheduled
    <2>4. CASE drag.kind \notin {"move", "stroke", "resize", "draw"}
      BY <1>3, <1>5, <2>4 DEF PendingIsScheduled
    <2>5. QED
      BY <2>1, <2>2, <2>3, <2>4
  <1>8. QED
    BY <1>6, <1>7

\* With the drag goes what belonged to it.
LEMMA ClearsShows ==
    ASSUME Base, Showing, NEW d, d.kind = drag.kind, d.ids = drag.ids, d.orphan => drag.kind = "move",
           NEW e, NEW u, Clears(d, e, u)
    PROVE  Showing' /\ OneDrawn' /\ PendingIsScheduled'
  <1>1. drag' = NoDrag /\ drag'.kind = "none" /\ ~drag'.orphan
    BY DEF Clears, NoDrag
  <1>2. /\ screen'.painted = screen.painted \ Wiped(d)
        /\ screen'.late = screen.late \cup (IF d.orphan THEN Shown(d) ELSE {})
    BY DEF Clears
  <1>3. /\ \A p \in screen.late : p[1] = "shift"
        /\ \A p \in screen.painted : Belongs(p, drag)
    BY ShowingFits
  <1>4. \A p \in screen'.late : p[1] = "shift"
    BY <1>2, <1>3, ShowsItself
  <1>5. ASSUME NEW p \in screen'.painted PROVE p[1] # "box" /\ p[1] # "marquee"
    <2>1. p \in screen.painted /\ p \notin Wiped(d) /\ Belongs(p, drag)
      BY <1>2, <1>3, <1>5
    <2>2. p = <<p[1], p[2]>>
      BY <2>1 DEF Base, Types, Screens, Overlay
    <2>3. QED
      BY <2>1, <2>2 DEF Belongs, Wiped
  <1>6. Showing'
    BY <1>1, <1>4, <1>5 DEF Showing, Paints, PreviewsEnd
  <1>7. QED
    BY <1>1, <1>6 DEF OneDrawn, PendingIsScheduled

LEMMA DragClears ==
    ASSUME Base, EndDrag \/ EndNote \/ CancelDrag
    PROVE  \E e, u : Clears(drag, e, u) \/ Clears(Final(drag).drag, e, u)
  <1>1. CASE EndDrag
    <2>1. drag.kind \in {"move", "resize", "stroke", "draw", "marquee"}
      BY <1>1 DEF EndDrag, Base, Types, Drags, dragging
    <2>2. CASE drag.kind \in {"move", "resize"}
      BY <1>1, <2>2 DEF EndDrag
    <2>3. CASE drag.kind = "stroke"
      BY <1>1, <2>3 DEF EndDrag
    <2>4. CASE drag.kind = "draw"
      BY <1>1, <2>4 DEF EndDrag
    <2>5. CASE drag.kind = "marquee"
      BY <1>1, <2>5 DEF EndDrag
    <2>6. QED
      BY <2>1, <2>2, <2>3, <2>4, <2>5
  <1>2. CASE EndNote \/ CancelDrag
    BY <1>2 DEF EndNote, CancelDrag
  <1>3. QED
    BY <1>1, <1>2

LEMMA DragEnds ==
    ASSUME Base, Showing, EndDrag \/ EndNote \/ CancelDrag
    PROVE  Showing' /\ OneDrawn' /\ PendingIsScheduled'
  <1> DEFINE s    == [drag EXCEPT !.frame = FALSE]
             done == Final(drag)
  <1>1. drag.orphan => drag.kind = "move"
    BY DEF Showing, Paints
  <1>2. done.drag.kind = drag.kind /\ done.drag.ids = drag.ids /\ (done.drag.orphan => drag.kind = "move")
    <2>1. s \in Drags /\ s.kind = drag.kind /\ s.ids = drag.ids /\ s.orphan = drag.orphan
      BY DEF Base, Types, Drags
    <2>2. Flushes(s, done)
      BY FinalFacts
    <2>3. done = Flushed(s)
      BY DEF Final
    <2> HIDE DEF done, s
    <2>4. done.drag.orphan => s.orphan \/ s.kind = "move"
      BY <2>1, <2>3, FlushedOrphan
    <2>5. QED
      BY <1>1, <2>1, <2>2, <2>4 DEF Flushes
  <1>3. \E e, u : Clears(drag, e, u) \/ Clears(done.drag, e, u)
    BY DragClears
  <1> HIDE DEF done
  <1>4. QED
    BY <1>1, <1>2, <1>3, ClearsShows

------------------------------------------------------------------------------
(* Nothing stays behind. *)

\* The invariant, on top of Base and Steadfast.
Lingering == Tidy /\ Showing /\ OneDrawn /\ PendingIsScheduled

LEMMA InitLingering ==
    ASSUME \A i \in Ids : ~Blank(Given[i])
    PROVE  Init => Lingering
  <1> SUFFICES ASSUME Init PROVE Lingering
    OBVIOUS
  <1>1. /\ ed = [doc |-> Given, undo |-> <<>>, redo |-> <<>>, open |-> FALSE, op |-> 0]
        /\ drag = NoDrag /\ screen = [painted |-> {}, late |-> {}, focus |-> "canvas"]
    BY DEF Init
  <1>2. ed.doc = Given /\ Listed(ed) = {} /\ DOMAIN ed.undo = {} /\ DOMAIN ed.redo = {}
    BY <1>1 DEF Listed, Members
  <1> DEFINE k == [i \in Ids |-> Given[i].kind]
  <1>3. Firm(ed, k)
    BY <1>2 DEF Firm, Of, Linked
  <1>4. Clean(ed)
    BY <1>2, <1>3 DEF Clean, Rooted, Filled
  <1>5. Tidy
    BY <1>4, FilledOwned DEF Clean, Tidy
  <1>6. QED
    BY <1>1, <1>5 DEF Lingering, Showing, Paints, PreviewsEnd, OneDrawn, PendingIsScheduled, NoDrag

LEMMA NextTidy ==
    ASSUME Base, Steadfast, Tidy, OneDrawn, [Next]_vars
    PROVE  Tidy'
  <1>1. CASE upset
    <2>1. upset' \/ UNCHANGED vars
      <3>1. CASE Press
        <4>1. \/ \E e, u, d : Takes(e, u, d)
              \/ \E i \in Ids : PressTextOn(i) \/ DoublePress(i) \/ ShiftPress(i)
          BY <3>1 DEF Press, PressWithNote, PressToDraw, PressEmpty, PressHandle, PressElement
        <4>2. ASSUME NEW i \in Ids, PressTextOn(i) \/ DoublePress(i) \/ ShiftPress(i) PROVE upset' = upset
          BY <4>2 DEF PressTextOn, DoublePress, ShiftPress, Opens, Quietly
        <4>3. QED
          BY <1>1, <4>1, <4>2 DEF Takes
      <3>2. CASE Drag
        <4>1. CASE EndDrag \/ EndNote \/ CancelDrag
          BY <1>1, <4>1, DragClears DEF Clears
        <4>2. CASE DragTo \/ Frame \/ Flush \/ LateFrame
          BY <1>1, <4>2 DEF DragTo, Frame, Flush, LateFrame, Quietly
        <4>3. QED
          BY <3>2, <4>1, <4>2 DEF Drag
      <3>3. CASE Key
        BY <1>1, <3>3 DEF Key, KeyUndo, KeyRedo, KeyDelete, KeyNudge, KeyCopies, KeySelectAll, KeyEscape, KeyEnter, KeyTool,
                          ClickTool, ClickStyle, Heard, Quietly
      <3>4. CASE Field
        BY <1>1, <3>4 DEF Field, Opened, Type, Erase, EndEdit, Fits, Quietly
      <3>5. CASE Other
        <4>1. CASE Pause
          BY <4>1 DEF Pause
        <4>2. ASSUME NEW i \in Ids, PeerMoves(i) \/ PeerWrites(i) \/ PeerDeletes(i) PROVE upset'
          BY <1>1, <4>2, PeersSet
        <4>3. QED
          BY <3>5, <4>1, <4>2 DEF Other
      <3>6. QED
        BY <3>1, <3>2, <3>3, <3>4, <3>5 DEF Next
    <2>2. QED
      BY <1>1, <2>1 DEF Tidy, vars
  <1>2. CASE ~upset
    <2>1. CASE Press
      <3>1. CASE PressWithNote \/ PressToDraw \/ PressEmpty
        BY <1>2, <3>1, PressWithNoteTidy, PressToDrawTidy, PressEmptyTidy
      <3>2. ASSUME NEW i \in Ids, PressTextOn(i) \/ PressHandle(i) \/ PressElement(i) \/ ShiftPress(i) \/ DoublePress(i)
            PROVE  Tidy'
        BY <1>2, <3>2, PressOnTidy, PressOpensTidy
      <3>3. QED
        BY <2>1, <3>1, <3>2 DEF Press
    <2>2. CASE Drag
      BY <1>2, <2>2, PaintsTidy, FlushTidy, EndDragTidy, EndNoteTidy, CancelDragTidy DEF Drag
    <2>3. CASE Key
      <3>1. CASE \E t \in Tools : KeyTool(t) \/ ClickTool(t)
        BY <1>2, <3>1, KeyElsewhereTidy, ClickToolTidy
      <3>2. CASE KeyUndo \/ KeyRedo \/ KeyDelete \/ KeyNudge \/ KeyCopies
        BY <1>2, <3>2, KeyUndoTidy, KeyDeleteTidy, KeyNudgeTidy, KeyCopiesTidy
      <3>3. CASE KeySelectAll \/ KeyEscape \/ KeyEnter \/ ClickStyle
        BY <1>2, <3>3, KeyElsewhereTidy, KeyEnterTidy, ClickStyleTidy
      <3>4. QED
        BY <2>3, <3>1, <3>2, <3>3 DEF Key
    <2>4. CASE Field
      BY <1>2, <2>4, FieldTidy, EndEditTidy DEF Field
    <2>5. CASE Other
      <3>1. CASE Pause
        BY <3>1 DEF Pause, Tidy
      <3>2. QED
        BY <1>2, <2>5, <3>1, PeerTidy DEF Other
    <2>6. CASE UNCHANGED vars
      BY <2>6 DEF vars, Tidy
    <2>7. QED
      BY <2>1, <2>2, <2>3, <2>4, <2>5, <2>6 DEF Next
  <1>3. QED
    BY <1>1, <1>2

LEMMA NextShows ==
    ASSUME Base, Steadfast, Showing, OneDrawn, PendingIsScheduled, [Next]_vars
    PROVE  Showing' /\ OneDrawn' /\ PendingIsScheduled'
  <1>1. ASSUME Aloof /\ (upset' \/ ~dragging) PROVE Showing' /\ OneDrawn' /\ PendingIsScheduled'
    BY <1>1, AloofShows, AloofPending
  <1>2. ASSUME HandsOver PROVE Showing' /\ OneDrawn' /\ PendingIsScheduled'
    BY <1>2, HandsOverShows DEF HandsOver
  <1>3. CASE Press
    <2>1. CASE PressWithNote \/ PressToDraw \/ PressEmpty
      BY <1>2, <2>1, PressIdleHandsOver, PressToDrawHandsOver
    <2>2. ASSUME NEW i \in Ids, PressHandle(i) \/ PressElement(i) PROVE HandsOver
      BY <2>2, PressHandleHandsOver, PressIdleHandsOver
    <2>3. ASSUME NEW i \in Ids, PressTextOn(i) \/ ShiftPress(i) \/ DoublePress(i) PROVE Aloof /\ (upset' \/ ~dragging)
      BY <2>3, OpensAloof
    <2>4. QED
      BY <1>1, <1>2, <1>3, <2>1, <2>2, <2>3 DEF Press
  <1>4. CASE Drag
    BY <1>4, DragToGoesOn, FrameGoesOn, FlushGoesOn, LateFrameGoesOn, DragEnds DEF Drag
  <1>5. CASE Key
    BY <1>1, <1>5, KeyAloof, ClickAloof DEF Key
  <1>6. CASE Field
    BY <1>1, <1>6, FieldAloof
  <1>7. CASE Other
    <2>1. CASE Pause
      BY <1>1, <2>1, PauseAloof
    <2>2. ASSUME NEW i \in Ids, PeerMoves(i) \/ PeerWrites(i) \/ PeerDeletes(i)
          PROVE  Showing' /\ OneDrawn' /\ PendingIsScheduled'
      BY <2>2, PeerAloof, PeerPending, AloofShows
    <2>3. QED
      BY <1>7, <2>1, <2>2 DEF Other
  <1>8. CASE UNCHANGED vars
    BY <1>8 DEF vars, Showing, Paints, PreviewsEnd, OneDrawn, PendingIsScheduled, residue
  <1>9. QED
    BY <1>3, <1>4, <1>5, <1>6, <1>7, <1>8 DEF Next

LEMMA LingeringEnds ==
    ASSUME Lingering
    PROVE  PendingIsScheduled /\ PreviewsEnd /\ NoStrayBlank
  BY DEF Lingering, Showing, Tidy, Owned, Drawing, NoStrayBlank

(* What belongs to a drag or an edit ends with it, on a board that has no    *)
(* empty text box at first: the preview box and the marquee are on show only *)
(* during their drag; what a drag has not written has a timer armed to write *)
(* it; and, until a key in mid-drag or a long pause comes between, a text box *)
(* without words is being drawn or edited, whichever way it lost them, undo, *)
(* redo, copies and peers included (BoardSurface dropIfBlank, endEdit).      *)
THEOREM NothingStays ==
    ASSUME \A i \in Ids : ~Blank(Given[i])
    PROVE  Spec => []NothingLingers
  <1>1. Init => Lingering
    BY InitLingering
  <1>2. Base /\ Steadfast /\ Lingering /\ [Next]_vars => Lingering'
    BY NextTidy, NextShows DEF Lingering
  <1>3. Spec => []TypeOK
    BY TypesHold
  <1>4. Spec => [](Base /\ Steadfast)
    BY Invariance
  <1>5. TypeOK /\ Lingering => NothingLingers
    BY LingeringEnds DEF NothingLingers
  <1>6. QED
    BY <1>1, <1>2, <1>3, <1>4, <1>5, PTL DEF Spec

-----------------------------------------------------------------------------
(* The shape of what is drawn (Drawing); MaxPoints is Editor's.           *)

CONSTANTS Kinds, Trail, Corners, Spots, Grips, MinSize, MaxWrites, Grab
VARIABLES el, points, drawn, stage, grip, asked, writes

Shape == INSTANCE Drawing

\* What an element's scalars are.
IsElement(e) ==
    /\ e = [kind |-> e.kind, x |-> e.x, y |-> e.y, w |-> e.w, h |-> e.h, bx |-> e.bx, by |-> e.by,
            filled |-> e.filled]
    /\ e.x \in Int /\ e.y \in Int /\ e.w \in Int /\ e.h \in Int /\ e.bx \in Int /\ e.by \in Int

\* Any such record is one.
LEMMA ElementMade ==
    ASSUME NEW kind, NEW x \in Int, NEW y \in Int, NEW w \in Int, NEW h \in Int,
           NEW bx \in Int, NEW by \in Int, NEW filled
    PROVE  IsElement([kind |-> kind, x |-> x, y |-> y, w |-> w, h |-> h, bx |-> bx, by |-> by,
                      filled |-> filled])
  BY DEF IsElement

\* A stroke's box is anything, what else is drawn has one that is not inside out.
Upright(kind, box) == kind = "path" \/ (box.w >= 0 /\ box.h >= 0)

\* The handle that is held, and the box it began with.
HeldIsRight ==
    grip # Shape!NoGrip =>
        /\ grip.from \in Shape!Box /\ Upright(el.kind, grip.from)
        /\ stage = "done"

\* What was last asked for, of the handle that is held.
AskedOfIt ==
    /\ asked \in Shape!Box
    /\ asked # Shape!NoBox => stage = "done"
    /\ (asked # Shape!NoBox /\ grip # Shape!NoGrip) =>
          \E to \in Int \X Int : asked = Shape!ResizeRect(grip.from, grip.handle, to)

ShapeInv == IsElement(el) /\ HeldIsRight /\ AskedOfIt /\ Shape!ResizeLands

\* Rounding gives a whole number.
LEMMA RoundIsWhole ==
    ASSUME NEW n \in Int, NEW d \in Int, d > 0
    PROVE  Shape!Round(n, d) \in Int
  <1>1. 2 * n + d \in Int /\ 2 * d \in Int /\ 2 * d > 0
    OBVIOUS
  <1>2. (2 * n + d) \div (2 * d) \in Int
    BY <1>1
  <1>3. QED
    BY <1>2 DEF Shape!Round

\* A box between two points has a size.
LEMMA BoxFacts ==
    ASSUME NEW a \in Int \X Int, NEW b \in Int \X Int
    PROVE  /\ Shape!NormalizeRect(a, b) \in Shape!Box
           /\ Shape!NormalizeRect(a, b).w >= 0 /\ Shape!NormalizeRect(a, b).h >= 0
  BY DEF Shape!NormalizeRect, Shape!Box, Shape!Least, Shape!Most, Shape!Size

\* And so has what is drawn, unless it is a stroke.
LEMMA BboxFacts ==
    ASSUME NEW e, IsElement(e)
    PROVE  Shape!BboxOf(e) \in Shape!Box /\ Upright(e.kind, Shape!BboxOf(e))
  <1>1. CASE e.kind = "path"
    BY <1>1 DEF Shape!BboxOf, Upright, IsElement, Shape!Box
  <1>2. CASE e.kind # "path"
    <2>1. <<e.x, e.y>> \in Int \X Int /\ <<e.x + e.w, e.y + e.h>> \in Int \X Int
      BY DEF IsElement
    <2>2. Shape!BboxOf(e) = Shape!NormalizeRect(<<e.x, e.y>>, <<e.x + e.w, e.y + e.h>>)
      BY <1>2 DEF Shape!BboxOf
    <2>3. QED
      BY <2>1, <2>2, BoxFacts DEF Upright
  <1>3. QED
    BY <1>1, <1>2

\* A resize gives an element the box asked for, however the offset of a stroke's box
\* is rounded: its anchor makes up for that (elements.ts:248-249).
LEMMA FittedFacts ==
    ASSUME NEW e, IsElement(e), NEW rect \in Shape!Box, Upright(e.kind, rect)
    PROVE  /\ IsElement(Shape!Fitted(e, rect))
           /\ Shape!Fitted(e, rect).kind = e.kind
           /\ Shape!BboxOf(Shape!Fitted(e, rect)) = rect
  <1> DEFINE bx == IF Shape!Stretches(e) THEN Shape!Round(e.bx * rect.w, e.w) ELSE e.bx
             by == IF Shape!Stretches(e) THEN Shape!Round(e.by * rect.h, e.h) ELSE e.by
             f == Shape!Fitted(e, rect)
             path == e.kind = "path"
  <1>1. bx \in Int /\ by \in Int
    <2>1. /\ e.bx \in Int /\ e.by \in Int /\ e.w \in Int /\ e.h \in Int
          /\ rect.w \in Int /\ rect.h \in Int
      BY DEF IsElement, Shape!Box
    <2>2. e.bx * rect.w \in Int /\ e.by * rect.h \in Int
      BY <2>1
    <2>3. CASE Shape!Stretches(e)
      <3>1. e.w > 0 /\ e.h > 0
        BY <2>3 DEF Shape!Stretches
      <3>2. QED
        BY <2>1, <2>2, <2>3, <3>1, RoundIsWhole
    <2>4. CASE ~Shape!Stretches(e)
      BY <2>1, <2>4
    <2>5. QED
      BY <2>3, <2>4
  <1>2. f = [e EXCEPT !.bx = bx, !.by = by,
                      !.x = rect.x - (IF path THEN bx ELSE 0),
                      !.y = rect.y - (IF path THEN by ELSE 0),
                      !.w = rect.w, !.h = rect.h]
    BY DEF Shape!Fitted
  <1> HIDE DEF bx, by, f
  <1>3. /\ IsElement(f) /\ f.kind = e.kind /\ f.w = rect.w /\ f.h = rect.h
        /\ path => f.x + f.bx = rect.x /\ f.y + f.by = rect.y
        /\ ~path => f.x = rect.x /\ f.y = rect.y
    <2>1. f = [kind |-> e.kind, x |-> rect.x - (IF path THEN bx ELSE 0),
               y |-> rect.y - (IF path THEN by ELSE 0), w |-> rect.w, h |-> rect.h,
               bx |-> bx, by |-> by, filled |-> e.filled]
      BY <1>2 DEF IsElement
    <2>2. rect.x \in Int /\ rect.y \in Int /\ rect.w \in Int /\ rect.h \in Int
      BY DEF Shape!Box
    <2>3. CASE path
      BY <1>1, <2>1, <2>2, <2>3 DEF IsElement
    <2>4. CASE ~path
      BY <1>1, <2>1, <2>2, <2>4 DEF IsElement
    <2>5. QED
      BY <2>3, <2>4
  <1>4. rect = [x |-> rect.x, y |-> rect.y, w |-> rect.w, h |-> rect.h]
    BY DEF Shape!Box
  <1>5. Shape!BboxOf(f) = rect
    <2>1. CASE path
      BY <1>3, <1>4, <2>1 DEF Shape!BboxOf
    <2>2. CASE ~path
      <3>1. rect.w >= 0 /\ rect.h >= 0 /\ rect.x \in Int /\ rect.y \in Int /\ rect.w \in Int /\ rect.h \in Int
        BY <2>2 DEF Upright, Shape!Box
      <3>2. Shape!NormalizeRect(<<rect.x, rect.y>>, <<rect.x + rect.w, rect.y + rect.h>>)
              = [x |-> rect.x, y |-> rect.y, w |-> rect.w, h |-> rect.h]
        BY <3>1 DEF Shape!NormalizeRect, Shape!Least, Shape!Most, Shape!Size
      <3>3. QED
        BY <1>3, <1>4, <2>2, <3>2 DEF Shape!BboxOf
    <2>3. QED
      BY <2>1, <2>2
  <1>6. QED
    BY <1>3, <1>5 DEF f

\* What dragging a handle asks for is no smaller than it may be, and has the edges
\* that were not dragged where they were.
LEMMA ResizeFacts ==
    ASSUME NEW from \in Shape!Box, NEW handle, NEW to \in Int \X Int, MinSize \in Nat \ {0}
    PROVE  LET now == Shape!ResizeRect(from, handle, to)
           IN  /\ now \in Shape!Box
               /\ \A kind : Upright(kind, from) => Upright(kind, now)
               /\ ~Shape!West(handle) => now.x = from.x
               /\ ~Shape!North(handle) => now.y = from.y
               /\ ~Shape!East(handle) => now.x + now.w = from.x + from.w
               /\ ~Shape!South(handle) => now.y + now.h = from.y + from.h
               /\ Shape!West(handle) \/ Shape!East(handle) => now.w >= MinSize
               /\ Shape!North(handle) \/ Shape!South(handle) => now.h >= MinSize
  <1> DEFINE now == Shape!ResizeRect(from, handle, to)
  <1>1. ~(Shape!West(handle) /\ Shape!East(handle)) /\ ~(Shape!North(handle) /\ Shape!South(handle))
    BY DEF Shape!West, Shape!East, Shape!North, Shape!South
  <1>2. /\ from.x \in Int /\ from.y \in Int /\ from.w \in Int /\ from.h \in Int
        /\ to[1] \in Int /\ to[2] \in Int /\ MinSize \in Int /\ MinSize > 0
    BY DEF Shape!Box
  <1>3. /\ now.x \in Int /\ now.w \in Int /\ (from.w >= 0 => now.w >= 0)
        /\ ~Shape!West(handle) => now.x = from.x
        /\ ~Shape!East(handle) => now.x + now.w = from.x + from.w
        /\ Shape!West(handle) \/ Shape!East(handle) => now.w >= MinSize
    BY <1>1, <1>2 DEF Shape!ResizeRect, Shape!Least, Shape!Most
  <1>4. /\ now.y \in Int /\ now.h \in Int /\ (from.h >= 0 => now.h >= 0)
        /\ ~Shape!North(handle) => now.y = from.y
        /\ ~Shape!South(handle) => now.y + now.h = from.y + from.h
        /\ Shape!North(handle) \/ Shape!South(handle) => now.h >= MinSize
    BY <1>1, <1>2 DEF Shape!ResizeRect, Shape!Least, Shape!Most
  <1>5. now \in Shape!Box
    BY <1>3, <1>4 DEF Shape!Box, Shape!ResizeRect
  <1>6. \A kind : Upright(kind, from) => Upright(kind, now)
    BY <1>3, <1>4 DEF Upright
  <1> HIDE DEF now
  <1>7. QED
    BY <1>3, <1>4, <1>5, <1>6 DEF now

\* So the edges that were not dragged stay.
LEMMA EdgesStay ==
    ASSUME ShapeInv, MinSize \in Nat \ {0}
    PROVE  Shape!FarEdgesStay
  <1> SUFFICES ASSUME grip # Shape!NoGrip, asked # Shape!NoBox PROVE Shape!FarEdgesStay
    BY DEF Shape!FarEdgesStay
  <1>1. PICK to \in Int \X Int : asked = Shape!ResizeRect(grip.from, grip.handle, to)
    BY DEF ShapeInv, AskedOfIt
  <1>2. grip.from \in Shape!Box /\ Shape!BboxOf(el) = asked
    BY DEF ShapeInv, HeldIsRight, Shape!ResizeLands
  <1>3. QED
    BY <1>1, <1>2, ResizeFacts DEF Shape!FarEdgesStay

\* The least of a few numbers is one of them, and so is the greatest.
LEMMA BatchIsWhole ==
    ASSUME NEW n \in Int, NEW batch \in Shape!Batches, Trail \subseteq Int \X Int, NEW axis \in {1, 2},
           NEW S, S = {n} \cup {batch[i][axis] : i \in DOMAIN batch}
    PROVE  Shape!Min(S) \in Int /\ Shape!Max(S) \in Int
  <1>1. \E p, q \in Int : S = {n, p, q}
    <2>1. CASE \E s \in Trail : batch = <<s>>
      <3>1. PICK s \in Trail : batch = <<s>>
        BY <2>1
      <3>2. s[axis] \in Int /\ DOMAIN batch = {1} /\ batch[1] = s
        BY <3>1
      <3>3. S = {n, s[axis], s[axis]}
        BY <3>2
      <3>4. QED
        BY <3>2, <3>3
    <2>2. CASE \E s, t \in Trail : batch = <<s, t>>
      <3>1. PICK s, t \in Trail : batch = <<s, t>>
        BY <2>2
      <3>2. s[axis] \in Int /\ t[axis] \in Int /\ DOMAIN batch = {1, 2} /\ batch[1] = s /\ batch[2] = t
        BY <3>1
      <3>3. S = {n, s[axis], t[axis]}
        BY <3>2
      <3>4. QED
        BY <3>2, <3>3
    <2>3. QED
      BY <2>1, <2>2 DEF Shape!Batches
  <1>2. PICK p, q \in Int : S = {n, p, q}
    BY <1>1
  <1>3. \E m \in S : \A o \in S : m <= o
    <2>1. CASE n <= p /\ n <= q
      <3>1. n \in S /\ \A o \in S : n <= o
        BY <1>2, <2>1
      <3>2. QED
        BY <3>1
    <2>2. CASE p <= n /\ p <= q
      <3>1. p \in S /\ \A o \in S : p <= o
        BY <1>2, <2>2
      <3>2. QED
        BY <3>1
    <2>3. CASE q <= n /\ q <= p
      <3>1. q \in S /\ \A o \in S : q <= o
        BY <1>2, <2>3
      <3>2. QED
        BY <3>1
    <2>4. QED
      BY <1>2, <2>1, <2>2, <2>3
  <1>4. \E m \in S : \A o \in S : m >= o
    <2>1. CASE n >= p /\ n >= q
      <3>1. n \in S /\ \A o \in S : n >= o
        BY <1>2, <2>1
      <3>2. QED
        BY <3>1
    <2>2. CASE p >= n /\ p >= q
      <3>1. p \in S /\ \A o \in S : p >= o
        BY <1>2, <2>2
      <3>2. QED
        BY <3>1
    <2>3. CASE q >= n /\ q >= p
      <3>1. q \in S /\ \A o \in S : q >= o
        BY <1>2, <2>3
      <3>2. QED
        BY <3>1
    <2>4. QED
      BY <1>2, <2>1, <2>2, <2>3
  <1>5. Shape!Min(S) \in S
    BY <1>3 DEF Shape!Min
  <1>6. Shape!Max(S) \in S
    BY <1>4 DEF Shape!Max
  <1>7. QED
    BY <1>2, <1>5, <1>6

\* Each step keeps it.
LEMMA ShapeStep ==
    ASSUME Shape!ConstantsAssumption, ShapeInv, [Shape!Next]_(Shape!vars)
    PROVE  ShapeInv'
  <1> USE DEF ShapeInv
  <1>0. MinSize \in Nat \ {0} /\ Trail \subseteq Int \X Int /\ Corners \subseteq Int \X Int
        /\ Spots \subseteq Int \X Int
    BY DEF Shape!ConstantsAssumption
  <1>1. CASE UNCHANGED Shape!vars
    BY <1>1 DEF Shape!vars, HeldIsRight, AskedOfIt, Shape!ResizeLands
  <1>2. ASSUME NEW kind \in Kinds \ {"path"}, NEW corner \in Corners, NEW filled \in BOOLEAN,
               Shape!DrawOut(kind, corner, filled)
        PROVE  ShapeInv'
    <2> DEFINE box == Shape!NormalizeRect(<<0, 0>>, corner)
    <2>2. corner \in Int \X Int /\ corner[1] \in Int /\ corner[2] \in Int
      BY <1>0
    <2>3. box \in Shape!Box
      BY <2>2, BoxFacts
    <2>4. stage = "none" /\ grip' = grip /\ asked' = asked
      BY <1>2 DEF Shape!DrawOut
    <2>5. el' = IF kind = "line"
                THEN [Shape!NoElement EXCEPT !.kind = kind, !.w = corner[1], !.h = corner[2]]
                ELSE [Shape!NoElement EXCEPT !.kind = kind, !.filled = filled,
                         !.x = box.x, !.y = box.y, !.w = box.w, !.h = box.h]
      BY <1>2 DEF Shape!DrawOut
    <2> HIDE DEF box
    <2>6. IsElement(el')
      <3>1. CASE kind = "line"
        <4>1. el' = [kind |-> kind, x |-> 0, y |-> 0, w |-> corner[1], h |-> corner[2],
                     bx |-> 0, by |-> 0, filled |-> FALSE]
          BY <2>5, <3>1 DEF Shape!NoElement
        <4>2. QED
          BY <2>2, <4>1, ElementMade
      <3>2. CASE kind # "line"
        <4>1. el' = [kind |-> kind, x |-> box.x, y |-> box.y, w |-> box.w, h |-> box.h,
                     bx |-> 0, by |-> 0, filled |-> filled]
          BY <2>5, <3>2 DEF Shape!NoElement
        <4>2. box.x \in Int /\ box.y \in Int /\ box.w \in Int /\ box.h \in Int
          BY <2>3 DEF Shape!Box
        <4>3. IsElement([kind |-> kind, x |-> box.x, y |-> box.y, w |-> box.w, h |-> box.h,
                         bx |-> 0, by |-> 0, filled |-> filled])
          BY <4>2, 0 \in Int, ElementMade
        <4>4. QED
          BY <4>1, <4>3
      <3>3. QED
        BY <3>1, <3>2
    <2>7. asked = Shape!NoBox /\ grip = Shape!NoGrip
      BY <2>4 DEF HeldIsRight, AskedOfIt
    <2>8. QED
      BY <2>4, <2>6, <2>7 DEF HeldIsRight, AskedOfIt, Shape!ResizeLands
  <1>3. ASSUME Shape!PenDown
        PROVE  ShapeInv'
    <2>1. stage = "none" /\ grip' = grip /\ asked' = asked
      BY <1>3 DEF Shape!PenDown
    <2>2. IsElement(el')
      <3>1. el' = [kind |-> "path", x |-> 0, y |-> 0, w |-> 0, h |-> 0, bx |-> 0, by |-> 0,
                   filled |-> FALSE]
        BY <1>3 DEF Shape!PenDown, Shape!NoElement
      <3>2. QED
        BY <3>1, ElementMade
    <2>3. asked = Shape!NoBox /\ grip = Shape!NoGrip
      BY <2>1 DEF HeldIsRight, AskedOfIt
    <2>4. QED
      BY <2>1, <2>2, <2>3 DEF HeldIsRight, AskedOfIt, Shape!ResizeLands
  <1>4. ASSUME NEW batch \in Shape!Batches, Shape!AppendPoints(batch)
        PROVE  ShapeInv'
    <2> DEFINE left   == Shape!Min({el.bx} \cup {batch[i][1] : i \in DOMAIN batch})
               top    == Shape!Min({el.by} \cup {batch[i][2] : i \in DOMAIN batch})
               right  == Shape!Max({el.bx + el.w} \cup {batch[i][1] : i \in DOMAIN batch})
               bottom == Shape!Max({el.by + el.h} \cup {batch[i][2] : i \in DOMAIN batch})
    <2>1. stage = "drawing" /\ grip' = grip /\ asked' = asked
      BY <1>4 DEF Shape!AppendPoints
    <2>2. el.bx \in Int /\ el.by \in Int /\ el.bx + el.w \in Int /\ el.by + el.h \in Int
      BY DEF IsElement
    <2>3. left \in Int /\ right \in Int
      BY <1>0, <2>2, BatchIsWhole
    <2>4. top \in Int /\ bottom \in Int
      BY <1>0, <2>2, BatchIsWhole
    <2>5. el' = [el EXCEPT !.bx = left, !.by = top, !.w = right - left, !.h = bottom - top]
      BY <1>4 DEF Shape!AppendPoints, Shape!Grown
    <2> HIDE DEF left, top, right, bottom
    <2>6. IsElement(el')
      <3>1. el' = [kind |-> el.kind, x |-> el.x, y |-> el.y, w |-> right - left,
                   h |-> bottom - top, bx |-> left, by |-> top, filled |-> el.filled]
        BY <2>5 DEF IsElement
      <3>2. el.x \in Int /\ el.y \in Int /\ right - left \in Int /\ bottom - top \in Int
        BY <2>3, <2>4 DEF IsElement
      <3>3. QED
        BY <2>3, <2>4, <3>1, <3>2, ElementMade
    <2>7. asked = Shape!NoBox /\ grip = Shape!NoGrip
      BY <2>1 DEF HeldIsRight, AskedOfIt
    <2>8. QED
      BY <2>1, <2>6, <2>7 DEF HeldIsRight, AskedOfIt, Shape!ResizeLands
  <1>5. ASSUME Shape!PenUp
        PROVE  ShapeInv'
    BY <1>5 DEF Shape!PenUp, HeldIsRight, AskedOfIt, Shape!ResizeLands
  <1>6. ASSUME NEW handle \in Grips, Shape!TakeHandle(handle)
        PROVE  ShapeInv'
    <2>1. /\ stage = "done" /\ stage' = stage /\ el' = el /\ asked' = Shape!NoBox
          /\ grip' = [handle |-> handle, from |-> Shape!BboxOf(el)]
      BY <1>6 DEF Shape!TakeHandle
    <2>2. Shape!BboxOf(el) \in Shape!Box /\ Upright(el.kind, Shape!BboxOf(el))
      BY BboxFacts
    <2>3. Shape!NoBox \in Shape!Box
      BY DEF Shape!NoBox, Shape!Box
    <2>4. QED
      BY <2>1, <2>2, <2>3 DEF HeldIsRight, AskedOfIt, Shape!ResizeLands
  <1>7. ASSUME NEW to \in Spots, NEW letGo \in BOOLEAN, Shape!DragHandle(to, letGo)
        PROVE  ShapeInv'
    <2> DEFINE rect == Shape!ResizeRect(grip.from, grip.handle, to)
    <2>1. /\ grip # Shape!NoGrip /\ stage' = stage /\ el' = Shape!Fitted(el, rect) /\ asked' = rect
          /\ grip' = Shape!NoGrip \/ grip' = grip
      BY <1>7 DEF Shape!DragHandle, Shape!ResizeElement
    <2>2. to \in Int \X Int
      BY <1>0
    <2>3. grip.from \in Shape!Box /\ Upright(el.kind, grip.from) /\ stage = "done"
      BY <2>1 DEF HeldIsRight
    <2>4. rect \in Shape!Box /\ Upright(el.kind, rect)
      BY <1>0, <2>2, <2>3, ResizeFacts
    <2>5. grip' # Shape!NoGrip => \E at \in Int \X Int : rect = Shape!ResizeRect(grip'.from, grip'.handle, at)
      BY <2>1, <2>2
    <2> HIDE DEF rect
    <2>6. IsElement(el') /\ el'.kind = el.kind /\ Shape!BboxOf(el') = rect
      BY <2>1, <2>4, FittedFacts
    <2>7. HeldIsRight'
      BY <2>1, <2>3, <2>6 DEF HeldIsRight
    <2>8. AskedOfIt'
      BY <2>1, <2>3, <2>4, <2>5 DEF AskedOfIt
    <2>9. Shape!ResizeLands'
      BY <2>1, <2>6 DEF Shape!ResizeLands, Shape!BboxOf, Shape!NormalizeRect
    <2>10. QED
      BY <2>6, <2>7, <2>8, <2>9
  <1>8. ASSUME Shape!CancelResize
        PROVE  ShapeInv'
    <2>1. /\ grip # Shape!NoGrip /\ stage' = stage /\ el' = Shape!Fitted(el, grip.from)
          /\ asked' = grip.from /\ grip' = Shape!NoGrip
      BY <1>8 DEF Shape!CancelResize, Shape!ResizeElement
    <2>2. grip.from \in Shape!Box /\ Upright(el.kind, grip.from) /\ stage = "done"
      BY <2>1 DEF HeldIsRight
    <2>3. IsElement(el') /\ Shape!BboxOf(el') = grip.from
      BY <2>1, <2>2, FittedFacts
    <2>4. HeldIsRight' /\ AskedOfIt'
      BY <2>1, <2>2 DEF HeldIsRight, AskedOfIt
    <2>5. Shape!ResizeLands'
      BY <2>1, <2>3 DEF Shape!ResizeLands, Shape!BboxOf, Shape!NormalizeRect
    <2>6. QED
      BY <2>3, <2>4, <2>5
  <1>9. QED
    BY <1>1, <1>2, <1>3, <1>4, <1>5, <1>6, <1>7, <1>8 DEF Shape!Next

\* An element that is resized gets the box asked for, however often it was rounded
\* (elements.ts:248-249), and the edges that were not dragged stay where they were when
\* the handle was taken (geometry.ts, `resizeRect`).
THEOREM ResizesLand ==
    Shape!ConstantsAssumption /\ Shape!Spec => [](Shape!ResizeLands /\ Shape!FarEdgesStay)
  <1> SUFFICES ASSUME Shape!ConstantsAssumption
               PROVE  Shape!Spec => [](Shape!ResizeLands /\ Shape!FarEdgesStay)
    OBVIOUS
  <1>1. Shape!Init => ShapeInv
    <2> SUFFICES ASSUME Shape!Init PROVE ShapeInv
      OBVIOUS
    <2>1. IsElement(el)
      BY DEF Shape!Init, Shape!NoElement, IsElement
    <2>2. asked = Shape!NoBox /\ grip = Shape!NoGrip /\ Shape!NoBox \in Shape!Box
      BY DEF Shape!Init, Shape!NoBox, Shape!Box
    <2>3. QED
      BY <2>1, <2>2 DEF ShapeInv, HeldIsRight, AskedOfIt, Shape!ResizeLands
  <1>2. ShapeInv /\ [Shape!Next]_(Shape!vars) => ShapeInv'
    BY ShapeStep
  <1>3. ShapeInv => Shape!ResizeLands /\ Shape!FarEdgesStay
    <2>1. MinSize \in Nat \ {0}
      BY DEF Shape!ConstantsAssumption
    <2>2. QED
      BY <2>1, EdgesStay DEF ShapeInv
  <1>4. QED
    BY <1>1, <1>2, <1>3, PTL DEF Shape!Spec
=============================================================================
