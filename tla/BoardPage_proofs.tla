-------------------------- MODULE BoardPage_proofs --------------------------
(***************************************************************************)
(* Proofs about BoardPage, for any tabs, boards made at the address, edits *)
(* and bounds: an old board's copy stays out of the next one, the creator  *)
(* token is kept while it is worth something, and - as long as no tab is   *)
(* open for longer than a copy may lie unopened - work the page calls      *)
(* saved, or promised to keep, is there; the last two as long as nothing   *)
(* about the board before is in flight when its address is taken again.    *)
(* And about the components on the                                         *)
(* page (ElementViews) and its pointers (Pointer), which share no state    *)
(* with it: a screen at rest shows the document, and every gesture is      *)
(* settled whatever takes it over.                                         *)
(***************************************************************************)
EXTENDS BoardPage, ElementViews, Pointer, TLAPS, FiniteSetTheorems, SequenceTheorems

-----------------------------------------------------------------------------
(* The inductive invariant.                                                *)

Asking == [kind : {"none", "extend", "claim"}, token : 0..MaxMade,
           answer : {"out", "yes", "no"}, on : BOOLEAN]

Tab ==
    [page : {"closed", "loading", "ready", "missing", "expired", "unreachable"},
     answer : {"out", "live", "expired", "none"}, made : 0..MaxMade,
     status : {"none", "connecting", "connected", "reconnecting", "refused"},
     active : BOOLEAN, rejoin : BOOLEAN, synced : BOOLEAN,
     doc : SUBSET Edits, copy : {"none", "probing", "opening", "loaded", "cut"},
     saved : BOOLEAN, asking : Asking]

Entry == [kept : BOOLEAN, unsynced : BOOLEAN, old : BOOLEAN]

TheBoard ==
    [made : 0..MaxMade, state : {"none", "live", "expired"}, claimed : BOOLEAN,
     content : SUBSET Edits, here : BOOLEAN, revived : BOOLEAN]

Types ==
    /\ board \in TheBoard
    /\ copies \in [Made -> SUBSET Edits]
    /\ index \in [Made -> Entry]
    /\ \A n \in Made : index[n].kept \/ index[n] = NoEntry
    /\ token \in 0..MaxMade
    /\ tabs \in [Tabs -> Tab]
    /\ edits \in 0..MaxEdits
    /\ promised \subseteq Edits
    /\ misled \in BOOLEAN

Blank(tab) ==
    /\ tab.status = "none" /\ tab.copy = "none" /\ tab.doc = {}
    /\ ~tab.active /\ ~tab.rejoin /\ ~tab.synced /\ ~tab.saved

\* A tab that shows the board, or is about to, was opened on the one that was
\* made last; one that does not show it has nothing.
Placed(tab) ==
    /\ tab.answer # "out" => tab.page = "loading"
    /\ tab.page = "ready" \/ tab.answer = "live" => tab.made = board.made /\ board.made # 0
    /\ IF tab.page = "ready" THEN tab.status # "none" ELSE Blank(tab)

Trying(tab) ==
    /\ tab.synced => tab.status = "connected"
    /\ tab.status = "connected" => tab.active
    /\ tab.status \in {"connecting", "reconnecting"} => tab.active \/ tab.rejoin

\* But for its connection.
Alike(tab, old) ==
    /\ tab \in Tab /\ tab.page = old.page /\ tab.answer = old.answer
    /\ tab.asking = old.asking /\ tab.doc = old.doc /\ tab.made = old.made
    /\ tab.copy = old.copy /\ tab.saved = old.saved

OwnDoc(tab) == \A e \in tab.doc : e.made = tab.made

\* The board has been there since the tabs on it were opened, and its token is
\* worth something.
Lasting == board.state = "live" /\ ~board.revived
Worth   == Lasting /\ board.here /\ ~board.claimed

\* What is on its way to a tab and forgets when it lands was said of a board
\* that is no more, or whose token is worth nothing; a call that is out shows
\* the one that is.
Shows(tab) ==
    ~LateAnswers =>
        /\ tab.answer \in {"none", "expired"} => ~Lasting
        /\ \/ tab.asking.answer = "no"
           \/ tab.asking.answer = "yes" /\ tab.asking.kind = "claim"
           => ~Worth
        /\ Worth /\ tab.asking.kind # "none" => tab.asking.token = board.made

\* Saved is what a tab says whose copy was read.
SaysSaved(tab) == tab.saved => tab.copy \in {"loaded", "cut"}

Sound(tab) == Placed(tab) /\ Trying(tab) /\ OwnDoc(tab) /\ Shows(tab) /\ SaysSaved(tab)

\* What was drawn on a board is in no other, nor in the copy of another.
BoardInv ==
    /\ board.state # "none" => board.made # 0
    /\ \A e \in board.content : e.made = board.made
    /\ \A n \in Made : \A e \in copies[n] : e.made = n
    /\ ~LateAnswers /\ Worth => token = board.made

Base == Types /\ BoardInv /\ \A t \in Tabs : Sound(tabs[t])

\* A copy that is loaded has all its tab has.
Saves(tab) == tab.copy = "loaded" => tab.doc \subseteq copies[tab.made]

\* No copy is taken from a tab while the board lasts, nor its entry from the
\* index.
Holds(tab) ==
    /\ tab.copy = "cut" => ~Lasting
    /\ tab.copy \in {"opening", "loaded"} =>
          ~index[tab.made].old /\ (Lasting => index[tab.made].kept)

Held(tab) == Saves(tab) /\ Holds(tab)

\* A promised edit is on the server, or in a copy that is marked.
InMarkedCopy(e) == e \in copies[e.made] /\ index[e.made].kept /\ index[e.made].unsynced

PromiseInv ==
    /\ \A e \in promised : e.made <= board.made
    /\ Lasting /\ ~misled =>
          \A e \in promised : e.made = board.made => e \in board.content \/ InMarkedCopy(e)

Work == PromiseInv /\ \A t \in Tabs : Held(tabs[t])

-----------------------------------------------------------------------------
(* Facts about the types.                                                  *)

Pages == {"closed", "loading", "missing", "expired", "unreachable"}

\* A tab that has asked for nothing.
LEMMA NoTab ==
    /\ NoAsk \in Asking /\ ClosedTab \in Tab /\ ClosedTab.asking = NoAsk
    /\ ClosedTab.answer = "out" /\ Blank(ClosedTab)
    /\ [ClosedTab EXCEPT !.page = "loading"] = Bare(ClosedTab, "loading")
  <1>1. NoAsk \in Asking /\ 0 \in 0..MaxMade
    BY PageAssumption DEF Asking, NoAsk
  <1>2. ClosedTab \in Tab
    BY Zenon, <1>1 DEF ClosedTab, Tab
  <1>3. ClosedTab.asking = NoAsk /\ ClosedTab.answer = "out" /\ Blank(ClosedTab)
    BY DEF ClosedTab, Blank
  <1>4. [ClosedTab EXCEPT !.page = "loading"] = Bare(ClosedTab, "loading")
    BY DEF Bare, ClosedTab
  <1>5. QED
    BY <1>1, <1>2, <1>3, <1>4

\* A tab whose connection was lost, or ended by the server.
LEMMA DroppedTab ==
    ASSUME NEW tab \in Tab
    PROVE  /\ Alike(Offline(tab), tab) /\ Alike(Kicked(tab), tab)
           /\ Offline(tab).status = "reconnecting" /\ ~Offline(tab).synced
           /\ Offline(tab).active = tab.active
           /\ Kicked(tab).status = "reconnecting" /\ ~Kicked(tab).synced /\ Kicked(tab).rejoin
  <1> DEFINE off == Offline(tab)
             out == Kicked(tab)
  <1>1. off \in Tab
    BY DEF Offline, Tab
  <1>2. out \in Tab
    BY <1>1 DEF Kicked, Tab
  <1>3. /\ off.status = "reconnecting" /\ ~off.synced /\ off.active = tab.active
        /\ off.page = tab.page /\ off.answer = tab.answer /\ off.asking = tab.asking
        /\ off.doc = tab.doc /\ off.made = tab.made /\ off.copy = tab.copy
        /\ off.saved = tab.saved
    BY DEF Offline, Tab
  <1>4. out = [off EXCEPT !.active = FALSE, !.rejoin = TRUE]
    BY DEF Kicked
  <1> HIDE DEF off
  <1>5. /\ out.status = "reconnecting" /\ ~out.synced /\ out.rejoin
        /\ out.page = tab.page /\ out.answer = tab.answer /\ out.asking = tab.asking
        /\ out.doc = tab.doc /\ out.made = tab.made /\ out.copy = tab.copy
        /\ out.saved = tab.saved
    BY <1>1, <1>3, <1>4 DEF Tab
  <1> HIDE DEF out
  <1>6. QED
    BY <1>1, <1>2, <1>3, <1>5 DEF Alike, off, out

\* A page with no board on it, and what its tab had asked for.
LEMMA BareTab ==
    ASSUME NEW tab \in Tab, NEW p \in Pages
    PROVE  /\ Bare(tab, p) \in Tab /\ Bare(tab, p).page = p /\ Bare(tab, p).answer = "out"
           /\ Bare(tab, p).asking = tab.asking /\ Blank(Bare(tab, p))
           /\ Placed(Bare(tab, p)) /\ Trying(Bare(tab, p)) /\ Held(Bare(tab, p))
           /\ Shows(tab) => Shows(Bare(tab, p)) /\ Sound(Bare(tab, p))
  <1> DEFINE bare == Bare(tab, p)
  <1>1. /\ bare \in Tab /\ bare.page = p /\ bare.asking = tab.asking
        /\ bare.answer = ClosedTab.answer /\ bare.status = ClosedTab.status
        /\ bare.copy = ClosedTab.copy /\ bare.doc = ClosedTab.doc
        /\ bare.active = ClosedTab.active /\ bare.rejoin = ClosedTab.rejoin
        /\ bare.synced = ClosedTab.synced /\ bare.saved = ClosedTab.saved
    BY NoTab DEF Bare, Tab, Pages
  <1> HIDE DEF bare
  <1>2. bare.answer = "out" /\ Blank(bare)
    BY <1>1, NoTab DEF Blank
  <1>3. Placed(bare) /\ Trying(bare) /\ OwnDoc(bare) /\ SaysSaved(bare)
    BY <1>1, <1>2 DEF Pages, Placed, Trying, OwnDoc, SaysSaved, Blank
  <1>4. Held(bare)
    BY <1>2 DEF Held, Saves, Holds, Blank
  <1>5. Shows(tab) => Shows(bare)
    BY <1>1, <1>2 DEF Shows
  <1>6. QED
    BY <1>1, <1>2, <1>3, <1>4, <1>5 DEF Sound, bare

\* It is sound.
LEMMA NewTab == Sound(ClosedTab) /\ Held(ClosedTab) /\ Shows(ClosedTab)
  <1>1. Shows(ClosedTab)
    BY NoTab DEF Shows, NoAsk
  <1>2. Placed(ClosedTab) /\ Trying(ClosedTab) /\ OwnDoc(ClosedTab) /\ SaysSaved(ClosedTab)
    BY DEF ClosedTab, Placed, Trying, OwnDoc, SaysSaved, Blank
  <1>3. QED
    BY <1>1, <1>2, NoTab DEF Sound, Held, Saves, Holds, Blank

\* A tab on the board is on the one that was made last, which has a copy.
LEMMA OnBoard ==
    ASSUME Base, NEW t \in Tabs,
           \/ tabs[t].page = "ready" \/ tabs[t].status # "none" \/ tabs[t].copy # "none"
           \/ tabs[t].synced \/ tabs[t].saved
           \/ tabs[t].doc # {} \/ tabs[t].active \/ tabs[t].rejoin
    PROVE  /\ tabs[t].page = "ready" /\ tabs[t].made = board.made /\ board.made \in Made
           /\ tabs[t].status # "none"
  <1>1. tabs[t].page = "ready"
    BY DEF Base, Sound, Placed, Blank
  <1>2. QED
    BY <1>1, PageAssumption DEF Base, Sound, Placed, Types, TheBoard, Made

-----------------------------------------------------------------------------
(* Steps of one tab, which leave the board and the copies alone.           *)

\* A step of one tab that takes up no other document and no other copy keeps Base
\* and Work; a token is forgotten only where the board has no use for it.
LEMMA OneTab ==
    ASSUME Base, NEW t \in Tabs, NEW tab \in Tab, tabs' = [tabs EXCEPT ![t] = tab],
           UNCHANGED <<board, copies, index, edits, promised, misled>>,
           token' \in 0..MaxMade, token' = token \/ ~Worth \/ LateAnswers,
           Placed(tab), Trying(tab), Shows(tab),
           tab.doc = {} \/ (tab.doc = tabs[t].doc /\ tab.made = tabs[t].made),
           \/ tab.copy \in {"none", "probing"} /\ ~tab.saved
           \/ /\ tab.copy = tabs[t].copy /\ tab.saved = tabs[t].saved
              /\ tab.made = tabs[t].made
    PROVE  Base' /\ (Work => Work')
  <1>1. Types'
    BY DEF Base, Types
  <1>2. BoardInv'
    BY DEF Base, BoardInv, Worth, Lasting
  <1>3. ASSUME NEW u \in Tabs
        PROVE  Sound(tabs[u])'
    <2>1. CASE u = t
      <3>1. tabs'[u] = tab /\ OwnDoc(tab) /\ SaysSaved(tab)
        BY <2>1 DEF Base, Types, Sound, OwnDoc, SaysSaved
      <3>2. QED
        BY <3>1 DEF Sound, Placed, Trying, OwnDoc, Shows, SaysSaved, Worth, Lasting
    <2>2. CASE u # t
      BY <2>2
      DEF Base, Types, Sound, Placed, Trying, OwnDoc, Shows, SaysSaved, Worth, Lasting
    <2>3. QED
      BY <2>1, <2>2
  <1>4. ASSUME Work
        PROVE  Work'
    <2>1. PromiseInv'
      BY <1>4 DEF Work, PromiseInv, Lasting, InMarkedCopy
    <2>2. ASSUME NEW u \in Tabs
          PROVE  Held(tabs[u])'
      <3>1. CASE u = t
        <4>1. tabs'[u] = tab
          BY <3>1 DEF Base, Types
        <4>2. Held(tab)
          BY <1>4 DEF Work, Held, Saves, Holds
        <4>3. QED
          BY <4>1, <4>2 DEF Held, Saves, Holds, Lasting
      <3>2. CASE u # t
        BY <1>4, <3>2 DEF Work, Base, Types, Held, Saves, Holds, Lasting
      <3>3. QED
        BY <3>1, <3>2
    <2>3. QED
      BY <2>1, <2>2 DEF Work
  <1>5. QED
    BY <1>1, <1>2, <1>3, <1>4 DEF Base

\* Opening, fetching and leaving a board, and its calls, are such steps.
LEMMA TabSteps ==
    ASSUME Base, NEW t \in Tabs,
           \/ OpenPage(t) \/ Fetched(t) \/ FetchReady(t) \/ FetchFails(t) \/ Leave(t)
           \/ CannotKeep(t)
           \/ Connects(t) \/ Refused(t) \/ HandshakeFails(t) \/ Drops(t) \/ Rejoins(t)
           \/ Asks(t) \/ Claimed(t) \/ Extended(t) \/ AskFails(t) \/ Forbidden(t)
    PROVE  Base' /\ (Work => Work')
  <1> DEFINE old == tabs[t]
             Goal == Base' /\ (Work => Work')
  <1>0. /\ old \in Tab /\ Placed(old) /\ Trying(old) /\ Shows(old) /\ Sound(old)
        /\ board \in TheBoard /\ token \in 0..MaxMade /\ tabs \in [Tabs -> Tab]
    BY DEF Base, Types, Sound
  \* A page with no board on it.
  <1>a. ASSUME NEW p \in Pages, NEW tab \in Tab, Shows(tab),
               tabs' = [tabs EXCEPT ![t] = Bare(tab, p)],
               UNCHANGED <<board, copies, index, edits, promised, misled>>,
               token' \in 0..MaxMade, token' = token \/ ~Worth \/ LateAnswers
        PROVE  Goal
    <2>1. /\ Bare(tab, p) \in Tab /\ Placed(Bare(tab, p)) /\ Trying(Bare(tab, p))
          /\ Shows(Bare(tab, p)) /\ Blank(Bare(tab, p))
      BY <1>a, BareTab
    <2>2. QED
      BY <1>a, <2>1, OneTab DEF Blank
  <1>1. ASSUME OpenPage(t) \/ FetchFails(t) \/ Leave(t)
        PROVE  Goal
    <2>1. /\ UNCHANGED <<board, copies, index, edits, promised, misled>>
          /\ token' \in 0..MaxMade /\ token' = token
      BY <1>0, <1>1 DEF OpenPage, FetchFails, Leave
    <2>2. CASE OpenPage(t) \/ FetchFails(t)
      <3>1. PICK p \in Pages : tabs' = [tabs EXCEPT ![t] = Bare(old, p)]
        BY <2>2 DEF OpenPage, FetchFails, Pages
      <3>2. QED
        BY <1>0, <1>a, <2>1, <3>1
    <2>3. CASE Leave(t)
      <3> DEFINE bare == Bare(old, "closed")
                 a    == [old.asking EXCEPT !.on = FALSE]
                 tab  == [bare EXCEPT !.asking = a]
      <3>1. /\ bare \in Tab /\ bare.page = "closed" /\ bare.answer = "out" /\ Blank(bare)
            /\ bare.asking = old.asking /\ old.asking \in Asking
        BY <1>0, BareTab DEF Pages, Tab
      <3>2. tabs' = [tabs EXCEPT ![t] = tab]
        BY <2>3, <3>1 DEF Leave
      <3>3. /\ a \in Asking /\ a.kind = old.asking.kind /\ a.token = old.asking.token
            /\ a.answer = old.asking.answer
        BY <3>1 DEF Asking
      <3> HIDE DEF bare, a
      <3>4. /\ tab \in Tab /\ tab.page = "closed" /\ tab.answer = "out" /\ tab.asking = a
            /\ Blank(tab) /\ ~tab.synced /\ tab.status = "none"
        BY <3>1, <3>3 DEF Tab, Blank
      <3> HIDE DEF tab
      <3>5. Placed(tab) /\ Trying(tab) /\ Shows(tab)
        BY <1>0, <3>3, <3>4 DEF Placed, Trying, Shows
      <3>6. QED
        BY <2>1, <3>2, <3>4, <3>5, OneTab DEF Blank
    <2>4. QED
      BY <1>1, <2>2, <2>3
  \* The server's answer, and its landing.
  <1>b. ASSUME Fetched(t)
        PROVE  Goal
    <2> DEFINE n   == IF board.state = "live" THEN board.made ELSE 0
               tab == [old EXCEPT !.answer = board.state, !.made = n]
    <2>1. /\ tabs' = [tabs EXCEPT ![t] = tab] /\ old.page = "loading"
          /\ UNCHANGED <<board, copies, index, token, edits, promised, misled>>
      BY <1>b DEF Fetched
    <2>2. n \in 0..MaxMade /\ (board.state = "live" => n = board.made /\ board.made # 0)
      BY <1>0, PageAssumption DEF TheBoard, Base, BoardInv
    <2> HIDE DEF n
    <2>3. /\ tab \in Tab /\ tab.answer = board.state /\ tab.made = n /\ tab.page = "loading"
          /\ tab.status = old.status /\ tab.active = old.active /\ tab.rejoin = old.rejoin
          /\ tab.synced = old.synced /\ tab.doc = old.doc /\ tab.copy = old.copy
          /\ tab.saved = old.saved /\ tab.asking = old.asking
      BY <1>0, <2>1, <2>2 DEF Tab, TheBoard
    <2> HIDE DEF tab
    <2>4. Blank(tab)
      BY <1>0, <2>1, <2>3 DEF Placed, Blank
    <2>5. Placed(tab) /\ Trying(tab)
      BY <2>2, <2>3, <2>4 DEF Placed, Trying, Blank
    <2>6. Shows(tab)
      BY <1>0, <2>3 DEF Shows, Lasting
    <2>7. QED
      BY <1>0, <2>1, <2>3, <2>4, <2>5, <2>6, OneTab DEF Blank
  <1>2. ASSUME FetchReady(t)
        PROVE  Goal
    <2> DEFINE tab == [old EXCEPT !.page = "ready", !.answer = "out",
                                  !.status = "connecting", !.active = TRUE,
                                  !.copy = "probing"]
    <2>1. /\ old.page = "loading" /\ old.answer = "live" /\ tabs' = [tabs EXCEPT ![t] = tab]
          /\ UNCHANGED <<board, copies, index, token, edits, promised, misled>>
      BY <1>2 DEF FetchReady
    <2>2. Blank(old) /\ old.made = board.made /\ board.made # 0
      BY <1>0, <2>1 DEF Placed
    <2>3. /\ tab \in Tab /\ tab.doc = old.doc /\ tab.made = old.made /\ tab.saved = old.saved
          /\ tab.copy = "probing" /\ tab.asking = old.asking /\ tab.answer = "out"
          /\ tab.page = "ready" /\ tab.status = "connecting"
          /\ tab.active /\ tab.synced = old.synced
      BY <1>0 DEF Tab
    <2> HIDE DEF tab
    <2>4. Placed(tab) /\ Trying(tab) /\ Shows(tab)
      BY <1>0, <2>2, <2>3 DEF Placed, Trying, Shows, Blank
    <2>5. QED
      BY <1>0, <2>1, <2>2, <2>3, <2>4, OneTab DEF Blank
  <1>3. ASSUME CannotKeep(t)
        PROVE  Goal
    <2> DEFINE tab == [old EXCEPT !.copy = "none"]
    <2>1. old.copy = "probing" /\ tabs' = [tabs EXCEPT ![t] = tab]
      BY <1>3 DEF CannotKeep
    <2>2. old.page = "ready" /\ ~old.saved
      BY <1>0, <2>1, OnBoard DEF Sound, SaysSaved
    <2>3. /\ tab \in Tab /\ tab.copy = "none" /\ ~tab.saved /\ tab.doc = old.doc
          /\ tab.made = old.made
      BY <1>0, <2>2 DEF Tab
    <2>4. Placed(tab) /\ Trying(tab) /\ Shows(tab)
      BY <1>0, <2>2 DEF Placed, Trying, Shows, Tab
    <2>5. UNCHANGED <<board, copies, index, token, edits, promised, misled>>
      BY <1>3 DEF CannotKeep
    <2>6. QED
      BY <1>0, <2>1, <2>3, <2>4, <2>5, OneTab
  \* The connection alone.
  <1>4. ASSUME NEW tab \in Tab, old.page = "ready", tab.page = "ready",
               tab.answer = old.answer, tab.asking = old.asking, tab.doc = old.doc,
               tab.made = old.made, tab.copy = old.copy, tab.saved = old.saved,
               tab.status # "none", Trying(tab), tabs' = [tabs EXCEPT ![t] = tab],
               UNCHANGED <<board, copies, index, token, edits, promised, misled>>
        PROVE  Goal
    <2>1. Placed(tab) /\ Shows(tab)
      BY <1>0, <1>4 DEF Placed, Shows
    <2>2. QED
      BY <1>0, <1>4, <2>1, OneTab
  <1>5. ASSUME Connects(t) \/ Refused(t) \/ HandshakeFails(t) \/ Drops(t) \/ Rejoins(t)
        PROVE  Goal
    <2>1. UNCHANGED <<board, copies, index, token, edits, promised, misled>>
      BY <1>5 DEF Connects, Refused, HandshakeFails, Drops, Rejoins
    <2>2. old.page = "ready"
      BY <1>5, OnBoard DEF Connects, Refused, HandshakeFails, Drops, Rejoins
    <2>3. CASE Connects(t)
      <3> DEFINE tab == [old EXCEPT !.status = "connected"]
      <3>1. tabs' = [tabs EXCEPT ![t] = tab] /\ old.active /\ ~old.synced
        BY <1>0, <2>3 DEF Connects, Trying
      <3>2. Alike(tab, old) /\ tab.status = "connected" /\ tab.active /\ ~tab.synced
        BY <1>0, <3>1 DEF Tab, Alike
      <3> HIDE DEF tab
      <3>3. QED
        BY <1>4, <2>1, <2>2, <3>1, <3>2 DEF Alike, Trying
    <2>4. CASE Refused(t)
      <3> DEFINE tab == [old EXCEPT !.status = "refused", !.active = FALSE]
      <3>1. tabs' = [tabs EXCEPT ![t] = tab] /\ ~old.synced
        BY <1>0, <2>4 DEF Refused, Trying
      <3>2. Alike(tab, old) /\ tab.status = "refused" /\ ~tab.synced
        BY <1>0, <3>1 DEF Tab, Alike
      <3> HIDE DEF tab
      <3>3. QED
        BY <1>4, <2>1, <2>2, <3>1, <3>2 DEF Alike, Trying
    <2>5. CASE HandshakeFails(t)
      <3> DEFINE tab == [old EXCEPT !.status = "reconnecting"]
      <3>1. tabs' = [tabs EXCEPT ![t] = tab] /\ ~old.synced /\ old.active
        BY <1>0, <2>5 DEF HandshakeFails, Trying
      <3>2. Alike(tab, old) /\ tab.status = "reconnecting" /\ tab.active /\ ~tab.synced
        BY <1>0, <3>1 DEF Tab, Alike
      <3> HIDE DEF tab
      <3>3. QED
        BY <1>4, <2>1, <2>2, <3>1, <3>2 DEF Alike, Trying
    <2>6. CASE Drops(t)
      <3>1. old.status = "connected" /\ old.active
        BY <1>0, <2>6 DEF Drops, Trying
      <3>2. PICK tab \in {Offline(old), Kicked(old)} : tabs' = [tabs EXCEPT ![t] = tab]
        BY <2>6 DEF Drops
      <3>3. /\ Alike(Offline(old), old) /\ Offline(old).active
            /\ Offline(old).status = "reconnecting" /\ ~Offline(old).synced
        BY <1>0, <3>1, DroppedTab
      <3>4. /\ Alike(Kicked(old), old) /\ Kicked(old).rejoin
            /\ Kicked(old).status = "reconnecting" /\ ~Kicked(old).synced
        BY <1>0, DroppedTab
      <3>5. QED
        BY <1>4, <2>1, <2>2, <3>2, <3>3, <3>4 DEF Alike, Trying
    <2>7. CASE Rejoins(t)
      <3> DEFINE tab == [old EXCEPT !.rejoin = FALSE, !.active = TRUE]
      <3>1. tabs' = [tabs EXCEPT ![t] = tab] /\ old.status # "none"
        BY <2>2, <2>7, OnBoard DEF Rejoins
      <3>2. /\ Alike(tab, old) /\ tab.status = old.status /\ tab.active
            /\ tab.synced = old.synced
        BY <1>0 DEF Tab, Alike
      <3> HIDE DEF tab
      <3>3. QED
        BY <1>0, <1>4, <2>1, <2>2, <3>1, <3>2 DEF Alike, Trying
    <2>8. QED
      BY <1>5, <2>3, <2>4, <2>5, <2>6, <2>7
  \* What is asked with the token.
  <1>6. ASSUME NEW a \in Asking, a = NoAsk \/ (a.token = token /\ a.answer = "out"),
               tabs' = [tabs EXCEPT ![t] = [old EXCEPT !.asking = a]],
               UNCHANGED <<board, copies, index, edits, promised, misled>>,
               token' \in 0..MaxMade, token' = token \/ ~Worth \/ LateAnswers
        PROVE  Goal
    <2> DEFINE tab == [old EXCEPT !.asking = a]
    <2>1. /\ tab \in Tab /\ tab.page = old.page /\ tab.answer = old.answer
          /\ tab.status = old.status /\ tab.active = old.active /\ tab.rejoin = old.rejoin
          /\ tab.synced = old.synced /\ tab.doc = old.doc /\ tab.made = old.made
          /\ tab.copy = old.copy /\ tab.saved = old.saved /\ tab.asking = a
      BY <1>0 DEF Tab
    <2> HIDE DEF tab
    <2>2. Placed(tab) /\ Trying(tab)
      BY <1>0, <2>1 DEF Placed, Trying, Blank
    <2>3. Shows(tab)
      BY <1>0, <1>6, <2>1 DEF Shows, Base, BoardInv, NoAsk
    <2>4. QED
      BY <1>0, <1>6, <2>1, <2>2, <2>3, OneTab DEF tab
  <1>7. ASSUME Asks(t)
        PROVE  Goal
    <2>1. PICK kind \in {"extend", "claim"} :
             tabs' = [tabs EXCEPT ![t].asking =
                        [kind |-> kind, token |-> token, answer |-> "out", on |-> (kind = "claim")]]
      BY <1>7 DEF Asks
    <2> DEFINE a == [kind |-> kind, token |-> token, answer |-> "out", on |-> (kind = "claim")]
    <2>2. a \in Asking /\ a.token = token /\ a.answer = "out"
      BY <1>0 DEF Asking
    <2> HIDE DEF a
    <2>3. tabs' = [tabs EXCEPT ![t] = [old EXCEPT !.asking = a]]
      BY <2>1 DEF a
    <2>4. QED
      BY <1>0, <1>6, <1>7, <2>2, <2>3 DEF Asks
  <1>8. ASSUME AskFails(t) \/ Forbidden(t) \/ Extended(t) \/ Claimed(t)
        PROVE  Goal
    <2>1. /\ UNCHANGED <<board, copies, index, edits, promised, misled>>
          /\ token' \in 0..MaxMade /\ (token' = token \/ ~Worth \/ LateAnswers)
      <3>1. CASE AskFails(t) \/ Extended(t)
        BY <1>0, <3>1 DEF AskFails, Unless403, Extended
      <3>2. CASE Forbidden(t) \/ Claimed(t)
        BY <1>0, <3>2, PageAssumption DEF Forbidden, Claimed, Shows
      <3>3. QED
        BY <1>8, <3>1, <3>2
    <2>2. CASE tabs' = [tabs EXCEPT ![t] = [ClosedTab EXCEPT !.page = "loading"]]
      <3>1. tabs' = [tabs EXCEPT ![t] = Bare(ClosedTab, "loading")]
        BY <2>2, NoTab
      <3>2. QED
        BY <1>a, <2>1, <3>1, NewTab, NoTab DEF Pages
    <2>3. CASE tabs' = [tabs EXCEPT ![t] = [old EXCEPT !.asking = NoAsk]]
      BY <1>6, <2>1, <2>3, NoTab
    <2>4. \/ tabs' = [tabs EXCEPT ![t] = [ClosedTab EXCEPT !.page = "loading"]]
          \/ tabs' = [tabs EXCEPT ![t] = [old EXCEPT !.asking = NoAsk]]
      BY <1>8 DEF AskFails, Forbidden, Extended, Claimed
    <2>5. QED
      BY <2>2, <2>3, <2>4
  <1>9. QED
    BY <1>1, <1>b, <1>2, <1>3, <1>5, <1>7, <1>8

-----------------------------------------------------------------------------
(* Steps that sweep copies.                                                *)

\* A tab whose copy is taken is as sound as before.
LEMMA CutTab ==
    ASSUME Base, NEW stale, NEW u \in Tabs
    PROVE  /\ Cut(stale)[u] \in Tab /\ Sound(Cut(stale)[u])
           /\ \/ Cut(stale)[u] = tabs[u] /\ (tabs[u].copy = "loaded" => board.made \notin stale)
              \/ /\ tabs[u].copy = "loaded" /\ board.made \in stale
                 /\ Cut(stale)[u] = [tabs[u] EXCEPT !.copy = "cut"]
                 /\ Cut(stale)[u].copy = "cut"
  <1> DEFINE cut == [tabs[u] EXCEPT !.copy = "cut"]
  <1>1. tabs[u] \in Tab /\ Sound(tabs[u])
    BY DEF Base, Types
  <1>2. tabs[u].copy = "loaded" => tabs[u].page = "ready" /\ tabs[u].made = board.made
    BY OnBoard
  <1>3. Cut(stale)[u] = IF tabs[u].copy = "loaded" /\ board.made \in stale THEN cut ELSE tabs[u]
    BY <1>2 DEF Cut, Name
  <1>4. cut \in Tab /\ cut.copy = "cut"
    BY <1>1 DEF Tab
  <1>5. tabs[u].page = "ready" => Sound(cut)
    BY <1>1 DEF Sound, Placed, Trying, OwnDoc, Shows, SaysSaved, Tab
  <1>6. QED
    BY <1>1, <1>2, <1>3, <1>4, <1>5

\* The copies of stale boards go, with the tabs that hold them cut off.
LEMMA Sweeps ==
    ASSUME Base, NEW stale \in SUBSET Made, Swept(stale),
           tabs' \in [Tabs -> Tab],
           \A u \in Tabs :
              \/ tabs'[u] = Cut(stale)[u]
              \/ \E p \in Pages : tabs'[u] = Bare(tabs[u], p),
           UNCHANGED <<board, edits, promised, misled>>,
           token' \in 0..MaxMade, token' = token \/ ~Worth \/ LateAnswers
    PROVE  /\ Base'
           /\ Work /\ (board.made \in stale /\ Lasting =>
                          index[board.made].old /\ ~index[board.made].unsynced)
              => Work'
  <1>1. /\ copies' \in [Made -> SUBSET Edits] /\ index' \in [Made -> Entry]
        /\ \A n \in Made : index'[n].kept \/ index'[n] = NoEntry
        /\ \A n \in Made : copies'[n] \subseteq copies[n] /\ ~(NoEntry.old)
        /\ \A n \in Made : n \notin stale => copies'[n] = copies[n] /\ index'[n] = index[n]
        /\ \A n \in stale : index'[n] = NoEntry
    BY DEF Swept, Base, Types, NoEntry, Entry
  <1>2. Types'
    BY <1>1 DEF Base, Types
  <1>3. BoardInv'
    BY <1>1 DEF Base, BoardInv, Worth, Lasting
  <1>4. ASSUME NEW u \in Tabs
        PROVE  Sound(tabs[u])'
    <2>1. CASE tabs'[u] = Cut(stale)[u]
      <3>1. Sound(Cut(stale)[u])
        BY CutTab
      <3>2. QED
        BY <2>1, <3>1 DEF Sound, Placed, Trying, OwnDoc, Shows, SaysSaved, Worth, Lasting
    <2>2. CASE \E p \in Pages : tabs'[u] = Bare(tabs[u], p)
      <3>1. PICK p \in Pages : tabs'[u] = Bare(tabs[u], p)
        BY <2>2
      <3>2. Sound(Bare(tabs[u], p))
        BY BareTab DEF Base, Types, Sound
      <3>3. QED
        BY <3>1, <3>2 DEF Sound, Placed, Trying, OwnDoc, Shows, SaysSaved, Worth, Lasting
    <2>3. QED
      BY <2>1, <2>2
  <1>5. ASSUME Work,
               board.made \in stale /\ Lasting =>
                  index[board.made].old /\ ~index[board.made].unsynced
        PROVE  Work'
    <2>1. ASSUME NEW e \in promised, Lasting, e.made = board.made, InMarkedCopy(e)
          PROVE  InMarkedCopy(e)'
      <3>1. e.made \in Made /\ e.made \notin stale
        BY <1>5, <2>1 DEF InMarkedCopy, Base, Types, Edits
      <3>2. QED
        BY <1>1, <2>1, <3>1 DEF InMarkedCopy
    <2>2. PromiseInv'
      BY <1>5, <2>1 DEF Work, PromiseInv, Lasting
    <2>3. ASSUME NEW u \in Tabs
          PROVE  Held(tabs[u])'
      <3>1. CASE \E p \in Pages : tabs'[u] = Bare(tabs[u], p)
        <4>1. tabs'[u].copy = "none"
          BY <3>1, BareTab DEF Base, Types, Blank
        <4>2. QED
          BY <4>1 DEF Held, Saves, Holds
      <3>2. CASE tabs'[u] = tabs[u] /\ (tabs[u].copy = "loaded" => board.made \notin stale)
        <4>1. Held(tabs[u])
          BY <1>5 DEF Work
        <4>2. tabs[u].copy \in {"opening", "loaded", "cut"}
                => tabs[u].made = board.made /\ board.made \in Made
          BY OnBoard
        <4>3. Saves(tabs[u])'
          BY <1>1, <3>2, <4>1, <4>2 DEF Held, Saves
        <4>4. ASSUME tabs[u].copy \in {"opening", "loaded"}
              PROVE  ~index'[board.made].old /\ (Lasting => index'[board.made].kept)
          <5>1. CASE board.made \in stale
            BY <1>1, <1>5, <4>1, <4>2, <4>4, <5>1 DEF Held, Holds, NoEntry
          <5>2. CASE board.made \notin stale
            BY <1>1, <4>1, <4>2, <4>4, <5>2 DEF Held, Holds
          <5>3. QED
            BY <5>1, <5>2
        <4>5. Holds(tabs[u])'
          BY <3>2, <4>1, <4>2, <4>4 DEF Held, Holds, Lasting
        <4>6. QED
          BY <4>3, <4>5 DEF Held
      <3>3. CASE /\ tabs[u].copy = "loaded" /\ board.made \in stale
                 /\ tabs'[u].copy = "cut"
        <4>1. ~Lasting
          BY <1>5, <3>3, OnBoard DEF Work, Held, Holds
        <4>2. QED
          BY <3>3, <4>1 DEF Held, Saves, Holds, Lasting
      <3>4. CASE tabs'[u] = Cut(stale)[u]
        <4>1. \/ Cut(stale)[u] = tabs[u] /\ (tabs[u].copy = "loaded" => board.made \notin stale)
              \/ /\ tabs[u].copy = "loaded" /\ board.made \in stale
                 /\ Cut(stale)[u] = [tabs[u] EXCEPT !.copy = "cut"]
                 /\ Cut(stale)[u].copy = "cut"
          BY CutTab, Zenon
        <4>2. QED
          BY <3>2, <3>3, <3>4, <4>1
      <3>5. QED
        BY <3>1, <3>4
    <2>4. QED
      BY <2>2, <2>3 DEF Work
  <1>6. QED
    BY <1>2, <1>3, <1>4, <1>5 DEF Base

\* A board opened elsewhere, and a fetch of one that has gone, sweep copies so.
LEMMA SweepSteps ==
    ASSUME Base, OpenElsewhere \/ \E t \in Tabs : FetchGone(t)
    PROVE  Base' /\ (~LateAnswers /\ Work => Work')
  <1>1. Known \subseteq Made /\ Stale \subseteq Known
    BY DEF Known, Stale
  <1>2. CASE OpenElsewhere
    <2>1. tabs' \in [Tabs -> Tab] /\ \A u \in Tabs : tabs'[u] = Cut(Stale)[u]
      <3>1. tabs' = Cut(Stale) /\ \A u \in Tabs : Cut(Stale)[u] \in Tab
        BY <1>2, CutTab DEF OpenElsewhere
      <3>2. QED
        BY <3>1 DEF Cut
    <2>2. /\ Swept(Stale) /\ UNCHANGED <<board, token, edits, promised, misled>>
          /\ token \in 0..MaxMade
      BY <1>2 DEF OpenElsewhere, Base, Types
    <2>3. QED
      BY <1>1, <2>1, <2>2, Sweeps DEF Stale
  <1>3. ASSUME NEW t \in Tabs, FetchGone(t)
        PROVE  Base' /\ (~LateAnswers /\ Work => Work')
    <2>1. /\ tabs[t] \in Tab /\ tabs[t].copy = "none" /\ tabs[t].page = "loading"
          /\ tabs[t].answer \in {"none", "expired"} /\ (~LateAnswers => ~Lasting)
      BY <1>3 DEF FetchGone, Base, Types, Sound, Placed, Blank, Shows
    <2>2. Cut(Known)[t] = tabs[t] /\ Cut(Known) = [u \in Tabs |-> Cut(Known)[u]]
      BY <2>1 DEF Cut
    <2>3. PICK p \in Pages : tabs' = [Cut(Known) EXCEPT ![t] = Bare(tabs[t], p)]
      BY <1>3, <2>2 DEF FetchGone, Pages
    <2>4. tabs'[t] = Bare(tabs[t], p) /\ \A u \in Tabs : u # t => tabs'[u] = Cut(Known)[u]
      BY <2>2, <2>3
    <2>5. tabs' \in [Tabs -> Tab]
      <3>1. tabs'[t] \in Tab
        BY <2>1, <2>4, BareTab
      <3>2. \A u \in Tabs : u # t => tabs'[u] \in Tab
        BY ZenonT(60), <2>4, CutTab
      <3>3. QED
        BY <2>2, <2>3, <3>1, <3>2
    <2>6. /\ Swept(Known) /\ UNCHANGED <<board, edits, promised, misled>>
          /\ token' \in 0..MaxMade /\ (token' = token \/ ~Worth \/ LateAnswers)
      BY <1>3, <2>1, PageAssumption DEF FetchGone, Worth, Base, Types
    <2>7. QED
      BY <1>1, <2>1, <2>4, <2>5, <2>6, Sweeps
  <1>4. QED
    BY <1>2, <1>3

\* The copies of the boards before are no copies of a tab's.
LEMMA ProvidesKeeps ==
    ASSUME Base, NEW t \in Tabs, Provides(t)
    PROVE  Base' /\ (Work => Work')
  <1> DEFINE n     == board.made
             older == Known \ {n}
             tab   == [tabs[t] EXCEPT !.copy = "opening"]
             entry == [NoEntry EXCEPT !.kept = TRUE, !.unsynced = index[n].unsynced]
  <1>1. /\ tabs[t].copy = "probing" /\ tabs[t].page = "ready" /\ tabs[t].made = n /\ n \in Made
        /\ tabs[t] \in Tab /\ Sound(tabs[t]) /\ tabs \in [Tabs -> Tab]
    BY OnBoard DEF Provides, Base, Types
  <1>2. /\ copies' = [m \in Made |-> IF m \in older THEN {} ELSE copies[m]]
        /\ index' = [m \in Made |-> IF m = n THEN entry ELSE IF m \in older THEN NoEntry ELSE index[m]]
        /\ UNCHANGED <<board, token, edits, promised, misled>>
    BY <1>1 DEF Provides, Name
  <1>3. Cut(older) = tabs
    <2>1. \A u \in Tabs : Cut(older)[u] = tabs[u]
      BY OnBoard DEF Cut, Name
    <2>2. QED
      BY <1>1, <2>1 DEF Cut
  <1>4. tabs' = [tabs EXCEPT ![t] = tab]
    BY <1>1, <1>3 DEF Provides, Name, Opening
  <1>5. tab \in Tab /\ Sound(tab) /\ tab.copy = "opening" /\ tab.made = n
    BY <1>1 DEF Tab, Sound, Placed, Trying, OwnDoc, Shows, SaysSaved
  <1>6. entry \in Entry /\ entry.kept /\ ~entry.old /\ entry.unsynced = index[n].unsynced
    BY <1>1 DEF Base, Types, Entry, NoEntry
  <1>7. Types'
    <2>1. index' \in [Made -> Entry] /\ \A m \in Made : index'[m].kept \/ index'[m] = NoEntry
      BY <1>2, <1>6 DEF Base, Types, NoEntry, Entry
    <2>2. copies' \in [Made -> SUBSET Edits] /\ tabs' \in [Tabs -> Tab]
      BY <1>1, <1>2, <1>4, <1>5 DEF Base, Types
    <2>3. QED
      BY <1>2, <2>1, <2>2 DEF Base, Types
  <1>8. BoardInv'
    BY <1>2 DEF Base, BoardInv, Worth, Lasting
  <1>9. ASSUME NEW u \in Tabs
        PROVE  Sound(tabs[u])'
    <2>1. Sound(tabs'[u])
      <3>1. CASE u = t
        BY <1>1, <1>4, <1>5, <3>1
      <3>2. CASE u # t
        BY <1>1, <1>4, <3>2 DEF Base
      <3>3. QED
        BY <3>1, <3>2
    <2>2. QED
      BY <1>2, <2>1 DEF Sound, Placed, Trying, OwnDoc, Shows, SaysSaved, Worth, Lasting
  <1>10. ASSUME Work
         PROVE  Work'
    <2>1. PromiseInv'
      <3>1. ASSUME NEW e, e.made = n, InMarkedCopy(e)
            PROVE  InMarkedCopy(e)'
        BY <1>1, <1>2, <1>6, <3>1 DEF InMarkedCopy
      <3>2. QED
        BY <1>2, <1>10, <3>1 DEF Work, PromiseInv, Lasting
    <2>2. ASSUME NEW u \in Tabs
          PROVE  Held(tabs[u])'
      <3>1. copies'[n] = copies[n] /\ index'[n] = entry
        BY <1>1, <1>2
      <3>2. CASE u = t
        BY <1>1, <1>4, <1>5, <1>6, <3>1, <3>2 DEF Held, Saves, Holds
      <3>3. CASE u # t
        <4>1. tabs'[u] = tabs[u] /\ Held(tabs[u])
          BY <1>1, <1>4, <1>10, <3>3 DEF Work
        <4>2. tabs[u].copy \in {"opening", "loaded", "cut"} => tabs[u].made = n
          BY OnBoard
        <4>3. QED
          BY <1>2, <1>6, <3>1, <4>1, <4>2 DEF Held, Saves, Holds, Lasting
      <3>4. QED
        BY <3>2, <3>3
    <2>3. QED
      BY <2>1, <2>2 DEF Work
  <1>11. QED
    BY <1>7, <1>8, <1>9, <1>10 DEF Base

-----------------------------------------------------------------------------
(* Steps in which a document changes.                                      *)

\* What a tab's document has gets to the server, the tabs and their copies, all
\* of the same board.
LEMMA BecomesKeeps ==
    ASSUME Base, NEW t \in Tabs, tabs[t].page = "ready",
           NEW tab \in Tab, tab.page = "ready", tab.made = tabs[t].made, Sound(tab),
           Becomes(t, tab), index' \in [Made -> Entry],
           \A n \in Made : /\ index'[n].kept = index[n].kept /\ index'[n].old = index[n].old
                           /\ index'[n].kept \/ index'[n] = NoEntry,
           token' = token, edits' \in 0..MaxEdits, promised' \subseteq Edits,
           misled' \in BOOLEAN
    PROVE  /\ Base'
           /\ board.content \subseteq board'.content
           /\ board'.made = board.made /\ (Lasting' <=> Lasting)
           /\ \A n \in Made : copies[n] \subseteq copies'[n]
           /\ tab.copy = "loaded" => tab.doc \subseteq copies'[board.made]
           /\ Holds(tab) /\ (\A u \in Tabs : Held(tabs[u])) => \A u \in Tabs : Held(tabs[u])'
  <1> DEFINE n        == board.made
             all      == tab.doc \cup (IF tab.synced THEN board.content ELSE {})
             After(u) == CASE u = t -> [tab EXCEPT !.doc = all]
                           [] u # t /\ tab.synced /\ tabs[u].synced
                                -> [tabs[u] EXCEPT !.doc = @ \cup all]
                           [] OTHER -> tabs[u]
             kept     == UNION {After(u).doc : u \in {u \in Tabs :
                                   After(u).copy = "loaded" /\ After(u).made = tab.made}}
  <1>1. /\ tabs' = [u \in Tabs |-> After(u)]
        /\ board' = IF tab.synced THEN [board EXCEPT !.content = all] ELSE board
        /\ copies' = [copies EXCEPT ![n] = @ \cup kept]
        /\ n \in Made /\ tab.made = n
    BY OnBoard DEF Becomes, Name
  <1>2. board \in TheBoard /\ \A u \in Tabs : tabs[u] \in Tab /\ Sound(tabs[u])
    BY DEF Base, Types
  <1>3. all \subseteq Edits /\ \A e \in all : e.made = n
    BY <1>1, <1>2 DEF Sound, OwnDoc, Base, BoardInv, Tab, TheBoard
  <1>4. ASSUME NEW u \in Tabs
        PROVE  /\ After(u) \in Tab /\ Sound(After(u))
               /\ After(u).copy = "loaded" => After(u).made = n
               /\ u # t => After(u).copy = tabs[u].copy /\ After(u).made = tabs[u].made
    <2>1. CASE u = t
      <3>1. After(u) = [tab EXCEPT !.doc = all]
        BY <2>1
      <3>2. QED
        BY <1>1, <1>3, <2>1, <3>1
        DEF Tab, Sound, Placed, Trying, OwnDoc, Shows, SaysSaved
    <2>2. CASE u # t /\ tab.synced /\ tabs[u].synced
      <3>1. After(u) = [tabs[u] EXCEPT !.doc = @ \cup all]
        BY <2>2
      <3>2. tabs[u].page = "ready" /\ tabs[u].made = n
        BY <2>2, OnBoard
      <3>3. /\ After(u) \in Tab /\ After(u).doc = tabs[u].doc \cup all
            /\ After(u).page = "ready" /\ After(u).made = n
            /\ After(u).copy = tabs[u].copy /\ After(u).status = tabs[u].status
            /\ After(u).active = tabs[u].active /\ After(u).rejoin = tabs[u].rejoin
            /\ After(u).synced = tabs[u].synced /\ After(u).saved = tabs[u].saved
            /\ After(u).asking = tabs[u].asking /\ After(u).answer = tabs[u].answer
        BY <1>2, <1>3, <3>1, <3>2 DEF Tab
      <3>4. Sound(After(u))
        <4> HIDE DEF After, all
        <4>1. OwnDoc(After(u))
          BY <1>2, <1>3, <3>2, <3>3 DEF Sound, OwnDoc
        <4>2. Placed(tabs[u]) /\ Trying(tabs[u]) /\ Shows(tabs[u]) /\ SaysSaved(tabs[u])
          BY <1>2 DEF Sound
        <4>3. Placed(After(u))
          BY <3>2, <3>3, <4>2 DEF Placed
        <4>4. Trying(After(u))
          BY <3>3, <4>2 DEF Trying
        <4>5. Shows(After(u)) /\ SaysSaved(After(u))
          BY <3>3, <4>2 DEF Shows, SaysSaved
        <4>6. QED
          BY <4>1, <4>3, <4>4, <4>5 DEF Sound
      <3>5. QED
        BY <3>2, <3>3, <3>4
    <2>3. CASE u # t /\ ~(tab.synced /\ tabs[u].synced)
      <3>1. After(u) = tabs[u]
        BY <2>3
      <3>2. tabs[u].copy = "loaded" => tabs[u].made = n
        BY OnBoard
      <3>3. QED
        BY <1>2, <2>3, <3>1, <3>2
    <2>4. QED
      BY <2>1, <2>2, <2>3
  <1>5. \A u \in Tabs : tabs'[u] = After(u)
    BY <1>1
  <1>7. tabs'[t] = [tab EXCEPT !.doc = all]
    BY <1>5
  <1> HIDE DEF After
  <1>8. kept \subseteq Edits /\ \A e \in kept : e.made = n
    <2>1. \A u \in Tabs : After(u).doc \subseteq Edits /\ \A e \in After(u).doc : e.made = After(u).made
      BY <1>4 DEF Sound, OwnDoc, Tab
    <2>2. QED
      BY <1>1, <2>1
  <1>9. \A u \in Tabs : tabs'[u].copy = "loaded" => tabs'[u].made = n /\ tabs'[u].doc \subseteq kept
    <2>1. ASSUME NEW u \in Tabs, After(u).copy = "loaded"
          PROVE  After(u).made = n /\ After(u).doc \subseteq kept
      BY <1>1, <1>4, <2>1
    <2>2. QED
      BY <1>5, <2>1
  <1> HIDE DEF kept
  <1>10. /\ board' \in TheBoard /\ board'.made = n /\ board.content \subseteq board'.content
         /\ board'.content \subseteq board.content \cup all
         /\ (Lasting' <=> Lasting) /\ (Worth' <=> Worth) /\ board'.state = board.state
    <2>1. CASE tab.synced
      BY <1>1, <1>2, <1>3, <2>1 DEF TheBoard, Lasting, Worth
    <2>2. CASE ~tab.synced
      BY <1>1, <1>2, <2>2 DEF Lasting, Worth
    <2>3. QED
      BY <2>1, <2>2
  <1>11. /\ \A m \in Made : copies[m] \subseteq copies'[m]
         /\ \A m \in Made : m # n => copies'[m] = copies[m]
         /\ copies'[n] = copies[n] \cup kept
    BY <1>1 DEF Base, Types
  <1>12. Types'
    <2>1. copies' \in [Made -> SUBSET Edits]
      BY <1>1, <1>8 DEF Base, Types
    <2>2. tabs' \in [Tabs -> Tab]
      BY <1>1, <1>4
    <2>3. QED
      BY <1>10, <2>1, <2>2 DEF Base, Types
  <1>13. BoardInv'
    BY <1>1, <1>3, <1>8, <1>10, <1>11 DEF Base, BoardInv
  <1>14. \A u \in Tabs : Sound(tabs[u])'
    <2>1. ASSUME NEW u \in Tabs
          PROVE  Sound(tabs[u])'
      <3>1. Sound(tabs'[u])
        BY <1>4, <1>5
      <3>2. QED
        BY <1>10, <3>1 DEF Sound, Placed, Trying, OwnDoc, Shows, SaysSaved
    <2>2. QED
      BY <2>1
  <1>15. tab.copy = "loaded" => tab.doc \subseteq copies'[n]
    <2>1. tabs'[t].copy = tab.copy /\ tab.doc \subseteq tabs'[t].doc
      BY <1>7 DEF Tab
    <2>2. QED
      BY <1>9, <1>11, <2>1
  <1>16. ASSUME Holds(tab), \A u \in Tabs : Held(tabs[u]), NEW u \in Tabs
         PROVE  Held(tabs[u])'
    <2>1. Saves(tabs[u])'
      BY <1>9, <1>11 DEF Saves
    <2>2. Holds(tabs'[u])
      <3>1. CASE u = t
        <4>1. tabs'[u].copy = tab.copy /\ tabs'[u].made = tab.made
          BY <1>7, <3>1 DEF Tab
        <4>2. QED
          BY <1>16, <4>1 DEF Holds
      <3>2. CASE u # t
        <4>1. tabs'[u].copy = tabs[u].copy /\ tabs'[u].made = tabs[u].made
          BY <1>4, <1>5, <3>2
        <4>2. QED
          BY <1>16, <4>1 DEF Held, Holds
      <3>3. QED
        BY <3>1, <3>2
    <2>3. tabs'[u].copy \in {"opening", "loaded"} => tabs'[u].made \in Made
      <3>1. tabs'[u] \in Tab /\ Sound(tabs'[u])
        BY <1>4, <1>5
      <3>2. QED
        BY <1>1, <3>1 DEF Sound, Placed, Blank
    <2>4. Holds(tabs[u])'
      BY <1>10, <2>2, <2>3 DEF Holds
    <2>5. QED
      BY <2>1, <2>4 DEF Held
  <1>17. QED
    BY <1>10, <1>11, <1>12, <1>13, <1>14, <1>15, <1>16 DEF Base

\* The unsynced mark of an entry is set or cleared.
LEMMA MarkKeeps ==
    ASSUME Base, NEW n \in Made, NEW b \in BOOLEAN
    PROVE  /\ Marked(n, b) \in [Made -> Entry]
           /\ \A m \in Made :
                /\ Marked(n, b)[m].kept = index[m].kept /\ Marked(n, b)[m].old = index[m].old
                /\ Marked(n, b)[m].kept \/ Marked(n, b)[m] = NoEntry
                /\ m # n => Marked(n, b)[m] = index[m]
           /\ index[n].kept => Marked(n, b)[n].unsynced = b
  <1>1. CASE index[n].kept
    <2>1. Marked(n, b) = [index EXCEPT ![n].unsynced = b] /\ index \in [Made -> Entry]
      BY <1>1 DEF Marked, Base, Types
    <2>2. /\ Marked(n, b)[n] \in Entry /\ Marked(n, b)[n].kept
          /\ Marked(n, b)[n].old = index[n].old /\ Marked(n, b)[n].unsynced = b
      BY <1>1, <2>1 DEF Entry
    <2>3. \A m \in Made : m # n => Marked(n, b)[m] = index[m]
      BY <2>1
    <2>4. QED
      BY <1>1, <2>1, <2>2, <2>3 DEF Base, Types
  <1>2. CASE ~index[n].kept
    BY <1>2 DEF Marked, Base, Types
  <1>3. QED
    BY <1>1, <1>2

\* What is marked stays marked when more is.
LEMMA MarkStays ==
    ASSUME Base, NEW n \in Made, NEW m \in Made, index' = Marked(n, TRUE),
           index[m].kept, index[m].unsynced
    PROVE  index'[m].kept /\ index'[m].unsynced
  <1>1. CASE m = n
    <2>1. index' = [index EXCEPT ![n].unsynced = TRUE] /\ index \in [Made -> Entry]
      BY <1>1 DEF Marked, Base, Types
    <2>2. QED
      BY <1>1, <2>1 DEF Entry
  <1>2. CASE m # n
    <2>1. index'[m] = index[m]
      BY <1>2 DEF Marked, Base, Types
    <2>2. QED
      BY <2>1
  <1>3. QED
    BY <1>1, <1>2

\* Reading the copy: what was in it is marked if the socket is down.
LEMMA LoadsKeeps ==
    ASSUME Base, NEW t \in Tabs, Loads(t)
    PROVE  Base' /\ (Work => Work')
  <1> DEFINE n   == board.made
             doc == tabs[t].doc \cup copies[n]
             tab == [tabs[t] EXCEPT !.copy = "loaded", !.saved = TRUE, !.doc = doc]
  <1>1. /\ tabs[t].copy = "opening" /\ tabs[t].page = "ready" /\ tabs[t].made = n /\ n \in Made
        /\ tabs[t] \in Tab /\ Sound(tabs[t])
    BY OnBoard DEF Loads, Base, Types
  <1>2. /\ Becomes(t, tab) /\ (index' = index \/ index' = Marked(n, TRUE))
        /\ UNCHANGED <<token, edits, promised, misled>>
    <2>1. Name(tabs[t].made) = n /\ Name(tab.made) = n
      BY <1>1 DEF Name, Tab
    <2>2. /\ Becomes(t, tab)
          /\ index' = IF doc # tabs[t].doc THEN MarkedIfDown(t, tab) ELSE index
          /\ UNCHANGED <<token, edits, promised, misled>>
      BY <2>1, Zenon DEF Loads
    <2>3. MarkedIfDown(t, tab) \in {index, Marked(n, TRUE)}
      <3> HIDE DEF tab, doc
      <3>1. QED
        BY <2>1 DEF MarkedIfDown
    <2>4. QED
      BY <2>2, <2>3
  <1>3. doc \subseteq Edits /\ \A e \in doc : e.made = n
    BY <1>1 DEF Base, Types, BoardInv, Sound, OwnDoc, Tab
  <1>4. /\ tab \in Tab /\ tab.doc = doc /\ tab.copy = "loaded" /\ tab.saved
        /\ tab.page = "ready" /\ tab.made = n /\ tab.status = tabs[t].status
        /\ tab.active = tabs[t].active /\ tab.rejoin = tabs[t].rejoin
        /\ tab.synced = tabs[t].synced /\ tab.asking = tabs[t].asking
        /\ tab.answer = tabs[t].answer
    BY <1>1, <1>3 DEF Tab
  <1>5. Sound(tab)
    <2> HIDE DEF tab, doc
    <2>1. OwnDoc(tab) /\ SaysSaved(tab)
      BY <1>3, <1>4 DEF OwnDoc, SaysSaved
    <2>2. Placed(tab) /\ Trying(tab) /\ Shows(tab)
      BY <1>1, <1>4 DEF Sound, Placed, Trying, Shows
    <2>3. QED
      BY <2>1, <2>2 DEF Sound
  <1>6. /\ index' \in [Made -> Entry]
        /\ \A m \in Made : /\ index'[m].kept = index[m].kept /\ index'[m].old = index[m].old
                           /\ index'[m].kept \/ index'[m] = NoEntry
    <2>1. CASE index' = index
      BY <2>1 DEF Base, Types
    <2>2. CASE index' = Marked(n, TRUE)
      <3> HIDE DEF n
      <3>1. QED
        BY <1>1, <2>2, MarkKeeps
    <2>3. QED
      BY <1>2, <2>1, <2>2
  <1>7. /\ Base' /\ board.content \subseteq board'.content
        /\ board'.made = board.made /\ (Lasting' <=> Lasting)
        /\ \A m \in Made : copies[m] \subseteq copies'[m]
        /\ Holds(tab) /\ (\A u \in Tabs : Held(tabs[u])) => \A u \in Tabs : Held(tabs[u])'
    <2> HIDE DEF tab, doc
    <2>1. tab.made = tabs[t].made /\ edits' \in 0..MaxEdits /\ promised' \subseteq Edits /\ misled' \in BOOLEAN
      BY <1>1, <1>2, <1>4 DEF Base, Types
    <2>2. QED
      BY <1>1, <1>2, <1>4, <1>5, <1>6, <2>1, BecomesKeeps
  <1>8. ASSUME Work
        PROVE  Work'
    <2>1. Holds(tab)
      BY <1>1, <1>4, <1>8 DEF Work, Held, Holds
    <2>2. ASSUME NEW e \in promised, InMarkedCopy(e)
          PROVE  InMarkedCopy(e)'
      <3>1. e.made \in Made
        BY DEF Base, Types, Edits
      <3>2. CASE index' = index
        BY <1>7, <2>2, <3>1, <3>2 DEF InMarkedCopy
      <3>3. CASE index' = Marked(n, TRUE)
        <4>1. index'[e.made].kept /\ index'[e.made].unsynced
          <5>1. index[e.made].kept /\ index[e.made].unsynced
            BY <2>2 DEF InMarkedCopy
          <5> HIDE DEF n
          <5>2. QED
            BY <1>1, <3>1, <3>3, <5>1, MarkStays
        <4>2. QED
          BY <1>7, <2>2, <3>1, <4>1 DEF InMarkedCopy
      <3>4. QED
        BY <1>2, <3>2, <3>3
    <2>3. PromiseInv'
      BY <1>2, <1>7, <1>8, <2>2 DEF Work, PromiseInv
    <2>4. QED
      BY <1>7, <1>8, <2>1, <2>3 DEF Work
  <1>9. QED
    BY <1>7, <1>8

\* A mark that is cleared over work the server lacks is what misled tells.
LEMMA SyncedKeeps ==
    ASSUME Base, NEW t \in Tabs, Synced(t)
    PROVE  Base' /\ (Work => Work')
  <1> DEFINE n   == board.made
             tab == [tabs[t] EXCEPT !.synced = TRUE]
  <1>1. /\ tabs[t].status = "connected" /\ tabs[t].page = "ready" /\ tabs[t].made = n
        /\ n \in Made /\ tabs[t] \in Tab /\ Sound(tabs[t])
    BY OnBoard DEF Synced, Base, Types
  <1>2. /\ Becomes(t, tab) /\ UNCHANGED <<token, edits, promised>>
        /\ index' = IF Indexed(t) THEN Marked(n, FALSE) ELSE index
        /\ misled' = (misled \/ (Indexed(t) /\ index[n].unsynced /\ ~(copies[n] \subseteq board'.content)))
    BY <1>1 DEF Synced, Name
  <1>3. /\ tab \in Tab /\ tab.doc = tabs[t].doc /\ tab.copy = tabs[t].copy
        /\ tab.saved = tabs[t].saved /\ tab.page = "ready" /\ tab.made = n
        /\ tab.status = "connected" /\ tab.active = tabs[t].active
        /\ tab.rejoin = tabs[t].rejoin /\ tab.asking = tabs[t].asking
        /\ tab.answer = tabs[t].answer
    BY <1>1 DEF Tab
  <1>4. Sound(tab)
    <2> HIDE DEF tab
    <2>1. OwnDoc(tab) /\ SaysSaved(tab)
      BY <1>1, <1>3 DEF Sound, OwnDoc, SaysSaved
    <2>2. Placed(tab) /\ Trying(tab) /\ Shows(tab)
      BY <1>1, <1>3 DEF Sound, Placed, Trying, Shows
    <2>3. QED
      BY <2>1, <2>2 DEF Sound
  <1>5. /\ index' \in [Made -> Entry]
        /\ \A m \in Made : /\ index'[m].kept = index[m].kept /\ index'[m].old = index[m].old
                           /\ index'[m].kept \/ index'[m] = NoEntry
    <2>1. CASE index' = index
      BY <2>1 DEF Base, Types
    <2>2. CASE index' = Marked(n, FALSE)
      <3> HIDE DEF n
      <3>1. QED
        BY <1>1, <2>2, MarkKeeps
    <2>3. QED
      BY <1>2, <2>1, <2>2
  <1>6. /\ Base' /\ board.content \subseteq board'.content
        /\ board'.made = board.made /\ (Lasting' <=> Lasting)
        /\ \A m \in Made : copies[m] \subseteq copies'[m]
        /\ Holds(tab) /\ (\A u \in Tabs : Held(tabs[u])) => \A u \in Tabs : Held(tabs[u])'
    <2> HIDE DEF tab
    <2>1. /\ tab.made = tabs[t].made /\ edits' \in 0..MaxEdits /\ promised' \subseteq Edits
          /\ token' = token
      BY <1>1, <1>2, <1>3 DEF Base, Types
    <2>2. misled' \in BOOLEAN
      BY <1>2
    <2>3. QED
      BY <1>1, <1>2, <1>3, <1>4, <1>5, <2>1, <2>2, BecomesKeeps
  <1>7. ASSUME Work
        PROVE  Work'
    <2>1. Holds(tab)
      BY <1>1, <1>3, <1>7 DEF Work, Held, Holds
    <2>2. ASSUME ~misled', NEW e \in promised, e.made = n, InMarkedCopy(e)
          PROVE  e \in board'.content \/ InMarkedCopy(e)'
      <3>1. CASE Indexed(t)
        <4>1. e \in copies[n] /\ index[n].unsynced
          BY <2>2 DEF InMarkedCopy
        <4>2. copies[n] \subseteq board'.content
          BY <1>2, <2>2, <3>1, <4>1
        <4>3. QED
          BY <4>1, <4>2
      <3>2. CASE ~Indexed(t)
        BY <1>1, <1>2, <1>6, <2>2, <3>2 DEF InMarkedCopy
      <3>3. QED
        BY <3>1, <3>2
    <2>3. ~misled' => ~misled
      BY <1>2
    <2>4. PromiseInv'
      BY <1>2, <1>6, <1>7, <2>2, <2>3 DEF Work, PromiseInv
    <2>5. QED
      BY <1>6, <1>7, <2>1, <2>4 DEF Work
  <1>8. QED
    BY <1>6, <1>7

\* What is drawn while the bar says it is saved is in a copy that is marked.
LEMMA DrawKeeps ==
    ASSUME Base, NEW t \in Tabs, Draw(t)
    PROVE  Base' /\ (Work => Work')
  <1> DEFINE n   == board.made
             e   == [n |-> edits + 1, made |-> n]
             tab == [tabs[t] EXCEPT !.doc = @ \cup {e}]
             told == tabs[t].saved /\ tabs[t].status = "reconnecting"
  <1>1. /\ tabs[t].page = "ready" /\ tabs[t].made = n /\ n \in Made /\ tabs[t] \in Tab
        /\ Sound(tabs[t]) /\ edits \in Nat /\ edits < MaxEdits
    BY OnBoard, PageAssumption DEF Draw, Live, Base, Types
  <1>2. /\ Becomes(t, tab) /\ UNCHANGED <<token, misled>> /\ edits' = edits + 1
        /\ promised' = IF told THEN promised \cup {e} ELSE promised
        /\ index' = MarkedIfDown(t, tabs[t])
    BY <1>1 DEF Draw
  <1>3. e \in Edits /\ e.made = n
    BY <1>1, PageAssumption DEF Edits
  <1> HIDE DEF e
  <1>4. /\ tab \in Tab /\ tab.doc = tabs[t].doc \cup {e} /\ tab.copy = tabs[t].copy
        /\ tab.saved = tabs[t].saved /\ tab.page = "ready" /\ tab.made = n
        /\ tab.status = tabs[t].status /\ tab.active = tabs[t].active
        /\ tab.rejoin = tabs[t].rejoin /\ tab.asking = tabs[t].asking
        /\ tab.synced = tabs[t].synced /\ tab.answer = tabs[t].answer
    BY <1>1, <1>3 DEF Tab
  <1>5. Sound(tab)
    <2> HIDE DEF tab
    <2>1. OwnDoc(tab) /\ SaysSaved(tab)
      BY <1>1, <1>3, <1>4 DEF Sound, OwnDoc, SaysSaved
    <2>2. Placed(tab) /\ Trying(tab) /\ Shows(tab)
      BY <1>1, <1>4 DEF Sound, Placed, Trying, Shows
    <2>3. QED
      BY <2>1, <2>2 DEF Sound
  <1>6. index' = index \/ index' = Marked(n, TRUE)
    BY <1>1, <1>2 DEF MarkedIfDown, Name
  <1>7. /\ index' \in [Made -> Entry]
        /\ \A m \in Made : /\ index'[m].kept = index[m].kept /\ index'[m].old = index[m].old
                           /\ index'[m].kept \/ index'[m] = NoEntry
    <2>1. CASE index' = index
      BY <2>1 DEF Base, Types
    <2>2. CASE index' = Marked(n, TRUE)
      <3> HIDE DEF n
      <3>1. QED
        BY <1>1, <2>2, MarkKeeps
    <2>3. QED
      BY <1>6, <2>1, <2>2
  <1>8. /\ Base' /\ board.content \subseteq board'.content
        /\ board'.made = board.made /\ (Lasting' <=> Lasting)
        /\ \A m \in Made : copies[m] \subseteq copies'[m]
        /\ tab.copy = "loaded" => tab.doc \subseteq copies'[n]
        /\ Holds(tab) /\ (\A u \in Tabs : Held(tabs[u])) => \A u \in Tabs : Held(tabs[u])'
    <2> HIDE DEF tab
    <2>1. edits' \in 0..MaxEdits
      BY <1>1, <1>2, PageAssumption
    <2>2. /\ tab.made = tabs[t].made /\ promised' \subseteq Edits
          /\ token' = token /\ misled' \in BOOLEAN
      BY <1>1, <1>2, <1>3, <1>4 DEF Base, Types
    <2>3. QED
      BY <1>1, <1>2, <1>4, <1>5, <1>7, <2>1, <2>2, BecomesKeeps
  <1>9. ASSUME Work
        PROVE  Work'
    <2>1. Holds(tab)
      BY <1>1, <1>4, <1>9 DEF Work, Held, Holds
    <2>2. ASSUME NEW d \in promised, InMarkedCopy(d)
          PROVE  InMarkedCopy(d)'
      <3>1. d.made \in Made
        BY DEF Base, Types, Edits
      <3>2. CASE index' = index
        BY <1>8, <2>2, <3>1, <3>2 DEF InMarkedCopy
      <3>3. CASE index' = Marked(n, TRUE)
        <4>1. index[d.made].kept /\ index[d.made].unsynced
          BY <2>2 DEF InMarkedCopy
        <4> HIDE DEF n
        <4>2. index'[d.made].kept /\ index'[d.made].unsynced
          BY <1>1, <3>1, <3>3, <4>1, MarkStays
        <4>3. QED
          BY <1>8, <2>2, <3>1, <4>2 DEF InMarkedCopy
      <3>4. QED
        BY <1>6, <3>2, <3>3
    <2>3. ASSUME told, Lasting
          PROVE  e \in copies'[n] /\ index'[n].kept /\ index'[n].unsynced
      <3>1. tabs[t].copy = "loaded" /\ index[n].kept
        BY <1>1, <1>9, <2>3 DEF Sound, SaysSaved, Work, Held, Holds
      <3>2. index' = [index EXCEPT ![n].unsynced = TRUE]
        BY <1>1, <1>2, <2>3, <3>1 DEF MarkedIfDown, Indexed, Marked, Name
      <3>3. index'[n].kept /\ index'[n].unsynced
        BY <1>1, <3>1, <3>2 DEF Base, Types, Entry
      <3>4. e \in copies'[n]
        BY <1>4, <1>8, <3>1
      <3>5. QED
        BY <3>3, <3>4
    <2>4. PromiseInv'
      <3>1. \A d \in promised' : d.made <= board'.made
        BY <1>1, <1>2, <1>3, <1>8, <1>9, PageAssumption DEF Work, PromiseInv, Made
      <3>2. ASSUME Lasting', ~misled', NEW d \in promised', d.made = board'.made
            PROVE  d \in board'.content \/ InMarkedCopy(d)'
        <4>1. CASE d \in promised
          BY <1>2, <1>8, <1>9, <2>2, <3>2, <4>1 DEF Work, PromiseInv
        <4>2. CASE d \notin promised
          <5>1. d = e /\ told /\ d.made = n /\ Lasting
            BY <1>2, <1>3, <1>8, <3>2, <4>2
          <5>2. d \in copies'[n] /\ index'[n].kept /\ index'[n].unsynced
            BY <2>3, <5>1
          <5>3. QED
            BY <5>1, <5>2 DEF InMarkedCopy
        <4>3. QED
          BY <4>1, <4>2
      <3>3. QED
        BY <3>1, <3>2 DEF PromiseInv
    <2>5. QED
      BY <1>8, <1>9, <2>1, <2>4 DEF Work
  <1>10. QED
    BY <1>8, <1>9

-----------------------------------------------------------------------------
(* Steps of the board, which leave the copies alone.                       *)

\* A board that no longer lasts or is no longer worth its token keeps what is held.
LEMMA BoardStep ==
    ASSUME Base, board' \in TheBoard, board'.made = board.made,
           board'.state # "none" => board.state # "none",
           board'.content \subseteq board.content,
           Lasting' => Lasting /\ board'.content = board.content, Worth' => Worth,
           tabs' \in [Tabs -> Tab],
           \A u \in Tabs :
              /\ Placed(tabs'[u]) /\ Trying(tabs'[u]) /\ Shows(tabs[u])'
              /\ tabs'[u].doc = tabs[u].doc /\ tabs'[u].made = tabs[u].made
              /\ tabs'[u].copy = tabs[u].copy /\ tabs'[u].saved = tabs[u].saved,
           UNCHANGED <<copies, index, token, edits, promised, misled>>
    PROVE  Base' /\ (Work => Work')
  <1>1. Types'
    BY DEF Base, Types
  <1>2. BoardInv'
    BY DEF Base, BoardInv
  <1>3. ASSUME NEW u \in Tabs
        PROVE  Sound(tabs[u])'
    <2>1. /\ Placed(tabs'[u]) /\ Trying(tabs'[u]) /\ Shows(tabs[u])'
          /\ tabs'[u].doc = tabs[u].doc /\ tabs'[u].made = tabs[u].made
          /\ tabs'[u].copy = tabs[u].copy /\ tabs'[u].saved = tabs[u].saved
          /\ Sound(tabs[u])
      BY DEF Base
    <2>2. Placed(tabs[u])' /\ Trying(tabs[u])'
      BY <2>1 DEF Placed, Trying, Blank
    <2>3. OwnDoc(tabs[u])' /\ SaysSaved(tabs[u])'
      BY <2>1 DEF Sound, OwnDoc, SaysSaved
    <2>4. QED
      BY <2>1, <2>2, <2>3 DEF Sound
  <1>4. ASSUME Work
        PROVE  Work'
    <2>1. PromiseInv'
      BY <1>4 DEF Work, PromiseInv, InMarkedCopy
    <2>2. \A u \in Tabs : Held(tabs[u])'
      BY <1>4 DEF Work, Held, Saves, Holds
    <2>3. QED
      BY <2>1, <2>2 DEF Work
  <1>5. QED
    BY <1>1, <1>2, <1>3, <1>4 DEF Base

\* What a call that is accepted does to the board.
LEMMA RenewedBoard ==
    ASSUME NEW kind, board \in TheBoard
    PROVE  /\ Renewed(kind) \in TheBoard /\ Renewed(kind).made = board.made
           /\ Renewed(kind).content = board.content /\ Renewed(kind).here = board.here
           /\ Renewed(kind).state = "live" /\ (Renewed(kind).claimed <=> kind = "claim")
           /\ (Renewed(kind).revived <=> board.revived \/ board.state = "expired")
  <1> DEFINE c == kind = "claim"
             r == board.revived \/ board.state = "expired"
  <1>1. Renewed(kind) = [board EXCEPT !.claimed = c, !.state = "live", !.revived = r]
    BY DEF Renewed
  <1>2. c \in BOOLEAN /\ r \in BOOLEAN
    OBVIOUS
  <1> HIDE DEF c, r
  <1>3. /\ Renewed(kind) \in TheBoard /\ Renewed(kind).made = board.made
        /\ Renewed(kind).content = board.content /\ Renewed(kind).here = board.here
        /\ Renewed(kind).state = "live" /\ Renewed(kind).claimed = c /\ Renewed(kind).revived = r
    BY <1>1, <1>2 DEF TheBoard
  <1>4. QED
    BY <1>3 DEF c, r

\* A board that runs out or goes, and one that serves a page, change so.
LEMMA BoardSteps ==
    ASSUME Base, Expires \/ Gone \/ \E t \in Tabs : AskServed(t)
    PROVE  Base' /\ (Work => Work')
  <1> DEFINE Goal == Base' /\ (Work => Work')
  <1>1. /\ board \in TheBoard /\ tabs \in [Tabs -> Tab] /\ token \in 0..MaxMade
        /\ \A u \in Tabs : /\ tabs[u] \in Tab /\ Placed(tabs[u]) /\ Trying(tabs[u])
                           /\ Shows(tabs[u])
    BY DEF Base, Types, Sound
  <1>2. ASSUME Expires
        PROVE  Goal
    <2>1. /\ board' = [board EXCEPT !.state = "expired"] /\ board.state = "live"
          /\ UNCHANGED <<copies, index, token, tabs, edits, promised, misled>>
      BY <1>2 DEF Expires
    <2>2. /\ board' \in TheBoard /\ board'.made = board.made
          /\ board'.state = "expired" /\ board'.content = board.content
      BY <1>1, <2>1 DEF TheBoard
    <2>3. ~Lasting' /\ ~Worth'
      BY <2>2 DEF Lasting, Worth
    <2>4. ASSUME NEW u \in Tabs
          PROVE  tabs'[u] = tabs[u] /\ Shows(tabs[u])'
      BY <2>1, <2>2, <2>3, <1>1 DEF Shows
    <2>5. QED
      BY <1>1, <2>1, <2>2, <2>3, <2>4, BoardStep
  <1>3. ASSUME Gone
        PROVE  Goal
    <2>1. /\ board' = [board EXCEPT !.state = "none", !.content = {}]
          /\ tabs' = [t \in Tabs |-> IF tabs[t].status = "connected" THEN Kicked(tabs[t]) ELSE tabs[t]]
          /\ UNCHANGED <<copies, index, token, edits, promised, misled>>
      BY <1>3 DEF Gone
    <2>2. /\ board' \in TheBoard /\ board'.made = board.made
          /\ board'.state = "none" /\ board'.content = {}
      BY <1>1, <2>1 DEF TheBoard
    <2>3. ~Lasting' /\ ~Worth'
      BY <2>2 DEF Lasting, Worth
    <2>4. ASSUME NEW u \in Tabs
          PROVE  /\ tabs'[u] \in Tab /\ Placed(tabs'[u]) /\ Trying(tabs'[u])
                 /\ tabs'[u].doc = tabs[u].doc /\ tabs'[u].made = tabs[u].made
                 /\ tabs'[u].copy = tabs[u].copy /\ tabs'[u].saved = tabs[u].saved
                 /\ tabs'[u].asking = tabs[u].asking /\ tabs'[u].answer = tabs[u].answer
      <3>1. CASE tabs[u].status = "connected"
        <4>1. tabs'[u] = Kicked(tabs[u])
          BY <2>1, <3>1
        <4>2. /\ Alike(Kicked(tabs[u]), tabs[u]) /\ Kicked(tabs[u]).status = "reconnecting"
              /\ ~Kicked(tabs[u]).synced /\ Kicked(tabs[u]).rejoin
          BY <1>1, DroppedTab
        <4>3. tabs[u].page = "ready"
          BY <3>1, OnBoard
        <4>4. QED
          BY <1>1, <4>1, <4>2, <4>3 DEF Alike, Placed, Trying
      <3>2. CASE tabs[u].status # "connected"
        BY <1>1, <2>1, <3>2
      <3>3. QED
        BY <3>1, <3>2
    <2>5. tabs' \in [Tabs -> Tab]
      BY <2>1, <2>4
    <2>6. ASSUME NEW u \in Tabs
          PROVE  Shows(tabs[u])'
      <3>1. tabs'[u].asking = tabs[u].asking /\ tabs'[u].answer = tabs[u].answer
        BY <2>4
      <3>2. QED
        BY <1>1, <2>2, <2>3, <3>1 DEF Shows
    <2>7. QED
      BY <2>1, <2>2, <2>3, <2>4, <2>5, <2>6, BoardStep
  \* A call with the token is served: one that is refused is not of the board
  \* whose token is worth something.
  <1>4. ASSUME NEW t \in Tabs, AskServed(t)
        PROVE  Goal
    <2> DEFINE asked == tabs[t].asking
    <2>0. PICK said \in {"yes", "no"} :
             /\ said = "yes" <=> Accepts(t)
             /\ tabs' = [tabs EXCEPT ![t] = Answered(tabs[t], said)]
             /\ said = "yes" => board' = Renewed(asked.kind)
             /\ said = "no" => board' = board
      <3>1. CASE Accepts(t)
        <4>1. tabs' = [tabs EXCEPT ![t] = Answered(tabs[t], "yes")] /\ board' = Renewed(asked.kind)
          BY <1>4, <3>1 DEF AskServed
        <4>2. QED
          BY <3>1, <4>1
      <3>2. CASE ~Accepts(t)
        <4>1. tabs' = [tabs EXCEPT ![t] = Answered(tabs[t], "no")] /\ board' = board
          BY <1>4, <3>2 DEF AskServed
        <4>2. QED
          BY <3>2, <4>1
      <3>3. QED
        BY <3>1, <3>2
    <2> DEFINE a   == [asked EXCEPT !.answer = said]
               tab == [tabs[t] EXCEPT !.asking = a]
    <2>1. /\ tabs' = [tabs EXCEPT ![t] = tab] /\ asked.kind # "none" /\ asked \in Asking
          /\ UNCHANGED <<copies, index, token, edits, promised, misled>>
      <3>1. Answered(tabs[t], said) = tab
        BY DEF Answered
      <3>2. QED
        BY <1>1, <1>4, <2>0, <3>1 DEF AskServed, Tab
    <2>2. /\ a \in Asking /\ a.kind = asked.kind /\ a.token = asked.token /\ a.answer = said
      BY <2>1 DEF Asking
    <2> HIDE DEF a
    <2>3. /\ tab \in Tab /\ tab.page = tabs[t].page /\ tab.answer = tabs[t].answer
          /\ tab.status = tabs[t].status /\ tab.active = tabs[t].active
          /\ tab.rejoin = tabs[t].rejoin /\ tab.synced = tabs[t].synced
          /\ tab.doc = tabs[t].doc /\ tab.made = tabs[t].made
          /\ tab.copy = tabs[t].copy /\ tab.saved = tabs[t].saved /\ tab.asking = a
      BY <1>1, <2>2 DEF Tab
    <2> HIDE DEF tab
    <2>4. /\ tabs' \in [Tabs -> Tab] /\ tabs'[t] = tab
          /\ \A u \in Tabs : u # t => tabs'[u] = tabs[u]
      BY <1>1, <2>1, <2>3
    <2>5. Placed(tab) /\ Trying(tab)
      BY <1>1, <2>3 DEF Placed, Trying, Blank
    <2>6. /\ board' \in TheBoard /\ board'.made = board.made /\ board'.content = board.content
          /\ board'.state # "none" => board.state # "none"
          /\ (Lasting' => Lasting) /\ (Worth' => Worth)
      <3>1. CASE said = "yes"
        <4>1. board' = Renewed(asked.kind) /\ board.state # "none" /\ ~board.claimed
          BY <2>0, <3>1 DEF Accepts
        <4>2. /\ board' \in TheBoard /\ board'.made = board.made
              /\ board'.content = board.content /\ board'.here = board.here
              /\ board'.state = "live"
              /\ (board'.revived <=> board.revived \/ board.state = "expired")
          BY <1>1, <4>1, RenewedBoard
        <4>3. Lasting' => Lasting
          BY <1>1, <4>1, <4>2 DEF Lasting, TheBoard
        <4>4. QED
          BY <4>1, <4>2, <4>3 DEF Worth
      <3>2. CASE said = "no"
        <4>1. board' = board
          BY <2>0, <3>2
        <4>2. QED
          BY <1>1, <4>1 DEF Lasting, Worth
      <3>3. QED
        BY <3>1, <3>2
    <2>7. Shows(tabs[t])'
      <3>1. tabs'[t].answer = tabs[t].answer /\ tabs'[t].asking = a
        BY <2>3, <2>4
      <3>2. CASE said = "yes"
        <4>1. asked.kind = "claim" => ~Worth'
          <5>1. asked.kind = "claim" => board'.claimed = TRUE
            BY <1>1, <2>0, <3>2, RenewedBoard
          <5>2. QED
            BY <5>1 DEF Worth
        <4>2. QED
          BY <1>1, <2>2, <2>6, <3>1, <3>2, <4>1 DEF Shows
      <3>3. CASE said = "no"
        <4>1. ~LateAnswers => ~Worth
          BY <1>1, <2>0, <2>1, <3>3 DEF Shows, Accepts, Worth, Lasting
        <4>2. QED
          BY <1>1, <2>2, <2>6, <3>1, <3>3, <4>1 DEF Shows
      <3>4. QED
        BY <3>2, <3>3
    <2>8. ASSUME NEW u \in Tabs
          PROVE  /\ Placed(tabs'[u]) /\ Trying(tabs'[u]) /\ Shows(tabs[u])'
                 /\ tabs'[u].doc = tabs[u].doc /\ tabs'[u].made = tabs[u].made
                 /\ tabs'[u].copy = tabs[u].copy /\ tabs'[u].saved = tabs[u].saved
      <3>1. CASE u = t
        <4>1. /\ tabs'[u] = tab /\ Shows(tabs[u])'
          BY <2>4, <2>7, <3>1
        <4>2. QED
          BY <2>3, <2>5, <3>1, <4>1
      <3>2. CASE u # t
        <4>1. tabs'[u] = tabs[u]
          BY <2>4, <3>2
        <4>2. Shows(tabs[u])'
          <5>1. /\ board'.made = board.made /\ (Lasting' => Lasting) /\ (Worth' => Worth)
                /\ Shows(tabs[u])
            BY <1>1, <2>6
          <5>2. QED
            BY <4>1, <5>1 DEF Shows
        <4>3. QED
          BY <1>1, <4>1, <4>2
      <3>3. QED
        BY <3>1, <3>2
    <2>9. UNCHANGED <<copies, index, token, edits, promised, misled>>
      BY <2>1
    <2>10. QED
      BY <2>4, <2>6, <2>8, <2>9, BoardStep
  <1>5. QED
    BY <1>2, <1>3, <1>4

\* A board that is made starts empty, and no tab has anything of the one before,
\* nor - but for late answers - a call that is out.
LEMMA MadeSteps ==
    ASSUME Base, CreatedElsewhere \/ \E t \in Tabs : CreateHere(t)
    PROVE  Base' /\ (Work => Work')
  <1>1. PICK here \in BOOLEAN, guest \in BOOLEAN :
          /\ BoardIsMade(here, guest)
          /\ token' = (IF here /\ guest THEN board.made + 1 ELSE token)
          /\ guest \/ here
    <2>1. CASE CreatedElsewhere
      <3>1. BoardIsMade(FALSE, TRUE) /\ token' = token
        BY <2>1 DEF CreatedElsewhere
      <3>2. QED
        BY <3>1
    <2>2. ASSUME NEW t \in Tabs, CreateHere(t)
          PROVE  \E guest \in BOOLEAN : /\ BoardIsMade(TRUE, guest)
                                        /\ token' = (IF guest THEN board.made + 1 ELSE token)
      BY <2>2 DEF CreateHere
    <2>3. QED
      BY <2>1, <2>2
  <1>2. /\ tabs \in [Tabs -> Tab] /\ tabs' \in [Tabs -> Tab]
        /\ UNCHANGED <<copies, index, edits, promised, misled>>
        /\ \A u \in Tabs : tabs'[u] = tabs[u] \/ tabs'[u] = Bare(tabs[u], "loading")
    <2>1. tabs \in [Tabs -> Tab] /\ \A u \in Tabs : Bare(tabs[u], "loading") \in Tab
      BY BareTab DEF Base, Types, Pages
    <2>2. QED
      BY <2>1 DEF CreatedElsewhere, CreateHere
  <1>3. /\ board' \in TheBoard /\ board'.made = board.made + 1 /\ board'.made # 0
        /\ board.made \in Nat /\ board'.content = {} /\ board'.here = here
        /\ (board'.claimed <=> ~guest) /\ token' \in 0..MaxMade
        /\ (board'.here /\ ~board'.claimed => token' = board'.made)
    <2>1. /\ board' = [made |-> board.made + 1, state |-> "live", claimed |-> ~guest,
                       content |-> {}, here |-> here, revived |-> FALSE]
          /\ board.made < MaxMade /\ board.made \in 0..MaxMade /\ token \in 0..MaxMade
      BY <1>1 DEF BoardIsMade, Base, Types, TheBoard
    <2>2. board.made \in Nat /\ board.made + 1 \in 0..MaxMade /\ board.made + 1 # 0
      BY <2>1, PageAssumption
    <2>3. token' \in 0..MaxMade
      BY <1>1, <2>1, <2>2
    <2>4. QED
      BY <1>1, <2>1, <2>2, <2>3 DEF TheBoard
  <1>4. Types'
    BY <1>2, <1>3 DEF Base, Types
  <1>5. BoardInv'
    BY <1>2, <1>3 DEF Base, BoardInv, Worth
  <1>6. ASSUME NEW u \in Tabs
        PROVE  Sound(tabs[u])' /\ Held(tabs[u])'
    <2>1. /\ tabs[u].page # "ready" /\ tabs[u].answer # "live" /\ tabs[u] \in Tab
          /\ Sound(tabs[u]) /\ (~LateAnswers => ~Unsettled(u))
      BY <1>1, <1>2 DEF BoardIsMade, Base
    <2>2. /\ tabs'[u].page # "ready" /\ Blank(tabs'[u]) /\ tabs'[u].answer # "live"
          /\ tabs'[u].answer # "out" => tabs'[u].page = "loading"
          /\ tabs'[u].asking = tabs[u].asking
          /\ tabs'[u].answer \in {tabs[u].answer, "out"}
      <3>1. CASE tabs'[u] = tabs[u]
        BY <2>1, <3>1 DEF Sound, Placed
      <3>2. CASE tabs'[u] = Bare(tabs[u], "loading")
        BY <2>1, <3>2, BareTab DEF Pages
      <3>3. QED
        BY <1>2, <3>1, <3>2
    <2>3. ~LateAnswers => tabs'[u].asking = NoAsk /\ tabs'[u].answer = "out"
      BY <2>1, <2>2 DEF Unsettled, Tab
    <2>4. Placed(tabs[u])' /\ Shows(tabs[u])'
      BY <2>2, <2>3 DEF Placed, Shows, Blank, NoAsk
    <2>5. Trying(tabs[u])' /\ OwnDoc(tabs[u])' /\ SaysSaved(tabs[u])' /\ Held(tabs[u])'
      BY <2>2 DEF Blank, Trying, OwnDoc, SaysSaved, Held, Saves, Holds
    <2>6. QED
      BY <2>4, <2>5 DEF Sound
  <1>7. ASSUME Work
        PROVE  PromiseInv'
    <2>1. \A e \in promised : e.made <= board.made /\ e.made \in Nat
      BY <1>7 DEF Work, PromiseInv, Base, Types, Edits, Made
    <2>2. QED
      BY <1>2, <1>3, <2>1 DEF PromiseInv
  <1>8. QED
    BY <1>4, <1>5, <1>6, <1>7 DEF Base, Work

\* A month: no entry of a board somebody has open may grow old.
LEMMA MonthKeeps ==
    ASSUME Base, Month
    PROVE  Base' /\ (~LongSittings /\ Work => Work')
  <1>1. /\ index' = [n \in Made |-> [index[n] EXCEPT !.old = index[n].kept]] /\ token' = 0
        /\ board.state = "live" => board.claimed
        /\ UNCHANGED <<board, copies, tabs, edits, promised, misled>>
    BY DEF Month
  <1>2. ASSUME NEW n \in Made
        PROVE  /\ index'[n] \in Entry /\ index'[n].kept = index[n].kept
               /\ index'[n].unsynced = index[n].unsynced
               /\ index'[n].kept \/ index'[n] = NoEntry
    <2>1. index'[n] = [index[n] EXCEPT !.old = index[n].kept] /\ index[n] \in Entry
      BY <1>1 DEF Base, Types
    <2>2. CASE index[n].kept
      BY <2>1, <2>2 DEF Entry
    <2>3. CASE ~index[n].kept
      <3>1. index[n] = NoEntry
        BY <2>3 DEF Base, Types
      <3>2. index'[n] = [NoEntry EXCEPT !.old = FALSE]
        BY <2>1, <3>1 DEF NoEntry
      <3>3. index'[n] = NoEntry
        BY <3>2 DEF NoEntry
      <3>4. QED
        BY <3>1, <3>3 DEF Entry, NoEntry
    <2>4. QED
      BY <2>2, <2>3
  <1>3. Types'
    <2>1. index' \in [Made -> Entry]
      BY <1>1, <1>2
    <2>2. token' \in 0..MaxMade
      BY <1>1, PageAssumption
    <2>3. QED
      BY <1>1, <1>2, <2>1, <2>2 DEF Base, Types
  <1>4. ~Worth /\ ~Worth'
    BY <1>1 DEF Worth, Lasting
  <1>5. BoardInv'
    BY <1>1, <1>4 DEF Base, BoardInv
  <1>6. ASSUME NEW u \in Tabs
        PROVE  Sound(tabs[u])'
    BY <1>1, <1>4 DEF Base, Sound, Placed, Blank, Trying, OwnDoc, Shows, SaysSaved, Lasting
  <1>7. ASSUME ~LongSittings, Work
        PROVE  Work'
    <2>1. ASSUME NEW e \in promised, InMarkedCopy(e)
          PROVE  InMarkedCopy(e)'
      <3>1. e.made \in Made
        BY DEF Base, Types, Edits
      <3>2. QED
        BY <1>1, <1>2, <2>1, <3>1 DEF InMarkedCopy
    <2>2. PromiseInv'
      BY <1>1, <1>7, <2>1 DEF Work, PromiseInv, Lasting
    <2>3. ASSUME NEW u \in Tabs
          PROVE  Held(tabs[u])'
      <3>1. tabs[u].page = "closed"
        BY <1>7 DEF Month
      <3>2. tabs[u].copy = "none"
        BY <3>1, OnBoard
      <3>3. QED
        BY <1>1, <3>2 DEF Held, Saves, Holds
    <2>4. QED
      BY <2>2, <2>3 DEF Work
  <1>8. QED
    BY <1>3, <1>5, <1>6, <1>7 DEF Base

-----------------------------------------------------------------------------
(* The theorems.                                                           *)

\* Base and Work to begin with.
LEMMA Starts ==
    ASSUME PageInit
    PROVE  Base /\ Work
  <1>1. Types
    <2>1. ClosedTab \in Tab /\ 0 \in 0..MaxMade /\ 0 \in 0..MaxEdits
      BY NoTab, PageAssumption
    <2>2. board \in TheBoard
      BY <2>1 DEF PageInit, TheBoard
    <2>3. index \in [Made -> Entry] /\ \A n \in Made : index[n] = NoEntry
      BY DEF PageInit, Entry, NoEntry
    <2>4. copies \in [Made -> SUBSET Edits] /\ tabs \in [Tabs -> Tab]
      BY <2>1 DEF PageInit
    <2>5. QED
      BY <2>1, <2>2, <2>3, <2>4 DEF PageInit, Types
  <1>2. BoardInv
    BY DEF PageInit, BoardInv, Worth, Lasting
  <1>3. \A t \in Tabs : Sound(tabs[t]) /\ Held(tabs[t])
    BY NewTab DEF PageInit
  <1>4. PromiseInv
    BY DEF PageInit, PromiseInv
  <1>5. QED
    BY <1>1, <1>2, <1>3, <1>4 DEF Base, Work

\* Every step keeps Base, and Work without the two races.
LEMMA EveryStep ==
    ASSUME Base, [PageNext]_pageVars
    PROVE  Base' /\ (~LongSittings /\ ~LateAnswers /\ Work => Work')
  <1>1. CASE UNCHANGED pageVars
    BY <1>1
    DEF pageVars, Base, Types, BoardInv, Sound, Placed, Blank, Trying, OwnDoc, Shows, SaysSaved,
        Worth, Lasting, Work, PromiseInv, InMarkedCopy, Held, Saves, Holds
  <1>2. ASSUME NEW t \in Tabs, Page(t)
        PROVE  Base' /\ (~LateAnswers /\ Work => Work')
    BY <1>2, TabSteps, SweepSteps, MadeSteps DEF Page
  <1>3. ASSUME NEW t \in Tabs, Session(t)
        PROVE  Base' /\ (Work => Work')
    BY <1>3, TabSteps, ProvidesKeeps, LoadsKeeps, DrawKeeps, SyncedKeeps DEF Session
  <1>4. ASSUME NEW t \in Tabs, Owner(t)
        PROVE  Base' /\ (Work => Work')
    BY <1>4, TabSteps, BoardSteps DEF Owner
  <1>5. CASE Month
    BY <1>5, MonthKeeps
  <1>6. CASE OpenElsewhere
    BY <1>6, SweepSteps
  <1>7. CASE CreatedElsewhere
    BY <1>7, MadeSteps
  <1>8. CASE Expires \/ Gone
    BY <1>8, BoardSteps
  <1>9. QED
    BY <1>1, <1>2, <1>3, <1>4, <1>5, <1>6, <1>7, <1>8 DEF PageNext

(* "Yjs would merge a stored copy of the old board into the new one, for    *)
(* everybody on it" (local-copy): however tabs open, sync, close and come   *)
(* back, a board made at an address that was used before holds only what    *)
(* was drawn on it, and every variable keeps its type.                      *)
THEOREM OldCopiesStayOut ==
    PageSpec => [](PageTypeOK /\ OldCopyStaysOut)
  <1>1. PageSpec => []Base
    <2>1. PageInit => Base
      BY Starts
    <2>2. Base /\ [PageNext]_pageVars => Base'
      BY EveryStep
    <2>3. QED
      BY <2>1, <2>2, PTL DEF PageSpec
  <1>2. Base => PageTypeOK /\ OldCopyStaysOut
    <2>1. ASSUME Base
          PROVE  OldCopyStaysOut
      BY <2>1 DEF Base, BoardInv, OldCopyStaysOut
    <2>2. ASSUME Base
          PROVE  PageTypeOK
      <3>1. ASSUME NEW t \in Tabs
            PROVE  /\ tabs[t] \in Tab /\ (tabs[t].synced => tabs[t].status = "connected")
                   /\ (tabs[t].page = "ready" <=> tabs[t].status # "none")
                   /\ tabs[t].answer = "out" \/ tabs[t].page = "loading"
        BY <2>2 DEF Base, Types, Sound, Placed, Blank, Trying
      <3>2. QED
        BY <2>2, <3>1 DEF Base, Types, TheBoard, Tab, PageTypeOK
    <2>3. QED
      BY <2>1, <2>2
  <1>3. QED
    BY <1>1, <1>2, PTL

(* The creator token is "the sole handle for extending or claiming" a       *)
(* guest's board: the browser that made the board has its token for as long *)
(* as it is worth something, through failed requests, refusals and months -  *)
(* provided no answer about the board before, nor a call with its token, is  *)
(* out when the address is taken again: what lands then forgets by the id.   *)
THEOREM TokenStays ==
    ASSUME LateAnswers = FALSE
    PROVE  PageSpec => []TokenIsKept
  <1>1. PageInit => Base
    BY Starts
  <1>2. Base /\ [PageNext]_pageVars => Base'
    BY EveryStep
  <1>3. Base => TokenIsKept
    BY DEF Base, BoardInv, Worth, Lasting, TokenIsKept
  <1>4. QED
    BY <1>1, <1>2, <1>3, PTL DEF PageSpec

(* What the page says of its visitor's work is true, as long as no tab stays *)
(* open for longer than a copy may lie unopened and no answer about the      *)
(* board before is out when its address is taken again: while the bar says   *)
(* reconnecting someone tries; what it calls saved is in the copy; and what  *)
(* was drawn under that promise is on the server or in a copy no sweep will  *)
(* take - unless a sync cleared its mark over work it did not send.          *)
THEOREM WorkStaysKept ==
    ASSUME LongSittings = FALSE, LateAnswers = FALSE
    PROVE  PageSpec => []WorkIsKept
  <1>1. PageInit => Base /\ Work
    BY Starts
  <1>2. Base /\ Work /\ [PageNext]_pageVars => (Base /\ Work)'
    BY EveryStep
  <1>3. Base /\ Work => ReconnectingIsTrying /\ SavedIsSaved /\ PromisedWorkIsKept
    <2>1. ASSUME Base
          PROVE  ReconnectingIsTrying
      BY <2>1 DEF Base, Sound, Trying, ReconnectingIsTrying
    <2>2. ASSUME Base, Work
          PROVE  SavedIsSaved
      <3>1. ASSUME NEW t \in Tabs, tabs[t].saved, Lasting
            PROVE  tabs[t].doc \subseteq copies[Name(tabs[t].made)]
        <4>1. tabs[t].copy = "loaded"
          BY <2>2, <3>1 DEF Base, Sound, SaysSaved, Work, Held, Holds
        <4>2. QED
          BY <2>2, <4>1 DEF Work, Held, Saves, Name
      <3>2. QED
        BY <3>1 DEF SavedIsSaved, Lasting
    <2>3. ASSUME Base, Work
          PROVE  PromisedWorkIsKept
      BY <2>3 DEF Work, PromiseInv, InMarkedCopy, PromisedWorkIsKept, KeptWork, Lasting, Name
    <2>4. QED
      BY <2>1, <2>2, <2>3
  <1>4. PageSpec => [](ReconnectingIsTrying /\ SavedIsSaved /\ PromisedWorkIsKept)
    BY <1>1, <1>2, <1>3, PTL DEF PageSpec
  <1>5. PageSpec => []PageTypeOK
    BY OldCopiesStayOut, PTL
  <1>6. PageTypeOK /\ (ReconnectingIsTrying /\ SavedIsSaved /\ PromisedWorkIsKept) => WorkIsKept
    BY DEF WorkIsKept
  <1>7. QED
    BY <1>4, <1>5, <1>6, PTL
-----------------------------------------------------------------------------
(* The components on the page, and what they show of the document.         *)

\* A cache, and what hooks show, by their parts.
Shaped(c) ==
    /\ c = [ids |-> c.ids, element |-> c.element, text |-> c.text, remote |-> c.remote]
    /\ c.ids = [d \in Docs |-> c.ids[d]] /\ c.remote \in [Maps -> BOOLEAN]
    /\ c.element = [m \in Maps |-> c.element[m]] /\ c.text = [m \in Maps |-> c.text[m]]

Drawn(v) ==
    /\ v = [h \in Hooks |-> v[h]]
    /\ \A h \in Hooks :
          v[h] = [stage |-> v[h].stage, on |-> v[h].on, of |-> v[h].of,
                  shown |-> v[h].shown, stale |-> v[h].stale]

\* A document by its parts.
Written(yd) ==
    /\ yd = [n |-> yd.n, map |-> yd.map, scalars |-> yd.scalars, text |-> yd.text,
             order |-> yd.order]
    /\ yd.scalars = [m \in Maps |-> yd.scalars[m]] /\ yd.text = [m \in Maps |-> yd.text[m]]

\* What is cached of a document that changes is watched, and is as the document is;
\* of what has yet to be there nothing is cached.
Fits(yd, c, w, last) ==
    /\ c.ids[yd.n] = None \/ (c.ids[yd.n] = IdsNow(yd) /\ yd.n \in w)
    /\ yd.map # 0 =>
          /\ c.element[yd.map] = None
                \/ (c.element[yd.map] = ElementNow(yd, c) /\ yd.n \in w)
          /\ c.text[yd.map] = None
                \/ (c.text[yd.map] = TextNow(yd, yd.map) /\ yd.n \in w)
          /\ yd.n \notin w => ~c.remote[yd.map]
    /\ \A d \in Docs : d > yd.n => c.ids[d] = None
    /\ \A m \in Maps : m > last =>
          c.element[m] = None /\ c.text[m] = None /\ ~c.remote[m]

\* What a component shows of a session, and of a map of that session's.
Stands(yd, x, w, last) ==
    /\ x.stage \in {"gone", "rendered", "subscribed"}
    /\ x.on \in 0..yd.n /\ x.of \in 0..last
    /\ x.stage = "gone" <=> x.on = 0
    /\ x.on = yd.n => yd.n \in w
    /\ x.on # yd.n => x.of = 0 \/ x.of # yd.map

AllStand(yd, v, w, last) == \A h \in Hooks : Stands(yd, v[h], w, last)

\* The layer renders a view where it shows an element, and that view an editor where
\* it shows one, over that element's text.
Nested(v) ==
    /\ v["ids"].stage # "gone" => (v["element"].stage # "gone" <=> v["ids"].shown.present)
    /\ v["element"].stage # "gone" =>
          /\ v["ids"].stage # "gone" /\ v["element"].on = v["ids"].on
          /\ v["text"].stage = "gone" => v["element"].shown = Null
    /\ v["text"].stage # "gone" =>
          /\ v["element"].stage # "gone" /\ v["text"].on = v["element"].on
          /\ v["text"].of = v["element"].shown.of /\ v["text"].of # 0

\* What a subscribed component shows and was not told to show anew.
Presents(yd, v, h) == v[h].stage = "subscribed" /\ v[h].on = yd.n /\ ~v[h].stale

\* It shows what is there; a text of another map is about to go.
Fresh(yd, c, v) ==
    /\ Presents(yd, v, "ids") => v["ids"].shown = IdsNow(yd)
    /\ v["element"].stage = "subscribed" /\ v["element"].on = yd.n
          => v["element"].of = yd.map
    /\ Presents(yd, v, "element") =>
          v["element"].shown = IF yd.map = 0 THEN Null ELSE ElementNow(yd, c)
    /\ Presents(yd, v, "text") /\ v["text"].of = yd.map =>
          v["text"].shown = TextNow(yd, yd.map)

\* A flag is up where a peer wrote last.
Credited == \A m \in Maps : cache.remote[m] <=> hand[m] = "theirs"

\* The counters, within their bounds.
Counted ==
    /\ y.n \in Docs /\ maps \in 0..MaxMaps /\ y.map \in 0..maps
    /\ changes \in 0..MaxChanges /\ watched \subseteq 1..y.n

\* What is cached fits the document, what is shown is what is cached or stale, and who
\* shows it is part of a screen.
ViewsInv ==
    /\ Counted /\ Written(y) /\ Shaped(cache) /\ Drawn(view)
    /\ hand = [m \in Maps |-> hand[m]] /\ Credited
    /\ Fits(y, cache, watched, maps)
    /\ AllStand(y, view, watched, maps)
    /\ Nested(view) /\ Fresh(y, cache, view)

\* What a hook reads, and what that leaves cached.
LEMMA ReadIsNow ==
    ASSUME NEW yd, NEW c, NEW w, NEW last \in 0..MaxMaps, MaxMaps \in Nat,
           Shaped(c), yd.n \in Docs, yd.map \in 0..last, Fits(yd, c, w, last),
           NEW h \in Hooks, NEW d \in Nat, NEW m \in 0..last,
           d = yd.n => yd.n \in w, d # yd.n => m = 0 \/ m # yd.map,
           NEW r, r = Read(yd, c, h, d, m)
    PROVE  /\ Shaped(r) /\ Fits(yd, r, w, last) /\ r.remote = c.remote
           /\ h = "ids" => Got(yd, r, h, d, m) = IF d = yd.n THEN IdsNow(yd)
                                                   ELSE EmptyIds
           /\ h = "element" => Got(yd, r, h, d, m) =
                                  IF d = yd.n /\ yd.map # 0 THEN ElementNow(yd, c)
                                  ELSE Null
           /\ h = "text" /\ m # 0 /\ m = yd.map =>
                 Got(yd, r, h, d, m) = TextNow(yd, m)
  <1>1. last \in Nat /\ yd.map \in Nat /\ m \in Nat /\ (m # 0 => m \in Maps)
        /\ (yd.map # 0 => yd.map \in Maps)
    BY DEF Maps
  <1>2. CASE h = "ids"
    <2>1. r = IF d = yd.n /\ c.ids[d] = None THEN [c EXCEPT !.ids[d] = IdsNow(yd)] ELSE c
      BY <1>2 DEF Read
    <2>2. CASE d = yd.n /\ c.ids[d] = None
      <3>1. r = [ids |-> [c.ids EXCEPT ![d] = IdsNow(yd)], element |-> c.element,
                 text |-> c.text, remote |-> c.remote]
        BY <2>1, <2>2 DEF Shaped
      <3>2. Shaped(r)
        BY <3>1, <2>2 DEF Shaped
      <3>3. r.ids[d] = IdsNow(yd) /\ \A e \in Docs : e # d => r.ids[e] = c.ids[e]
        BY <3>1, <2>2 DEF Shaped
      <3>4. Fits(yd, r, w, last)
        BY <3>1, <3>3, <2>2 DEF Fits, ElementNow, Docs
      <3>5. QED
        BY <1>2, <2>2, <3>1, <3>2, <3>3, <3>4 DEF Got
    <2>3. CASE ~(d = yd.n /\ c.ids[d] = None)
      BY <1>2, <2>1, <2>3 DEF Fits, Got
    <2>4. QED
      BY <2>2, <2>3
  <1>3. CASE h = "element"
    <2>1. r = IF d = yd.n /\ yd.map # 0 /\ c.element[yd.map] = None
              THEN [c EXCEPT !.element[yd.map] = ElementNow(yd, c)] ELSE c
      BY <1>3 DEF Read
    <2>2. CASE d = yd.n /\ yd.map # 0 /\ c.element[yd.map] = None
      <3>1. r = [ids |-> c.ids, element |-> [c.element EXCEPT ![yd.map] = ElementNow(yd, c)],
                 text |-> c.text, remote |-> c.remote]
        BY <2>1, <2>2 DEF Shaped
      <3>2. Shaped(r)
        BY <3>1 DEF Shaped
      <3>3. /\ r.element[yd.map] = ElementNow(yd, c)
            /\ \A k \in Maps : k # yd.map => r.element[k] = c.element[k]
        BY <1>1, <3>1, <2>2 DEF Shaped
      <3>4. Fits(yd, r, w, last)
        BY <1>1, <3>1, <3>3, <2>2 DEF Fits, ElementNow
      <3>5. QED
        BY <1>3, <2>2, <3>1, <3>2, <3>3, <3>4 DEF Got
    <2>3. CASE ~(d = yd.n /\ yd.map # 0 /\ c.element[yd.map] = None)
      BY <1>3, <2>1, <2>3 DEF Fits, Got
    <2>4. QED
      BY <2>2, <2>3
  <1>4. CASE h = "text"
    <2>1. r = IF m # 0 /\ c.text[m] = None
              THEN [c EXCEPT !.text[m] = TextNow(yd, m)] ELSE c
      BY <1>4 DEF Read
    <2>2. CASE m # 0 /\ c.text[m] = None
      <3>1. r = [ids |-> c.ids, element |-> c.element,
                 text |-> [c.text EXCEPT ![m] = TextNow(yd, m)], remote |-> c.remote]
        BY <2>1, <2>2 DEF Shaped
      <3>2. Shaped(r)
        BY <3>1 DEF Shaped
      <3>3. /\ r.text[m] = TextNow(yd, m)
            /\ \A k \in Maps : k # m => r.text[k] = c.text[k]
        BY <1>1, <3>1, <2>2 DEF Shaped
      <3>4. Fits(yd, r, w, last)
        BY <1>1, <3>1, <3>3, <2>2 DEF Fits, ElementNow
      <3>5. QED
        BY <1>4, <2>2, <3>1, <3>2, <3>3, <3>4 DEF Got
    <2>3. CASE ~(m # 0 /\ c.text[m] = None)
      BY <1>4, <2>1, <2>3 DEF Fits, Got
    <2>4. QED
      BY <2>2, <2>3
  <1>5. QED
    BY <1>2, <1>3, <1>4 DEF Hooks

\* All but what is rendered in what.
Right(c, v, w) ==
    /\ Shaped(c) /\ Drawn(v)
    /\ Fits(y, c, w, maps) /\ AllStand(y, v, w, maps) /\ Fresh(y, c, v)

\* Two views of the same that differ in one component, which is sound by itself.
LEMMA OneMore ==
    ASSUME NEW c, NEW v, NEW w, NEW r, NEW u, NEW h \in Hooks,
           Right(c, v, w), Shaped(r), Fits(y, r, w, maps), r.remote = c.remote,
           Drawn(u), \A k \in Hooks : k # h => u[k] = v[k],
           Stands(y, u[h], w, maps),
           h = "ids" => (Presents(y, u, h) => u[h].shown = IdsNow(y)),
           h = "element" =>
              /\ u[h].stage = "subscribed" /\ u[h].on = y.n => u[h].of = y.map
              /\ Presents(y, u, h) =>
                    u[h].shown = IF y.map = 0 THEN Null ELSE ElementNow(y, c),
           h = "text" => (Presents(y, u, h) /\ u[h].of = y.map =>
                            u[h].shown = TextNow(y, y.map))
    PROVE  Right(r, u, w)
  <1>1. AllStand(y, u, w, maps)
    BY DEF Right, AllStand
  <1>2. ElementNow(y, r) = ElementNow(y, c)
    BY DEF ElementNow
  <1>3. Fresh(y, r, u)
    <2>1. CASE h = "ids"
      BY <1>2, <2>1 DEF Fresh, Right, Presents, Hooks
    <2>2. CASE h = "element"
      BY <1>2, <2>2 DEF Fresh, Right, Presents, Hooks
    <2>3. CASE h = "text"
      BY <1>2, <2>3 DEF Fresh, Right, Presents, Hooks
    <2>4. QED
      BY <2>1, <2>2, <2>3 DEF Hooks
  <1>4. QED
    BY <1>1, <1>3 DEF Right

\* What has been rendered so far.
State(s) == s = [cache |-> s.cache, view |-> s.view]

\* A session that a hook may render with, and one that may render, with that and the
\* text of map m.
Attends(w, d) == d \in 1..y.n /\ (d = y.n => y.n \in w)

Asked(w, h, d, m) ==
    /\ h \in Hooks /\ Attends(w, d) /\ m \in 0..maps
    /\ d # y.n => m = 0 \/ m # y.map
    /\ h = "element" => m = 0
    /\ h = "text" => m # 0

\* What has changed when it has.
Rendered(s, t, h, d, m) ==
    /\ t.cache.remote = s.cache.remote
    /\ \A k \in Hooks : k # h => t.view[k] = s.view[k]
    /\ t.view[h].stage # "gone" /\ t.view[h].on = d
    /\ h = "ids" => t.view[h].shown = IF d = y.n THEN IdsNow(y) ELSE EmptyIds
    /\ h = "element" => t.view[h].shown =
                           IF d = y.n /\ y.map # 0 THEN ElementNow(y, s.cache) ELSE Null
    /\ h = "text" => t.view[h].of = m

\* One hook renders.
LEMMA HookRenders ==
    ASSUME NEW s, NEW w, State(s), Right(s.cache, s.view, w), Counted,
           MaxMaps \in Nat, MaxDocs \in Nat,
           NEW h, NEW d, NEW m, Asked(w, h, d, m),
           NEW t, t = Again(s, h, d, m)
    PROVE  State(t) /\ Right(t.cache, t.view, w) /\ Rendered(s, t, h, d, m)
  <1> DEFINE c == s.cache
             v == s.view
             kept == v[h].stage = "subscribed" /\ v[h].on = d /\ (h = "text" => v[h].of = m)
             r == Read(y, c, h, d, m)
             p == [stage |-> IF kept THEN "subscribed" ELSE "rendered", on |-> d,
                   of |-> IF kept THEN v[h].of ELSE m,
                   shown |-> Got(y, r, h, d, m), stale |-> FALSE]
  <1> HIDE DEF r, p, kept, c, v
  <1> /\ h \in Hooks /\ d \in 1..y.n /\ m \in 0..maps
      /\ d = y.n => y.n \in w
      /\ d # y.n => m = 0 \/ m # y.map
      /\ h = "element" => m = 0
      /\ h = "text" => m # 0
    BY DEF Asked, Attends
  <1>1. t = [cache |-> r, view |-> [v EXCEPT ![h] = p]]
    BY DEF Again, Snapshot, r, p, kept, c, v
  <1>2. t.cache = r /\ t.view = [v EXCEPT ![h] = p]
    <2> DEFINE q == [v EXCEPT ![h] = p]
    <2>1. t = [cache |-> r, view |-> q]
      BY <1>1
    <2> HIDE DEF q
    <2>2. t.cache = r /\ t.view = q
      BY <2>1
    <2>3. QED
      BY <2>2 DEF q
  <1> Right(c, v, w)
    BY DEF c, v
  <1>3. t.view[h] = p /\ Drawn(t.view) /\ \A k \in Hooks : k # h => t.view[k] = v[k]
    BY <1>2 DEF Right, Drawn, p
  <1>4. /\ y.n \in Docs /\ y.map \in 0..maps /\ maps \in 0..MaxMaps /\ d \in Nat
        /\ d # 0 /\ y.n \in Nat /\ d <= y.n
    BY DEF Counted, Docs
  <1>5. Shaped(c) /\ Fits(y, c, w, maps)
    BY DEF Right
  <1>6. /\ Shaped(r) /\ Fits(y, r, w, maps) /\ r.remote = c.remote
        /\ h = "ids" => p.shown = IF d = y.n THEN IdsNow(y) ELSE EmptyIds
        /\ h = "element" => p.shown =
                              IF d = y.n /\ y.map # 0 THEN ElementNow(y, c) ELSE Null
        /\ h = "text" /\ m # 0 /\ m = y.map => p.shown = TextNow(y, m)
    <2>1. p.shown = Got(y, r, h, d, m)
      BY DEF p
    <2>2. r = Read(y, c, h, d, m)
      BY DEF r
    <2>3. QED
      BY <1>4, <1>5, <2>1, <2>2, ReadIsNow
  <1>7. Stands(y, t.view[h], w, maps)
    <2>1. kept => v[h].of \in 0..maps /\ (v[h].on # y.n => v[h].of = 0 \/ v[h].of # y.map)
      BY DEF Right, AllStand, Stands
    <2>2. /\ p.stage \in {"rendered", "subscribed"} /\ p.on = d
          /\ p.of \in 0..maps /\ (d # y.n => p.of = 0 \/ p.of # y.map)
      BY <2>1 DEF p, kept
    <2>3. QED
      BY <1>3, <1>4, <2>2 DEF Stands
  <1>8. Right(r, t.view, w)
    <2>1. h = "ids" => (Presents(y, t.view, h) => t.view[h].shown = IdsNow(y))
      BY <1>3, <1>6 DEF Presents, p
    <2>2. ASSUME h = "element"
          PROVE  /\ t.view[h].stage = "subscribed" /\ t.view[h].on = y.n => t.view[h].of = y.map
                 /\ Presents(y, t.view, h) => t.view[h].shown =
                                 IF y.map = 0 THEN Null ELSE ElementNow(y, c)
      <3>1. t.view[h].stage = "subscribed" /\ t.view[h].on = y.n => t.view[h].of = y.map
        BY <1>3, <2>2 DEF Right, Fresh, p, kept
      <3>2. t.view[h].on = y.n => t.view[h].shown =
                                 IF y.map = 0 THEN Null ELSE ElementNow(y, c)
        BY <1>3, <1>6, <2>2 DEF p
      <3>3. QED
        BY <3>1, <3>2 DEF Presents
    <2>3. ASSUME h = "text", Presents(y, t.view, h), t.view[h].of = y.map
          PROVE  t.view[h].shown = TextNow(y, y.map)
      BY <1>3, <1>6, <2>3 DEF Presents, p, kept
    <2> DEFINE u == t.view
    <2>4. /\ Shaped(r) /\ Fits(y, r, w, maps) /\ r.remote = c.remote
          /\ Drawn(u) /\ \A k \in Hooks : k # h => u[k] = v[k]
      BY <1>3, <1>6
    <2>5. /\ Stands(y, u[h], w, maps)
          /\ h = "ids" => (Presents(y, u, h) => u[h].shown = IdsNow(y))
          /\ h = "element" =>
                /\ u[h].stage = "subscribed" /\ u[h].on = y.n => u[h].of = y.map
                /\ Presents(y, u, h) =>
                      u[h].shown = IF y.map = 0 THEN Null ELSE ElementNow(y, c)
          /\ h = "text" => (Presents(y, u, h) /\ u[h].of = y.map =>
                               u[h].shown = TextNow(y, y.map))
      BY <1>7, <2>1, <2>2, <2>3
    <2> HIDE DEF u
    <2>6. Right(r, u, w)
      BY <2>4, <2>5, OneMore
    <2>7. QED
      BY <2>6 DEF u
  <1>9. (h = "text" => p.of = m) /\ p.stage # "gone" /\ p.on = d
    BY DEF p, kept
  <1>10. State(t)
    BY <1>1 DEF State
  <1>11. QED
    BY <1>2, <1>3, <1>6, <1>8, <1>9, <1>10 DEF c, v, Rendered

\* A component that is no longer rendered.
Without(v, h, u) == u = [v EXCEPT ![h] = NoView]
Vanished(v, h, u) == u[h].stage = "gone" /\ \A k \in Hooks : k # h => u[k] = v[k]

\* What does not render is sound.
LEMMA Goes ==
    ASSUME NEW c, NEW v, NEW w, Right(c, v, w), Counted, MaxDocs \in Nat, MaxMaps \in Nat,
           NEW h \in {"element", "text"}, NEW u, Without(v, h, u)
    PROVE  Right(c, u, w) /\ Vanished(v, h, u)
  <1>1. h \in Hooks /\ y.n \in Nat /\ y.n # 0 /\ maps \in Nat
    BY DEF Hooks, Counted, Docs
  <1>2. u[h] = NoView /\ \A k \in Hooks : k # h => u[k] = v[k]
    BY <1>1 DEF Right, Drawn, Without
  <1>3. Drawn(u)
    BY <1>1 DEF Right, Drawn, NoView, Without
  <1>4. /\ u[h].stage = "gone" /\ u[h].on = 0 /\ u[h].of = 0
    BY <1>2 DEF NoView
  <1>5. Stands(y, u[h], w, maps)
    BY <1>1, <1>4 DEF Stands
  <1>6. Shaped(c) /\ Fits(y, c, w, maps)
    BY DEF Right
  <1>7. ~Presents(y, u, h)
    BY <1>4 DEF Presents
  <1>8. Right(c, u, w)
    BY <1>1, <1>2, <1>3, <1>4, <1>5, <1>6, <1>7, OneMore
  <1>9. QED
    BY <1>2, <1>4, <1>8 DEF Vanished

\* The layer shows the element.
Listed(v, d) == v["ids"].stage # "gone" /\ v["ids"].on = d /\ v["ids"].shown.present

\* What has changed when the element's view has rendered.
Opened(s, t, w) ==
    /\ State(t) /\ Right(t.cache, t.view, w) /\ Nested(t.view)
    /\ t.cache.remote = s.cache.remote /\ t.view["ids"] = s.view["ids"]

\* The element's view renders in a layer that shows it, and its editor with it.
LEMMA ElementRenders ==
    ASSUME NEW s, NEW w, State(s), Right(s.cache, s.view, w), Counted,
           MaxDocs \in Nat, MaxMaps \in Nat,
           NEW d, Attends(w, d),
           Listed(s.view, d),
           NEW t, t = WithElement(s, d)
    PROVE  Opened(s, t, w)
  <1> DEFINE a == Again(s, "element", d, 0)
             m == IF d = y.n THEN y.map ELSE 0
  <1> HIDE DEF a, m
  <1>1. /\ y.n \in Nat /\ y.map \in 0..maps /\ maps \in 0..MaxMaps /\ 0 \in 0..maps
        /\ m \in 0..maps /\ Hooks = {"ids", "element", "text"}
    BY DEF Counted, Docs, Hooks, m
  <1>2. t = IF m = 0 THEN [a EXCEPT !.view["text"] = NoView] ELSE Again(a, "text", d, m)
    BY DEF WithElement, a, m
  <1>3. a = Again(s, "element", d, 0)
    BY DEF a
  <1>4. /\ State(a)
        /\ Right(a.cache, a.view, w) /\ a.cache.remote = s.cache.remote
        /\ a.view["ids"] = s.view["ids"]
        /\ a.view["element"].stage # "gone" /\ a.view["element"].on = d
        /\ a.view["element"].shown =
              IF d = y.n /\ y.map # 0 THEN ElementNow(y, s.cache) ELSE Null
    <2>1. Asked(w, "element", d, 0)
      BY <1>1 DEF Asked
    <2>2. State(a) /\ Right(a.cache, a.view, w) /\ Rendered(s, a, "element", d, 0)
      BY <1>3, <2>1, HookRenders
    <2>3. QED
      BY <1>1, <2>2 DEF Rendered
  <1>5. CASE m = 0
    <2>1. t = [cache |-> a.cache, view |-> [a.view EXCEPT !["text"] = NoView]]
      BY <1>2, <1>4, <1>5 DEF State
    <2>2. t.cache = a.cache /\ t.view = [a.view EXCEPT !["text"] = NoView]
      <3> DEFINE q == [a.view EXCEPT !["text"] = NoView]
      <3>1. t = [cache |-> a.cache, view |-> q]
        BY <2>1
      <3> HIDE DEF q
      <3>2. t.cache = a.cache /\ t.view = q
        BY <3>1
      <3>3. QED
        BY <3>2 DEF q
    <2>3. Right(a.cache, t.view, w) /\ Vanished(a.view, "text", t.view)
      <3>1. Without(a.view, "text", t.view)
        BY <2>2 DEF Without
      <3>2. QED
        BY <1>4, <3>1, Goes
    <2>4. /\ t.view["ids"] = s.view["ids"] /\ t.view["element"] = a.view["element"]
          /\ t.view["text"].stage = "gone"
      BY <1>1, <1>4, <2>3 DEF Vanished
    <2>5. t.view["element"].shown = Null
      BY <1>4, <1>5, <2>4 DEF m
    <2>6. Nested(t.view)
      BY <1>4, <2>4, <2>5 DEF Nested, Listed
    <2>7. State(t)
      BY <2>1, <2>2 DEF State
    <2>8. QED
      BY <1>4, <2>2, <2>3, <2>4, <2>6, <2>7 DEF Opened
  <1>6. CASE m # 0
    <2>1. t = Again(a, "text", d, m)
      BY <1>2, <1>4, <1>6
    <2>2. m = y.map /\ d = y.n
      BY <1>6 DEF m
    <2>3. State(t) /\ Right(t.cache, t.view, w) /\ Rendered(a, t, "text", d, m)
      <3>1. Asked(w, "text", d, m)
        BY <1>1, <1>6, <2>2 DEF Asked
      <3>2. QED
        BY <1>4, <2>1, <3>1, HookRenders
    <2>4. /\ t.view["ids"] = s.view["ids"] /\ t.view["element"] = a.view["element"]
          /\ t.view["text"].stage # "gone" /\ t.view["text"].on = d
          /\ t.view["text"].of = m /\ t.cache.remote = s.cache.remote
      BY <1>1, <1>4, <2>3 DEF Rendered
    <2>5. t.view["element"].shown.of = y.map
      BY <1>4, <1>6, <2>2, <2>4 DEF ElementNow
    <2>6. Nested(t.view)
      BY <1>4, <1>6, <2>2, <2>4, <2>5 DEF Nested, Listed
    <2>7. QED
      BY <2>3, <2>4, <2>6 DEF Opened
  <1>7. QED
    BY <1>5, <1>6

\* The layer renders, and those of its views that it has to.
LEMMA LayerRenders ==
    ASSUME NEW s, NEW w, State(s), Right(s.cache, s.view, w), Nested(s.view), Counted,
           MaxDocs \in Nat, MaxMaps \in Nat,
           NEW d, Attends(w, d),
           NEW t, t = WithLayer(s, d)
    PROVE  /\ State(t) /\ Right(t.cache, t.view, w) /\ Nested(t.view)
           /\ t.cache.remote = s.cache.remote
  <1> DEFINE a == Again(s, "ids", d, 0)
  <1> HIDE DEF a
  <1>1. /\ y.n \in Nat /\ y.map \in 0..maps /\ maps \in 0..MaxMaps /\ 0 \in 0..maps
        /\ Hooks = {"ids", "element", "text"}
    BY DEF Counted, Docs, Hooks
  <1>2. t = IF ~a.view["ids"].shown.present
            THEN [a EXCEPT !.view["element"] = NoView, !.view["text"] = NoView]
            ELSE IF a.view["element"].stage # "gone" /\ a.view["element"].on = d THEN a
            ELSE WithElement(a, d)
    BY DEF WithLayer, a
  <1>3. a = Again(s, "ids", d, 0)
    BY DEF a
  <1>4. /\ State(a)
        /\ Right(a.cache, a.view, w) /\ a.cache.remote = s.cache.remote
        /\ a.view["element"] = s.view["element"] /\ a.view["text"] = s.view["text"]
        /\ a.view["ids"].stage # "gone" /\ a.view["ids"].on = d
    <2>1. Asked(w, "ids", d, 0)
      BY <1>1 DEF Asked
    <2>2. State(a) /\ Right(a.cache, a.view, w) /\ Rendered(s, a, "ids", d, 0)
      BY <1>3, <2>1, HookRenders
    <2>3. QED
      BY <1>1, <2>2 DEF Rendered
  <1>5. CASE ~a.view["ids"].shown.present
    <2> DEFINE b == [a.view EXCEPT !["element"] = NoView]
               q == [b EXCEPT !["text"] = NoView]
    <2>1. t = [cache |-> a.cache, view |-> q]
      <3>1. t = [a EXCEPT !.view["element"] = NoView, !.view["text"] = NoView]
        BY <1>2, <1>5
      <3>2. a = [cache |-> a.cache, view |-> a.view]
        BY <1>4 DEF State
      <3> DEFINE e == [a EXCEPT !.view["element"] = NoView]
      <3>3. e = [cache |-> a.cache, view |-> b]
        BY <3>2
      <3>4. t = [e EXCEPT !.view["text"] = NoView]
        BY <3>1
      <3> HIDE DEF b, e
      <3>5. QED
        BY <3>3, <3>4
    <2> HIDE DEF q, b
    <2>2. t.cache = a.cache /\ t.view = q /\ State(t)
      BY <2>1 DEF State
    <2>3. Right(a.cache, b, w) /\ Vanished(a.view, "element", b)
      <3>1. Without(a.view, "element", b)
        BY DEF Without, b
      <3>2. QED
        BY <1>4, <3>1, Goes
    <2>4. Without(b, "text", q)
      BY DEF q, Without
    <2>5. Right(a.cache, q, w) /\ Vanished(b, "text", q)
      BY <2>3, <2>4, Goes
    <2>6. /\ q["element"].stage = "gone" /\ q["text"].stage = "gone"
          /\ q["ids"] = a.view["ids"]
      BY <1>1, <2>3, <2>5 DEF Vanished
    <2>7. Nested(q)
      BY <1>5, <2>6 DEF Nested
    <2>8. QED
      BY <1>4, <2>2, <2>5, <2>7
  <1>6. CASE /\ a.view["ids"].shown.present
             /\ a.view["element"].stage # "gone" /\ a.view["element"].on = d
    <2>1. t = a
      BY <1>2, <1>6
    <2>2. Nested(a.view)
      BY <1>4, <1>6 DEF Nested
    <2>3. QED
      BY <1>4, <2>1, <2>2
  <1>7. CASE /\ a.view["ids"].shown.present
             /\ ~(a.view["element"].stage # "gone" /\ a.view["element"].on = d)
    <2>1. t = WithElement(a, d)
      BY <1>2, <1>4, <1>7
    <2>2. Opened(a, t, w)
      <3>1. Listed(a.view, d)
        BY <1>4, <1>7 DEF Listed
      <3>2. State(a) /\ Right(a.cache, a.view, w)
        BY <1>4
      <3>3. QED
        BY <2>1, <3>1, <3>2, ElementRenders
    <2>3. QED
      BY <1>4, <2>2 DEF Opened
  <1>8. QED
    BY <1>5, <1>6, <1>7

\* A document more that is watched changes nothing of what is read.
LEMMA WatchesMore ==
    ASSUME NEW c, NEW v, NEW w, Right(c, v, w), NEW d
    PROVE  Right(c, v, w \cup {d})
  <1>1. Fits(y, c, w \cup {d}, maps)
    BY DEF Right, Fits
  <1>2. AllStand(y, v, w \cup {d}, maps)
    BY DEF Right, AllStand, Stands
  <1>3. QED
    BY <1>1, <1>2 DEF Right

\* A render is committed.
LEMMA Commits ==
    ASSUME ViewsInv, NEW s, NEW d \in 1..y.n, Show(s, d),
           Right(s.cache, s.view, Watched(d)), Nested(s.view),
           s.cache.remote = cache.remote
    PROVE  ViewsInv'
  <1>1. /\ cache' = s.cache /\ view' = s.view /\ watched' = Watched(d)
        /\ UNCHANGED <<y, maps, changes, hand>>
    BY DEF Show
  <1>2. watched' \subseteq 1..y.n
    BY <1>1 DEF ViewsInv, Counted, Watched
  <1>3. Counted' /\ Written(y)'
    BY <1>1, <1>2 DEF ViewsInv, Counted, Written
  <1>4. Credited' /\ (hand = [m \in Maps |-> hand[m]])'
    BY <1>1 DEF ViewsInv, Credited
  <1>5. /\ Shaped(cache') /\ Drawn(view') /\ Nested(view')
        /\ Fits(y, cache', watched', maps) /\ AllStand(y, view', watched', maps)
        /\ Fresh(y, cache', view')
    BY <1>1 DEF Right
  <1>6. /\ Shaped(cache)' /\ Drawn(view)' /\ Nested(view)'
        /\ Fits(y, cache, watched, maps)' /\ AllStand(y, view, watched, maps)'
        /\ Fresh(y, cache, view)'
    BY <1>1, <1>5
  <1>7. QED
    BY <1>3, <1>4, <1>6 DEF ViewsInv

\* What may be rendered of a component that is there.
LEMMA Standing ==
    ASSUME ViewsInv, MaxDocs \in Nat, MaxMaps \in Nat,
           NEW h \in Hooks, view[h].stage # "gone"
    PROVE  /\ view[h].on \in 1..y.n /\ view[h].of \in 0..maps
           /\ view[h].on # y.n => view[h].of = 0 \/ view[h].of # y.map
           /\ Attends(Watched(view[h].on), view[h].on)
           /\ Right(cache, view, Watched(view[h].on))
  <1>1. y.n \in Nat
    BY DEF ViewsInv, Counted, Docs
  <1>2. Stands(y, view[h], watched, maps)
    BY DEF ViewsInv, AllStand
  <1>3. /\ view[h].on \in 1..y.n /\ view[h].of \in 0..maps
        /\ view[h].on # y.n => view[h].of = 0 \/ view[h].of # y.map
    BY <1>1, <1>2 DEF Stands
  <1>4. Right(cache, view, watched)
    BY DEF ViewsInv, Right
  <1>5. Right(cache, view, Watched(view[h].on))
    <2>1. Right(cache, view, watched \cup {view[h].on})
      BY <1>4, WatchesMore
    <2>2. QED
      BY <1>4, <2>1 DEF Watched
  <1>6. Attends(Watched(view[h].on), view[h].on)
    BY <1>3 DEF Attends, Watched
  <1>7. QED
    BY <1>3, <1>5, <1>6

\* The page renders, with the session that is there.
LEMMA PageRenders ==
    ASSUME ViewsInv, MaxDocs \in Nat, MaxMaps \in Nat, RenderPage
    PROVE  ViewsInv'
  <1> DEFINE w == Watched(y.n)
             s == Now
             t == WithLayer(s, y.n)
  <1>1. y.n \in 1..y.n
    BY DEF ViewsInv, Counted, Docs
  <1>2. Attends(w, y.n)
    BY <1>1 DEF Attends, Watched
  <1>3. s.cache = cache /\ s.view = view /\ State(s)
    BY DEF Now, State
  <1>4. Right(s.cache, s.view, w) /\ Nested(s.view)
    <2>1. Right(cache, view, watched)
      BY DEF ViewsInv, Right
    <2>2. Right(cache, view, watched \cup {y.n})
      BY <2>1, WatchesMore
    <2>3. w = watched \cup {y.n}
      BY DEF Watched
    <2>4. QED
      BY <1>3, <2>2, <2>3 DEF ViewsInv
  <1>5. Show(t, y.n)
    BY DEF RenderPage
  <1>6. Counted
    BY DEF ViewsInv
  <1> HIDE DEF w, s, t
  <1>7. /\ Right(t.cache, t.view, w) /\ Nested(t.view)
        /\ t.cache.remote = s.cache.remote
    BY <1>2, <1>3, <1>4, <1>6, LayerRenders DEF t
  <1>8. t.cache.remote = cache.remote /\ w = Watched(y.n)
    BY <1>3, <1>7 DEF w
  <1>9. QED
    BY <1>1, <1>5, <1>7, <1>8, Commits

\* A component renders because what it reads has changed.
LEMMA ComponentRenders ==
    ASSUME ViewsInv, MaxDocs \in Nat, MaxMaps \in Nat, NEW h \in Hooks, RenderAgain(h)
    PROVE  ViewsInv'
  <1> DEFINE d == view[h].on
             w == Watched(d)
             s == Now
  <1>1. view[h].stage = "subscribed"
    BY DEF RenderAgain
  <1>2. /\ d \in 1..y.n /\ view[h].of \in 0..maps
        /\ d # y.n => view[h].of = 0 \/ view[h].of # y.map
        /\ Attends(w, d) /\ Right(cache, view, w)
    BY <1>1, Standing
  <1>3. s.cache = cache /\ s.view = view /\ State(s)
    BY DEF Now, State
  <1>4. Counted /\ Nested(view)
    BY DEF ViewsInv
  <1>5. CASE h = "ids"
    <2> DEFINE t == WithLayer(s, d)
    <2>1. Show(t, d)
      BY <1>5 DEF RenderAgain
    <2> HIDE DEF d, w, s, t
    <2>2. /\ Right(t.cache, t.view, w) /\ Nested(t.view)
          /\ t.cache.remote = s.cache.remote
      BY <1>2, <1>3, <1>4, LayerRenders DEF t
    <2>3. QED
      BY <1>2, <1>3, <2>1, <2>2, Commits DEF w
  <1>6. CASE h = "element"
    <2> DEFINE t == WithElement(s, d)
    <2>1. Show(t, d)
      BY <1>6 DEF RenderAgain
    <2>2. Listed(view, d)
      BY <1>1, <1>4, <1>6 DEF Nested, Listed
    <2> HIDE DEF d, w, s, t
    <2>3. State(s) /\ Right(s.cache, s.view, w) /\ Listed(s.view, d) /\ Attends(w, d)
      BY <1>2, <1>3, <2>2
    <2>4. Opened(s, t, w)
      BY <1>4, <2>3, ElementRenders DEF t
    <2>5. QED
      BY <1>2, <1>3, <2>1, <2>4, Commits DEF w, Opened
  <1>7. CASE h = "text"
    <2> DEFINE m == view[h].of
               t == Again(s, "text", d, m)
    <2>1. Show(t, d)
      BY <1>7 DEF RenderAgain
    <2>2. /\ m = view["text"].of /\ d = view["text"].on
          /\ view["text"].stage # "gone" /\ m # 0
      BY <1>1, <1>4, <1>7 DEF Nested
    <2>3. Asked(w, "text", d, m)
      BY <1>2, <2>2 DEF Asked, Hooks
    <2> HIDE DEF d, w, s, t, m
    <2>4. State(t) /\ Right(t.cache, t.view, w) /\ Rendered(s, t, "text", d, m)
      BY <1>2, <1>3, <1>4, <2>3, HookRenders DEF t
    <2>5. /\ t.view["ids"] = view["ids"] /\ t.view["element"] = view["element"]
          /\ t.view["text"].stage # "gone" /\ t.view["text"].on = d
          /\ t.view["text"].of = m /\ t.cache.remote = cache.remote
      BY <1>3, <2>4 DEF Rendered, Hooks
    <2>6. Nested(t.view)
      BY <1>4, <2>2, <2>5 DEF Nested
    <2>7. QED
      BY <1>2, <2>1, <2>4, <2>5, <2>6, Commits DEF w
  <1>8. QED
    BY <1>5, <1>6, <1>7 DEF Hooks

\* Between its render and its subscription a component may have missed something:
\* it reads once more.
LEMMA ComponentSubscribes ==
    ASSUME ViewsInv, MaxDocs \in Nat, MaxMaps \in Nat, NEW h \in Hooks, Subscribe(h)
    PROVE  ViewsInv'
  <1> DEFINE d == view[h].on
             m == view[h].of
             w == Watched(d)
             r == Read(y, cache, h, d, m)
             p == [stage |-> "subscribed", on |-> d,
                   of |-> IF h # "element" THEN m ELSE IF d = y.n THEN y.map ELSE 0,
                   shown |-> view[h].shown,
                   stale |-> Got(y, r, h, d, m) # view[h].shown]
             u == [view EXCEPT ![h] = p]
             s == [cache |-> r, view |-> u]
  <1>1. view[h].stage = "rendered"
    BY DEF Subscribe
  <1>2. /\ d \in 1..y.n /\ m \in 0..maps
        /\ d # y.n => m = 0 \/ m # y.map
        /\ Attends(w, d) /\ Right(cache, view, w)
    BY <1>1, Standing
  <1>3. /\ Counted /\ Nested(view) /\ Drawn(view)
        /\ y.n \in Docs /\ y.map \in 0..maps /\ maps \in 0..MaxMaps /\ y.n \in Nat
    BY DEF ViewsInv, Counted, Docs
  <1>4. Show(s, d)
    <2>1. [view[h] EXCEPT !.stage = "subscribed",
                          !.of = IF h # "element" THEN @ ELSE IF d = y.n THEN y.map ELSE 0,
                          !.stale = Snapshot(y, cache, h, d, m) # view[h].shown] = p
      <3> DEFINE x == view[h]
                 b == IF h # "element" THEN x.of ELSE IF d = y.n THEN y.map ELSE 0
                 c == Snapshot(y, cache, h, d, m) # view[h].shown
                 t == [x EXCEPT !.stage = "subscribed", !.of = b, !.stale = c]
                 e == [x EXCEPT !.stage = "subscribed"]
                 f == [e EXCEPT !.of = b]
      <3>1. x = [stage |-> x.stage, on |-> x.on, of |-> x.of, shown |-> x.shown,
                 stale |-> x.stale]
        BY <1>3 DEF Drawn
      <3>2. p = [stage |-> "subscribed", on |-> x.on, of |-> b, shown |-> x.shown, stale |-> c]
        BY DEF Snapshot
      <3> HIDE DEF x, b, c
      <3>3. e = [stage |-> "subscribed", on |-> x.on, of |-> x.of, shown |-> x.shown,
                 stale |-> x.stale]
        BY <3>1
      <3>4. t = [f EXCEPT !.stale = c]
        OBVIOUS
      <3> HIDE DEF t, e
      <3>5. f = [stage |-> "subscribed", on |-> x.on, of |-> b, shown |-> x.shown,
                 stale |-> x.stale]
        BY <3>3
      <3> HIDE DEF f
      <3>6. t = [stage |-> "subscribed", on |-> x.on, of |-> b, shown |-> x.shown, stale |-> c]
        BY <3>4, <3>5
      <3>7. QED
        BY <3>2, <3>6 DEF t, x, b, c
    <2>2. QED
      BY <2>1 DEF Subscribe
  <1> HIDE DEF d, m, w, r, p, u, s
  <1>5. /\ Shaped(r) /\ Fits(y, r, w, maps) /\ r.remote = cache.remote
        /\ h = "ids" => Got(y, r, h, d, m) = IF d = y.n THEN IdsNow(y) ELSE EmptyIds
        /\ h = "element" => Got(y, r, h, d, m) =
                               IF d = y.n /\ y.map # 0 THEN ElementNow(y, cache)
                               ELSE Null
        /\ h = "text" /\ m # 0 /\ m = y.map => Got(y, r, h, d, m) = TextNow(y, m)
    <2>1. Shaped(cache) /\ Fits(y, cache, w, maps) /\ d \in Nat /\ (d = y.n => y.n \in w)
      BY <1>2 DEF Right, Attends
    <2>2. QED
      BY <1>2, <1>3, <2>1, ReadIsNow DEF r
  <1>6. u[h] = p /\ Drawn(u) /\ \A k \in Hooks : k # h => u[k] = view[k]
    BY <1>3 DEF Drawn, u, p
  <1>7. /\ p.stage = "subscribed" /\ p.on = d /\ p.shown = view[h].shown
        /\ p.of = IF h # "element" THEN m ELSE IF d = y.n THEN y.map ELSE 0
        /\ ~p.stale => p.shown = Got(y, r, h, d, m)
    BY DEF p
  <1>8. Stands(y, u[h], w, maps)
    BY <1>2, <1>3, <1>6, <1>7 DEF Stands, Attends
  <1>9. h = "ids" => (Presents(y, u, h) => u[h].shown = IdsNow(y))
    BY <1>5, <1>6, <1>7 DEF Presents
  <1>10. h = "element" =>
            /\ u[h].stage = "subscribed" /\ u[h].on = y.n => u[h].of = y.map
            /\ Presents(y, u, h) =>
                  u[h].shown = IF y.map = 0 THEN Null ELSE ElementNow(y, cache)
    <2>1. ASSUME h = "element", u[h].stage = "subscribed" /\ u[h].on = y.n
          PROVE  u[h].of = y.map
      BY <1>6, <1>7, <2>1
    <2>2. ASSUME h = "element", Presents(y, u, h)
          PROVE  u[h].shown = IF y.map = 0 THEN Null ELSE ElementNow(y, cache)
      BY <1>5, <1>6, <1>7, <2>2 DEF Presents
    <2>3. QED
      BY <2>1, <2>2
  <1>11. h = "text" => (Presents(y, u, h) /\ u[h].of = y.map =>
                          u[h].shown = TextNow(y, y.map))
    <2>1. h = "text" => m # 0
      BY <1>1, <1>3 DEF Nested, m
    <2>2. QED
      BY <1>5, <1>6, <1>7, <2>1 DEF Presents
  <1>12. Right(r, u, w)
    BY <1>2, <1>5, <1>6, <1>8, <1>9, <1>10, <1>11, OneMore
  <1>13. Nested(u)
    <2>1. /\ u[h].stage # "gone" /\ u[h].on = view[h].on /\ u[h].shown = view[h].shown
          /\ h # "element" => u[h].of = view[h].of
      BY <1>6, <1>7 DEF d, m
    <2>2. \A k \in Hooks :
             /\ u[k].stage = "gone" <=> view[k].stage = "gone"
             /\ u[k].on = view[k].on /\ u[k].shown = view[k].shown
             /\ k # "element" => u[k].of = view[k].of
      BY <1>1, <1>6, <2>1
    <2>3. QED
      BY <1>3, <2>2 DEF Nested, Hooks
  <1>14. s.cache = r /\ s.view = u
    BY DEF s
  <1>15. QED
    BY <1>2, <1>4, <1>5, <1>12, <1>13, <1>14, Commits DEF w

\* What a transaction may put in the element's place: the map that is there, one that
\* is new, or none.
Succeeds(next) ==
    \/ next = y.map
    \/ maps < MaxMaps /\ next = maps + 1
    \/ y.map # 0 /\ next = 0

\* What a transaction has written, and what it has not.
Rewritten(yd, what, next) ==
    /\ Written(yd) /\ yd.n = y.n /\ yd.map = next
    /\ "order" \notin what => yd.order = y.order
    /\ "scalars" \notin what /\ next = y.map => yd.scalars = y.scalars
    /\ "text" \notin what /\ next = y.map => yd.text = y.text

\* It has written what it says, and nothing else.
LEMMA TransactWrites ==
    ASSUME Written(y), NEW what, NEW next, NEW byPeer, Transact(what, next, byPeer)
    PROVE  Rewritten(y', what, next)
  <1> DEFINE W(part) == [m \in Maps |-> IF m = next /\ (part \in what \/ next # y.map)
                                          THEN changes + 1 ELSE y[part][m]]
             a == W("scalars")
             b == W("text")
             c == IF "order" \in what THEN changes + 1 ELSE y.order
             t == [y EXCEPT !.map = next, !.scalars = a, !.text = b, !.order = c]
             e == [y EXCEPT !.map = next]
             f == [e EXCEPT !.scalars = a]
             g == [f EXCEPT !.text = b]
  <1>1. y' = t
    BY DEF Transact
  <1>2. /\ a = [m \in Maps |-> a[m]] /\ b = [m \in Maps |-> b[m]]
        /\ "scalars" \notin what /\ next = y.map => a = y.scalars
        /\ "text" \notin what /\ next = y.map => b = y.text
        /\ "order" \notin what => c = y.order
    BY DEF Written
  <1> HIDE DEF a, b, c
  <1>3. e = [n |-> y.n, map |-> next, scalars |-> y.scalars, text |-> y.text, order |-> y.order]
    BY DEF Written
  <1>4. t = [g EXCEPT !.order = c]
    OBVIOUS
  <1> HIDE DEF e, t
  <1>5. f = [n |-> y.n, map |-> next, scalars |-> a, text |-> y.text, order |-> y.order]
    BY <1>3
  <1> HIDE DEF f
  <1>6. g = [n |-> y.n, map |-> next, scalars |-> a, text |-> b, order |-> y.order]
    BY <1>5
  <1> HIDE DEF g
  <1>7. t = [n |-> y.n, map |-> next, scalars |-> a, text |-> b, order |-> c]
    BY <1>4, <1>6
  <1>8. t = [n |-> t.n, map |-> t.map, scalars |-> t.scalars, text |-> t.text, order |-> t.order]
        /\ t.n = y.n /\ t.map = next /\ t.scalars = a /\ t.text = b /\ t.order = c
    BY <1>7
  <1>9. QED
    BY <1>1, <1>2, <1>8 DEF Rewritten, Written

\* Which of the document's types it changes.
LEMMA TypesAre ==
    ASSUME NEW what, NEW next, NEW types, types = Changed(what, next)
    PROVE  /\ "scalars" \in types <=> ("scalars" \in what /\ next = y.map /\ y.map # 0)
           /\ "text" \in types <=> ("text" \in what /\ next = y.map /\ y.map # 0)
           /\ "order" \in types <=> "order" \in what
           /\ "elements" \in types <=> next # y.map
           /\ IdsChange(types) <=> ("order" \in what \/ next # y.map)
           /\ types \cap {"scalars", "elements"} = {}
                 <=> ~(next # y.map \/ ("scalars" \in what /\ y.map # 0))
  <1>1. "scalars" \in types <=> ("scalars" \in what /\ next = y.map /\ y.map # 0)
    BY DEF Changed
  <1>2. "text" \in types <=> ("text" \in what /\ next = y.map /\ y.map # 0)
    BY DEF Changed
  <1>3. "order" \in types <=> "order" \in what
    BY DEF Changed
  <1>4. "elements" \in types <=> next # y.map
    BY DEF Changed
  <1>5. IdsChange(types) <=> ("order" \in types \/ "elements" \in types)
    BY DEF IdsChange
  <1>6. types \cap {"scalars", "elements"} = {}
          <=> ("scalars" \notin types /\ "elements" \notin types)
    OBVIOUS
  <1>7. QED
    BY <1>1, <1>2, <1>3, <1>4, <1>5, <1>6

\* Which caches a transaction empties, and whose change it records.
Trimmed(c, types, next, byPeer) ==
    /\ Shaped(c)
    /\ \A d \in Docs : c.ids[d] = IF d = y.n /\ IdsChange(types) THEN None
                                    ELSE cache.ids[d]
    /\ \A m \in Maps :
          /\ c.element[m] = IF m = y.map /\ "scalars" \in types THEN None
                            ELSE cache.element[m]
          /\ c.text[m] = IF m = y.map /\ "text" \in types THEN None ELSE cache.text[m]
          /\ c.remote[m] = IF m = next /\ types \cap {"scalars", "elements"} # {} THEN byPeer
                           ELSE cache.remote[m]

\* Before anybody hears of a transaction the caches of what it changed are empty.
LEMMA CachesEmpty ==
    ASSUME Shaped(cache), NEW types, NEW next, NEW byPeer \in BOOLEAN,
           NEW c, c = Flagged(Cleared(cache, types), types, next, byPeer)
    PROVE  Trimmed(c, types, next, byPeer)
  <1> DEFINE a == Emptied(cache.ids, y.n, IdsChange(types))
             b == Emptied(cache.element, y.map, "scalars" \in types)
             x == Emptied(cache.text, y.map, "text" \in types)
             flags == [m \in Maps |-> IF m = next /\ types \cap {"scalars", "elements"} # {}
                                        THEN byPeer ELSE cache.remote[m]]
             t == [cache EXCEPT !.ids = a, !.element = b, !.text = x]
             e == [cache EXCEPT !.ids = a]
             f == [e EXCEPT !.element = b]
  <1>1. Cleared(cache, types) = t
    BY DEF Cleared
  <1>2. /\ DOMAIN cache.ids = Docs /\ DOMAIN cache.element = Maps
        /\ DOMAIN cache.text = Maps
    BY DEF Shaped
  <1>3. /\ a = [d \in Docs |-> IF d = y.n /\ IdsChange(types) THEN None
                                 ELSE cache.ids[d]]
        /\ b = [m \in Maps |-> IF m = y.map /\ "scalars" \in types THEN None
                                 ELSE cache.element[m]]
        /\ x = [m \in Maps |-> IF m = y.map /\ "text" \in types THEN None
                                 ELSE cache.text[m]]
        /\ flags \in [Maps -> BOOLEAN]
    BY <1>2 DEF Emptied, Shaped
  <1> HIDE DEF a, b, x
  <1>4. e = [ids |-> a, element |-> cache.element, text |-> cache.text, remote |-> cache.remote]
    BY DEF Shaped
  <1>5. t = [f EXCEPT !.text = x]
    OBVIOUS
  <1> HIDE DEF e, t
  <1>6. f = [ids |-> a, element |-> b, text |-> cache.text, remote |-> cache.remote]
    BY <1>4
  <1> HIDE DEF f
  <1>7. t = [ids |-> a, element |-> b, text |-> x, remote |-> cache.remote]
    BY <1>5, <1>6
  <1>8. t.remote = cache.remote
    BY <1>7
  <1>9. c = [t EXCEPT !.remote = flags]
    BY <1>1, <1>8 DEF Flagged
  <1> DEFINE flagged == flags
  <1> HIDE DEF flags
  <1>10. c = [ids |-> a, element |-> b, text |-> x, remote |-> flags]
    BY <1>7, <1>9
  <1>11. c.ids = a /\ c.element = b /\ c.text = x /\ c.remote = flags
         /\ c = [ids |-> c.ids, element |-> c.element, text |-> c.text, remote |-> c.remote]
    BY <1>10
  <1>12. Shaped(c)
    BY <1>3, <1>11 DEF Shaped
  <1>13. QED
    BY <1>3, <1>11, <1>12 DEF Trimmed, flags

\* The last map there has been.
Latest(next) == IF next > maps THEN next ELSE maps

\* Caches that are right for the changed document, with who changed it recorded.
CachesFit(yd, c, types, next) ==
    /\ Shaped(c) /\ Fits(yd, c, watched, Latest(next))
    /\ types \cap {"scalars", "elements"} = {} /\ next # 0
          => c.remote[next] = cache.remote[next]

\* What is left in the caches is right for the changed document.
LEMMA CachesStillFit ==
    ASSUME ViewsInv, MaxMaps \in Nat, MaxDocs \in Nat,
           NEW what, NEW next, NEW byPeer \in BOOLEAN, Succeeds(next),
           NEW yd, Rewritten(yd, what, next),
           NEW types, types = Changed(what, next),
           NEW c, c = IF y.n \in watched
                      THEN Flagged(Cleared(cache, types), types, next, byPeer) ELSE cache
    PROVE  CachesFit(yd, c, types, next)
  <1>1. /\ y.n \in Docs /\ y.map \in 0..maps /\ maps \in 0..MaxMaps /\ maps \in Nat
        /\ Shaped(cache) /\ Fits(y, cache, watched, maps) /\ next \in 0..MaxMaps
        /\ next \in Nat /\ y.map \in Nat
    BY DEF ViewsInv, Counted, Succeeds
  <1>2. /\ next = y.map \/ next = 0 \/ (next = maps + 1 /\ next \in Maps)
        /\ next # 0 => next \in Maps
        /\ Latest(next) \in Nat /\ Latest(next) >= maps /\ Latest(next) >= next
    BY <1>1 DEF Succeeds, Latest, Maps
  <1>3. yd.n = y.n /\ yd.map = next
    BY DEF Rewritten
  <1>4. CASE y.n \notin watched
    <2>1. c = cache
      BY <1>4
    <2>2. /\ cache.ids[y.n] = None
          /\ next # 0 => cache.element[next] = None /\ cache.text[next] = None
                         /\ ~cache.remote[next]
      BY <1>1, <1>2, <1>4 DEF Fits
    <2>3. /\ \A d \in Docs : d > y.n => cache.ids[d] = None
          /\ \A m \in Maps : m > Latest(next) =>
                cache.element[m] = None /\ cache.text[m] = None /\ ~cache.remote[m]
      BY <1>1, <1>2 DEF Fits, Maps
    <2>4. Fits(yd, c, watched, Latest(next))
      BY <1>3, <2>1, <2>2, <2>3 DEF Fits
    <2>5. QED
      BY <1>1, <2>1, <2>4 DEF CachesFit
  <1>5. CASE y.n \in watched
    <2>1. Trimmed(c, types, next, byPeer)
      <3>1. c = Flagged(Cleared(cache, types), types, next, byPeer)
        BY <1>5
      <3>2. QED
        BY <1>1, <3>1, CachesEmpty
    <2>2. /\ "scalars" \in types <=> ("scalars" \in what /\ next = y.map /\ y.map # 0)
          /\ "text" \in types <=> ("text" \in what /\ next = y.map /\ y.map # 0)
          /\ IdsChange(types) <=> ("order" \in what \/ next # y.map)
          /\ types \cap {"scalars", "elements"} = {}
                <=> ~(next # y.map \/ ("scalars" \in what /\ y.map # 0))
      BY TypesAre
    <2>3. c.ids[yd.n] = None \/ (c.ids[yd.n] = IdsNow(yd) /\ yd.n \in watched)
      <3>1. CASE IdsChange(types)
        BY <1>1, <1>3, <2>1, <3>1 DEF Trimmed
      <3>2. CASE ~IdsChange(types)
        <4>1. c.ids[yd.n] = cache.ids[y.n] /\ IdsNow(yd) = IdsNow(y)
          BY <1>1, <1>3, <2>1, <2>2, <3>2 DEF Trimmed, Rewritten, IdsNow
        <4>2. QED
          BY <1>1, <1>3, <4>1 DEF Fits
      <3>3. QED
        BY <3>1, <3>2
    <2>4. ASSUME next # 0
          PROVE  /\ c.element[next] = None \/ c.element[next] = ElementNow(yd, c)
                 /\ c.text[next] = None \/ c.text[next] = TextNow(yd, next)
      <3>1. CASE next # y.map
        <4>1. cache.element[next] = None /\ cache.text[next] = None
          BY <1>1, <1>2, <2>4, <3>1 DEF Fits
        <4>2. QED
          BY <1>2, <2>1, <2>4, <4>1 DEF Trimmed
      <3>2. CASE next = y.map
        <4>1. \/ cache.element[next] = None
              \/ cache.element[next] = ElementNow(y, cache)
          BY <1>1, <2>4, <3>2 DEF Fits
        <4>2. \/ cache.text[next] = None
              \/ cache.text[next] = TextNow(y, next)
          BY <1>1, <2>4, <3>2 DEF Fits
        <4>3. "scalars" \notin types =>
                 /\ c.element[next] = cache.element[next]
                 /\ ElementNow(yd, c) = ElementNow(y, cache)
          <5>1. ASSUME "scalars" \notin types
                PROVE  c.remote[next] = cache.remote[next] /\ yd.scalars = y.scalars
            BY <1>2, <2>1, <2>2, <2>4, <3>2, <5>1 DEF Trimmed, Rewritten
          <5>2. "scalars" \notin types => c.element[next] = cache.element[next]
            BY <1>2, <2>1, <2>4 DEF Trimmed
          <5>3. QED
            BY <1>3, <3>2, <5>1, <5>2 DEF ElementNow
        <4>4. "text" \notin types =>
                 /\ c.text[next] = cache.text[next]
                 /\ TextNow(yd, next) = TextNow(y, next)
          <5>1. "text" \notin types => yd.text = y.text
            BY <2>2, <2>4, <3>2 DEF Rewritten
          <5>2. "text" \notin types => c.text[next] = cache.text[next]
            BY <1>2, <2>1, <2>4 DEF Trimmed
          <5>3. QED
            BY <1>3, <3>2, <5>1, <5>2 DEF TextNow
        <4>5. "scalars" \in types => c.element[next] = None
          BY <1>2, <2>1, <2>4, <3>2 DEF Trimmed
        <4>6. "text" \in types => c.text[next] = None
          BY <1>2, <2>1, <2>4, <3>2 DEF Trimmed
        <4>7. QED
          BY <4>1, <4>2, <4>3, <4>4, <4>5, <4>6
      <3>3. QED
        BY <3>1, <3>2
    <2>5. \A d \in Docs : d > y.n => c.ids[d] = None
      BY <1>1, <2>1 DEF Fits, Trimmed
    <2>6. ASSUME NEW m \in Maps, m > Latest(next)
          PROVE  c.element[m] = None /\ c.text[m] = None /\ ~c.remote[m]
      <3>1. m > maps /\ m # next
        BY <1>1, <1>2, <2>6 DEF Maps
      <3>2. cache.element[m] = None /\ cache.text[m] = None /\ ~cache.remote[m]
        BY <1>1, <3>1 DEF Fits
      <3>3. QED
        BY <2>1, <3>1, <3>2 DEF Trimmed
    <2>7. Shaped(c)
      BY <2>1 DEF Trimmed
    <2>8. Fits(yd, c, watched, Latest(next))
      BY <1>3, <1>5, <2>3, <2>4, <2>5, <2>6 DEF Fits
    <2>9. types \cap {"scalars", "elements"} = {} /\ next # 0
             => c.remote[next] = cache.remote[next]
      BY <1>2, <2>1 DEF Trimmed
    <2>10. QED
      BY <1>5, <2>7, <2>8, <2>9 DEF CachesFit
  <1>6. QED
    BY <1>4, <1>5

\* Who wrote is recorded where anybody watches, and is known where nobody does.
LEMMA PeersAreCredited ==
    ASSUME ViewsInv, MaxMaps \in Nat, MaxDocs \in Nat,
           NEW what, NEW next, NEW byPeer \in BOOLEAN, Succeeds(next),
           NEW types, types = Changed(what, next),
           NEW c, c = IF y.n \in watched
                      THEN Flagged(Cleared(cache, types), types, next, byPeer) ELSE cache,
           NEW wrote, wrote = [m \in Maps |->
              IF m # next \/ types \cap {"scalars", "elements"} = {} THEN hand[m]
              ELSE IF y.n \notin watched THEN "before"
              ELSE IF byPeer THEN "theirs" ELSE "ours"]
    PROVE  \A m \in Maps : c.remote[m] <=> wrote[m] = "theirs"
  <1>1. TAKE m \in Maps
  <1>2. /\ y.n \in Docs /\ y.map \in 0..maps /\ maps \in 0..MaxMaps
        /\ Shaped(cache) /\ Fits(y, cache, watched, maps) /\ m # 0
        /\ cache.remote[m] <=> hand[m] = "theirs"
    BY DEF ViewsInv, Counted, Credited, Maps
  <1>3. CASE m # next \/ types \cap {"scalars", "elements"} = {}
    <2>1. wrote[m] = hand[m]
      BY <1>3
    <2>2. c.remote[m] = cache.remote[m]
      <3>1. CASE y.n \in watched
        <4>1. Trimmed(c, types, next, byPeer)
          BY <1>2, <3>1, CachesEmpty
        <4>2. QED
          BY <1>3, <4>1 DEF Trimmed
      <3>2. CASE y.n \notin watched
        BY <3>2
      <3>3. QED
        BY <3>1, <3>2
    <2>3. QED
      BY <1>2, <2>1, <2>2
  <1>4. CASE m = next /\ types \cap {"scalars", "elements"} # {} /\ y.n \in watched
    <2>1. wrote[m] = IF byPeer THEN "theirs" ELSE "ours"
      BY <1>4
    <2>2. c.remote[m] = byPeer
      <3>1. Trimmed(c, types, next, byPeer)
        BY <1>2, <1>4, CachesEmpty
      <3>2. QED
        BY <1>4, <3>1 DEF Trimmed
    <2>3. QED
      BY <2>1, <2>2
  <1>5. CASE m = next /\ types \cap {"scalars", "elements"} # {} /\ y.n \notin watched
    <2>1. wrote[m] = "before" /\ c = cache
      BY <1>5
    <2>2. ~cache.remote[m]
      <3>1. CASE m = y.map
        BY <1>2, <1>5, <3>1 DEF Fits
      <3>2. CASE m = maps + 1
        BY <1>2, <3>2 DEF Fits
      <3>3. QED
        BY <1>2, <1>5, <3>1, <3>2 DEF Succeeds
    <2>3. QED
      BY <2>1, <2>2
  <1>6. QED
    BY <1>3, <1>4, <1>5

\* What hook h leaves cached when it reads the changed document, if it does.
ReadOnce(yd, c, r, last, types, h) ==
    /\ Shaped(r) /\ Fits(yd, r, watched, last) /\ r.remote = c.remote
    /\ h # "ids" => r.ids = c.ids
    /\ h # "element" => r.element = c.element
    /\ h # "text" => r.text = c.text
    /\ Hears(h, types) =>
         /\ h = "ids" => r.ids[y.n] = IdsNow(yd)
         /\ h = "element" /\ yd.map # 0 => r.element[yd.map] = ElementNow(yd, c)
         /\ h = "text" /\ yd.map # 0 /\ view[h].of = yd.map =>
               r.text[yd.map] = TextNow(yd, yd.map)

\* A hook that hears of a change reads the document as it now is.
LEMMA HearerReads ==
    ASSUME NEW yd, NEW c, NEW last \in 0..MaxMaps, MaxMaps \in Nat, MaxDocs \in Nat,
           ViewsInv, yd.n = y.n, yd.map \in 0..last, maps <= last,
           Shaped(c), Fits(yd, c, watched, last),
           NEW h \in Hooks, NEW types,
           NEW r, r = IF Hears(h, types) THEN Read(yd, c, h, y.n, view[h].of) ELSE c
    PROVE  ReadOnce(yd, c, r, last, types, h)
  <1>1. CASE ~Hears(h, types)
    BY <1>1 DEF ReadOnce
  <1>2. CASE Hears(h, types)
    <2> DEFINE m == view[h].of
    <2>1. /\ y.n \in Docs /\ y.n \in Nat /\ maps \in Nat /\ m \in 0..maps
          /\ y.n \in watched
      BY <1>2 DEF ViewsInv, Counted, AllStand, Stands, Hears, Docs
    <2>2. m \in 0..last /\ r = Read(yd, c, h, yd.n, m)
      BY <1>2, <2>1
    <2> HIDE DEF m
    <2>3. /\ Shaped(r) /\ Fits(yd, r, watched, last) /\ r.remote = c.remote
          /\ h = "ids" => Got(yd, r, h, yd.n, m) = IdsNow(yd)
          /\ h = "element" => Got(yd, r, h, yd.n, m) =
                                IF yd.map # 0 THEN ElementNow(yd, c) ELSE Null
          /\ h = "text" /\ m # 0 /\ m = yd.map =>
                Got(yd, r, h, yd.n, m) = TextNow(yd, m)
      <3>1. yd.n \in Docs /\ yd.n \in Nat /\ yd.n \in watched
        BY <2>1
      <3>2. QED
        BY <2>2, <3>1, ReadIsNow
    <2>4. /\ h # "ids" => r.ids = c.ids
          /\ h # "element" => r.element = c.element
          /\ h # "text" => r.text = c.text
      <3>1. CASE h = "ids"
        <4>1. r = IF c.ids[yd.n] = None THEN [c EXCEPT !.ids[yd.n] = IdsNow(yd)] ELSE c
          BY <2>2, <3>1 DEF Read
        <4>2. c.ids[yd.n] = None => r = [ids |-> [c.ids EXCEPT ![yd.n] = IdsNow(yd)],
                element |-> c.element, text |-> c.text, remote |-> c.remote]
          BY <4>1 DEF Shaped
        <4>3. QED
          BY <3>1, <4>1, <4>2
      <3>2. CASE h = "element"
        <4>1. r = IF yd.map # 0 /\ c.element[yd.map] = None
                  THEN [c EXCEPT !.element[yd.map] = ElementNow(yd, c)] ELSE c
          BY <2>2, <3>2 DEF Read
        <4>2. yd.map # 0 /\ c.element[yd.map] = None => r = [ids |-> c.ids,
                element |-> [c.element EXCEPT ![yd.map] = ElementNow(yd, c)],
                text |-> c.text, remote |-> c.remote]
          BY <4>1 DEF Shaped
        <4>3. QED
          BY <3>2, <4>1, <4>2
      <3>3. CASE h = "text"
        <4>1. r = IF m # 0 /\ c.text[m] = None
                  THEN [c EXCEPT !.text[m] = TextNow(yd, m)] ELSE c
          BY <2>2, <3>3 DEF Read
        <4>2. m # 0 /\ c.text[m] = None => r = [ids |-> c.ids, element |-> c.element,
                text |-> [c.text EXCEPT ![m] = TextNow(yd, m)], remote |-> c.remote]
          BY <4>1 DEF Shaped
        <4>3. QED
          BY <3>3, <4>1, <4>2
      <3>4. QED
        BY <3>1, <3>2, <3>3 DEF Hooks
    <2>5. /\ h = "ids" => r.ids[y.n] = IdsNow(yd)
          /\ h = "element" /\ yd.map # 0 => r.element[yd.map] = ElementNow(yd, c)
          /\ h = "text" /\ yd.map # 0 /\ m = yd.map => r.text[yd.map] = TextNow(yd, yd.map)
      BY <2>3 DEF Got
    <2>6. QED
      BY <2>3, <2>4, <2>5 DEF m, ReadOnce
  <1>3. QED
    BY <1>1, <1>2

\* What is cached when those who hear of a change have read.
Reread(yd, c, r, types) ==
    /\ r.remote = c.remote
    /\ Hears("ids", types) => r.ids[y.n] = IdsNow(yd)
    /\ Hears("element", types) /\ yd.map # 0 => r.element[yd.map] = ElementNow(yd, c)
    /\ Hears("text", types) /\ yd.map # 0 /\ view["text"].of = yd.map =>
          r.text[yd.map] = TextNow(yd, yd.map)

\* Whoever hears of a change has read, one hook after the other.
LEMMA HearersRead ==
    ASSUME NEW yd, NEW c, NEW last \in 0..MaxMaps, MaxMaps \in Nat, MaxDocs \in Nat,
           ViewsInv, yd.n = y.n, yd.map \in 0..last, maps <= last,
           Shaped(c), Fits(yd, c, watched, last), NEW types
    PROVE  LET r == Told(yd, c, types).cache
           IN  Shaped(r) /\ Fits(yd, r, watched, last) /\ Reread(yd, c, r, types)
  <1> DEFINE Reads(s, h) == IF Hears(h, types) THEN Read(yd, s, h, y.n, view[h].of) ELSE s
             a == Reads(c, "ids")
             b == Reads(a, "element")
             r == Reads(b, "text")
  <1> "ids" \in Hooks /\ "element" \in Hooks /\ "text" \in Hooks
    BY DEF Hooks
  <1>1. Told(yd, c, types).cache = r
    BY DEF Told
  <1>2. a = IF Hears("ids", types) THEN Read(yd, c, "ids", y.n, view["ids"].of) ELSE c
    OBVIOUS
  <1>3. b = IF Hears("element", types)
            THEN Read(yd, a, "element", y.n, view["element"].of) ELSE a
    OBVIOUS
  <1>4. r = IF Hears("text", types) THEN Read(yd, b, "text", y.n, view["text"].of) ELSE b
    OBVIOUS
  <1> HIDE DEF a, b, r
  <1>5. /\ Shaped(a) /\ Fits(yd, a, watched, last) /\ a.remote = c.remote
        /\ a.element = c.element /\ a.text = c.text
        /\ Hears("ids", types) => a.ids[y.n] = IdsNow(yd)
    <2>1. ReadOnce(yd, c, a, last, types, "ids")
      BY <1>2, HearerReads
    <2>2. QED
      BY <2>1 DEF ReadOnce
  <1>6. /\ Shaped(b) /\ Fits(yd, b, watched, last) /\ b.remote = a.remote
        /\ b.ids = a.ids /\ b.text = a.text
        /\ Hears("element", types) /\ yd.map # 0 =>
              b.element[yd.map] = ElementNow(yd, a)
    <2>1. Shaped(a) /\ Fits(yd, a, watched, last)
      BY <1>5
    <2>2. ReadOnce(yd, a, b, last, types, "element")
      BY <1>3, <2>1, HearerReads
    <2>3. QED
      BY <2>2 DEF ReadOnce
  <1>7. /\ Shaped(r) /\ Fits(yd, r, watched, last) /\ r.remote = b.remote
        /\ r.ids = b.ids /\ r.element = b.element
        /\ Hears("text", types) /\ yd.map # 0 /\ view["text"].of = yd.map =>
              r.text[yd.map] = TextNow(yd, yd.map)
    <2>1. Shaped(b) /\ Fits(yd, b, watched, last)
      BY <1>6
    <2>2. ReadOnce(yd, b, r, last, types, "text")
      BY <1>4, <2>1, HearerReads
    <2>3. QED
      BY <2>2 DEF ReadOnce
  <1>8. ElementNow(yd, a) = ElementNow(yd, c)
    BY <1>5 DEF ElementNow
  <1>9. Reread(yd, c, r, types)
    BY <1>5, <1>6, <1>7, <1>8 DEF Reread
  <1>10. QED
    BY <1>1, <1>7, <1>9

\* Those who hear of a change keep what they show, and are stale if it is no longer so.
Notified(yd, r, u, types, h) ==
    /\ u[h].stage = view[h].stage /\ u[h].on = view[h].on /\ u[h].shown = view[h].shown
    /\ h # "element" => u[h].of = view[h].of
    /\ IF ~Hears(h, types) THEN u[h] = view[h]
       ELSE /\ u[h].of = IF h = "element" /\ "elements" \in types THEN yd.map ELSE view[h].of
            /\ ~u[h].stale => Got(yd, r, h, y.n, u[h].of) = u[h].shown

\* And is stale unless it reads what it shows.
LEMMA HearersNotified ==
    ASSUME NEW yd, NEW c, NEW types, Drawn(view), NEW h \in Hooks
    PROVE  LET t == Told(yd, c, types)
           IN  /\ t.view = [k \in Hooks |-> t.view[k]]
               /\ t.view[h] = [stage |-> t.view[h].stage, on |-> t.view[h].on,
                               of |-> t.view[h].of, shown |-> t.view[h].shown,
                               stale |-> t.view[h].stale]
               /\ Notified(yd, t.cache, t.view, types, h)
  <1> DEFINE Reads(s, k) == IF Hears(k, types) THEN Read(yd, s, k, y.n, view[k].of) ELSE s
             r == Reads(Reads(Reads(c, "ids"), "element"), "text")
             x == view[h]
             v == IF h = "element" /\ "elements" \in types THEN Followed(x, yd.map) ELSE x
             stale == v.stale \/ Got(yd, r, h, y.n, v.of) # v.shown
             t == Told(yd, c, types)
  <1>1. /\ t.cache = r /\ t.view = [k \in Hooks |-> t.view[k]]
        /\ t.view[h] = IF Hears(h, types) THEN [v EXCEPT !.stale = stale] ELSE view[h]
    BY DEF Told
  <1>2. x = [stage |-> x.stage, on |-> x.on, of |-> x.of, shown |-> x.shown, stale |-> x.stale]
    BY DEF Drawn
  <1> DEFINE of == IF h = "element" /\ "elements" \in types THEN yd.map ELSE x.of
  <1>3. v = IF h = "element" /\ "elements" \in types THEN [x EXCEPT !.of = yd.map] ELSE x
    BY DEF Followed
  <1> HIDE DEF r, x, v, t
  <1>4. v = [stage |-> x.stage, on |-> x.on, of |-> of, shown |-> x.shown, stale |-> x.stale]
    BY <1>2, <1>3
  <1>5. v.of = of /\ v.shown = x.shown
    BY <1>4
  <1>6. stale <=> x.stale \/ Got(yd, r, h, y.n, of) # x.shown
    BY <1>4, <1>5
  <1> HIDE DEF of, stale
  <1>7. CASE Hears(h, types)
    <2>1. t.view[h] = [v EXCEPT !.stale = stale]
      BY <1>1, <1>7
    <2>2. t.view[h] = [stage |-> x.stage, on |-> x.on, of |-> of, shown |-> x.shown,
                       stale |-> stale]
      BY <1>4, <2>1
    <2> DEFINE q == t.view[h]
    <2>3. /\ q.stage = x.stage /\ q.on = x.on /\ q.of = of /\ q.shown = x.shown
          /\ q.stale = stale
      BY <2>2
    <2>4. Notified(yd, r, t.view, types, h)
      BY <1>6, <1>7, <2>3 DEF Notified, of, x
    <2>5. QED
      BY <1>1, <2>2, <2>3, <2>4 DEF t
  <1>8. CASE ~Hears(h, types)
    <2>1. t.view[h] = view[h]
      BY <1>1, <1>8
    <2>2. QED
      BY <1>1, <1>2, <1>8, <2>1 DEF Notified, x, t
  <1>9. QED
    BY <1>7, <1>8

\* What is shown after a transaction is what is there, unless it is stale.
LEMMA ChangeIsShown ==
    ASSUME ViewsInv, MaxMaps \in Nat, MaxDocs \in Nat,
           NEW what, NEW next, Succeeds(next), NEW yd, Rewritten(yd, what, next),
           NEW types, types = Changed(what, next), NEW c,
           types \cap {"scalars", "elements"} = {} /\ next # 0
                 => c.remote[next] = cache.remote[next],
           NEW r, Reread(yd, c, r, types),
           NEW u, \A h \in Hooks : Notified(yd, r, u, types, h)
    PROVE  Fresh(yd, r, u)
  <1>1. /\ y.n \in Docs /\ y.map \in 0..maps /\ maps \in Nat /\ y.map \in Nat
        /\ Fresh(y, cache, view) /\ yd.n = y.n /\ yd.map = next
    BY DEF ViewsInv, Counted, Rewritten
  <1>2. Notified(yd, r, u, types, "ids") /\ Notified(yd, r, u, types, "element")
        /\ Notified(yd, r, u, types, "text")
    BY DEF Hooks
  <1>3. /\ "scalars" \in types <=> ("scalars" \in what /\ next = y.map /\ y.map # 0)
        /\ "text" \in types <=> ("text" \in what /\ next = y.map /\ y.map # 0)
        /\ "elements" \in types <=> next # y.map
        /\ IdsChange(types) <=> ("order" \in what \/ next # y.map)
        /\ types \cap {"scalars", "elements"} = {}
              <=> ~(next # y.map \/ ("scalars" \in what /\ y.map # 0))
    BY TypesAre
  <1>4. ElementNow(yd, r) = ElementNow(yd, c)
    BY DEF Reread, ElementNow
  <1>5. ASSUME Presents(yd, u, "ids") PROVE u["ids"].shown = IdsNow(yd)
    <2>1. u["ids"].stage = "subscribed" /\ u["ids"].on = y.n /\ ~u["ids"].stale
      BY <1>1, <1>5 DEF Presents
    <2>2. CASE Hears("ids", types)
      BY <1>1, <1>2, <2>1, <2>2 DEF Notified, Got, Reread
    <2>3. CASE ~Hears("ids", types)
      <3>1. u["ids"] = view["ids"]
        BY <1>2, <2>3 DEF Notified
      <3>2. ~IdsChange(types)
        BY <2>1, <2>3, <3>1 DEF Hears
      <3>3. IdsNow(yd) = IdsNow(y)
        BY <1>1, <1>3, <3>2 DEF Rewritten, IdsNow
      <3>4. QED
        BY <1>1, <2>1, <3>1, <3>3 DEF Fresh, Presents
    <2>4. QED
      BY <2>2, <2>3
  <1>6. ASSUME u["element"].stage = "subscribed", u["element"].on = yd.n
        PROVE  u["element"].of = yd.map
    <2>1. view["element"].stage = "subscribed" /\ view["element"].on = y.n
      BY <1>1, <1>2, <1>6 DEF Notified
    <2>2. view["element"].of = y.map
      BY <1>1, <2>1 DEF Fresh
    <2>3. next # y.map => Hears("element", types)
      BY <1>3, <2>1 DEF Hears
    <2>4. QED
      BY <1>1, <1>2, <1>3, <2>2, <2>3 DEF Notified
  <1>7. ASSUME Presents(yd, u, "element")
        PROVE  u["element"].shown = IF yd.map = 0 THEN Null ELSE ElementNow(yd, r)
    <2>1. /\ u["element"].stage = "subscribed" /\ u["element"].on = y.n
          /\ ~u["element"].stale
      BY <1>1, <1>7 DEF Presents
    <2>2. CASE Hears("element", types)
      <3>1. u["element"].shown = IF next # 0 THEN r.element[next] ELSE Null
        BY <1>1, <1>2, <2>1, <2>2 DEF Notified, Got
      <3>2. next # 0 => r.element[next] = ElementNow(yd, c)
        BY <1>1, <2>2 DEF Reread
      <3>3. QED
        BY <1>1, <1>4, <3>1, <3>2
    <2>3. CASE ~Hears("element", types)
      <3>1. u["element"] = view["element"]
        BY <1>2, <2>3 DEF Notified
      <3>2. view["element"].of = y.map
        BY <1>1, <2>1, <3>1 DEF Fresh
      <3>3. next = y.map /\ "scalars" \notin types
        BY <1>3, <2>1, <2>3, <3>1, <3>2 DEF Hears
      <3>4. next # 0 => ElementNow(yd, c) = ElementNow(y, cache)
        <4>1. next # 0 => yd.scalars = y.scalars /\ c.remote[next] = cache.remote[next]
          BY <1>3, <3>3 DEF Rewritten
        <4>2. QED
          BY <1>1, <3>3, <4>1 DEF ElementNow
      <3>5. view["element"].shown = IF y.map = 0 THEN Null ELSE ElementNow(y, cache)
        BY <1>1, <2>1, <3>1 DEF Fresh, Presents
      <3>6. QED
        BY <1>1, <1>4, <3>1, <3>3, <3>4, <3>5
    <2>4. QED
      BY <2>2, <2>3
  <1>8. ASSUME Presents(yd, u, "text"), u["text"].of = yd.map
        PROVE  u["text"].shown = TextNow(yd, yd.map)
    <2>1. u["text"].stage = "subscribed" /\ u["text"].on = y.n /\ ~u["text"].stale
      BY <1>1, <1>8 DEF Presents
    <2>2. /\ view["text"].stage = "subscribed" /\ view["text"].of = next
          /\ view["text"].on = y.n
      BY <1>1, <1>2, <1>8, <2>1 DEF Notified
    <2>3. next # 0 /\ next \in 0..maps
      BY <2>2 DEF ViewsInv, Nested, AllStand, Stands, Hooks
    <2>4. next = y.map
      BY <1>1, <2>3 DEF Succeeds
    <2>5. CASE Hears("text", types)
      <3>1. u["text"].shown = r.text[next]
        BY <1>1, <1>2, <1>8, <2>1, <2>3, <2>5 DEF Notified, Got
      <3>2. r.text[next] = TextNow(yd, next)
        BY <1>1, <2>2, <2>3, <2>5 DEF Reread
      <3>3. QED
        BY <1>1, <3>1, <3>2
    <2>6. CASE ~Hears("text", types)
      <3>1. u["text"] = view["text"]
        BY <1>2, <2>6 DEF Notified
      <3>2. "text" \notin types
        BY <2>2, <2>4, <2>6 DEF Hears
      <3>3. yd.text = y.text
        BY <1>3, <2>3, <2>4, <3>2 DEF Rewritten
      <3>4. TextNow(yd, next) = TextNow(y, next)
        BY <1>1, <2>4, <3>3 DEF TextNow
      <3>5. view["text"].shown = TextNow(y, y.map)
        BY <1>1, <2>1, <2>2, <2>4, <3>1 DEF Fresh, Presents
      <3>6. QED
        BY <1>1, <2>4, <3>1, <3>4, <3>5
    <2>7. QED
      BY <2>5, <2>6
  <1>9. QED
    BY <1>5, <1>6, <1>7, <1>8 DEF Fresh

\* A transaction: the caches are emptied, the hooks read, all in one step.
LEMMA DocumentChanges ==
    ASSUME ViewsInv, MaxMaps \in Nat, MaxDocs \in Nat, MaxChanges \in Nat,
           NEW what, NEW next, NEW byPeer \in BOOLEAN, Succeeds(next),
           Transact(what, next, byPeer)
    PROVE  ViewsInv'
  <1> DEFINE types == Changed(what, next)
             c == IF y.n \in watched
                  THEN Flagged(Cleared(cache, types), types, next, byPeer) ELSE cache
  <1>1. Rewritten(y', what, next)
    BY TransactWrites DEF ViewsInv
  <1>2. /\ y.n \in Docs /\ y.map \in 0..maps /\ maps \in 0..MaxMaps /\ maps \in Nat
        /\ changes \in 0..MaxChanges /\ watched \subseteq 1..y.n
        /\ y'.n = y.n /\ y'.map = next /\ Drawn(view) /\ Nested(view)
    BY <1>1 DEF ViewsInv, Counted, Rewritten
  <1>3. /\ cache' = Told(y', c, types).cache /\ view' = Told(y', c, types).view
        /\ watched' = watched /\ changes' = changes + 1 /\ changes < MaxChanges
        /\ maps' = Latest(next)
    BY DEF Transact, Latest
  <1>4. hand' = [m \in Maps |->
              IF m # next \/ types \cap {"scalars", "elements"} = {} THEN hand[m]
              ELSE IF y.n \notin watched THEN "before"
              ELSE IF byPeer THEN "theirs" ELSE "ours"]
    BY DEF Transact
  <1>5. /\ maps' \in 0..MaxMaps /\ next \in 0..maps' /\ maps <= maps' /\ maps' \in Nat
        /\ next = y.map \/ next = 0 \/ next > maps
    BY <1>2, <1>3 DEF Succeeds, Latest
  <1>6. types = Changed(what, next)
    OBVIOUS
  <1>7. c = IF y.n \in watched
            THEN Flagged(Cleared(cache, types), types, next, byPeer) ELSE cache
    OBVIOUS
  <1> HIDE DEF types, c
  <1>8. /\ Shaped(c) /\ Fits(y', c, watched, maps')
        /\ types \cap {"scalars", "elements"} = {} /\ next # 0
              => c.remote[next] = cache.remote[next]
    <2>1. CachesFit(y', c, types, next)
      BY <1>1, <1>6, <1>7, CachesStillFit
    <2>2. QED
      BY <1>3, <2>1 DEF CachesFit
  <1>9. \A m \in Maps : c.remote[m] <=> hand'[m] = "theirs"
    BY <1>4, <1>6, <1>7, PeersAreCredited
  <1>10. /\ Shaped(cache') /\ Fits(y', cache', watched, maps')
         /\ Reread(y', c, cache', types)
    BY <1>2, <1>3, <1>5, <1>8, HearersRead
  <1>11. Drawn(view') /\ \A h \in Hooks : Notified(y', cache', view', types, h)
    <2>1. ASSUME NEW h \in Hooks
          PROVE  /\ view' = [k \in Hooks |-> view'[k]]
                 /\ view'[h] = [stage |-> view'[h].stage, on |-> view'[h].on,
                                of |-> view'[h].of, shown |-> view'[h].shown,
                                stale |-> view'[h].stale]
                 /\ Notified(y', cache', view', types, h)
      BY <1>2, <1>3, HearersNotified
    <2>2. "ids" \in Hooks
      BY DEF Hooks
    <2>3. QED
      BY <2>1, <2>2 DEF Drawn
  <1>12. Fresh(y', cache', view')
    BY <1>1, <1>6, <1>8, <1>10, <1>11, ChangeIsShown
  <1>13. ASSUME NEW h \in Hooks PROVE Stands(y', view'[h], watched, maps')
    <2>1. /\ Stands(y, view[h], watched, maps) /\ Notified(y', cache', view', types, h)
      BY <1>11 DEF ViewsInv, AllStand
    <2>2. CASE Hears(h, types)
      <3>1. view[h].on = y.n
        BY <2>2 DEF Hears
      <3>2. view'[h].of \in 0..maps' /\ view'[h].stage = view[h].stage
            /\ view'[h].on = view[h].on
        BY <1>2, <1>5, <2>1, <2>2 DEF Notified, Stands
      <3>3. QED
        BY <1>2, <2>1, <3>1, <3>2 DEF Stands
    <2>3. CASE ~Hears(h, types)
      <3>1. view'[h] = view[h]
        BY <2>1, <2>3 DEF Notified
      <3>2. view[h].of \in 0..maps /\ (view[h].on # y.n => view[h].of = 0 \/ view[h].of # y.map)
        BY <2>1 DEF Stands
      <3>3. view[h].of \in 0..maps' /\ (view[h].on # y.n => view[h].of = 0 \/ view[h].of # next)
        BY <1>2, <1>5, <3>2
      <3>4. QED
        BY <1>2, <2>1, <3>1, <3>3 DEF Stands
    <2>4. QED
      BY <2>2, <2>3
  <1>14. Nested(view')
    <2>1. \A h \in Hooks :
             /\ view'[h].stage = view[h].stage /\ view'[h].on = view[h].on
             /\ view'[h].shown = view[h].shown
             /\ h # "element" => view'[h].of = view[h].of
      BY <1>11 DEF Notified
    <2>2. QED
      BY <1>2, <2>1 DEF Nested, Hooks
  <1>15. Counted'
    <2>1. changes' \in 0..MaxChanges
      BY <1>2, <1>3
    <2>2. QED
      BY <1>2, <1>3, <1>5, <2>1 DEF Counted
  <1>16. Credited' /\ hand' = [m \in Maps |-> hand'[m]]
    <2>1. cache'.remote = c.remote
      BY <1>10 DEF Reread
    <2>2. QED
      BY <1>4, <1>9, <2>1 DEF Credited
  <1>17. Written(y')
    BY <1>1 DEF Rewritten
  <1>18. AllStand(y', view', watched, maps')
    BY <1>13 DEF AllStand
  <1>19. QED
    BY <1>3, <1>10, <1>11, <1>12, <1>14, <1>15, <1>16, <1>17, <1>18 DEF ViewsInv

\* Of a session that is opened anew nothing is cached, watched or shown yet.
LEMMA SessionReopens ==
    ASSUME ViewsInv, MaxMaps \in Nat, MaxDocs \in Nat, ReopenSession
    PROVE  ViewsInv'
  <1> DEFINE zeros == [m \in Maps |-> 0]
  <1>1. y' = [n |-> y.n + 1, map |-> 0, scalars |-> zeros, text |-> zeros, order |-> 0]
    BY DEF ReopenSession, Empty
  <1>2. zeros = [m \in Maps |-> zeros[m]]
    OBVIOUS
  <1> HIDE DEF zeros
  <1>3. /\ y'.n = y.n + 1 /\ y'.map = 0 /\ y'.scalars = zeros /\ y'.text = zeros
        /\ y'.order = 0
    BY <1>1
  <1>4. /\ UNCHANGED <<maps, changes, cache, watched, view, hand>> /\ y.n < MaxDocs
        /\ y.n \in Nat /\ y.n \in Docs /\ y.n + 1 \in Docs /\ maps \in 0..MaxMaps
        /\ changes \in 0..MaxChanges /\ watched \subseteq 1..y.n
    BY DEF ReopenSession, ViewsInv, Counted, Docs
  <1>5. Counted'
    BY <1>3, <1>4 DEF Counted
  <1>6. Written(y')
    BY <1>1, <1>2, <1>3 DEF Written
  <1>7. Fits(y', cache, watched, maps)
    BY <1>3, <1>4 DEF ViewsInv, Fits, Docs
  <1>8. \A h \in Hooks : view[h].on \in 0..y.n /\ view[h].on # y'.n
    BY <1>3, <1>4 DEF ViewsInv, AllStand, Stands
  <1>9. AllStand(y', view, watched, maps)
    BY <1>3, <1>4, <1>8 DEF ViewsInv, AllStand, Stands
  <1>10. Fresh(y', cache, view)
    BY <1>8 DEF Fresh, Presents, Hooks
  <1>11. QED
    BY <1>4, <1>5, <1>6, <1>7, <1>9, <1>10 DEF ViewsInv, Credited

\* At first there is nothing to show.
LEMMA ViewsBegin ==
    ASSUME MaxMaps \in Nat \ {0}, MaxDocs \in Nat \ {0}, MaxChanges \in Nat, ViewsInit
    PROVE  ViewsInv
  <1> USE DEF ViewsInit
  <1> DEFINE zeros == [m \in Maps |-> 0]
             noIds == [d \in Docs |-> None]
             nothing == [m \in Maps |-> None]
             flags == [m \in Maps |-> FALSE]
  <1>1. /\ y = [n |-> 1, map |-> 0, scalars |-> zeros, text |-> zeros, order |-> 0]
        /\ cache = [ids |-> noIds, element |-> nothing, text |-> nothing, remote |-> flags]
    BY DEF Empty
  <1>2. /\ \A m \in Maps : nothing[m] = None /\ ~flags[m]
        /\ \A d \in Docs : noIds[d] = None
        /\ zeros = [m \in Maps |-> zeros[m]] /\ noIds = [d \in Docs |-> noIds[d]]
        /\ nothing = [m \in Maps |-> nothing[m]] /\ flags \in [Maps -> BOOLEAN]
    OBVIOUS
  <1> HIDE DEF zeros, noIds, nothing, flags
  <1>3. /\ y.n = 1 /\ y.map = 0 /\ y.scalars = zeros /\ y.text = zeros /\ y.order = 0
        /\ cache.ids = noIds /\ cache.element = nothing /\ cache.text = nothing
        /\ cache.remote = flags
    BY <1>1
  <1>4. Counted
    BY <1>3 DEF Counted, Docs
  <1>5. Written(y) /\ Shaped(cache)
    BY <1>1, <1>2, <1>3 DEF Written, Shaped
  <1>6. \A h \in Hooks :
           /\ view[h] = NoView /\ view[h].stage = "gone"
           /\ view[h].on = 0 /\ view[h].of = 0
    BY DEF NoView
  <1>7. Drawn(view)
    BY <1>6 DEF Drawn, NoView
  <1>8. Fits(y, cache, watched, maps)
    BY <1>2, <1>3 DEF Fits, Docs
  <1>9. AllStand(y, view, watched, maps)
    BY <1>3, <1>6 DEF AllStand, Stands
  <1>10. Nested(view) /\ Fresh(y, cache, view)
    BY <1>6 DEF Nested, Fresh, Presents, Hooks
  <1>11. Credited /\ hand = [m \in Maps |-> hand[m]]
    BY <1>2, <1>3 DEF Credited
  <1>12. QED
    BY <1>4, <1>5, <1>7, <1>8, <1>9, <1>10, <1>11 DEF ViewsInv

\* What is on a screen at rest is what the invariant says of those subscribed.
LEMMA QuietMeansFresh ==
    ASSUME ViewsInv, MaxMaps \in Nat, MaxDocs \in Nat
    PROVE  ScreenIsFresh
  <1>1. /\ y.n \in Docs /\ y.n \in Nat /\ maps \in 0..MaxMaps /\ y.map \in 0..maps
        /\ AllStand(y, view, watched, maps) /\ Nested(view) /\ Fresh(y, cache, view)
        /\ changes \in 0..MaxChanges /\ watched \subseteq Docs /\ y.n # 0
    BY DEF ViewsInv, Counted, Docs
  <1>2. ViewsTyped
    <2>1. \A h \in Hooks :
             /\ view[h].stage \in {"gone", "rendered", "subscribed"}
             /\ view[h].on \in 0..y.n /\ view[h].of \in 0..MaxMaps
      BY <1>1 DEF AllStand, Stands
    <2>2. /\ view["text"].stage # "gone" => view["element"].stage # "gone"
          /\ view["element"].stage # "gone" => view["ids"].stage # "gone"
      BY <1>1 DEF Nested
    <2>3. cache.remote \in [Maps -> BOOLEAN]
      BY DEF ViewsInv, Shaped
    <2>4. QED
      BY <1>1, <2>1, <2>2, <2>3 DEF ViewsTyped
  <1>3. ASSUME Quiet
        PROVE  /\ view["ids"].shown = IdsNow(y)
               /\ y.map # 0 => /\ view["element"].shown = ElementNow(y, cache)
                               /\ view["text"].of = y.map
                               /\ view["text"].shown = TextNow(y, y.map)
               /\ y.map = 0 => view["element"].stage = "gone" /\ view["text"].stage = "gone"
    <2>1. view["ids"].on = y.n
          /\ \A h \in Hooks : view[h].stage # "rendered" /\ ~view[h].stale
      BY <1>3 DEF Quiet
    <2>2. \A h \in Hooks :
             /\ view[h].stage \in {"gone", "rendered", "subscribed"}
             /\ view[h].stage = "gone" <=> view[h].on = 0
      BY <1>1 DEF AllStand, Stands
    <2>3. \A h \in Hooks : view[h].stage # "gone" => view[h].stage = "subscribed"
      BY <2>1, <2>2
    <2>4. view["ids"].stage # "gone"
      BY <1>1, <2>1, <2>2 DEF Hooks
    <2>5. view["ids"].shown = IdsNow(y)
      BY <1>1, <2>1, <2>3, <2>4 DEF Fresh, Presents, Hooks
    <2>6. view["element"].stage # "gone" <=> y.map # 0
      <3>1. IdsNow(y).present <=> y.map # 0
        BY DEF IdsNow
      <3>2. QED
        BY <1>1, <2>4, <2>5, <3>1 DEF Nested
    <2>7. CASE y.map = 0
      BY <1>1, <2>5, <2>6, <2>7 DEF Nested
    <2>8. CASE y.map # 0
      <3>1. view["element"].stage # "gone" /\ view["element"].on = y.n
        BY <1>1, <2>1, <2>6, <2>8 DEF Nested
      <3>2. view["element"].shown = ElementNow(y, cache)
        BY <1>1, <2>1, <2>3, <2>8, <3>1 DEF Fresh, Presents, Hooks
      <3>3. ElementNow(y, cache).of = y.map
        BY DEF ElementNow
      <3>4. ElementNow(y, cache) # Null
        <4>1. "of" \in DOMAIN ElementNow(y, cache) /\ "of" \notin DOMAIN Null
          BY DEF ElementNow, Null
        <4>2. QED
          BY <4>1
      <3>5. view["text"].stage # "gone"
        BY <1>1, <3>1, <3>2, <3>4 DEF Nested
      <3>6. view["text"].on = y.n /\ view["text"].of = y.map
        BY <1>1, <3>1, <3>2, <3>3, <3>5 DEF Nested
      <3>7. view["text"].shown = TextNow(y, y.map)
        BY <1>1, <2>1, <2>3, <3>5, <3>6 DEF Fresh, Presents, Hooks
      <3>8. QED
        BY <2>5, <2>8, <3>2, <3>6, <3>7
    <2>9. QED
      BY <2>7, <2>8
  <1>4. /\ ElementNow(y, cache).of = y.map
        /\ ElementNow(y, cache).at = y.scalars[y.map]
        /\ ElementNow(y, cache).peer = cache.remote[y.map]
    BY DEF ElementNow
  <1>5. QuietViewsAreFresh
    BY <1>3, <1>4 DEF QuietViewsAreFresh
  <1>6. OnlyPeersEase
    <2>1. y.map # 0 => (cache.remote[y.map] <=> hand[y.map] = "theirs")
      BY <1>1 DEF ViewsInv, Credited, Maps
    <2>2. QED
      BY <1>3, <1>4, <2>1 DEF OnlyPeersEase
  <1>7. QED
    BY <1>2, <1>5, <1>6 DEF ScreenIsFresh

\* For any number of sessions, maps and transactions: whatever is written between a
\* component's render and its subscription, and whichever map an undo puts in the place of
\* another, a screen at rest shows the document (useElements.ts:13-23, 143-145), and eases
\* in what a peer wrote last and nothing else (useShownElement.ts:12-13).
THEOREM ScreensAreFresh ==
    ASSUME ViewsAssumption
    PROVE  ViewsSpec => []ScreenIsFresh
  <1>1. /\ MaxMaps \in Nat \ {0} /\ MaxDocs \in Nat \ {0} /\ MaxChanges \in Nat
        /\ MaxMaps \in Nat /\ MaxDocs \in Nat
    BY DEF ViewsAssumption
  <1>2. ViewsInit => ViewsInv
    BY <1>1, ViewsBegin
  <1>3. ViewsInv /\ [ViewsNext]_viewsVars => ViewsInv'
    <2>1. ASSUME ViewsInv, RenderPage PROVE ViewsInv'
      BY <1>1, <2>1, PageRenders
    <2>2. ASSUME ViewsInv, NEW h \in Hooks, RenderAgain(h) PROVE ViewsInv'
      BY <1>1, <2>2, ComponentRenders
    <2>3. ASSUME ViewsInv, NEW h \in Hooks, Subscribe(h) PROVE ViewsInv'
      BY <1>1, <2>3, ComponentSubscribes
    <2>4. ASSUME ViewsInv, NEW what \in SUBSET {"scalars", "text", "order"},
                 NEW byPeer \in BOOLEAN,
                 \/ Transact(what, y.map, byPeer)
                 \/ maps < MaxMaps /\ Transact(what, maps + 1, byPeer)
                 \/ y.map # 0 /\ Transact(what, 0, byPeer)
          PROVE  ViewsInv'
      <3>1. PICK next : Succeeds(next) /\ Transact(what, next, byPeer)
        BY <2>4 DEF Succeeds
      <3>2. QED
        BY <1>1, <2>4, <3>1, DocumentChanges
    <2>5. ASSUME ViewsInv, ReopenSession PROVE ViewsInv'
      BY <1>1, <2>5, SessionReopens
    <2>6. ASSUME ViewsInv, UNCHANGED viewsVars PROVE ViewsInv'
      BY <2>6 DEF viewsVars, ViewsInv, Counted, Credited
    <2>7. QED
      BY <2>1, <2>2, <2>3, <2>4, <2>5, <2>6 DEF ViewsNext
  <1>4. ViewsInv => ScreenIsFresh
    BY <1>1, QuietMeansFresh
  <1>5. QED
    BY <1>2, <1>3, <1>4, PTL DEF ViewsSpec
-----------------------------------------------------------------------------
(* The pointers, the camera and the cursor.                                *)

\* The fingers that are down, each once.
Distinct(s) ==
    /\ s \in Seq(Fingers)
    /\ \A i, j \in DOMAIN s : s[i] = s[j] => i = j

Lists(s, p) == \E i \in DOMAIN s : s[i] = p

\* What follows pointers follows as many as it takes.
OfKind(g) ==
    \/ g = NoGesture
    \/ \E k \in {"pan", "tool"}, p \in Pointers : g = [kind |-> k, of |-> {p}]
    \/ \E p, q \in Fingers : p # q /\ g = [kind |-> "pinch", of |-> {p, q}]

\* What follows a pointer follows one that is down and captured.
HandsInv ==
    /\ down \subseteq Pointers /\ captured \subseteq Pointers
    /\ Distinct(fingers) /\ \A p : Lists(fingers, p) => p \in down
    /\ OfKind(gesture) /\ gesture.of \subseteq down \cap captured
    /\ gesture.kind = "pinch" => \A p \in gesture.of : Lists(fingers, p)
    /\ drags \in [begun : Nat, over : Nat] /\ DragsAreSettled

KeysInv ==
    /\ keys \in [held : BOOLEAN, space : BOOLEAN, focused : BOOLEAN]
    /\ panOnly \in BOOLEAN /\ SpaceIsHeld

Places == Points \cup {Nowhere}

\* While something waits for the timer, the timer runs.
CursorInv ==
    /\ cursor \in [at : Places, published : Places, pending : Places,
                   has : BOOLEAN, timer : BOOLEAN]
    /\ cursor.has => cursor.timer
    /\ LeavingIsTold

Cameras == [zoom : 0..MaxStop, hand : 0..inputs]

\* A glide that no hand interrupted finds the camera where it left it, and goes to
\* where it is heading.
CameraInv ==
    /\ inputs \in 0..MaxInputs /\ camera \in Cameras /\ wanted \in -1..MaxStop
    /\ \/ glide = Landed
       \/ \E c, e \in Cameras :
             glide = [on |-> TRUE, to |-> c, expected |-> e, heading |-> c]
    /\ glide.on /\ wanted # -1 => camera = glide.expected
    /\ PressesAddUp

PointerInv == HandsInv /\ KeysInv /\ CursorInv /\ CameraInv

-----------------------------------------------------------------------------
\* A finger that was not down is counted once more.
LEMMA OneFinger ==
    ASSUME Distinct(fingers), NEW p, ~Lists(fingers, p)
    PROVE  /\ Distinct(Noted(p))
           /\ \A q : Lists(Noted(p), q) <=> Lists(fingers, q) \/ (q = p /\ p \in Fingers)
  <1>1. CASE p \in Fingers
    <2> DEFINE s == fingers
               t == Append(s, p)
               n == Len(s)
    <2>1. s \in Seq(Fingers) /\ n \in Nat /\ DOMAIN s = 1..n
      BY DEF Distinct
    <2>2. /\ t \in Seq(Fingers) /\ DOMAIN t = 1..(n + 1) /\ t[n + 1] = p
          /\ \A i \in 1..n : t[i] = s[i]
      BY <1>1, <2>1
    <2>3. \A i \in 1..n : s[i] # p
      BY <2>1 DEF Lists
    <2>4. \A i, j \in 1..n : s[i] = s[j] => i = j
      BY <2>1 DEF Distinct
    <2> HIDE DEF t, s, n
    <2>5. \A i, j \in 1..(n + 1) : t[i] = t[j] => i = j
      <3> SUFFICES ASSUME NEW i \in 1..(n + 1), NEW j \in 1..(n + 1), t[i] = t[j]
                   PROVE  i = j
        OBVIOUS
      <3>1. \A k \in 1..(n + 1) : k \in 1..n \/ k = n + 1
        BY <2>1
      <3>2. QED
        BY <2>1, <2>2, <2>3, <2>4, <3>1
    <2>6. Distinct(t)
      BY <2>2, <2>5 DEF Distinct
    <2>7. \A q : Lists(t, q) <=> Lists(s, q) \/ q = p
      <3>1. \A k : k \in 1..(n + 1) <=> k \in 1..n \/ k = n + 1
        BY <2>1
      <3>2. QED
        BY <2>1, <2>2, <3>1 DEF Lists
    <2>8. QED
      BY <1>1, <2>6, <2>7 DEF Noted, t, s
  <1>2. CASE p \notin Fingers
    BY <1>2 DEF Noted
  <1>3. QED
    BY <1>1, <1>2

\* One that is up is not counted any more.
LEMMA OneLess ==
    ASSUME Distinct(fingers), NEW p
    PROVE  /\ Distinct(FingersWithout(p))
           /\ \A q : Lists(FingersWithout(p), q) <=> Lists(fingers, q) /\ q # p
  <1>1. CASE Lists(fingers, p)
    <2> DEFINE s == fingers
               n == Len(s)
               c == CHOOSE i \in DOMAIN fingers : fingers[i] = p
               t == RemoveAt(fingers, c)
    <2>1. s \in Seq(Fingers) /\ n \in Nat /\ DOMAIN s = 1..n
      BY DEF Distinct
    <2>2. c \in 1..n /\ s[c] = p
      BY <1>1, <2>1 DEF Lists
    <2>3. \A i, j \in 1..n : s[i] = s[j] => i = j
      BY <2>1 DEF Distinct
    <2> HIDE DEF c, s, n
    <2>4. /\ t \in Seq(Fingers) /\ Len(t) = n - 1
          /\ \A i \in 1..(n - 1) : t[i] = IF i < c THEN s[i] ELSE s[i + 1]
      <3> DEFINE a == SubSeq(s, 1, c - 1)
                 b == SubSeq(s, c + 1, n)
      <3>1. /\ a \in Seq(Fingers) /\ Len(a) = c - 1
            /\ \A i \in 1..(c - 1) : a[i] = s[i]
        <4>1. \A i \in 1..(c - 1) : s[i] \in Fingers
          BY <2>1, <2>2
        <4>2. QED
          BY <2>1, <2>2, <4>1, SubSeqProperties
      <3>2. /\ b \in Seq(Fingers) /\ Len(b) = n - c
            /\ \A i \in 1..(n - c) : b[i] = s[c + i]
        <4>1. \A i \in (c + 1)..n : s[i] \in Fingers
          BY <2>1, <2>2
        <4>2. c + 1 \in Int /\ n \in Int
          BY <2>1, <2>2
        <4>3. /\ b \in Seq(Fingers) /\ Len(b) = IF c + 1 <= n THEN n - (c + 1) + 1 ELSE 0
              /\ \A i \in 1..(n - (c + 1) + 1) : b[i] = s[c + 1 + i - 1]
          BY <4>1, <4>2, SubSeqProperties
        <4>4. ASSUME NEW i \in 1..(n - c) PROVE b[i] = s[c + i]
          <5>1. i \in 1..(n - (c + 1) + 1) /\ c + 1 + i - 1 = c + i
            BY <2>1, <2>2
          <5>2. QED
            BY <4>3, <5>1
        <4>5. Len(b) = n - c
          BY <2>1, <2>2, <4>3
        <4>6. QED
          BY <4>3, <4>4, <4>5
      <3>3. t = a \o b
        BY DEF RemoveAt, s, n
      <3> HIDE DEF a, b, t
      <3>4. t \in Seq(Fingers) /\ Len(t) = n - 1
        <4>1. t \in Seq(Fingers) /\ Len(t) = Len(a) + Len(b)
          BY <3>1, <3>2, <3>3, ConcatProperties
        <4>2. QED
          BY <2>1, <2>2, <3>1, <3>2, <4>1
      <3>5. \A i \in 1..(n - 1) : t[i] = IF i < c THEN a[i] ELSE b[i - (c - 1)]
        BY <2>1, <2>2, <3>1, <3>2, <3>3
      <3>6. ASSUME NEW i \in 1..(n - 1) PROVE t[i] = IF i < c THEN s[i] ELSE s[i + 1]
        <4>1. CASE i < c
          BY <2>1, <2>2, <3>1, <3>5, <4>1
        <4>2. CASE ~(i < c)
          <5>1. i - (c - 1) \in 1..(n - c) /\ c + (i - (c - 1)) = i + 1
            BY <2>1, <2>2, <4>2
          <5>2. QED
            BY <3>2, <3>5, <4>2, <5>1
        <4>3. QED
          BY <4>1, <4>2
      <3>7. QED
        BY <3>4, <3>6
    <2>5. DOMAIN t = 1..(n - 1)
      BY <2>4
    <2> HIDE DEF t
    <2> DEFINE Slot(i) == IF i < c THEN i ELSE i + 1
    <2>6. \A i \in 1..(n - 1) : Slot(i) \in 1..n /\ Slot(i) # c /\ t[i] = s[Slot(i)]
      BY <2>1, <2>2, <2>4
    <2>7. \A i, j \in 1..(n - 1) : Slot(i) = Slot(j) => i = j
      BY <2>1, <2>2
    <2>8. \A k \in 1..n : k # c => \E i \in 1..(n - 1) : Slot(i) = k
      <3> TAKE k \in 1..n
      <3> HAVE k # c
      <3>1. CASE k < c
        <4>1. k \in 1..(n - 1) /\ Slot(k) = k
          BY <2>1, <2>2, <3>1
        <4>2. QED
          BY <4>1
      <3>2. CASE ~(k < c)
        <4>1. k - 1 \in 1..(n - 1) /\ Slot(k - 1) = k
          BY <2>1, <2>2, <3>2
        <4>2. QED
          BY <4>1
      <3>3. QED
        BY <3>1, <3>2
    <2> HIDE DEF Slot
    <2>9. Distinct(t)
      BY <2>3, <2>4, <2>5, <2>6, <2>7 DEF Distinct
    <2>10. \A q : Lists(t, q) <=> Lists(s, q) /\ q # p
      <3>1. \A q : Lists(t, q) <=> \E i \in 1..(n - 1) : s[Slot(i)] = q
        BY <2>5, <2>6 DEF Lists
      <3>2. \A q : Lists(s, q) /\ q # p <=> \E k \in 1..n : k # c /\ s[k] = q
        BY <2>1, <2>2, <2>3 DEF Lists
      <3>3. QED
        BY <2>6, <2>8, <3>1, <3>2
    <2>11. QED
      BY <1>1, <2>9, <2>10 DEF FingersWithout, Lists, t, c, s
  <1>2. CASE ~Lists(fingers, p)
    BY <1>2 DEF FingersWithout, Lists
  <1>3. QED
    BY <1>1, <1>2

\* A kind, and pointers.
KindOf(g) == g.kind \in {"none", "pan", "tool", "pinch"} /\ g.of \subseteq Pointers

\* The kinds of gesture, and how many pointers each follows.
LEMMA EachKind ==
    ASSUME NEW g, OfKind(g)
    PROVE  /\ KindOf(g)
           /\ g.kind = "none" => g = NoGesture
           /\ g = NoGesture => g.of = {}
           /\ g.kind = "none" => Cardinality(g.of) = 0
           /\ g.kind = "pinch" => Cardinality(g.of) = 2
           /\ g.kind \in {"pan", "tool"} => Cardinality(g.of) = 1
  <1>1. CASE g = NoGesture
    BY <1>1, FS_EmptySet DEF NoGesture, KindOf
  <1>2. CASE \E k \in {"pan", "tool"}, p \in Pointers : g = [kind |-> k, of |-> {p}]
    <2>1. PICK k \in {"pan", "tool"}, p \in Pointers : g = [kind |-> k, of |-> {p}]
      BY <1>2
    <2>2. g.kind = k /\ g.of = {p} /\ Cardinality({p}) = 1 /\ g # NoGesture
      BY <2>1, FS_Singleton DEF NoGesture
    <2>3. QED
      BY <2>2 DEF KindOf
  <1>3. CASE \E p, q \in Fingers : p # q /\ g = [kind |-> "pinch", of |-> {p, q}]
    <2>1. PICK p, q \in Fingers : p # q /\ g = [kind |-> "pinch", of |-> {p, q}]
      BY <1>3
    <2>2. IsFiniteSet({p}) /\ Cardinality({p}) = 1 /\ {p, q} = {p} \cup {q} /\ q \notin {p}
      BY <2>1, FS_Singleton
    <2>3. Cardinality({p, q}) = 2
      BY <2>2, FS_AddElement
    <2>4. g.kind = "pinch" /\ g.of = {p, q} /\ g # NoGesture /\ {p, q} \subseteq Pointers
      BY <2>1 DEF NoGesture, Pointers
    <2>5. QED
      BY <2>3, <2>4 DEF KindOf
  <1>4. QED
    BY <1>1, <1>2, <1>3 DEF OfKind

\* The fingers counted after a press are down.
LEMMA FingerIsNoted ==
    ASSUME HandsInv, NEW p, p \notin down
    PROVE  Distinct(Noted(p)) /\ \A q : Lists(Noted(p), q) => q \in down \cup {p}
  BY OneFinger DEF HandsInv

\* A second finger comes down, and may make a pinch.
LEMMA FingerComesDown ==
    ASSUME HandsInv, NEW p \in Pointers, PressFinger(p)
    PROVE  HandsInv'
  <1> DEFINE known == Noted(p)
  <1>1. p \in Fingers /\ p \notin down /\ down' = down \cup {p} /\ fingers' = known
    BY DEF PressFinger
  <1>2. /\ Distinct(known) /\ Len(known) >= 2
        /\ \A q : Lists(known, q) <=> Lists(fingers, q) \/ q = p
    BY <1>1, OneFinger DEF HandsInv, PressFinger
  <1> HIDE DEF known
  <1>3. /\ known[1] \in Fingers /\ known[2] \in Fingers /\ known[1] # known[2]
        /\ Lists(known, known[1]) /\ Lists(known, known[2])
    <2>1. known \in Seq(Fingers) /\ 1 \in DOMAIN known /\ 2 \in DOMAIN known
      BY <1>2 DEF Distinct
    <2>2. QED
      BY <1>2, <2>1 DEF Distinct, Lists
  <1>4. \A q : Lists(known, q) => q \in down'
    BY <1>1, <1>2 DEF HandsInv
  <1>5. CASE UNCHANGED <<gesture, captured, drags>>
    BY <1>1, <1>2, <1>4, <1>5 DEF HandsInv, DragsAreSettled
  <1>6. CASE BecomesPinch(known) /\ gesture.kind # "pinch"
    <2>1. gesture' = [kind |-> "pinch", of |-> {known[1], known[2]}]
      BY <1>6 DEF BecomesPinch
    <2>2. captured' = captured \cup {known[1], known[2]}
      BY <1>6 DEF BecomesPinch
    <2>3. OfKind(gesture') /\ gesture'.kind = "pinch" /\ gesture'.of = {known[1], known[2]}
      BY <1>3, <2>1 DEF OfKind
    <2>4. gesture'.of \subseteq down' \cap captured'
      BY <1>3, <1>4, <2>2, <2>3
    <2>5. drags' \in [begun : Nat, over : Nat] /\ DragsAreSettled'
      BY <1>6, <2>3 DEF BecomesPinch, HandsInv, DragsAreSettled
    <2>6. captured' \subseteq Pointers /\ down' \subseteq Pointers
      BY <1>1, <1>3, <2>2 DEF HandsInv, Pointers
    <2>7. QED
      BY <1>1, <1>2, <1>3, <1>4, <2>3, <2>4, <2>5, <2>6 DEF HandsInv
  <1>7. QED
    BY <1>5, <1>6 DEF PressFinger, MayPinch, known

\* A press the board takes, or a tool does, or nobody.
LEMMA PointerComesDown ==
    ASSUME HandsInv, NEW p \in Pointers, Press(p)
    PROVE  HandsInv'
  <1>1. p \notin down /\ down' = down \cup {p} /\ fingers' = Noted(p)
    BY DEF Press
  <1>2. Distinct(fingers') /\ \A q : Lists(fingers', q) => q \in down'
    BY <1>1, FingerIsNoted
  <1>3. \A q : Lists(fingers, q) => Lists(fingers', q)
    BY <1>1, OneFinger DEF HandsInv
  <1>4. CASE UNCHANGED <<gesture, captured, drags>>
    BY <1>1, <1>2, <1>3, <1>4 DEF HandsInv, DragsAreSettled
  <1>5. ASSUME gesture = NoGesture, NEW k \in {"pan", "tool"}, Took(p, k),
               drags' = IF k = "tool" THEN [drags EXCEPT !.begun = @ + 1] ELSE drags
        PROVE  HandsInv'
    <2>1. /\ gesture' = [kind |-> k, of |-> {p}] /\ captured' = captured \cup {p}
          /\ gesture.kind = "none"
      BY <1>5 DEF Took, NoGesture
    <2>2. OfKind(gesture') /\ gesture'.kind = k /\ gesture'.of = {p}
      BY <2>1 DEF OfKind
    <2>3. drags' \in [begun : Nat, over : Nat] /\ DragsAreSettled'
      BY <1>5, <2>1, <2>2 DEF HandsInv, DragsAreSettled
    <2>4. QED
      BY <1>1, <1>2, <2>1, <2>2, <2>3 DEF HandsInv
  <1>6. QED
    BY <1>4, <1>5 DEF Press

\* The gesture is over, and its drag with it.
LEMMA DragEnds ==
    ASSUME HandsInv, GestureOver
    PROVE  /\ gesture' = NoGesture /\ gesture'.of = {} /\ gesture'.kind = "none"
           /\ OfKind(gesture')
           /\ drags' \in [begun : Nat, over : Nat] /\ DragsAreSettled'
  <1>1. gesture' = NoGesture /\ gesture'.of = {} /\ gesture'.kind = "none"
    BY DEF GestureOver, NoGesture
  <1>2. OfKind(gesture')
    BY <1>1 DEF OfKind
  <1>3. drags' \in [begun : Nat, over : Nat] /\ DragsAreSettled'
    BY <1>1 DEF GestureOver, HandsInv, DragsAreSettled
  <1>4. QED
    BY <1>1, <1>2, <1>3

\* Up: a gesture that follows the pointer is heard to be over.
LEMMA PointerGoesUp ==
    ASSUME HandsInv, NEW p \in Pointers, Release(p)
    PROVE  HandsInv'
  <1>1. down' = down \ {p} /\ captured' = captured \ {p} /\ fingers' = FingersWithout(p)
    BY DEF Release
  <1>2. Distinct(fingers') /\ \A q : Lists(fingers', q) <=> Lists(fingers, q) /\ q # p
    BY <1>1, OneLess DEF HandsInv
  <1>3. CASE GestureOver
    BY <1>1, <1>2, <1>3, DragEnds DEF HandsInv
  <1>4. CASE p \notin gesture.of /\ UNCHANGED <<gesture, drags>>
    BY <1>1, <1>2, <1>4 DEF HandsInv, DragsAreSettled
  <1>5. QED
    BY <1>3, <1>4 DEF Release, HandsInv, Follows

\* The browser took the capture: what follows the pointer is over.
LEMMA CaptureIsLost ==
    ASSUME HandsInv, NEW p \in Pointers, LoseCapture(p)
    PROVE  HandsInv'
  <1>1. UNCHANGED <<down, fingers>> /\ captured' = captured \ {p}
    BY DEF LoseCapture
  <1>2. CASE GestureOver
    BY <1>1, <1>2, DragEnds DEF HandsInv
  <1>3. CASE p \notin gesture.of /\ UNCHANGED <<gesture, drags>>
    BY <1>1, <1>3 DEF HandsInv, DragsAreSettled
  <1>4. QED
    BY <1>2, <1>3 DEF LoseCapture, Follows

\* A press on what floats over the board.
LEMMA PressIsElsewhere ==
    ASSUME HandsInv, NEW p \in Pointers, PressElsewhere(p)
    PROVE  HandsInv'
  BY DEF PressElsewhere, HandsInv, DragsAreSettled

\* The space key and the focus.
LEMMA KeysAreTold ==
    ASSUME KeysInv, SpaceDown \/ SpaceUp \/ WindowBlurs \/ WindowFocuses
    PROVE  KeysInv'
  <1>1. CASE SpaceDown
    BY <1>1 DEF SpaceDown, KeysInv, SpaceIsHeld
  <1>2. CASE SpaceUp
    BY <1>2 DEF SpaceUp, KeysInv, SpaceIsHeld
  <1>3. CASE WindowBlurs
    BY <1>3 DEF WindowBlurs, Blurred, KeysInv, SpaceIsHeld
  <1>4. CASE WindowFocuses
    BY <1>4 DEF WindowFocuses, KeysInv, SpaceIsHeld
  <1>5. QED
    BY <1>1, <1>2, <1>3, <1>4

\* What is published is published at once, or waits for the timer.
LEMMA CursorIsSet ==
    ASSUME Nowhere \notin Points, CursorInv, NEW p \in Places, cursor' = SetCursor(cursor, p)
    PROVE  CursorInv'
  <1> DEFINE C == [at : Places, published : Places, pending : Places,
                   has : BOOLEAN, timer : BOOLEAN]
  <1>1. cursor \in C
    BY DEF CursorInv
  <1>2. CASE p # Nowhere /\ cursor.published = p
    <2>1. cursor' = [cursor EXCEPT !.at = p]
      BY <1>2 DEF SetCursor
    <2>2. QED
      BY <1>1, <1>2, <2>1 DEF CursorInv, LeavingIsTold
  <1>3. CASE ~(p # Nowhere /\ cursor.published = p) /\ cursor.timer
    <2>1. cursor' = [cursor EXCEPT !.at = p, !.pending = p, !.has = TRUE]
      BY <1>3 DEF SetCursor
    <2>2. QED
      BY <1>1, <1>3, <2>1 DEF CursorInv, LeavingIsTold
  <1>4. CASE ~(p # Nowhere /\ cursor.published = p) /\ ~cursor.timer
    <2>1. cursor' = Publish([cursor EXCEPT !.at = p], p)
      BY <1>4 DEF SetCursor
    <2>2. cursor' = [at |-> p, published |-> p, pending |-> p, has |-> FALSE, timer |-> TRUE]
      BY <1>1, <2>1 DEF Publish
    <2>3. QED
      BY <2>2 DEF CursorInv, LeavingIsTold
  <1>5. QED
    BY <1>2, <1>3, <1>4

\* The timer fires: what waits goes out, or nothing waits.
LEMMA CursorIsFlushed ==
    ASSUME CursorInv, FlushCursor
    PROVE  CursorInv'
  <1>1. CASE cursor.has
    <2>1. cursor' = [at |-> cursor.at, published |-> cursor.pending, pending |-> cursor.pending,
                     has |-> FALSE, timer |-> TRUE]
      BY <1>1 DEF FlushCursor, Publish, CursorInv
    <2>2. QED
      BY <1>1, <2>1 DEF CursorInv, LeavingIsTold
  <1>2. CASE ~cursor.has
    BY <1>2 DEF FlushCursor, CursorInv, LeavingIsTold
  <1>3. QED
    BY <1>1, <1>2

-----------------------------------------------------------------------------
\* A zoom stays in its bounds.
LEMMA ZoomIsClamped ==
    ASSUME MaxStop \in Nat, NEW z \in Int
    PROVE  Clamp(z) \in 0..MaxStop /\ \A up \in BOOLEAN : NextStop(z, up) \in 0..MaxStop
  <1>1. \A n \in Int : Clamp(n) \in 0..MaxStop
    BY DEF Clamp
  <1>2. 2 * (z \div 2) + 2 \in Int /\ 2 * ((z - 1) \div 2) \in Int
    OBVIOUS
  <1>3. QED
    BY <1>1, <1>2 DEF NextStop

\* A glide that has landed, or is on its way.
Glides ==
    \/ glide = Landed
    \/ \E c, e \in Cameras : glide = [on |-> TRUE, to |-> c, expected |-> e, heading |-> c]

\* The camera moved by hand: no zoom is asked for any more.
LEMMA HandMovesCamera ==
    ASSUME MaxStop \in Nat, MaxInputs \in Nat, CameraInv, inputs < MaxInputs,
           inputs' = inputs + 1, HandMoves
    PROVE  CameraInv'
  <1>1. PICK z \in {camera.zoom, Clamp(camera.zoom - 1), Clamp(camera.zoom + 1)} :
           camera' = [zoom |-> z, hand |-> camera.hand + 1]
    BY DEF HandMoves
  <1>2. camera.zoom \in 0..MaxStop /\ camera.hand \in 0..inputs
    BY DEF CameraInv, Cameras
  <1>3. z \in 0..MaxStop
    BY <1>1, <1>2, ZoomIsClamped
  <1>4. inputs' \in 0..MaxInputs /\ Cameras \subseteq Cameras' /\ camera.hand + 1 \in 0..inputs'
    BY <1>2 DEF CameraInv, Cameras
  <1>5. camera' \in Cameras'
    BY <1>1, <1>3, <1>4 DEF Cameras
  <1>6. wanted' = -1 /\ UNCHANGED glide
    BY DEF HandMoves
  <1>7. Glides => Glides'
    BY <1>4, <1>6 DEF Glides, Landed, NoCamera
  <1>8. QED
    BY <1>4, <1>5, <1>6, <1>7 DEF CameraInv, Glides, PressesAddUp

\* The next input leaves the camera and its glide as they are.
LEMMA CameraStays ==
    ASSUME MaxInputs \in Nat, CameraInv, UNCHANGED sight,
           inputs' = inputs \/ (inputs < MaxInputs /\ inputs' = inputs + 1)
    PROVE  CameraInv'
  <1>1. inputs' \in 0..MaxInputs /\ Cameras \subseteq Cameras'
    BY DEF CameraInv, Cameras
  <1>2. UNCHANGED <<camera, glide, wanted>>
    BY DEF sight
  <1>3. Glides => Glides'
    BY <1>1, <1>2 DEF Glides, Landed, NoCamera
  <1>4. QED
    BY <1>1, <1>2, <1>3 DEF CameraInv, Glides, PressesAddUp

\* A new glide starts at the camera.
LEMMA GlideStarts ==
    ASSUME MaxInputs \in Nat, CameraInv, inputs < MaxInputs, inputs' = inputs + 1,
           UNCHANGED camera, NEW to \in Cameras, GlidesTo(to),
           wanted' \in -1..MaxStop, wanted' # -1 => wanted' = to.zoom
    PROVE  CameraInv'
  <1>1. inputs' \in 0..MaxInputs /\ Cameras \subseteq Cameras'
    BY DEF CameraInv, Cameras
  <1>2. glide' = [on |-> TRUE, to |-> to, expected |-> camera, heading |-> to]
    BY DEF GlidesTo
  <1>3. Glides' /\ glide'.on /\ glide'.expected = camera' /\ glide'.to = to
    BY <1>1, <1>2 DEF Glides, CameraInv
  <1>4. QED
    BY <1>1, <1>3 DEF CameraInv, Glides, PressesAddUp

\* A zoom steps on from where the camera is heading.
LEMMA ZoomGlides ==
    ASSUME MaxStop \in Nat, MaxInputs \in Nat, CameraInv,
           inputs < MaxInputs, inputs' = inputs + 1, Zoom
    PROVE  CameraInv'
  <1>1. PICK up \in BOOLEAN : /\ GlidesTo([From EXCEPT !.zoom = NextStop(@, up)])
                              /\ wanted' = IF wanted = -1 THEN -1 ELSE NextStop(wanted, up)
    BY DEF Zoom
  <1> DEFINE to == [From EXCEPT !.zoom = NextStop(@, up)]
  <1>2. From \in Cameras /\ (wanted # -1 => From.zoom = wanted)
    <2>1. CASE glide = Landed
      <3>1. ~glide.on /\ From = camera
        BY <2>1 DEF Landed, From
      <3>2. QED
        BY <3>1 DEF CameraInv, PressesAddUp
    <2>2. CASE \E c, e \in Cameras :
                  glide = [on |-> TRUE, to |-> c, expected |-> e, heading |-> c]
      <3>1. PICK c, e \in Cameras :
                  glide = [on |-> TRUE, to |-> c, expected |-> e, heading |-> c]
        BY <2>2
      <3>2. c # NoCamera
        <4>1. c.zoom # -1 /\ NoCamera.zoom = -1
          BY <3>1 DEF Cameras, NoCamera
        <4>2. QED
          BY <4>1
      <3>3. From = c /\ glide.on /\ glide.to = c
        BY <3>1, <3>2 DEF From
      <3>4. QED
        BY <3>1, <3>3 DEF CameraInv, PressesAddUp
    <2>3. QED
      BY <2>1, <2>2 DEF CameraInv
  <1>3. NextStop(From.zoom, up) \in 0..MaxStop
    BY <1>1, <1>2, ZoomIsClamped DEF Cameras
  <1>4. to \in Cameras /\ to.zoom = NextStop(From.zoom, up)
    BY <1>2, <1>3 DEF Cameras
  <1>5. wanted' # -1 => wanted' = to.zoom
    BY <1>1, <1>2, <1>4
  <1>6. wanted' \in -1..MaxStop
    BY <1>3, <1>4, <1>5
  <1>7. UNCHANGED camera /\ GlidesTo(to)
    BY <1>1 DEF Zoom
  <1> HIDE DEF to
  <1>8. QED
    BY <1>4, <1>5, <1>6, <1>7, GlideStarts

\* A fit goes to a stop of its own.
LEMMA FitGlides ==
    ASSUME MaxStop \in Nat, MaxInputs \in Nat, CameraInv,
           inputs < MaxInputs, inputs' = inputs + 1, Fit
    PROVE  CameraInv'
  <1>1. PICK z \in 0..MaxStop : GlidesTo([camera EXCEPT !.zoom = z]) /\ wanted' = z
    BY DEF Fit
  <1> DEFINE to == [camera EXCEPT !.zoom = z]
  <1>2. to \in Cameras /\ to.zoom = z
    BY <1>1 DEF CameraInv, Cameras
  <1>3. UNCHANGED camera /\ GlidesTo(to)
    BY <1>1 DEF Fit
  <1>4. wanted' \in -1..MaxStop /\ wanted' = to.zoom
    BY <1>1, <1>2
  <1> HIDE DEF to
  <1>5. QED
    BY <1>2, <1>3, <1>4, GlideStarts

\* A frame: a glide goes on, lands, or gives way to the hand.
LEMMA GlideGoesOn ==
    ASSUME MaxStop \in Nat, CameraInv, UNCHANGED inputs, Tick
    PROVE  CameraInv'
  <1>1. glide.on /\ UNCHANGED wanted /\ Cameras' = Cameras
    BY DEF Tick, Cameras
  <1>2. PICK c, e \in Cameras :
               glide = [on |-> TRUE, to |-> c, expected |-> e, heading |-> c]
    BY <1>1 DEF CameraInv, Landed
  <1>3. CASE camera # glide.expected /\ glide' = Landed /\ UNCHANGED camera
    <2>1. wanted = -1
      BY <1>1, <1>3 DEF CameraInv
    <2>2. glide'.on = FALSE
      BY <1>3 DEF Landed
    <2>3. QED
      BY <1>1, <1>3, <2>1, <2>2 DEF CameraInv, PressesAddUp
  <1>4. CASE camera = glide.expected /\ camera' = glide.to /\ glide' = Landed
    <2>1. camera' = c /\ glide.to = c /\ glide'.on = FALSE
      BY <1>2, <1>4 DEF Landed
    <2>2. QED
      BY <1>1, <1>2, <1>4, <2>1 DEF CameraInv, PressesAddUp
  <1>5. ASSUME NEW z \in 0..MaxStop, camera' = [glide.to EXCEPT !.zoom = z],
               glide' = [glide EXCEPT !.expected = camera']
        PROVE  CameraInv'
    <2>1. camera' \in Cameras
      BY <1>2, <1>5 DEF Cameras
    <2>2. glide' = [on |-> TRUE, to |-> c, expected |-> camera', heading |-> c]
      BY <1>2, <1>5
    <2>3. glide'.on /\ glide'.to = glide.to /\ glide'.expected = camera'
      BY <1>2, <2>2
    <2>4. QED
      BY <1>1, <1>2, <2>1, <2>2, <2>3 DEF CameraInv, PressesAddUp
  <1>6. QED
    BY <1>3, <1>4, <1>5 DEF Tick, Between

\* At first nothing is down.
LEMMA PointersBegin ==
    ASSUME PointerAssumption, PointerInit
    PROVE  PointerInv
  <1>1. HandsInv
    <2>1. Distinct(fingers) /\ \A p : ~Lists(fingers, p)
      <3>1. fingers \in Seq(Fingers) /\ DOMAIN fingers = {}
        BY DEF PointerInit
      <3>2. QED
        BY <3>1 DEF Distinct, Lists
    <2>2. gesture = NoGesture /\ gesture.of = {} /\ gesture.kind = "none"
      BY DEF PointerInit, NoGesture
    <2>3. OfKind(gesture)
      BY <2>2 DEF OfKind
    <2>4. QED
      BY <2>1, <2>2, <2>3 DEF PointerInit, HandsInv, DragsAreSettled
  <1>2. KeysInv
    BY DEF PointerInit, KeysInv, SpaceIsHeld
  <1>3. CursorInv
    BY DEF PointerInit, CursorInv, LeavingIsTold, Places
  <1>4. CameraInv
    <2>1. camera \in Cameras /\ camera.zoom = 0
      BY DEF PointerInit, PointerAssumption, Cameras
    <2>2. glide = Landed /\ glide.on = FALSE
      BY DEF PointerInit, Landed
    <2>3. QED
      BY <2>1, <2>2 DEF PointerInit, PointerAssumption, CameraInv, PressesAddUp
  <1>5. QED
    BY <1>1, <1>2, <1>3, <1>4 DEF PointerInv

\* The invariant is what the properties ask.
LEMMA SettledMeans ==
    ASSUME PointerAssumption, PointerInv
    PROVE  /\ PointersTyped /\ DragsAreSettled /\ NothingIsStuck /\ SpaceIsHeld
           /\ PressesAddUp /\ LeavingIsTold
  <1>1. HandsInv /\ KeysInv /\ CursorInv /\ CameraInv
    BY DEF PointerInv
  <1>2. /\ KindOf(gesture)
        /\ gesture.kind = "none" => Cardinality(gesture.of) = 0
        /\ gesture.kind = "pinch" => Cardinality(gesture.of) = 2
        /\ gesture.kind \in {"pan", "tool"} => Cardinality(gesture.of) = 1
    BY <1>1, EachKind DEF HandsInv
  <1>3. /\ \A p : p \in ToSet(fingers) <=> Lists(fingers, p)
        /\ \A p \in ToSet(fingers) : p \in Fingers
    BY <1>1 DEF HandsInv, Distinct, ToSet, Lists
  <1>4. NothingIsStuck
    BY <1>1, <1>3 DEF HandsInv, NothingIsStuck
  <1>5. camera.zoom \in 0..MaxStop /\ camera.hand \in 0..MaxInputs /\ wanted \in -1..MaxStop
    BY <1>1 DEF CameraInv, Cameras, PointerAssumption
  <1>6. {cursor.at, cursor.published, cursor.pending} \subseteq Points \cup {Nowhere}
    BY <1>1 DEF CursorInv, Places
  <1>7. PointersTyped
    <2>1. down \cup captured \subseteq Pointers /\ ToSet(fingers) \subseteq Fingers
      BY <1>1, <1>3 DEF HandsInv
    <2>2. Cardinality(gesture.of) = CASE gesture.kind = "none" -> 0
                                      [] gesture.kind = "pinch" -> 2
                                      [] OTHER -> 1
      BY <1>2 DEF KindOf
    <2>3. QED
      BY <1>1, <1>2, <1>5, <1>6, <2>1, <2>2 DEF KindOf, KeysInv, PointersTyped
  <1>8. QED
    BY <1>1, <1>4, <1>7 DEF HandsInv, KeysInv, CursorInv, CameraInv

\* Whatever the hands do, one part of the state changes.
LEMMA HandsMove ==
    ASSUME PointerAssumption, PointerInv,
           inputs' = inputs \/ (inputs < MaxInputs /\ inputs' = inputs + 1),
           UNCHANGED <<settings, sight, cursor>>, HandsInv'
    PROVE  PointerInv'
  <1>1. CameraInv'
    BY CameraStays DEF PointerInv, PointerAssumption
  <1>2. KeysInv' /\ CursorInv'
    BY DEF settings, PointerInv, KeysInv, SpaceIsHeld, CursorInv, LeavingIsTold
  <1>3. QED
    BY <1>1, <1>2 DEF PointerInv

\* What moves no pointer.
LEMMA HandsRest ==
    ASSUME PointerInv, UNCHANGED hands
    PROVE  HandsInv'
  BY DEF hands, PointerInv, HandsInv, DragsAreSettled

\* What presses no key.
LEMMA SettingsRest ==
    ASSUME PointerInv, UNCHANGED keys, panOnly' \in BOOLEAN
    PROVE  KeysInv'
  BY DEF PointerInv, KeysInv, SpaceIsHeld

\* What moves no cursor.
LEMMA CursorRests ==
    ASSUME PointerInv, UNCHANGED cursor
    PROVE  CursorInv'
  BY DEF PointerInv, CursorInv, LeavingIsTold

\* Whatever the user does.
LEMMA InputSettles ==
    ASSUME PointerAssumption, PointerInv, inputs < MaxInputs, inputs' = inputs + 1, Input
    PROVE  PointerInv'
  <1>1. /\ MaxStop \in Nat /\ MaxInputs \in Nat /\ Nowhere \notin Points
        /\ HandsInv /\ KeysInv /\ CursorInv /\ CameraInv /\ panOnly \in BOOLEAN
    BY DEF PointerAssumption, PointerInv, KeysInv
  <1>2. ASSUME NEW p \in Pointers, PressElsewhere(p) PROVE PointerInv'
    <2>1. HandsInv'
      BY <1>1, <1>2, PressIsElsewhere
    <2>2. QED
      BY <1>2, <2>1, HandsMove DEF PressElsewhere
  <1>3. ASSUME NEW p \in Pointers, PressFinger(p) PROVE PointerInv'
    <2>1. HandsInv'
      BY <1>1, <1>3, FingerComesDown
    <2>2. QED
      BY <1>3, <2>1, HandsMove DEF PressFinger
  <1>4. ASSUME NEW p \in Pointers, Press(p) PROVE PointerInv'
    <2>1. HandsInv'
      BY <1>1, <1>4, PointerComesDown
    <2>2. QED
      BY <1>4, <2>1, HandsMove DEF Press
  <1>5. ASSUME NEW p \in Pointers, Move(p) PROVE PointerInv'
    <2>1. HandsInv' /\ KeysInv'
      BY <1>1, <1>5, HandsRest, SettingsRest DEF Move, settings
    <2>2. CameraInv'
      BY <1>1, <1>5, HandMovesCamera, CameraStays DEF Move
    <2>3. CursorInv'
      <3>1. CASE cursor' = cursor
        BY <3>1, CursorRests
      <3>2. ASSUME NEW at \in Points, cursor' = SetCursor(cursor, at) PROVE CursorInv'
        <4>1. at \in Places
          BY DEF Places
        <4>2. QED
          BY <1>1, <3>2, <4>1, CursorIsSet
      <3>3. QED
        BY <1>5, <3>1, <3>2 DEF Move
    <2>4. QED
      BY <2>1, <2>2, <2>3 DEF PointerInv
  <1>6. CASE Wheel
    BY <1>1, <1>6, HandMovesCamera, HandsRest, SettingsRest, CursorRests
    DEF Wheel, settings, PointerInv
  <1>7. CASE FitOnLoad
    BY <1>1, <1>7, HandMovesCamera, CameraStays, HandsRest, SettingsRest, CursorRests
    DEF FitOnLoad, PointerInv
  <1>8. CASE Zoom
    BY <1>1, <1>8, ZoomGlides, HandsRest, SettingsRest, CursorRests
    DEF Zoom, settings, PointerInv
  <1>9. CASE Fit
    BY <1>1, <1>9, FitGlides, HandsRest, SettingsRest, CursorRests
    DEF Fit, settings, PointerInv
  <1>10. CASE SpaceDown
    BY <1>1, <1>10, KeysAreTold, CameraStays, HandsRest, CursorRests
    DEF SpaceDown, PointerInv
  <1>11. CASE PickHand
    BY <1>1, <1>11, CameraStays, HandsRest, SettingsRest, CursorRests
    DEF PickHand, PointerInv
  <1>12. CASE PointerLeaves
    <2>1. CursorInv'
      <3>1. Nowhere \in Places /\ cursor' = SetCursor(cursor, Nowhere)
        BY <1>12 DEF Places, PointerLeaves
      <3>2. QED
        BY <1>1, <3>1, CursorIsSet
    <2>2. QED
      BY <1>1, <1>12, <2>1, CameraStays, HandsRest, SettingsRest
      DEF PointerLeaves, settings, PointerInv
  <1>13. QED
    BY <1>2, <1>3, <1>4, <1>5, <1>6, <1>7, <1>8, <1>9, <1>10, <1>11, <1>12 DEF Input, Presses

\* Whatever the browser does, and time.
LEMMA RestSettles ==
    ASSUME PointerAssumption, PointerInv, UNCHANGED inputs, Rest
    PROVE  PointerInv'
  <1>1. /\ MaxStop \in Nat /\ MaxInputs \in Nat /\ Nowhere \notin Points
        /\ HandsInv /\ KeysInv /\ CursorInv /\ CameraInv /\ panOnly \in BOOLEAN
    BY DEF PointerAssumption, PointerInv, KeysInv
  <1>2. ASSUME NEW p \in Pointers, Release(p) PROVE PointerInv'
    <2>1. HandsInv'
      BY <1>1, <1>2, PointerGoesUp
    <2>2. QED
      BY <1>2, <2>1, HandsMove DEF Release
  <1>3. ASSUME NEW p \in Pointers, LoseCapture(p) PROVE PointerInv'
    <2>1. HandsInv'
      BY <1>1, <1>3, CaptureIsLost
    <2>2. QED
      BY <1>3, <2>1, HandsMove DEF LoseCapture
  <1>4. CASE SpaceUp
    BY <1>1, <1>4, KeysAreTold, CameraStays, HandsRest, CursorRests DEF SpaceUp, PointerInv
  <1>5. CASE WindowBlurs
    BY <1>1, <1>5, KeysAreTold, CameraStays, HandsRest, CursorRests DEF WindowBlurs, PointerInv
  <1>6. CASE WindowFocuses
    BY <1>1, <1>6, KeysAreTold, CameraStays, HandsRest, CursorRests
    DEF WindowFocuses, PointerInv
  <1>7. CASE Tick
    BY <1>1, <1>7, GlideGoesOn, HandsRest, SettingsRest, CursorRests
    DEF Tick, settings, PointerInv
  <1>8. CASE FlushCursor
    BY <1>1, <1>8, CursorIsFlushed, CameraStays, HandsRest, SettingsRest
    DEF FlushCursor, settings, PointerInv
  <1>9. QED
    BY <1>2, <1>3, <1>4, <1>5, <1>6, <1>7, <1>8 DEF Rest, Releases

\* A pen's gesture is over by its own release, or because its capture is lost.
LEMMA PalmChangesNothing ==
    ASSUME PointerAssumption, PointerInv, PointerNext, NEW p \in Mice,
           gesture.of = {p}, gesture' # gesture
    PROVE  p \in captured /\ p \notin captured'
  <1>1. p \in captured /\ p \notin Fingers /\ gesture # NoGesture
    BY DEF PointerInv, HandsInv, PointerAssumption, NoGesture
  <1>2. ASSUME NEW q \in Pointers, PressFinger(q) PROVE FALSE
    <2>1. Distinct(Noted(q)) /\ MayPinch(Noted(q))
      BY <1>2, FingerIsNoted DEF PressFinger, PointerInv
    <2>2. ToSet(Noted(q)) \subseteq Fingers
      BY <2>1 DEF Distinct, ToSet
    <2>3. QED
      BY <1>1, <2>1, <2>2 DEF MayPinch
  <1>3. ASSUME NEW q \in Pointers, Press(q) PROVE FALSE
    BY <1>1, <1>3 DEF Press
  <1>4. ASSUME NEW q \in Pointers, Release(q) \/ LoseCapture(q)
        PROVE  p \notin captured'
    <2>1. q \in gesture.of /\ captured' = captured \ {q}
      BY <1>4 DEF Release, LoseCapture, Follows
    <2>2. QED
      BY <2>1
  <1>5. ASSUME NEW q \in Pointers, Move(q) \/ PressElsewhere(q) PROVE FALSE
    BY <1>5 DEF Move, PressElsewhere, hands
  <1>6. ~(Wheel \/ FitOnLoad \/ Zoom \/ Fit \/ PointerLeaves \/ Tick \/ FlushCursor)
    BY DEF Wheel, FitOnLoad, Zoom, Fit, PointerLeaves, Tick, FlushCursor, hands
  <1>7. ~(SpaceDown \/ PickHand \/ SpaceUp \/ WindowBlurs \/ WindowFocuses)
    BY DEF SpaceDown, PickHand, SpaceUp, WindowBlurs, WindowFocuses, hands
  <1>8. QED
    BY <1>1, <1>2, <1>3, <1>4, <1>5, <1>6, <1>7
    DEF PointerNext, Input, Rest, Presses, Releases

\* For any fingers, mice, zoom stops and inputs: whatever takes a gesture over, its drag is
\* settled once and it follows pointers that are down and captured (useBoardGestures
\* startPinch, onLostCapture); zoom presses add up, and a pointer that leaves is told of.
THEOREM AnyGesturesAreSettled ==
    ASSUME PointerAssumption
    PROVE  PointerSpec => GesturesAreSettled
  <1>1. PointerInit => PointerInv
    BY PointersBegin
  <1>2. PointerInv /\ [PointerNext]_pointerVars => PointerInv'
    <2>1. ASSUME PointerInv, PointerNext PROVE PointerInv'
      BY <2>1, InputSettles, RestSettles DEF PointerNext
    <2>2. ASSUME PointerInv, UNCHANGED pointerVars PROVE PointerInv'
      <3>1. UNCHANGED <<hands, settings, sight, cursor, inputs>>
        BY <2>2 DEF pointerVars, hands, settings, sight
      <3>2. HandsInv'
        BY <2>2, <3>1, HandsRest
      <3>3. QED
        BY <2>2, <3>1, <3>2, HandsMove
    <2>3. QED
      BY <2>1, <2>2
  <1>3. PointerInv => /\ PointersTyped /\ DragsAreSettled /\ NothingIsStuck /\ SpaceIsHeld
                      /\ PressesAddUp /\ LeavingIsTold
    BY SettledMeans
  <1>4. PointerInv /\ [PointerNext]_pointerVars =>
           [\A p \in Mice : gesture.of = {p} /\ gesture' # gesture =>
                                p \in captured /\ p \notin captured']_pointerVars
    BY PalmChangesNothing
  <1>5. QED
    BY <1>1, <1>2, <1>3, <1>4, PTL DEF PointerSpec, GesturesAreSettled, PalmsAreIgnored
============================================================================
