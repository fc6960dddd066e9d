----------------------------- MODULE BoardPage ------------------------------
(***************************************************************************)
(* One browser, several tabs, one board's address: the fetch of the board  *)
(* and the states it can land in (BoardClient, BoardStates), the session   *)
(* each tab opens on it and how it holds on to a connection                *)
(* (useBoardDoc, board-session), the copy of the document the tabs share   *)
(* in this browser and its index (local-copy), and the creator token       *)
(* (creator-tokens, claim, ExpiryChip).                                    *)
(*                                                                         *)
(* The board at the address is made, expires, is swept and made again.     *)
(* A request to the API and the landing of its answer are two steps.  What *)
(* is in flight on a page's socket is SyncProtocol's: here an update       *)
(* reaches the server and the other tabs as it is sent.                    *)
(***************************************************************************)
EXTENDS Naturals, FiniteSets

CONSTANTS
    Tabs,
    MaxMade,        \* bound: boards made at this address
    MaxEdits,       \* bound: edits
    MaxSpent,       \* bound: pages opened, tokens used, failed requests and
                    \* connections, and spells longer than MAX_AGE_MS
    LongSittings,   \* a tab may stay open through such a spell
    LateAnswers     \* the address may be taken again while an answer about the
                    \* board before, or a call with its token, is out

ASSUME PageAssumption ==
    /\ {MaxMade, MaxEdits, MaxSpent} \subseteq Nat
    /\ {LongSittings, LateAnswers} \subseteq BOOLEAN

Made  == 1..MaxMade
Edits == [n : 1..MaxEdits, made : Made]

VARIABLES
    board,     \* the server's: made (0: never), state, claimed, content; whether
               \* this browser made it, and whether it was extended once expired
    copies,    \* the databases: what each incarnation's copy holds
    index,     \* skrivle-local-copies: kept, unsynced, old
    token,     \* skrivle-boards: the creator token, by the board it was given for
    tabs,
    edits,     \* how many were drawn
    promised,  \* history: edits drawn while the bar said they were saved
    misled,    \* history: a mark was cleared over work the server lacked
    spent      \* of MaxSpent

pageVars == <<board, copies, index, token, tabs, edits, promised, misled, spent>>

(* A call with the token: what the server made of it, and whether a page    *)
(* that waits for its claim is still on.  A tab: also what the server said of the board.  *)
NoAsk  == [kind |-> "none", token |-> 0, answer |-> "out", on |-> FALSE]
ClosedTab == [page |-> "closed", answer |-> "out", made |-> 0, status |-> "none", active |-> FALSE,
           rejoin |-> FALSE, synced |-> FALSE,
           doc |-> {}, copy |-> "none", saved |-> FALSE, asking |-> NoAsk]

(* A tab that lost its page, or has another; what it asked for stays out.   *)
Bare(tab, p) == [ClosedTab EXCEPT !.page = p, !.asking = tab.asking]

Live(t) == tabs[t].status \in {"connecting", "connected", "reconnecting"}
Indexed(t) == tabs[t].copy \in {"opening", "loaded", "cut"}

Spend   == spent < MaxSpent /\ spent' = spent + 1
Trouble == Spend

---------------------------------------------------------------------------
(* The copies and their index, by name: the board's id and its createdAt. *)

\* Mutant: copies are kept by the id alone.
Unnamed(n) == 1

Name(n) == n

NoEntry == [kept |-> FALSE, unsynced |-> FALSE, old |-> FALSE]
Known == {n \in Made : index[n].kept}

(* sweep, and what it leaves of the tabs that had the database open. *)
Swept(stale) ==
    /\ copies' = [n \in Made |-> IF n \in stale THEN {} ELSE copies[n]]
    /\ index' = [n \in Made |-> IF n \in stale THEN NoEntry ELSE index[n]]

Cut(stale) == [u \in Tabs |-> IF tabs[u].copy = "loaded" /\ Name(tabs[u].made) \in stale
                              THEN [tabs[u] EXCEPT !.copy = "cut"] ELSE tabs[u]]

\* Mutant: the sweep goes by age alone.
Unopened == {n \in Known : index[n].old}
Stale == {n \in Known : index[n].old /\ ~index[n].unsynced}

Marked(n, unsynced) == IF index[n].kept THEN [index EXCEPT ![n].unsynced = unsynced] ELSE index

(* A month goes by; the next board opened sweeps the index. *)
Month ==
    /\ Spend
    /\ LongSittings \/ \A t \in Tabs : tabs[t].page = "closed"
    /\ board.state = "live" => board.claimed
    /\ index' = [n \in Made |-> [index[n] EXCEPT !.old = index[n].kept]]
    /\ token' = 0  \* pruned at the next mount
    /\ UNCHANGED <<board, copies, tabs, edits, promised, misled>>

OpenElsewhere ==
    /\ Stale # {} /\ Swept(Stale) /\ tabs' = Cut(Stale)
    /\ UNCHANGED <<board, token, edits, promised, misled, spent>>

---------------------------------------------------------------------------
(* The page: the fetch, and the states it can land in. *)

OpenPage(t) ==
    /\ tabs[t].page \in {"closed", "unreachable"}
    /\ Spend
    /\ tabs' = [tabs EXCEPT ![t] = Bare(@, "loading")]
    /\ UNCHANGED <<board, copies, index, token, edits, promised, misled>>

(* The server reads the board; what it found is on its way. *)
Fetched(t) ==
    /\ tabs[t].page = "loading" /\ tabs[t].answer = "out"
    /\ tabs' = [tabs EXCEPT ![t].answer = board.state,
                            ![t].made = IF board.state = "live" THEN board.made ELSE 0]
    /\ UNCHANGED <<board, copies, index, token, edits, promised, misled, spent>>

FetchReady(t) ==
    /\ tabs[t].page = "loading" /\ tabs[t].answer = "live"
    /\ tabs' = [tabs EXCEPT ![t].page = "ready", ![t].answer = "out", ![t].status = "connecting",
                            ![t].active = TRUE, ![t].copy = "probing"]
    /\ UNCHANGED <<board, copies, index, token, edits, promised, misled, spent>>

(* The board was gone: its copies have nowhere to sync to, and an expired   *)
(* one's token is forgotten - by the id, whoever has it by now.             *)
FetchGone(t) ==
    /\ tabs[t].page = "loading" /\ tabs[t].answer \in {"none", "expired"}
    /\ Swept(Known)
    /\ tabs' = [Cut(Known) EXCEPT ![t] = Bare(@, IF @.answer = "expired" THEN "expired" ELSE "missing")]
    /\ token' = IF tabs[t].answer = "expired" THEN 0 ELSE token
    /\ UNCHANGED <<board, edits, promised, misled, spent>>

FetchFails(t) ==
    /\ tabs[t].page = "loading" /\ Trouble
    /\ tabs' = [tabs EXCEPT ![t] = Bare(@, "unreachable")]
    /\ UNCHANGED <<board, copies, index, token, edits, promised, misled>>

(* The tab is closed, or goes elsewhere: what is only in its memory is gone, *)
(* and a fetch is aborted; a call with the token is not (a closed tab, where *)
(* nobody is left to hear its answer, is AskFails).                          *)
Leave(t) ==
    /\ tabs[t].page # "closed"
    /\ tabs' = [tabs EXCEPT ![t] = [Bare(@, "closed") EXCEPT !.asking.on = FALSE]]
    /\ UNCHANGED <<board, copies, index, token, edits, promised, misled, spent>>

---------------------------------------------------------------------------
(* The copy, once the probe says IndexedDB works: the copies of boards that *)
(* had this id before are dropped.                                          *)

Opening(tab) == [tab EXCEPT !.copy = "opening"]

Provides(t) ==
    /\ tabs[t].copy = "probing"
    /\ LET n == Name(tabs[t].made)
           older == Known \ {n}
       IN /\ copies' = [m \in Made |-> IF m \in older THEN {} ELSE copies[m]]
          /\ index' = [m \in Made |-> IF m = n THEN [NoEntry EXCEPT !.kept = TRUE, !.unsynced = index[n].unsynced]
                                                ELSE IF m \in older THEN NoEntry ELSE index[m]]
          /\ tabs' = [Cut(older) EXCEPT ![t] = Opening(@)]
    /\ UNCHANGED <<board, token, edits, promised, misled, spent>>

CannotKeep(t) ==
    /\ tabs[t].copy = "probing" /\ tabs' = [tabs EXCEPT ![t].copy = "none"]
    /\ UNCHANGED <<board, copies, index, token, edits, promised, misled, spent>>

(* The tab t becomes tab; what its document has goes where it is sent: to   *)
(* its copy and, while it is synced, the server, the other tabs and theirs. *)
Becomes(t, tab) ==
    LET all == tab.doc \cup (IF tab.synced THEN board.content ELSE {})
        After(u) == CASE u = t -> [tab EXCEPT !.doc = all]
                      [] u # t /\ tab.synced /\ tabs[u].synced -> [tabs[u] EXCEPT !.doc = @ \cup all]
                      [] OTHER -> tabs[u]
        kept == UNION {After(u).doc : u \in {u \in Tabs : After(u).copy = "loaded" /\ After(u).made = tab.made}}
    IN /\ tabs' = [u \in Tabs |-> After(u)]
       /\ board' = IF tab.synced THEN [board EXCEPT !.content = all] ELSE board
       /\ copies' = [copies EXCEPT ![Name(tab.made)] = @ \cup kept]

(* Marked as work the server may lack: changes made while the socket is down. *)
MarkedIfDown(t, tab) == IF tab.status # "connected" /\ Indexed(t) THEN Marked(Name(tab.made), TRUE) ELSE index

Loads(t) ==
    /\ tabs[t].copy = "opening"
    /\ LET doc == tabs[t].doc \cup copies[Name(tabs[t].made)]
           tab == [tabs[t] EXCEPT !.copy = "loaded", !.saved = TRUE, !.doc = doc]
       IN /\ Becomes(t, tab)
          /\ index' = IF doc # tabs[t].doc THEN MarkedIfDown(t, tab) ELSE index
    /\ UNCHANGED <<token, edits, promised, misled, spent>>

Draw(t) ==
    /\ Live(t) /\ edits < MaxEdits /\ edits' = edits + 1
    /\ LET e == [n |-> edits + 1, made |-> tabs[t].made]
       IN /\ Becomes(t, [tabs[t] EXCEPT !.doc = @ \cup {e}])
          /\ promised' = IF tabs[t].saved /\ tabs[t].status = "reconnecting" THEN promised \cup {e} ELSE promised
    /\ index' = MarkedIfDown(t, tabs[t])
    /\ UNCHANGED <<token, misled, spent>>

---------------------------------------------------------------------------
(* The connection. *)

Connects(t) ==
    /\ tabs[t].active /\ tabs[t].status \in {"connecting", "reconnecting"} /\ board.state = "live"
    /\ tabs' = [tabs EXCEPT ![t].status = "connected"]
    /\ UNCHANGED <<board, copies, index, token, edits, promised, misled, spent>>

(* The handshake is refused, for good; or fails, and Socket.IO tries again. *)
Refused(t) ==
    /\ tabs[t].active /\ tabs[t].status \in {"connecting", "reconnecting"}
    /\ \/ board.state # "live" /\ UNCHANGED spent
       \/ Trouble
    /\ tabs' = [tabs EXCEPT ![t].status = "refused", ![t].active = FALSE]
    /\ UNCHANGED <<board, copies, index, token, edits, promised, misled>>

HandshakeFails(t) ==
    /\ tabs[t].active /\ tabs[t].status = "connecting" /\ Trouble
    /\ tabs' = [tabs EXCEPT ![t].status = "reconnecting"]
    /\ UNCHANGED <<board, copies, index, token, edits, promised, misled>>

(* board:joined and the two steps of the sync: each side has what the other had. *)
Synced(t) ==
    /\ tabs[t].status = "connected" /\ ~tabs[t].synced
    /\ Becomes(t, [tabs[t] EXCEPT !.synced = TRUE])
    /\ LET n == Name(tabs[t].made)
       IN /\ index' = IF Indexed(t) THEN Marked(n, FALSE) ELSE index
          /\ misled' = (misled \/ (Indexed(t) /\ index[n].unsynced /\ ~(copies[n] \subseteq board'.content)))
    /\ UNCHANGED <<token, edits, promised, spent>>

Offline(tab) == [tab EXCEPT !.status = "reconnecting", !.synced = FALSE]
Kicked(tab) == [Offline(tab) EXCEPT !.active = FALSE, !.rejoin = TRUE]

(* A connection that drops is retried by Socket.IO; one the server ends is not. *)
Drops(t) ==
    /\ tabs[t].status = "connected" /\ Trouble
    /\ \/ tabs' = [tabs EXCEPT ![t] = Offline(tabs[t])]
       \/ tabs' = [tabs EXCEPT ![t] = Kicked(tabs[t])]
    /\ UNCHANGED <<board, copies, index, token, edits, promised, misled>>

Rejoins(t) ==
    /\ tabs[t].rejoin /\ tabs' = [tabs EXCEPT ![t].rejoin = FALSE, ![t].active = TRUE]
    /\ UNCHANGED <<board, copies, index, token, edits, promised, misled, spent>>

---------------------------------------------------------------------------
(* The board, and the creator token. *)

(* Answers that, landing later, forget by the id. *)
Unsettled(t) == tabs[t].answer \in {"none", "expired"} \/ tabs[t].asking # NoAsk

(* No tab is on the board before (BoardReuse's), or about to be. *)
BoardIsMade(here, guest) ==
    /\ board.state = "none" /\ board.made < MaxMade
    /\ \A u \in Tabs : tabs[u].page # "ready" /\ tabs[u].answer # "live"
    /\ LateAnswers \/ \A u \in Tabs : ~Unsettled(u)
    /\ board' = [made |-> board.made + 1, state |-> "live", claimed |-> ~guest, content |-> {},
                 here |-> here, revived |-> FALSE]

(* The page of a missing board creates it at the same address.  A guest is  *)
(* given the token.                                                         *)
CreateHere(t) ==
    /\ tabs[t].page = "missing"
    /\ \E guest \in BOOLEAN : BoardIsMade(TRUE, guest) /\ token' = IF guest THEN board.made + 1 ELSE token
    /\ tabs' = [tabs EXCEPT ![t] = Bare(@, "loading")]
    /\ UNCHANGED <<copies, index, edits, promised, misled, spent>>

CreatedElsewhere ==
    /\ BoardIsMade(FALSE, TRUE)
    /\ UNCHANGED <<copies, index, token, tabs, edits, promised, misled, spent>>

Expires ==
    /\ board.state = "live" /\ ~board.claimed /\ board' = [board EXCEPT !.state = "expired"]
    /\ UNCHANGED <<copies, index, token, tabs, edits, promised, misled, spent>>

(* Swept, or deleted by its owner: whoever is connected is put out. *)
Gone ==
    /\ board.state = "expired" \/ (board.state = "live" /\ board.claimed)
    /\ board' = [board EXCEPT !.state = "none", !.content = {}]
    /\ tabs' = [t \in Tabs |-> IF tabs[t].status = "connected" THEN Kicked(tabs[t]) ELSE tabs[t]]
    /\ UNCHANGED <<copies, index, token, edits, promised, misled, spent>>

(* The chip's Extend, or a claim on the way back from signing in, which     *)
(* does not wait for the board (bound: one call of a tab is out at a time). *)
Asks(t) ==
    /\ tabs[t].asking = NoAsk /\ token # 0 /\ Spend
    /\ \E kind \in {"extend", "claim"} :
          /\ tabs[t].page = "ready" \/ (kind = "claim" /\ tabs[t].page # "closed")
          /\ tabs' = [tabs EXCEPT ![t].asking =
                         [kind |-> kind, token |-> token, answer |-> "out", on |-> (kind = "claim")]]
    /\ UNCHANGED <<board, copies, index, token, edits, promised, misled>>

Accepts(t) == board.state # "none" /\ board.here /\ ~board.claimed /\ board.made = tabs[t].asking.token

(* The server's part: extendBoard, claimBoard. *)
Renewed(kind) == [board EXCEPT !.claimed = (kind = "claim"), !.state = "live",
                               !.revived = (@ \/ board.state = "expired")]
Answered(tab, said) == [tab EXCEPT !.asking.answer = said]

AskServed(t) ==
    /\ tabs[t].asking.kind # "none" /\ tabs[t].asking.answer = "out"
    /\ \/ /\ Accepts(t) /\ tabs' = [tabs EXCEPT ![t] = Answered(@, "yes")]
          /\ board' = Renewed(tabs[t].asking.kind)
       \/ ~Accepts(t) /\ tabs' = [tabs EXCEPT ![t] = Answered(@, "no")] /\ UNCHANGED board
    /\ UNCHANGED <<copies, index, token, edits, promised, misled, spent>>

(* The page that claimed, if it is still on, loads the board again. *)
Claimed(t) ==
    /\ tabs[t].asking.kind = "claim" /\ tabs[t].asking.answer = "yes"
    /\ token' = 0
    /\ tabs' = [tabs EXCEPT ![t] = IF @.asking.on THEN [ClosedTab EXCEPT !.page = "loading"]
                                                  ELSE [@ EXCEPT !.asking = NoAsk]]
    /\ UNCHANGED <<board, copies, index, edits, promised, misled, spent>>

Extended(t) ==
    /\ tabs[t].asking.kind = "extend" /\ tabs[t].asking.answer = "yes"
    /\ tabs' = [tabs EXCEPT ![t].asking = NoAsk]
    /\ UNCHANGED <<board, copies, index, token, edits, promised, misled, spent>>

\* Mutant: any refusal forgets the token.
Forgotten(kept) == 0

(* 403: "this token is worthless", and what the id has is forgotten.        *)
(* Anything else leaves it.                                                 *)
Unless403(kept) == kept

Forbidden(t) ==
    /\ tabs[t].asking.answer = "no"
    /\ token' = 0 /\ tabs' = [tabs EXCEPT ![t].asking = NoAsk]
    /\ UNCHANGED <<board, copies, index, edits, promised, misled, spent>>

AskFails(t) ==
    /\ tabs[t].asking # NoAsk /\ Trouble
    /\ token' = Unless403(token) /\ tabs' = [tabs EXCEPT ![t].asking = NoAsk]
    /\ UNCHANGED <<board, copies, index, edits, promised, misled>>

---------------------------------------------------------------------------
PageInit ==
    /\ board = [made |-> 0, state |-> "none", claimed |-> FALSE, content |-> {}, here |-> FALSE, revived |-> FALSE]
    /\ copies = [n \in Made |-> {}]
    /\ index = [n \in Made |-> [kept |-> FALSE, unsynced |-> FALSE, old |-> FALSE]]
    /\ token = 0 /\ tabs = [t \in Tabs |-> ClosedTab]
    /\ edits = 0 /\ promised = {} /\ misled = FALSE /\ spent = 0

Page(t)    == \/ OpenPage(t) \/ Fetched(t) \/ FetchReady(t) \/ FetchGone(t) \/ FetchFails(t)
              \/ Leave(t) \/ CreateHere(t)
Session(t) == \/ Provides(t) \/ CannotKeep(t) \/ Loads(t) \/ Draw(t) \/ Connects(t) \/ Refused(t)
              \/ HandshakeFails(t) \/ Synced(t) \/ Drops(t) \/ Rejoins(t)
Owner(t)   == Asks(t) \/ AskServed(t) \/ Claimed(t) \/ Extended(t) \/ Forbidden(t) \/ AskFails(t)

PageNext == \/ \E t \in Tabs : Page(t) \/ Session(t) \/ Owner(t)
        \/ Month \/ OpenElsewhere \/ CreatedElsewhere \/ Expires \/ Gone

PageSpec == PageInit /\ [][PageNext]_pageVars

---------------------------------------------------------------------------
(* What must hold. *)

(* Every variable has its type; an entry of the index that is not kept says *)
(* nothing; a synced tab is connected.                                      *)
PageTypeOK ==
    /\ board.state \in {"none", "live", "expired"} /\ board.made \in 0..MaxMade /\ token \in 0..MaxMade
    /\ copies \in [Made -> SUBSET Edits] /\ \A n \in Made : index[n].kept \/ index[n] = NoEntry
    /\ \A t \in Tabs :
          /\ tabs[t].page \in {"closed", "loading", "ready", "missing", "expired", "unreachable"}
          /\ tabs[t].copy \in {"none", "probing", "opening", "loaded", "cut"}
          /\ tabs[t].answer = "out" \/ tabs[t].page = "loading"
          /\ tabs[t].doc \subseteq Edits /\ tabs[t].synced => tabs[t].status = "connected"
          /\ tabs[t].page = "ready" <=> tabs[t].status # "none"

(* "Yjs would merge a stored copy of the old board into the new one, for    *)
(* everybody on it" (local-copy): a board holds only what was drawn on it.  *)
OldCopyStaysOut == \A e \in board.content : e.made = board.made

(* "Left there, the bar would say Reconnecting... for ever to a client that  *)
(* had stopped trying" (board-session): while it says so, someone tries.    *)
ReconnectingIsTrying ==
    \A t \in Tabs : tabs[t].status \in {"connecting", "reconnecting"} => tabs[t].active \/ tabs[t].rejoin

(* "Only called saved where it is" (ConnectionBar): while the bar says so,   *)
(* all the tab has is in a copy the next visit will open.  (Not for a board  *)
(* that came back from its expiry: a tab that met it then dropped the copy.) *)
SavedIsSaved ==
    \A t \in Tabs :
        /\ tabs[t].status = "reconnecting" /\ tabs[t].saved
        /\ board.state = "live" /\ board.made = tabs[t].made /\ ~board.revived
        => tabs[t].doc \subseteq copies[Name(tabs[t].made)]

(* "One that does is the only place that work exists, so it is never         *)
(* deleted for its age" (setUnsynced): what was drawn under that promise is  *)
(* on the server or in the copy while the board lives, months later too -    *)
(* unless a sync cleared the mark over work it did not send (misled).        *)
KeptWork == \A e \in promised : e.made = board.made => e \in board.content \cup copies[Name(e.made)]
PromisedWorkIsKept == board.state = "live" /\ ~board.revived /\ ~misled => KeptWork

(* The creator token is "the sole handle for extending or claiming": this    *)
(* browser keeps the one of a guest board it made until the board is claimed *)
(* or has expired under a page that saw it.                                  *)
TokenIsKept ==
    board.state = "live" /\ board.here /\ ~board.claimed /\ ~board.revived => token = board.made

(* What the page tells its visitor about their work is true: it is trying   *)
(* while it says so, and what it calls saved or promised to keep is there.  *)
WorkIsKept == PageTypeOK /\ ReconnectingIsTrying /\ SavedIsSaved /\ PromisedWorkIsKept

---------------------------------------------------------------------------
(* Claims of the code's comments that the runs refute. *)

(* The promise above: a sync that ends before the copy has been read, or in  *)
(* a second tab, clears the mark over work the server still lacks.           *)
NeverDeletedForAge == board.state = "live" /\ ~board.revived => KeptWork

(* "An expired board's token can't buy anything" (BoardClient): it still     *)
(* extends the board until the sweep.                                        *)
ExpiredTokensAreDead == ~board.revived
=============================================================================
