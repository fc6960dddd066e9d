---------------------------- MODULE ElementViews ----------------------------
(***************************************************************************)
(* React components reading the document: the list of ids, one element's   *)
(* scalars and its text (useElements.ts), in the layer, the element's view *)
(* and its editor.  The document changes between a render, the commit that *)
(* subscribes, and the next render; snapshots are cached outside of React. *)
(*                                                                         *)
(* A value is the number of the transaction that last wrote it.  An        *)
(* element's map is an instance of its own: an undone delete puts another  *)
(* one at the same id.                                                     *)
(***************************************************************************)
EXTENDS Integers, FiniteSets

CONSTANTS
    MaxDocs,     \* bound: sessions opened, a document each
    MaxMaps,     \* bound: instances of the element's map
    MaxChanges   \* bound: transactions

ViewsAssumption == {MaxDocs, MaxMaps, MaxChanges} \subseteq Nat \ {0}

VARIABLES
    y,       \* the session's document: its number, the element's map, what was written when
    maps,    \* how many maps the element has had
    changes, \* transactions
    cache,   \* the module's weak maps: the three caches and lastChangeRemote
    watched, \* the documents whose changes clear the caches
    view,    \* the components
    hand     \* history: hand[m], who wrote map m last, "before" when nobody watched

viewsVars == <<y, maps, changes, cache, watched, view, hand>>

Maps == 1..MaxMaps
Docs == 1..MaxDocs
None == [none |-> TRUE]
Null == [null |-> TRUE]
Hooks == {"ids", "element", "text"}

Empty == [n |-> 1, map |-> 0, scalars |-> [m \in Maps |-> 0], text |-> [m \in Maps |-> 0], order |-> 0]

NoView == [stage |-> "gone", on |-> 0, of |-> 0, shown |-> Null, stale |-> FALSE]

-----------------------------------------------------------------------------
(* Snapshots.                                                              *)

EmptyIds == [present |-> FALSE, at |-> 0]

\* orderedIds, readElement and toString; what is left of a removed element's
\* text is empty.
IdsNow(yd)        == [present |-> yd.map # 0, at |-> yd.order]
ElementNow(yd, c) == [of |-> yd.map, at |-> yd.scalars[yd.map], peer |-> c.remote[yd.map]]
TextNow(yd, m)    == [text |-> IF m = yd.map THEN yd.text[m] ELSE 0]

\* What getSnapshot of hook h caches when it is read with document d and the text
\* of map m: a destroyed document, or an element that is not there, is not cached.
Read(yd, c, h, d, m) ==
    CASE h = "ids" /\ d = yd.n /\ c.ids[d] = None ->
            [c EXCEPT !.ids[d] = IdsNow(yd)]
      [] h = "element" /\ d = yd.n /\ yd.map # 0 ->
            IF c.element[yd.map] = None THEN [c EXCEPT !.element[yd.map] = ElementNow(yd, c)] ELSE c
      [] h = "text" /\ m # 0 ->
            IF c.text[m] = None THEN [c EXCEPT !.text[m] = TextNow(yd, m)] ELSE c
      [] OTHER -> c

\* What it returns, once read.
Got(yd, c, h, d, m) ==
    CASE h = "ids"     -> IF d = yd.n THEN c.ids[d] ELSE EmptyIds
      [] h = "element" -> IF d = yd.n /\ yd.map # 0 THEN c.element[yd.map] ELSE Null
      [] h = "text"    -> IF m # 0 THEN c.text[m] ELSE Null

Snapshot(yd, c, h, d, m) == Got(yd, Read(yd, c, h, d, m), h, d, m)

\* watch: a hook that reads a live document has its changes clear the caches.
Watched(d) == IF d = y.n THEN watched \cup {d} ELSE watched

-----------------------------------------------------------------------------
(* Rendering.                                                              *)

\* A hook that renders again, with document d and the text of map m; it subscribes
\* anew when what it reads is another document or text.
Again(s, h, d, m) ==
    LET v == s.view[h]
        kept == v.stage = "subscribed" /\ v.on = d /\ (h = "text" => v.of = m)
    IN  [cache |-> Read(y, s.cache, h, d, m),
         view  |-> [s.view EXCEPT ![h] =
             [stage |-> IF kept THEN "subscribed" ELSE "rendered",
              on    |-> d,
              of    |-> IF kept THEN v.of ELSE m,
              shown |-> Snapshot(y, s.cache, h, d, m),
              stale |-> FALSE]]]

\* ElementView renders its editor, over the text of the map there is, when there
\* is an element.
WithElement(s, d) ==
    LET t == Again(s, "element", d, 0)
        m == IF d = y.n THEN y.map ELSE 0
    IN  IF m = 0 THEN [t EXCEPT !.view["text"] = NoView] ELSE Again(t, "text", d, m)

\* The layer renders a view for each id it shows.  Views are memoised: one that is
\* there does not render with it, unless its document is another.
WithLayer(s, d) ==
    LET t == Again(s, "ids", d, 0)
    IN  IF ~t.view["ids"].shown.present
        THEN [t EXCEPT !.view["element"] = NoView, !.view["text"] = NoView]
        ELSE IF t.view["element"].stage # "gone" /\ t.view["element"].on = d THEN t
        ELSE WithElement(t, d)

Show(s, d) ==
    /\ cache' = s.cache
    /\ view' = s.view
    /\ watched' = Watched(d)
    /\ UNCHANGED <<y, maps, changes, hand>>

Now == [cache |-> cache, view |-> view]

\* The board page renders with the session's document.
RenderPage ==
    /\ view["ids"].on # y.n
    /\ Show(WithLayer(Now, y.n), y.n)

\* A store changed, and React renders the component that reads it.
RenderAgain(h) ==
    LET v == view[h] IN
    /\ v.stage = "subscribed" /\ v.stale
    /\ Show(CASE h = "ids"     -> WithLayer(Now, v.on)
              [] h = "element" -> WithElement(Now, v.on)
              [] h = "text"    -> Again(Now, h, v.on, v.of),
            v.on)

\* A component's effects run: it subscribes, and React reads the store once more.
Subscribe(h) ==
    LET v == view[h] IN
    /\ v.stage = "rendered"
    /\ Show([cache |-> Read(y, cache, h, v.on, v.of),
             view  |-> [view EXCEPT ![h] = [v EXCEPT
                !.stage = "subscribed",
                !.of = IF h # "element" THEN v.of ELSE IF v.on = y.n THEN y.map ELSE 0,
                !.stale = Snapshot(y, cache, h, v.on, v.of) # v.shown]]],
            v.on)

-----------------------------------------------------------------------------
(* The document changes.                                                   *)

\* A transaction's changed types, once it is over: a type that was removed is not
\* among them, nor is one that is new.
Changed(what, next) ==
    {t \in {"scalars", "text"} : t \in what /\ next = y.map /\ y.map # 0}
    \cup {t \in {"order"} : t \in what}
    \cup {t \in {"elements"} : next # y.map}

Emptied(f, m, clears) == [k \in DOMAIN f |-> IF k = m /\ clears THEN None ELSE f[k]]

IdsChange(types) == types \cap {"order", "elements"} # {}

\* Mutant: what clears a cache is the subscription that reads it.
ClearedBySubscribers(c, types) ==
    LET On(h) == view[h].stage = "subscribed" IN
    [c EXCEPT !.ids = Emptied(@, y.n, IdsChange(types) /\ On("ids")),
              !.element = Emptied(@, y.map, "scalars" \in types /\ On("element")),
              !.text = Emptied(@, y.map, "text" \in types /\ On("text"))]

\* beforeObserverCalls: the caches of what changed.
Cleared(c, types) ==
    [c EXCEPT !.ids = Emptied(c.ids, y.n, IdsChange(types)),
              !.element = Emptied(c.element, y.map, "scalars" \in types),
              !.text = Emptied(c.text, y.map, "text" \in types)]

\* And who changed an element, or made it.
Flagged(c, types, next, byPeer) ==
    [c EXCEPT !.remote =
        [m \in Maps |-> IF m = next /\ types \cap {"scalars", "elements"} # {} THEN byPeer
                        ELSE c.remote[m]]]

\* Whether hook h's subscription hears of the change.
Hears(h, types) ==
    /\ view[h].stage = "subscribed" /\ view[h].on = y.n
    /\ CASE h = "ids"     -> IdsChange(types)
         [] h = "element" -> "elements" \in types \/ ("scalars" \in types /\ view[h].of = y.map)
         [] h = "text"    -> "text" \in types /\ view[h].of = y.map

\* onParentChange: the subscription follows the element to another map.
Followed(v, next) == [v EXCEPT !.of = next]

\* The observers run: React compares what it showed with what it reads now.
Told(yd, c, types) ==
    LET Reads(s, h) == IF Hears(h, types) THEN Read(yd, s, h, y.n, view[h].of) ELSE s
        read == Reads(Reads(Reads(c, "ids"), "element"), "text")
        Heard(h) ==
            LET v == IF h = "element" /\ "elements" \in types THEN Followed(view[h], yd.map)
                     ELSE view[h]
            IN  [v EXCEPT !.stale = v.stale \/ Got(yd, read, h, y.n, v.of) # v.shown]
    IN  [cache |-> read, view |-> [h \in Hooks |-> IF Hears(h, types) THEN Heard(h) ELSE view[h]]]

\* A transaction of this browser's or a peer's writes some of the element's
\* scalars, its text, the order; makes the element, removes it, or puts another in
\* its place.  Caches first, then the observers, all before anything else runs.
Transact(what, next, byPeer) ==
    LET types == Changed(what, next)
        Written(part) == [m \in Maps |-> IF m = next /\ (part \in what \/ next # y.map)
                                         THEN changes + 1 ELSE y[part][m]]
        yd == [y EXCEPT !.map = next, !.scalars = Written("scalars"), !.text = Written("text"),
                        !.order = IF "order" \in what THEN changes + 1 ELSE y.order]
        seen == y.n \in watched
        c == IF seen THEN Flagged(Cleared(cache, types), types, next, byPeer) ELSE cache
    IN  /\ changes < MaxChanges
        /\ types # {}
        /\ y' = yd
        /\ maps' = IF next > maps THEN next ELSE maps
        /\ changes' = changes + 1
        /\ cache' = Told(yd, c, types).cache
        /\ view' = Told(yd, c, types).view
        /\ hand' = [m \in Maps |->
                        IF m # next \/ types \cap {"scalars", "elements"} = {} THEN hand[m]
                        ELSE IF ~seen THEN "before" ELSE IF byPeer THEN "theirs" ELSE "ours"]
        /\ UNCHANGED watched

\* "useBoardDoc reopens the session when the display name changes": another
\* document, to be filled anew.
ReopenSession ==
    /\ y.n < MaxDocs
    /\ y' = [Empty EXCEPT !.n = y.n + 1]
    /\ UNCHANGED <<maps, changes, cache, watched, view, hand>>

-----------------------------------------------------------------------------
ViewsInit ==
    /\ y = Empty
    /\ maps = 0
    /\ changes = 0
    /\ cache = [ids |-> [d \in Docs |-> None], element |-> [m \in Maps |-> None],
                text |-> [m \in Maps |-> None], remote |-> [m \in Maps |-> FALSE]]
    /\ watched = {}
    /\ view = [h \in Hooks |-> NoView]
    /\ hand = [m \in Maps |-> "before"]

ViewsNext ==
    \/ RenderPage
    \/ \E h \in Hooks : RenderAgain(h)
    \/ \E h \in Hooks : Subscribe(h)
    \/ \E what \in SUBSET {"scalars", "text", "order"}, byPeer \in BOOLEAN :
        \/ Transact(what, y.map, byPeer)
        \/ maps < MaxMaps /\ Transact(what, maps + 1, byPeer)
        \/ y.map # 0 /\ Transact(what, 0, byPeer)
    \/ ReopenSession

ViewsSpec == ViewsInit /\ [][ViewsNext]_viewsVars

-----------------------------------------------------------------------------
(* Properties.                                                             *)

ViewsTyped ==
    /\ y.n \in Docs /\ y.map \in 0..maps /\ maps \in 0..MaxMaps
    /\ changes \in 0..MaxChanges
    /\ watched \subseteq Docs
    /\ cache.remote \in [Maps -> BOOLEAN]
    /\ \A h \in Hooks :
        /\ view[h].stage \in {"gone", "rendered", "subscribed"}
        /\ view[h].on \in 0..y.n /\ view[h].of \in 0..MaxMaps
    /\ view["text"].stage # "gone" => view["element"].stage # "gone"
    /\ view["element"].stage # "gone" => view["ids"].stage # "gone"

\* Nothing is about to render or subscribe.
Quiet ==
    /\ view["ids"].on = y.n
    /\ \A h \in Hooks : view[h].stage # "rendered" /\ ~view[h].stale

\* What is on the screen is what is in the document: the ids, the scalars of the
\* instance that is there and its text, whatever was written between a
\* component's render and its subscription, by an editor as it opens or by a peer,
\* and whichever map an undo put in the place of another (useElements.ts:13-23,
\* 143-145).
QuietViewsAreFresh ==
    Quiet =>
        /\ view["ids"].shown = IdsNow(y)
        /\ y.map # 0 =>
            /\ view["element"].shown.of = y.map
            /\ view["element"].shown.at = y.scalars[y.map]
            /\ view["text"].of = y.map
            /\ view["text"].shown = TextNow(y, y.map)
        /\ y.map = 0 => view["element"].stage = "gone" /\ view["text"].stage = "gone"

\* Only a peer's change eases in: the flag of the snapshot shown is that of the
\* last transaction that wrote the element's fields, also when that made the
\* element anew ("Our own changes never ease", useShownElement.ts:12-13).
OnlyPeersEase ==
    (Quiet /\ y.map # 0) => (view["element"].shown.peer <=> hand[y.map] = "theirs")

\* A screen at rest: what it shows, and that it shows it without a peer's ease.
ScreenIsFresh == ViewsTyped /\ QuietViewsAreFresh /\ OnlyPeersEase
=============================================================================
