---------------------------- MODULE DurableBoard ----------------------------
(***************************************************************************)
(* What the server promises about the work on one board, without caches,   *)
(* logs or queues (docs/ARCHITECTURE.md, "Persistence"): a store, part of  *)
(* which is sure, and at most one open copy, which opens as the store and  *)
(* stays ahead of it.                                                      *)
(***************************************************************************)
CONSTANT Updates

VARIABLES
    stored,   \* what opening the board would find
    sure,     \* the part of it that storage has acknowledged
    open,     \* whether a copy is in memory
    live      \* the copy's content

abstractVars == <<stored, sure, open, live>>

Init ==
    /\ stored = {}
    /\ sure = {}
    /\ open = FALSE
    /\ live = {}

\* The copy holds the whole store, and having been read, the store is sure.
Open ==
    /\ ~open
    /\ open' = TRUE
    /\ live' = stored
    /\ sure' = stored
    /\ UNCHANGED stored

\* An update enters the copy, and the store now or later.
Accept(u) ==
    /\ open
    /\ u \notin live
    /\ live' = live \cup {u}
    /\ stored' \in {stored, stored \cup {u}}
    /\ UNCHANGED <<sure, open>>

\* The store takes more of the copy, and acknowledges more of what it has.
Store ==
    /\ stored \subseteq stored'
    /\ stored' \subseteq stored \cup live
    /\ sure \subseteq sure'
    /\ sure' \subseteq stored'
    /\ UNCHANGED <<open, live>>

\* The store loses what it never acknowledged.
Forget ==
    /\ stored' \subseteq stored
    /\ sure \subseteq stored'
    /\ UNCHANGED <<sure, open, live>>

\* The copy is given up, or dies with the process in the middle of a Store or
\* a Forget.
Close ==
    /\ open' = FALSE
    /\ live' = {}
    /\ sure \subseteq sure'
    /\ sure' \subseteq stored'
    /\ stored' \subseteq stored \cup live

Next ==
    \/ Open \/ Store \/ Forget \/ Close
    \/ \E u \in Updates : Accept(u)

Spec == Init /\ [][Next]_abstractVars
=============================================================================
