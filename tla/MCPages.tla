------------------------------ MODULE MCPages -------------------------------
(* The pages on small instances: the board's page, and Account, MyBoards   *)
(* and BoardHeader, which share no state with it.  A behaviour is one of   *)
(* the one or the others: what `part` says.                                *)
EXTENDS BoardPage, BoardHeader, TLC

VARIABLE part

\* People and tabs are interchangeable (as boards and codes are, but sorting
\* states by those takes longer than it saves).
Symmetry == Permutations(People) \cup Permutations(Tabs)
-----------------------------------------------------------------------------
\* Where the others stay meanwhile: nobody is signed in and nobody owns a board.
Aside ==
    /\ page = "boards" /\ cookie = NoOne /\ guest = "none"
    /\ owner = [i \in Ids |-> NoOne]
    /\ title[Guest] = CHOOSE t \in Titles : TRUE

PagesInit ==
    /\ part \in {"board", "others"}
    /\ PageInit /\ Init
    /\ part = "board" => Aside

PagesNext ==
    /\ UNCHANGED part
    /\ \/ part = "board" /\ PageNext /\ UNCHANGED vars
       \/ part = "others" /\ Next /\ UNCHANGED pageVars

PagesSpec == PagesInit /\ [][PagesNext]_<<part, pageVars, vars>>
=============================================================================
