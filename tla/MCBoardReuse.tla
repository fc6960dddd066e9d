---------------------------- MODULE MCBoardReuse ----------------------------
(* Instances of BoardReuse for TLC.                                        *)
EXTENDS BoardReuse, TLC

\* Accounts, pages and request slots are interchangeable.
Symmetry == Permutations(Users) \cup Permutations(Clients) \cup Permutations(Calls)
=============================================================================
