-------------------------- MODULE MCBoardLifecycle --------------------------
(* Instances of BoardLifecycle for TLC.                                    *)
EXTENDS BoardLifecycle, TLC

\* Accounts, pages and request slots are interchangeable: sound for the
\* safety runs.
Symmetry == Permutations(Users) \cup Permutations(Clients) \cup Permutations(Calls)
=============================================================================
