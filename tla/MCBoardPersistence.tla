------------------------- MODULE MCBoardPersistence -------------------------
(* Instances of BoardPersistence for TLC.                                  *)
EXTENDS BoardPersistence, TLC

\* Updates and sockets are interchangeable: sound for the safety runs.
Symmetry == Permutations(Updates) \cup Permutations(Sockets)
=============================================================================
