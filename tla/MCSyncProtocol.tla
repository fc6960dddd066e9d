--------------------------- MODULE MCSyncProtocol ---------------------------
(* Instances of SyncProtocol for TLC.                                      *)
EXTENDS SyncProtocol, TLC

\* Clients are interchangeable: sound for the safety runs.
Symmetry == Permutations(Clients)
=============================================================================
