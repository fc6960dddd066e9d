------------------------------ MODULE MCSignIn ------------------------------
(* Instances of SignIn for TLC.                                            *)
EXTENDS SignIn, TLC

\* Request slots and provider accounts are interchangeable.
Symmetry == Permutations(Calls) \cup Permutations(Accounts)
=============================================================================
