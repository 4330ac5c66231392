----------------------------- MODULE MCProcess -----------------------------
(***************************************************************************)
(* Instances of Process for TLC.                                           *)
(***************************************************************************)
EXTENDS Process

CONSTANTS users   \* the slots of the user processes

\* The user processes are interchangeable (safety only).
Symmetry == Permutations(users)
=============================================================================
