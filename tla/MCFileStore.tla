---------------------------- MODULE MCFileStore ----------------------------
(***************************************************************************)
(* FileStore with two clients, two times, two methods and two settings.    *)
(***************************************************************************)
EXTENDS FileStore, TLC

CONSTANTS c1, c2, v1, v2

MCDefault == [f \in Fields |-> v1]

MCSymmetry == Permutations(Clients)
=============================================================================
