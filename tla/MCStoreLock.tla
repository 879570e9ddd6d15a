---------------------------- MODULE MCStoreLock ----------------------------
(* Instances of StoreLock for TLC.  The appends are interchangeable, and   *)
(* so are the recovers and the inodes.                                     *)
EXTENDS StoreLock, TLC

Symmetry == Permutations(Clients \ Recovers) \union Permutations(Recovers)
                \union Permutations(Inodes)
=============================================================================
