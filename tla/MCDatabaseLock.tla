--------------------------- MODULE MCDatabaseLock ---------------------------
(***************************************************************************)
(* DatabaseLock on small instances.                                        *)
(***************************************************************************)
EXTENDS DatabaseLock, TLC

(* Requests, and names, are interchangeable in the default backend.        *)
Symmetry == Permutations(Request) \union Permutations(Name)

=============================================================================
