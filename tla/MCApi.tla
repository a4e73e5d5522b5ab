------------------------------- MODULE MCApi -------------------------------
(* Instances of Api for TLC.                                                *)
EXTENDS Api, TLC

Symmetry == Permutations(Requests) \cup Permutations(Users) \cup Permutations(Cols)
              \cup Permutations(Media) \cup Permutations(Names)
=============================================================================
