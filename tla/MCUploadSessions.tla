-------------------------- MODULE MCUploadSessions --------------------------
(* Instances of UploadSessions for TLC.                                     *)
EXTENDS UploadSessions, TLC

\* Handlers are interchangeable, and so are sessions: for safety only.
Symmetry == Permutations(Requests) \cup Permutations(Sessions)
=============================================================================
