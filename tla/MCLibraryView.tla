--------------------------- MODULE MCLibraryView ---------------------------
(* Instances of LibraryView for TLC.                                        *)
EXTENDS LibraryView

MCNotifiers == {"handler", "worker"}
=============================================================================
