--------------------------- MODULE MCSessionStore ---------------------------
(* Small instances of SessionStore and of its refinement for TLC.              *)
EXTENDS SessionStoreTree

CONSTANTS p1, p2

OneProc == {p1}
TwoProcs == {p1, p2}
=============================================================================
