------------------------------ MODULE MCForward ------------------------------
(* A small instance of Forward.                                              *)
EXTENDS Forward

CONSTANTS m1

MCMsg == {m1, Empty}
=============================================================================
