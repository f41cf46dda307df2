--------------------------- MODULE MCReflectFilter ---------------------------
(* A small instance of ReflectFilter: the upstream that does not serve       *)
(* reflection is the first of the list.                                      *)
EXTENDS ReflectFilter

CONSTANTS a, b, d, s1, s2

FirstOff == << d, a, b >>
=============================================================================
