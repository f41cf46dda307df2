----------------------------- MODULE MCFileWatch -----------------------------
(* Small instances of FileWatch: a delay of two units, and writes that are   *)
(* at least, or less than, the delay apart.                                  *)
EXTENDS FileWatch

FarApart   == {2, 3}
InAnyOrder == {-1, 0, 1, 2}
=============================================================================
