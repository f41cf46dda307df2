------------------------------ MODULE RouteTable ------------------------------
(***************************************************************************)
(* What the discovery service promises to the proxy: a routing table that  *)
(* is replaced as a whole, and whose forward rules only name upstream      *)
(* connections that are up, for as long as the service runs.  Connections  *)
(* that the table no longer names are retired, each once and for good.     *)
(*                                                                         *)
(* Discovery implements this specification.                                *)
(***************************************************************************)
CONSTANTS
  Table,         \* routing tables
  EmptyTable,    \* the table before the first load
  Targets(_)     \* the connections a table names

VARIABLES
  table,         \* the table requests are matched against
  up,            \* connections dialed and not closed
  retired,       \* connections closed
  running        \* the service has not begun to shut down

vars == << table, up, retired, running >>

Init ==
  /\ table = EmptyTable
  /\ up = {}
  /\ retired = {}
  /\ running = TRUE

(* New connections are brought up; none of them was retired before. *)
Dial ==
  /\ up \subseteq up'
  /\ up' \intersect retired = {}
  /\ UNCHANGED << table, retired, running >>

(* The table is replaced by one that names only connections that are up. *)
Replace ==
  /\ running
  /\ table' \in Table
  /\ Targets(table') \subseteq up
  /\ UNCHANGED << up, retired, running >>

(* A connection is retired: while running, only one the table has dropped. *)
Retire(c) ==
  /\ running => c \notin Targets(table)
  /\ up' = up \ {c}
  /\ retired' = retired \union {c}
  /\ UNCHANGED << table, running >>

Shutdown ==
  /\ running
  /\ running' = FALSE
  /\ UNCHANGED << table, up, retired >>

Next ==
  \/ Dial
  \/ Replace
  \/ \E c \in up : Retire(c)
  \/ Shutdown

Spec == Init /\ [][Next]_vars
=============================================================================
