--------------------------- MODULE LifecycleProofs ---------------------------
(***************************************************************************)
(* Safety of Lifecycle for every set of connections and calls.             *)
(***************************************************************************)
EXTENDS Lifecycle, TLAPS

(* The table is up while the service runs, and what was closed stays so. *)
TableUp ==
  /\ disc = "running" => table \subseteq up
  /\ up \intersect retired = {}

(* Calls begin once the server serves, and none is left once it has drained; *)
(* one is cut only on a connection that was closed.                          *)
CallsWithin ==
  /\ srv \in {"init", "made", "bound"} => \A c \in Call : call[c] = "new"
  /\ closer = "done" => \A c \in Call : call[c] # "going"
  /\ \A c \in Call : call[c] = "cut" => on[c] \in retired

(* What a stop has to do with its cause. *)
Causes ==
  /\ closer # "waiting" => Done
  /\ srv \in {"failed", "broken"} => groupErr # "none"
  /\ cause \notin {"none", "signal"} => groupErr # "none"
  /\ proc = "exited" => closer = "done" /\ srv \in {"failed", "broken", "ok"}
  /\ proc = "crashed" => srv = "init"

IInv == TypeOK /\ TableUp /\ CallsWithin /\ Causes

LEMMA InitIInv == Init => IInv
BY LifecycleAssumption DEF Init, IInv, TypeOK, TableUp, CallsWithin, Causes, Done

LEMMA StepIInv == IInv /\ [Next]_vars => IInv'
<1> SUFFICES ASSUME IInv, [Next]_vars PROVE IInv'
  OBVIOUS
<1> USE DEF IInv, TypeOK, TableUp, CallsWithin, Causes, Done, Running, discVars, callVars
<1>1. CASE Killed
  BY <1>1 DEF Killed
<1>2. CASE Notify
  BY <1>2 DEF Notify
<1>3. CASE Caught
  BY <1>3 DEF Caught, First
<1>4. CASE Dial
  BY <1>4 DEF Dial
<1>5. CASE Install
  BY <1>5 DEF Install
<1>6. CASE Retire
  BY <1>6 DEF Retire, Retirable
<1>7. CASE DiscoveryEnds
  BY <1>7 DEF DiscoveryEnds
<1>8. CASE DiscoveryReturns
  BY <1>8 DEF DiscoveryReturns, Fail, First
<1>9. CASE MakeServer
  BY <1>9 DEF MakeServer
<1>10. CASE Bind
  BY <1>10 DEF Bind, Fail, First
<1>11. CASE Serve
  BY <1>11 DEF Serve, Fail, First
<1>12. CASE Break
  BY <1>12 DEF Break, Fail, First
<1>13. CASE ServeReturns
  BY <1>13 DEF ServeReturns
<1>14. CASE Close
  BY <1>14 DEF Close
<1>15. CASE Acknowledged
  BY <1>15 DEF Acknowledged
<1>16. CASE Drained
  BY <1>16 DEF Drained
<1>17. CASE Exit
  BY <1>17 DEF Exit
<1>18. CASE \E c \in Call : Begin(c)
  BY <1>18, LifecycleAssumption DEF Begin
<1>19. CASE \E c \in Call : End(c)
  BY <1>19 DEF End
<1>20. CASE UNCHANGED vars
  BY <1>20 DEF vars
<1> QED
  BY <1>1, <1>2, <1>3, <1>4, <1>5, <1>6, <1>7, <1>8, <1>9, <1>10, <1>11, <1>12, <1>13,
     <1>14, <1>15, <1>16, <1>17, <1>18, <1>19, <1>20 DEF Next, Reload

(* The invariant that relates the goroutines, the connections and the calls   *)
(* holds in every reachable state (main.go:70-127, proxy.go:66-110).          *)
THEOREM InductiveInvariant == Spec => []IInv
BY InitIInv, StepIInv, PTL DEF Spec

(* Type correctness, and that an error has cancelled the group's context. *)
THEOREM TypeCorrect == Spec => []TypeOK
<1>1. IInv => TypeOK
  BY DEF IInv
<1> QED
  BY <1>1, InductiveInvariant, PTL

(* main does not return, nor does Close crash, while a call is in progress    *)
(* (main.go:121-124, proxy.go:110).                                           *)
THEOREM NoCallLostByStop == Spec => []StopsLoseNoCall
<1>1. IInv => StopsLoseNoCall
  BY DEF IInv, CallsWithin, Causes, StopsLoseNoCall
<1> QED
  BY <1>1, InductiveInvariant, PTL

(* A call is cut only if a table has dropped its connection, or the           *)
(* discovery service is returning (service.go:33, 59).                        *)
THEOREM CutByRetirementOnly == Spec => []CutOnlyByRetirement
<1>1. IInv => CutOnlyByRetirement
  BY DEF IInv, TableUp, CallsWithin, CutOnlyByRetirement
<1> QED
  BY <1>1, InductiveInvariant, PTL

(* main returns without an error only after a signal that met a server that   *)
(* was serving (main.go:68, 104-124).                                         *)
THEOREM StopsAreReported == Spec => []ErrorReported
<1>1. IInv => ErrorReported
  BY DEF IInv, TypeOK, Causes, ErrorReported, Done
<1> QED
  BY <1>1, InductiveInvariant, PTL
=============================================================================
