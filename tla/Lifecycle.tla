------------------------------ MODULE Lifecycle ------------------------------
(***************************************************************************)
(* The life of the process (cmd/groxy/main.go): the goroutine that awaits  *)
(* a signal, and the three of run's errgroup: the discovery service, the   *)
(* server (Listen, pkg/proxy/proxy.go) and the closer, which waits for the *)
(* context to be done and stops the server gracefully.  The discovery      *)
(* service is taken as what RouteTable promises; its return closes the     *)
(* upstreams of the table, while calls forwarded to them may be running.   *)
(***************************************************************************)
EXTENDS FiniteSets

CONSTANTS
  Conn,        \* connections to upstreams, each dialed once
  Local,       \* where a call is answered that is not forwarded
  Call,
  StopOnError  \* the configuration comes from stdin

ASSUME LifecycleAssumption ==
  /\ Local \notin Conn
  /\ StopOnError \in BOOLEAN

VARIABLES
  proc,      \* "running", "exited" (main returned), "killed" or "crashed"
  sig,       \* the signal goroutine: "starting", "ready" or "caught"
  cause,     \* what has made the group's context done first, or "none"
  groupErr,  \* the error the group keeps, or "none"
  disc,      \* Service.Run: "running", "closing", "failing" (closing, with an
             \* error to return) or "done"
  srv,       \* Listen: "init", "made" (s.grpc is assigned), "bound", "serving",
             \* or how it returned: "failed", "broken" (Accept failed), "ok"
  closer,    \* "waiting", "draining", "refusing" (no call can begin) or "done"
  table,     \* the connections the rules in use name
  up,        \* connections dialed and not closed
  retired,   \* connections closed
  call,      \* each call: "new", "going", "ended" or "cut"
  on         \* the connection it was forwarded to

discVars == << disc, table, up, retired >>
callVars == << call, on >>
vars == << proc, sig, cause, groupErr, srv, closer, discVars, callVars >>

Init ==
  /\ proc = "running" /\ sig = "starting"
  /\ cause = "none" /\ groupErr = "none"
  /\ disc = "running" /\ srv = "init" /\ closer = "waiting"
  /\ table = {} /\ up = {} /\ retired = {}
  /\ call = [c \in Call |-> "new"] /\ on = [c \in Call |-> Local]

Running == proc = "running"
Done == cause # "none"   \* the group's context is done

First(old, e) == IF old = "none" THEN e ELSE old

\* Mutant: an error does not cancel the group's context.
FailUncanceled(e) == groupErr' = First(groupErr, e) /\ cause' = cause

(* A goroutine of the group returns an error. *)
Fail(e) == groupErr' = First(groupErr, e) /\ cause' = First(cause, e)

-----------------------------------------------------------------------------
(* The signal.  Until signal.Notify it kills the process; later ones than    *)
(* the first are not looked at.                                              *)

Killed ==
  /\ Running /\ sig = "starting"
  /\ proc' = "killed"
  /\ UNCHANGED << sig, cause, groupErr, srv, closer, discVars, callVars >>

Notify ==
  /\ Running /\ sig = "starting"
  /\ sig' = "ready"
  /\ UNCHANGED << proc, cause, groupErr, srv, closer, discVars, callVars >>

Caught ==
  /\ Running /\ sig = "ready"
  /\ sig' = "caught"
  /\ cause' = First(cause, "signal")
  /\ UNCHANGED << proc, groupErr, srv, closer, discVars, callVars >>

-----------------------------------------------------------------------------
(* The discovery service.                                                    *)

Dial ==
  /\ Running /\ disc = "running"
  /\ \E D \in SUBSET (Conn \ (up \union retired)) : up' = up \union D
  /\ UNCHANGED << proc, sig, cause, groupErr, srv, closer, disc, table, retired, callVars >>

Install ==
  /\ Running /\ disc = "running"
  /\ table' \in SUBSET up
  /\ UNCHANGED << proc, sig, cause, groupErr, srv, closer, disc, up, retired, callVars >>

\* Mutant: connections are closed before the table that drops them is installed.
RetirableEarly == up

(* A reload closes what the table has dropped; the return of Run, the rest. *)
Retirable == IF disc = "running" THEN up \ table ELSE up \intersect table

Retire ==
  /\ Running
  /\ \E u \in Retirable : up' = up \ {u} /\ retired' = retired \union {u}
  /\ UNCHANGED << proc, sig, cause, groupErr, srv, closer, disc, table, callVars >>

(* Run sees its context done, or a load fails and StopOnError is set. *)
DiscoveryEnds ==
  /\ Running /\ disc = "running"
  /\ \/ Done /\ disc' = "closing"
     \/ StopOnError /\ disc' = "failing"
  /\ UNCHANGED << proc, sig, cause, groupErr, srv, closer, table, up, retired, callVars >>

\* Mutant: the error of Run is taken for the context's.
DiscoveryReturnsQuietly ==
  /\ Running /\ disc \in {"closing", "failing"} /\ up \intersect table = {}
  /\ disc' = "done"
  /\ cause' = First(cause, "discovery") /\ UNCHANGED groupErr
  /\ UNCHANGED << proc, sig, srv, closer, table, up, retired, callVars >>

(* The deferred closeUpstreams is through: the group learns of the error     *)
(* only now, and that the context was done is none.                          *)
DiscoveryReturns ==
  /\ Running /\ disc \in {"closing", "failing"} /\ up \intersect table = {}
  /\ disc' = "done"
  /\ IF disc = "failing" THEN Fail("discovery") ELSE UNCHANGED << cause, groupErr >>
  /\ UNCHANGED << proc, sig, srv, closer, table, up, retired, callVars >>

-----------------------------------------------------------------------------
(* Listen.                                                                   *)

MakeServer ==
  /\ Running /\ srv = "init"
  /\ srv' = "made"
  /\ UNCHANGED << proc, sig, cause, groupErr, closer, discVars, callVars >>

Bind ==
  /\ Running /\ srv = "made"
  /\ \/ srv' = "bound" /\ UNCHANGED << cause, groupErr >>
     \/ srv' = "failed" /\ Fail("listener")
  /\ UNCHANGED << proc, sig, closer, discVars, callVars >>

(* Serve refuses a server that was stopped before. *)
Serve ==
  /\ Running /\ srv = "bound"
  /\ IF closer = "waiting" THEN srv' = "serving" /\ UNCHANGED << cause, groupErr >>
     ELSE srv' = "failed" /\ Fail("serve")
  /\ UNCHANGED << proc, sig, closer, discVars, callVars >>

(* Accept fails for good; the connections it made live on. *)
Break ==
  /\ Running /\ srv = "serving" /\ closer = "waiting"
  /\ srv' = "broken" /\ Fail("serve")
  /\ UNCHANGED << proc, sig, closer, discVars, callVars >>

(* Serve waits for the graceful stop that closed its listener. *)
ServeReturns ==
  /\ Running /\ srv = "serving" /\ closer = "done"
  /\ srv' = "ok"
  /\ UNCHANGED << proc, sig, cause, groupErr, closer, discVars, callVars >>

-----------------------------------------------------------------------------
(* The closer: GracefulStop closes the listeners, tells the clients, waits   *)
(* until they have acknowledged it and every call has ended.                 *)

\* Mutant: only a signal closes the server.
CloseOnSignal ==
  /\ Running /\ sig = "caught" /\ closer = "waiting"
  /\ IF srv = "init" THEN proc' = "crashed" /\ UNCHANGED closer
     ELSE closer' = "draining" /\ UNCHANGED proc
  /\ UNCHANGED << sig, cause, groupErr, srv, discVars, callVars >>

(* Before Listen has assigned s.grpc, Close dereferences nil. *)
Close ==
  /\ Running /\ Done /\ closer = "waiting"
  /\ IF srv = "init" THEN proc' = "crashed" /\ UNCHANGED closer
     ELSE closer' = "draining" /\ UNCHANGED proc
  /\ UNCHANGED << sig, cause, groupErr, srv, discVars, callVars >>

Acknowledged ==
  /\ Running /\ closer = "draining"
  /\ closer' = "refusing"
  /\ UNCHANGED << proc, sig, cause, groupErr, srv, discVars, callVars >>

\* Mutant: Stop instead of GracefulStop.
DrainedAtOnce ==
  /\ Running /\ closer = "refusing"
  /\ closer' = "done"
  /\ UNCHANGED << proc, sig, cause, groupErr, srv, discVars, callVars >>

Drained ==
  /\ Running /\ closer = "refusing"
  /\ \A c \in Call : call[c] # "going"
  /\ closer' = "done"
  /\ UNCHANGED << proc, sig, cause, groupErr, srv, discVars, callVars >>

(* ewg.Wait and main return. *)
Exit ==
  /\ Running
  /\ disc = "done" /\ srv \in {"failed", "broken", "ok"} /\ closer = "done"
  /\ proc' = "exited"
  /\ UNCHANGED << sig, cause, groupErr, srv, closer, discVars, callVars >>

-----------------------------------------------------------------------------
(* Calls.                                                                    *)

(* A call begins, also on a connection whose client does not know yet that   *)
(* the server is stopping.                                                   *)
Begin(c) ==
  /\ Running /\ call[c] = "new"
  /\ srv \in {"serving", "broken"} /\ closer \in {"waiting", "draining"}
  /\ call' = [call EXCEPT ![c] = "going"]
  /\ \E u \in table \union {Local} : on' = [on EXCEPT ![c] = u]
  /\ UNCHANGED << proc, sig, cause, groupErr, srv, closer, discVars >>

(* It ends as its client and upstream want, or because its connection was    *)
(* closed.                                                                   *)
End(c) ==
  /\ Running /\ call[c] = "going"
  /\ call' = [call EXCEPT ![c] = IF on[c] \in retired THEN "cut" ELSE "ended"]
  /\ UNCHANGED << proc, sig, cause, groupErr, srv, closer, discVars, on >>

Reload == Dial \/ Install \/ Retire

(* What the program does to end, once it is to end. *)
Wind ==
  \/ MakeServer \/ Bind \/ Serve \/ ServeReturns
  \/ (Done /\ DiscoveryEnds) \/ (disc # "running" /\ Retire) \/ DiscoveryReturns
  \/ Close \/ Acknowledged \/ Drained \/ Exit

Next ==
  \/ Killed \/ Notify \/ Caught
  \/ Reload \/ DiscoveryEnds \/ DiscoveryReturns
  \/ MakeServer \/ Bind \/ Serve \/ Break \/ ServeReturns
  \/ Close \/ Acknowledged \/ Drained \/ Exit
  \/ \E c \in Call : Begin(c) \/ End(c)

Spec == Init /\ [][Next]_vars
FairSpec == Spec /\ WF_vars(Wind)

-----------------------------------------------------------------------------
(* The types, and that an error of the group has cancelled its context. *)
TypeOK ==
  /\ proc \in {"running", "exited", "killed", "crashed"}
  /\ sig \in {"starting", "ready", "caught"}
  /\ cause \in {"none", "signal", "discovery", "listener", "serve"}
  /\ groupErr \in {"none", "discovery", "listener", "serve"}
  /\ disc \in {"running", "closing", "failing", "done"}
  /\ srv \in {"init", "made", "bound", "serving", "failed", "broken", "ok"}
  /\ closer \in {"waiting", "draining", "refusing", "done"}
  /\ table \subseteq Conn /\ up \subseteq Conn /\ retired \subseteq Conn
  /\ call \in [Call -> {"new", "going", "ended", "cut"}]
  /\ on \in [Call -> Conn \union {Local}]
  /\ groupErr # "none" => Done

(* When main returns no call is in progress, and the only crash there is,    *)
(* that of Close before Listen has assigned s.grpc (proxy.go:110), comes     *)
(* before any call.                                                          *)
StopsLoseNoCall ==
  proc \in {"exited", "crashed"} => \A c \in Call : call[c] # "going"

(* The graceful stop does not protect a call from the discovery service: its *)
(* connection is closed under it (main.go:115, service.go:33).  But nothing  *)
(* else is: a call is cut only if a table that was installed has dropped its *)
(* connection, or Run is returning.                                          *)
CutOnlyByRetirement ==
  \A c \in Call : call[c] = "cut" => on[c] \notin table \/ disc # "running"

(* A stop nobody asked for is reported: main returns without an error only   *)
(* after a signal, and if the server has served until it was stopped.        *)
ErrorReported ==
  proc = "exited" /\ groupErr = "none" => cause = "signal" /\ srv = "ok"

(* Once the context is done the process ends, if every call does, whatever   *)
(* was going on: a load, Listen on its way to Serve, a broken listener.  No  *)
(* second signal, and no timeout, ends a process that waits for a call.      *)
CallsEnd == \A c \in Call : []<>(call[c] # "going")
Ends == CallsEnd => (Done ~> ~Running)
=============================================================================
