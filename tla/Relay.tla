-------------------------------- MODULE Relay --------------------------------
(***************************************************************************)
(* What forwarding a call promises: the messages of either side reach the  *)
(* other one in order, none twice and none skipped, and the client is told *)
(* of success only after it was given every message of the upstream.       *)
(*                                                                         *)
(* Forward implements this specification.                                  *)
(***************************************************************************)
EXTENDS Naturals, Sequences

CONSTANT Message

VARIABLES
  offered,    \* the messages of the client
  answered,   \* the messages of the upstream
  upGot,      \* those the upstream was given
  clientGot,  \* those the client was given
  outcome     \* "none", "ok" or "failed"

vars == << offered, answered, upGot, clientGot, outcome >>

Init ==
  /\ offered = << >>
  /\ answered = << >>
  /\ upGot = << >>
  /\ clientGot = << >>
  /\ outcome = "none"

Offer ==
  /\ \E m \in Message : offered' = Append(offered, m)
  /\ UNCHANGED << answered, upGot, clientGot, outcome >>

Answer ==
  /\ outcome # "ok"
  /\ \E m \in Message : answered' = Append(answered, m)
  /\ UNCHANGED << offered, upGot, clientGot, outcome >>

DeliverUp ==
  /\ outcome = "none"
  /\ Len(upGot) < Len(offered)
  /\ upGot' = Append(upGot, offered[Len(upGot) + 1])
  /\ UNCHANGED << offered, answered, clientGot, outcome >>

DeliverDown ==
  /\ outcome = "none"
  /\ Len(clientGot) < Len(answered)
  /\ clientGot' = Append(clientGot, answered[Len(clientGot) + 1])
  /\ UNCHANGED << offered, answered, upGot, outcome >>

Succeed ==
  /\ outcome = "none"
  /\ clientGot = answered
  /\ outcome' = "ok"
  /\ UNCHANGED << offered, answered, upGot, clientGot >>

Fail ==
  /\ outcome = "none"
  /\ outcome' = "failed"
  /\ UNCHANGED << offered, answered, upGot, clientGot >>

Next == Offer \/ Answer \/ DeliverUp \/ DeliverDown \/ Succeed \/ Fail

Spec == Init /\ [][Next]_vars
=============================================================================
