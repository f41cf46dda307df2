---------------------------- MODULE ReflectFilter ----------------------------
(***************************************************************************)
(* How a reflection stream picks its upstreams                             *)
(* (pkg/proxy/middleware/reflection.go 57-101).                            *)
(*                                                                         *)
(* Service.Upstreams returns the service's own slice, and the loop that    *)
(* drops the upstreams without reflection appends in place: it moves the   *)
(* elements of the array that the service, and every other stream that     *)
(* filters at the time, reads.  No lock is held; an element is moved at a  *)
(* time.                                                                   *)
(***************************************************************************)
EXTENDS Integers, Sequences, Functions

CONSTANTS
  Published,  \* Service.upstreams: connections, in the order of their names
  Enabled,    \* those that serve reflection
  Stream      \* reflection streams

VARIABLES
  slots,   \* the array behind Service.upstreams
  pc,      \* a stream: "new", "check", "move", "open", "serving" or "panic"
  idx,     \* its place in the loop
  to,      \* the element its append writes next
  len,     \* the length of its `upstreams`
  opened   \* the connections it has opened a stream on

vars == << slots, pc, idx, to, len, opened >>

Init ==
  /\ slots = Published
  /\ pc = [s \in Stream |-> "new"]
  /\ idx = [s \in Stream |-> 1]
  /\ to = [s \in Stream |-> 1]
  /\ len = [s \in Stream |-> Len(Published)]
  /\ opened = [s \in Stream |-> << >>]

Goto(s, at) == pc' = [pc EXCEPT ![s] = at]

(* The slice is taken; `range` goes over all of it, whatever is cut off it. *)
Take(s) ==
  /\ pc[s] = "new"
  /\ Goto(s, "check")
  /\ UNCHANGED << slots, idx, to, len, opened >>

Looping(s) == pc[s] = "check" /\ idx[s] <= Len(Published)

Keep(s) ==
  /\ Looping(s)
  /\ slots[idx[s]] \in Enabled
  /\ idx' = [idx EXCEPT ![s] = @ + 1]
  /\ UNCHANGED << slots, pc, to, len, opened >>

(* upstreams[idx+1:] of a slice that has become shorter is out of range. *)
Drop(s) ==
  /\ Looping(s)
  /\ slots[idx[s]] \notin Enabled
  /\ Goto(s, IF idx[s] <= len[s] THEN "move" ELSE "panic")
  /\ to' = [to EXCEPT ![s] = idx[s]]
  /\ UNCHANGED << slots, idx, len, opened >>

(* append copies the rest one place down. *)
Move(s) ==
  /\ pc[s] = "move"
  /\ IF to[s] < len[s]
     THEN /\ slots' = [slots EXCEPT ![to[s]] = slots[to[s] + 1]]
          /\ to' = [to EXCEPT ![s] = @ + 1]
          /\ UNCHANGED << pc, idx, len >>
     ELSE /\ len' = [len EXCEPT ![s] = @ - 1]
          /\ idx' = [idx EXCEPT ![s] = @ + 1]
          /\ Goto(s, "check")
          /\ UNCHANGED << slots, to >>
  /\ UNCHANGED opened

Filtered(s) ==
  /\ pc[s] = "check"
  /\ idx[s] > Len(Published)
  /\ Goto(s, "open")
  /\ UNCHANGED << slots, idx, to, len, opened >>

(* A reflection stream is opened on each connection left. *)
OpenNext(s) ==
  /\ pc[s] = "open"
  /\ Len(opened[s]) < len[s]
  /\ opened' = [opened EXCEPT ![s] = Append(@, slots[Len(@) + 1])]
  /\ UNCHANGED << slots, pc, idx, to, len >>

Opened(s) ==
  /\ pc[s] = "open"
  /\ Len(opened[s]) = len[s]
  /\ Goto(s, "serving")
  /\ UNCHANGED << slots, idx, to, len, opened >>

Next ==
  \E s \in Stream :
    Take(s) \/ Keep(s) \/ Drop(s) \/ Move(s) \/ Filtered(s) \/ OpenNext(s) \/ Opened(s)

Spec == Init /\ [][Next]_vars

-----------------------------------------------------------------------------
(* "Set the serve-reflection flag to true on the upstreams that should be    *)
(* included in the reflection responses" (README.md:184): a stream asks       *)
(* those, and no others.                                                     *)
ReflectsTheEnabled ==
  \A s \in Stream :
    pc[s] = "serving" => Range(opened[s]) = Enabled
=============================================================================
