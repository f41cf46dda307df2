------------------------------- MODULE Forward -------------------------------
(***************************************************************************)
(* One forwarded call: what matchMiddleware reads ahead, forwardMiddleware *)
(* and eofStatus (pkg/proxy/proxy.go), and the two goroutines of           *)
(* grpcx.Pipe (pkg/grpcx/stream.go), between a client and an upstream that *)
(* may end the call whenever they like.                                    *)
(*                                                                         *)
(* The rule that forwards the call is already settled; `deep` says whether *)
(* it took the first message to settle it.                                 *)
(***************************************************************************)
EXTENDS Integers, Sequences

CONSTANTS
  Msg,      \* messages
  Empty,    \* the one of no bytes
  Huge,     \* one that is larger than grpc-go receives by default
  MaxMsgs   \* bound on the messages of each side

ASSUME ForwardAssumption ==
  /\ Empty \in Msg
  /\ MaxMsgs \in Nat \ {0}

VARIABLES
  deep,       \* a rule that matched the metadata has a body template
  client,     \* the client: what it has sent, and "open", "half" closed or "gone"
  up,         \* the upstream: what it has sent, and "open" or how it has ended
  taken,      \* number of the client's messages the proxy has read
  upGot,      \* the messages the upstream was given
  upHalf,     \* the upstream was told that the client has half-closed
  relayed,    \* number of the upstream's messages the proxy has read
  clientGot,  \* the messages the client was given
  pc,         \* the handler: "first", "open", "prime", "pipe", "eof" or "done"
  down, upward,  \* Pipe's goroutines: "idle", "recv", "send", "fail" or "done"
  err,        \* the first error of the two, or "none"
  refused,    \* whose message was too large: "client", "upstream"
  result      \* the status the handler returned, or "none"

vars == << deep, client, up, taken, upGot, upHalf, relayed, clientGot, pc,
           down, upward, err, refused, result >>
envVars == << deep, client, up >>
pipeVars == << down, upward, err, refused >>
dataVars == << taken, upGot, upHalf, relayed, clientGot >>

Init ==
  /\ deep \in BOOLEAN
  /\ client = [sent |-> << >>, st |-> "open"]
  /\ up = [sent |-> << >>, end |-> "open"]
  /\ taken = 0 /\ relayed = 0
  /\ upGot = << >> /\ clientGot = << >>
  /\ upHalf = FALSE
  /\ pc = IF deep THEN "first" ELSE "open"
  /\ down = "idle" /\ upward = "idle"
  /\ err = "none" /\ result = "none"
  /\ refused = {}

Gone == client.st = "gone"
Ended == up.end # "open"

(* The context of the client's stream is done: the client has gone, or       *)
(* grpc-go has refused a message of its, told it so and ended its stream.    *)
Cut == Gone \/ "client" \in refused

(* The stream to the upstream is over: the upstream has ended it, or grpc-go *)
(* has for a message of the upstream that is too large.                      *)
Over == Ended \/ "upstream" \in refused

(* grpc-go refuses a message of either side.                                 *)
Refuse(side) == refused' = refused \union {side}

-----------------------------------------------------------------------------
(* The client and the upstream.                                              *)

ClientSend(m) ==
  /\ pc # "done"
  /\ client.st = "open"
  /\ Len(client.sent) < MaxMsgs
  /\ client' = [client EXCEPT !.sent = Append(@, m)]
  /\ UNCHANGED << deep, up, dataVars, pc, pipeVars, result >>

ClientCloses(st) ==
  /\ pc # "done"
  /\ client.st = "open" \/ (client.st = "half" /\ st = "gone")
  /\ client' = [client EXCEPT !.st = st]
  /\ UNCHANGED << deep, up, dataVars, pc, pipeVars, result >>

(* The upstream answers once it has the call. *)
UpSend(m) ==
  /\ pc \in {"prime", "pipe"}
  /\ ~Ended
  /\ Len(up.sent) < MaxMsgs
  /\ up' = [up EXCEPT !.sent = Append(@, m)]
  /\ UNCHANGED << deep, client, dataVars, pc, pipeVars, result >>

(* It ends it with OK, with an error (also: its connection is closed by a    *)
(* reload, or it was told that the client has gone), or without trailers.    *)
UpEnd(end) ==
  /\ pc \in {"prime", "pipe"}
  /\ ~Ended
  /\ up' = [up EXCEPT !.end = end]
  /\ UNCHANGED << deep, client, dataVars, pc, pipeVars, result >>

-----------------------------------------------------------------------------
(* The handler, up to Pipe.                                                  *)

Return(status) ==
  /\ pc' = "done"
  /\ result' = status

(* matchMiddleware reads the first message. *)
ReadFirst ==
  /\ pc = "first"
  /\ taken < Len(client.sent)
  /\ client.sent[1] # Huge
  /\ taken' = 1
  /\ pc' = "open"
  /\ UNCHANGED << envVars, upGot, upHalf, relayed, clientGot, pipeVars, result >>

(* The status of the handler comes too late for a client whose message is    *)
(* refused.                                                                  *)
ReadFirstFails ==
  /\ pc = "first"
  /\ \/ Gone /\ UNCHANGED refused
     \/ client.sent = << >> /\ client.st = "half" /\ UNCHANGED refused
     \/ client.sent # << >> /\ client.sent[1] = Huge /\ Refuse("client")
  /\ Return("internal")
  /\ UNCHANGED << envVars, dataVars, down, upward, err >>

(* NewStream *)
Open ==
  /\ pc = "open"
  /\ pc' = "prime"
  /\ UNCHANGED << envVars, dataVars, pipeVars, result >>

OpenFails ==
  /\ pc = "open"
  /\ Return("internal")
  /\ UNCHANGED << envVars, dataVars, pipeVars >>

StartPipe ==
  /\ pc' = "pipe"
  /\ down' = "recv"
  /\ upward' = "recv"
  /\ UNCHANGED << err, refused, result >>

(* SendMsg to the upstream: delivered, or accepted and lost when its stream  *)
(* is over.                                                                  *)
Delivered(m) == upGot' = IF Over THEN upGot ELSE Append(upGot, m)

(* What was read ahead is sent first.  The codec leaves a message of no      *)
(* bytes nil, and a nil message counts as none.                              *)
Prime ==
  /\ pc = "prime"
  /\ IF deep /\ client.sent[1] # Empty THEN Delivered(client.sent[1])
                                       ELSE upGot' = upGot
  /\ StartPipe
  /\ UNCHANGED << envVars, taken, upHalf, relayed, clientGot >>

PrimeFails ==
  /\ pc = "prime"
  /\ deep /\ client.sent[1] # Empty
  /\ Over \/ Cut
  /\ Return("internal")
  /\ UNCHANGED << envVars, dataVars, pipeVars >>

-----------------------------------------------------------------------------
(* Pipe's first goroutine: from the upstream to the client.                  *)

Fail(e) == err' = IF err = "none" THEN e ELSE err

\* Mutant: the error of RecvMsg is not looked at.
DownRecvUnchecked ==
  /\ down = "recv"
  /\ relayed < Len(up.sent) \/ Ended
  /\ relayed' = relayed + 1
  /\ down' = "send"
  /\ UNCHANGED << envVars, taken, upGot, upHalf, clientGot, pc, upward, err, refused, result >>

DownRecv ==
  /\ down = "recv"
  /\ relayed < Len(up.sent)
  /\ up.sent[relayed + 1] # Huge
  /\ relayed' = relayed + 1
  /\ down' = "send"
  /\ UNCHANGED << envVars, taken, upGot, upHalf, clientGot, pc, upward, err, refused, result >>

(* A message of the upstream is too large: RecvMsg ends the stream to the    *)
(* upstream and returns ResourceExhausted.                                   *)
DownRecvFails ==
  /\ down = "recv"
  /\ relayed < Len(up.sent)
  /\ up.sent[relayed + 1] = Huge
  /\ down' = "fail"
  /\ Refuse("upstream")
  /\ UNCHANGED << envVars, dataVars, pc, upward, err, result >>

(* The other goroutine may have met the end of the stream first. *)
DownFails ==
  /\ down = "fail"
  /\ down' = "done"
  /\ Fail("toolarge")
  /\ UNCHANGED << envVars, dataVars, pc, upward, refused, result >>

DownSend ==
  /\ down = "send"
  /\ ~Cut
  /\ clientGot' = Append(clientGot, up.sent[relayed])
  /\ down' = "recv"
  /\ UNCHANGED << envVars, taken, upGot, upHalf, relayed, pc, upward, err, refused, result >>

(* Both calls fail once the context of the client's stream is done. *)
DownCanceled ==
  /\ down \in {"recv", "send"}
  /\ Cut
  /\ down' = "done"
  /\ Fail("canceled")
  /\ UNCHANGED << envVars, dataVars, pc, upward, refused, result >>

\* Mutant: after an improper close that is tolerated it goes on receiving.
DownEndGoesOn ==
  /\ down = "recv"
  /\ Ended /\ relayed = Len(up.sent)
  /\ ~(up.end = "improper" /\ relayed > 0)
  /\ down' = "done"
  /\ Fail(IF up.end = "ok" THEN "eof" ELSE up.end)
  /\ UNCHANGED << envVars, dataVars, pc, upward, refused, result >>

\* Mutant: what the upstream sent before it ended is not read.
DownEndEarly ==
  /\ down = "recv"
  /\ Ended
  /\ down' = "done"
  /\ IF up.end = "improper" /\ relayed > 0 THEN err' = err
     ELSE Fail(IF up.end = "ok" THEN "eof" ELSE up.end)
  /\ UNCHANGED << envVars, dataVars, pc, upward, refused, result >>

(* Everything the upstream has sent is read: its end is io.EOF for OK, and   *)
(* no error for an improper close after a message.                           *)
DownEnd ==
  /\ down = "recv"
  /\ Ended
  /\ relayed = Len(up.sent)
  /\ down' = "done"
  /\ IF up.end = "improper" /\ relayed > 0 THEN err' = err
     ELSE Fail(IF up.end = "ok" THEN "eof" ELSE up.end)
  /\ UNCHANGED << envVars, dataVars, pc, upward, refused, result >>

-----------------------------------------------------------------------------
(* Pipe's second goroutine: from the client to the upstream.                 *)

UpwardRecv ==
  /\ upward = "recv"
  /\ taken < Len(client.sent)
  /\ client.sent[taken + 1] # Huge
  /\ taken' = taken + 1
  /\ upward' = "send"
  /\ UNCHANGED << envVars, upGot, upHalf, relayed, clientGot, pc, down, err, refused, result >>

UpwardSend ==
  /\ upward = "send"
  /\ Delivered(client.sent[taken])
  /\ upward' = "recv"
  /\ UNCHANGED << envVars, taken, upHalf, relayed, clientGot, pc, down, err, refused, result >>

(* SendMsg returns io.EOF when the stream is over. *)
UpwardSendFails ==
  /\ upward = "send"
  /\ Over \/ Cut
  /\ upward' = "done"
  /\ Fail("eof")
  /\ UNCHANGED << envVars, dataVars, pc, down, refused, result >>

(* RecvMsg fails once the client has gone. *)
UpwardCanceled ==
  /\ upward = "recv"
  /\ Gone
  /\ upward' = "done"
  /\ Fail("canceled")
  /\ UNCHANGED << envVars, dataVars, pc, down, refused, result >>

(* A message of the client is too large: RecvMsg tells the client so and     *)
(* ends its stream, and with it the upstream's.                              *)
UpwardRecvFails ==
  /\ upward = "recv"
  /\ taken < Len(client.sent)
  /\ client.sent[taken + 1] = Huge
  /\ upward' = "fail"
  /\ Refuse("client")
  /\ UNCHANGED << envVars, dataVars, pc, down, err, result >>

UpwardFails ==
  /\ upward = "fail"
  /\ upward' = "done"
  /\ Fail("toolarge")
  /\ UNCHANGED << envVars, dataVars, pc, down, refused, result >>

\* Mutant: the half-close is passed on before the messages are.
UpwardHalfEarly ==
  /\ upward = "recv"
  /\ client.st = "half"
  /\ upHalf' = TRUE
  /\ upward' = "done"
  /\ UNCHANGED << envVars, taken, upGot, relayed, clientGot, pc, down, err, refused, result >>

\* Mutant: io.EOF of the client is not passed on.
UpwardHalfSilent ==
  /\ upward = "recv"
  /\ client.st = "half" /\ taken = Len(client.sent)
  /\ upward' = "done"
  /\ UNCHANGED << envVars, dataVars, pc, down, err, refused, result >>

(* io.EOF of the client half-closes the upstream. *)
UpwardHalf ==
  /\ upward = "recv"
  /\ client.st = "half"
  /\ taken = Len(client.sent)
  /\ upHalf' = TRUE
  /\ upward' = "done"
  /\ UNCHANGED << envVars, taken, upGot, relayed, clientGot, pc, down, err, refused, result >>

-----------------------------------------------------------------------------
(* Pipe has waited for both, and the handler returns.  CloseSend is deferred. *)

Piped == pc = "pipe" /\ down = "done" /\ upward = "done"

PipeReturns ==
  /\ Piped
  /\ IF err = "eof" THEN pc' = "eof" /\ UNCHANGED << upHalf, result >>
     ELSE Return(IF err = "none" THEN "ok" ELSE err) /\ upHalf' = TRUE
  /\ UNCHANGED << envVars, taken, upGot, relayed, clientGot, pipeVars >>

\* Mutant: io.EOF from either side is success.
EofIsOk ==
  /\ pc = "eof"
  /\ Return("ok")
  /\ upHalf' = TRUE
  /\ UNCHANGED << envVars, taken, upGot, relayed, clientGot, pipeVars >>

(* eofStatus asks the upstream's stream for what io.EOF stood for.  Of a     *)
(* message that is too large it reads on, or is refused it as well.          *)
EofStatus ==
  /\ pc = "eof"
  /\ \/ /\ relayed < Len(up.sent)
        /\ Return("internal")
     \/ /\ relayed < Len(up.sent)
        /\ up.sent[relayed + 1] = Huge
        /\ Return("toolarge")
     \/ /\ relayed = Len(up.sent)
        /\ Ended
        /\ Return(up.end)
     \/ /\ Cut
        /\ Return("canceled")
  /\ upHalf' = TRUE
  /\ UNCHANGED << envVars, taken, upGot, relayed, clientGot, pipeVars >>

Handler ==
  \/ ReadFirst \/ ReadFirstFails
  \/ Open \/ OpenFails
  \/ Prime \/ PrimeFails
  \/ PipeReturns \/ EofStatus
Down == DownRecv \/ DownRecvFails \/ DownFails \/ DownSend \/ DownCanceled \/ DownEnd
Upward ==
  \/ UpwardRecv \/ UpwardRecvFails \/ UpwardFails \/ UpwardCanceled
  \/ UpwardSend \/ UpwardSendFails \/ UpwardHalf

Next ==
  \/ \E m \in Msg : ClientSend(m) \/ UpSend(m)
  \/ ClientSend(Huge) \/ UpSend(Huge)
  \/ \E st \in {"half", "gone"} : ClientCloses(st)
  \/ \E end \in {"ok", "error", "improper"} : UpEnd(end)
  \/ Handler
  \/ Down
  \/ Upward

Spec == Init /\ [][Next]_vars

(* The goroutines run; neither the client nor the upstream has to do anything. *)
Fairness == WF_vars(Handler) /\ WF_vars(Down) /\ WF_vars(Upward)

FairSpec == Spec /\ Fairness

-----------------------------------------------------------------------------
TypeOK ==
  /\ deep \in BOOLEAN /\ upHalf \in BOOLEAN
  /\ client \in [sent : Seq(Msg \union {Huge}), st : {"open", "half", "gone"}]
  /\ up \in [sent : Seq(Msg \union {Huge}), end : {"open", "ok", "error", "improper"}]
  /\ taken \in 0..Len(client.sent) /\ relayed \in 0..Len(up.sent)
  /\ upGot \in Seq(Msg) /\ clientGot \in Seq(Msg)
  /\ pc \in {"first", "open", "prime", "pipe", "eof", "done"}
  /\ down \in {"idle", "recv", "send", "fail", "done"}
  /\ upward \in {"idle", "recv", "send", "fail", "done"}
  /\ refused \subseteq {"client", "upstream"}
  /\ err \in {"none", "eof", "error", "improper", "canceled", "toolarge"}
  /\ result \in {"none", "ok", "error", "improper", "canceled", "toolarge", "internal"}

(* The messages of the client the upstream is due: all, but for a first one  *)
(* of no bytes that was read ahead (proxy.go:270).                           *)
Due == IF deep /\ client.sent # << >> /\ client.sent[1] = Empty
       THEN Tail(client.sent) ELSE client.sent

(* What the client is told: a message of its that is refused ends the call   *)
(* before the handler does.                                                  *)
Told == IF "client" \in refused THEN "toolarge" ELSE result

(* Once the pipe has run, a client that is still there is told what the      *)
(* upstream said, whichever goroutine failed first: OK for OK, the error for *)
(* the error (proxy.go 287-300).  An improper close it is told of, or it is  *)
(* OK (stream.go 46-51); and a call of which a message of either side was    *)
(* refused never ends with what the upstream said.                           *)
StatusIsUpstreams ==
  (pc = "done" /\ down = "done" /\ ~Gone) =>
     IF refused # {} THEN Told \in {"toolarge", "internal"}
     ELSE Told = up.end \/ (up.end = "improper" /\ Told = "ok" /\ relayed > 0)

(* While the call is on, an upstream that sees the half-close was given      *)
(* every message that came before it (stream.go 63-69).                      *)
HalfCloseIsLast ==
  (upHalf /\ pc = "pipe" /\ ~Over /\ ~Cut) =>
     client.st = "half" /\ upGot = Due

(* A call both sides have finished returns, and so does one the client has   *)
(* left or sent too large a message to: Pipe waits for both goroutines       *)
(* (stream.go:78), and each has to learn of the end of the other.            *)
Returns ==
  ((Over /\ client.st # "open") \/ Cut) ~> pc = "done"

(* The client's half-close reaches the upstream of a call that goes on       *)
(* (stream.go 63-71).                                                        *)
HalfCloseArrives ==
  client.st = "half" ~> (upHalf \/ Gone \/ pc = "done")

(* What the call has come to for its client. *)
Outcome ==
  IF Told = "none" THEN "none"
  ELSE IF Told = "ok" /\ ~Gone THEN "ok" ELSE "failed"

(* The call relays the messages as it promises. *)
Promise == INSTANCE Relay WITH
  Message <- Msg \union {Huge},
  offered <- Due, answered <- up.sent, outcome <- Outcome

RelaySpec == Promise!Spec
=============================================================================
