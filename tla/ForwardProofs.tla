----------------------------- MODULE ForwardProofs -----------------------------
(***************************************************************************)
(* Safety of Forward for every set of messages and every bound on their    *)
(* number, and that a forwarded call implements Relay.                     *)
(***************************************************************************)
EXTENDS Forward, TLAPS, SequenceTheorems

(* How many messages of the client are not due: a first one of no bytes that *)
(* was read ahead.                                                           *)
Skip == IF deep /\ client.sent # << >> /\ client.sent[1] = Empty THEN 1 ELSE 0

(* Where the handler is, its goroutines are; a status means it has returned. *)
Control ==
  /\ pc \in {"first", "open", "prime"} =>
       /\ down = "idle" /\ upward = "idle" /\ err = "none" /\ ~upHalf
       /\ relayed = 0 /\ upGot = << >> /\ clientGot = << >> /\ refused = {}
  /\ pc = "pipe" => down # "idle" /\ upward # "idle"
  /\ pc = "eof" => down = "done" /\ upward = "done" /\ err = "eof"
  /\ pc = "done" => (down = "done" /\ upward = "done") \/ (down = "idle" /\ upward = "idle")
  /\ result = "none" <=> pc # "done"

(* What was read ahead; no message that is too large is read from either     *)
(* side.                                                                     *)
Read ==
  /\ pc = "first" => deep
  /\ (deep /\ pc \in {"open", "prime", "pipe"}) => taken > 0
  /\ pc \in {"open", "prime"} => taken = IF deep THEN 1 ELSE 0
  /\ upward = "send" => taken > 0
  /\ \A i \in 1..taken : client.sent[i] # Huge
  /\ \A i \in 1..relayed : up.sent[i] # Huge

(* Who meets a message that is too large has stopped there.                  *)
RefusedInv ==
  /\ upward = "fail" => "client" \in refused
  /\ "client" \in refused => upward \in {"fail", "done"} \/ pc = "done"
  /\ down = "fail" => "upstream" \in refused
  /\ "upstream" \in refused =>
       down \in {"fail", "done"} /\ relayed < Len(up.sent)

(* The upstream was given the messages it is due in their order, and while   *)
(* the goroutine runs and the upstream listens, all that were read but the   *)
(* one it holds.                                                             *)
UpInv ==
  /\ Len(upGot) + Skip <= Len(client.sent)
  /\ \A i \in 1..Len(upGot) : upGot[i] = client.sent[i + Skip]
  /\ (upward \in {"recv", "send"} /\ ~Over) =>
       Len(upGot) + Skip = IF upward = "send" THEN taken - 1 ELSE taken
  /\ (upHalf /\ pc = "pipe") => upward = "done"

(* The client was given the messages of the upstream in their order, all     *)
(* that were read but the one the goroutine holds; and all there are when it *)
(* is done, if the client is there.                                          *)
DownInv ==
  /\ Len(clientGot) <= Len(up.sent)
  /\ \A i \in 1..Len(clientGot) : clientGot[i] = up.sent[i]
  /\ down = "recv" => Len(clientGot) = relayed
  /\ down = "send" => Len(clientGot) = relayed - 1 /\ relayed > 0
  /\ (down = "done" /\ ~Cut /\ "upstream" \notin refused) =>
       Ended /\ relayed = Len(up.sent) /\ Len(clientGot) = relayed

(* Where the first error comes from. *)
ErrInv ==
  /\ err \in {"error", "improper"} => up.end = err /\ down = "done" /\ "upstream" \notin refused
  /\ err = "canceled" => Cut
  /\ err = "toolarge" => refused # {}
  /\ (err = "none" /\ down = "done") =>
       up.end = "improper" /\ relayed > 0 /\ "upstream" \notin refused
  /\ (upHalf /\ pc = "pipe" /\ ~Over /\ ~Cut) =>
       client.st = "half" /\ Len(upGot) + Skip = Len(client.sent)

IInv == TypeOK /\ Control /\ Read /\ RefusedInv /\ UpInv /\ DownInv /\ ErrInv /\ StatusIsUpstreams

-----------------------------------------------------------------------------
(* Init establishes the invariant: a call starts with nothing read, nothing  *)
(* relayed and no goroutine (proxy.go 251-283).                              *)
LEMMA InitIInv == Init => IInv
<1> SUFFICES ASSUME Init PROVE IInv
  OBVIOUS
<1> USE DEF Init
<1>1. TypeOK
  <2>1. << >> \in Seq(Msg) /\ << >> \in Seq(Msg \union {Huge}) /\ Len(<< >>) = 0
    BY EmptySeq
  <2>2. client.sent = << >> /\ up.sent = << >>
    OBVIOUS
  <2>3. client \in [sent : Seq(Msg \union {Huge}), st : {"open", "half", "gone"}]
    BY <2>1
  <2>4. up \in [sent : Seq(Msg \union {Huge}), end : {"open", "ok", "error", "improper"}]
    BY <2>1
  <2>5. taken \in 0..Len(client.sent) /\ relayed \in 0..Len(up.sent)
    BY <2>1, <2>2
  <2> QED
    BY <2>1, <2>3, <2>4, <2>5 DEF TypeOK
<1>2. Control /\ Read /\ RefusedInv
  BY DEF Control, Read, RefusedInv
<1>3. Skip = 0
  BY DEF Skip
<1>4. UpInv /\ DownInv
  BY <1>3 DEF UpInv, DownInv
<1>5. ErrInv /\ StatusIsUpstreams
  BY DEF ErrInv, StatusIsUpstreams, Cut, Over
<1> QED
  BY <1>1, <1>2, <1>4, <1>5 DEF IInv

(* Every step of the client, the upstream, the handler and the two           *)
(* goroutines of Pipe (proxy.go 251-301, stream.go 35-82) keeps it.          *)
LEMMA StepIInv == IInv /\ [Next]_vars => IInv'
<1> SUFFICES ASSUME IInv, [Next]_vars PROVE IInv'
  OBVIOUS
<1> USE DEF IInv, TypeOK, Control, Read, RefusedInv, UpInv, DownInv, ErrInv, StatusIsUpstreams,
            Skip, Gone, Ended, Cut, Over, Told, Refuse, envVars, pipeVars, dataVars, Return
<1>1. ASSUME NEW m \in Msg \union {Huge}, ClientSend(m) PROVE IInv'
  <2>9. /\ Len(client'.sent) = Len(client.sent) + 1 /\ client'.sent \in Seq(Msg \union {Huge})
        /\ \A i \in 1..Len(client.sent) : client'.sent[i] = client.sent[i]
    BY <1>1 DEF ClientSend
  <2>8. client' \in [sent : Seq(Msg \union {Huge}), st : {"open", "half", "gone"}]
    <3>1. client'.sent \in Seq(Msg \union {Huge}) /\ client'.st = client.st
          /\ client' = [sent |-> client'.sent, st |-> client.st]
      BY <1>1, <2>9 DEF ClientSend
    <3> QED
      BY <3>1
  <2>7. taken \in 0..Len(client'.sent)
    BY <2>9
  <2>1. TypeOK'
    BY <1>1, <2>8, <2>7 DEF ClientSend
  <2>2. Control' /\ Read' /\ RefusedInv'
    BY <1>1, <2>9 DEF ClientSend
  <2>3. UpInv'
    <3>1. CASE client.sent = << >>
      BY <1>1, <2>9, <3>1 DEF ClientSend
    <3>2. CASE client.sent # << >>
      <4>3. Len(client.sent) \in Nat /\ Len(client.sent) > 0
        BY <3>2
      <4>4. client'.sent[1] = client.sent[1] /\ deep' = deep
        <5>1. 1 \in 1..Len(client.sent)
          BY <4>3
        <5> QED
          BY <1>1, <2>9, <5>1 DEF ClientSend
      <4>5. client'.sent # << >>
        <5>1. Len(client'.sent) # 0
          BY <2>9, <4>3
        <5> QED
          BY <5>1, EmptySeq
      <4>1. Len(client.sent) > 0 /\ Skip' = Skip
        BY <3>2, <4>3, <4>4, <4>5
      <4>2. \A i \in 1..Len(upGot) : i + Skip \in 1..Len(client.sent)
        OBVIOUS
      <4>6. /\ UNCHANGED << upGot, up, upward, upHalf, refused, pc, taken >>
            /\ UpInv /\ Skip \in {0, 1} /\ taken \in Nat /\ Len(upGot) \in Nat
        BY <1>1 DEF ClientSend
      <4> HIDE DEF IInv, TypeOK, Control, Read, RefusedInv, DownInv, ErrInv, StatusIsUpstreams, Skip
      <4> QED
        BY <2>9, <4>1, <4>2, <4>3, <4>6
    <3> QED
      BY <3>1, <3>2
  <2>4. DownInv'
    BY <1>1, <2>9 DEF ClientSend
  <2>5. ErrInv' /\ StatusIsUpstreams'
    BY <1>1, <2>9 DEF ClientSend
  <2> QED
    BY <2>1, <2>2, <2>3, <2>4, <2>5
<1>2. ASSUME NEW st \in {"half", "gone"}, ClientCloses(st) PROVE IInv'
  <2>1. TypeOK'
    BY <1>2 DEF ClientCloses
  <2>2. Control' /\ Read' /\ RefusedInv'
    BY <1>2 DEF ClientCloses
  <2>3. UpInv'
    BY <1>2 DEF ClientCloses
  <2>4. DownInv'
    BY <1>2 DEF ClientCloses
  <2>5. ErrInv' /\ StatusIsUpstreams'
    BY <1>2 DEF ClientCloses
  <2> QED
    BY <2>1, <2>2, <2>3, <2>4, <2>5
<1>3. ASSUME NEW m \in Msg \union {Huge}, UpSend(m) PROVE IInv'
  <2>9. /\ Len(up'.sent) = Len(up.sent) + 1 /\ up'.sent \in Seq(Msg \union {Huge})
        /\ \A i \in 1..Len(up.sent) : up'.sent[i] = up.sent[i]
    BY <1>3 DEF UpSend
  <2>8. up' \in [sent : Seq(Msg \union {Huge}), end : {"open", "ok", "error", "improper"}]
    <3>1. up'.sent \in Seq(Msg \union {Huge}) /\ up'.end = up.end
          /\ up' = [sent |-> up'.sent, end |-> up.end]
      BY <1>3, <2>9 DEF UpSend
    <3> QED
      BY <3>1
  <2>7. relayed \in 0..Len(up'.sent)
    BY <2>9
  <2>1. TypeOK'
    BY <1>3, <2>8, <2>7 DEF UpSend
  <2>2. Control' /\ Read' /\ RefusedInv'
    BY <1>3, <2>9 DEF UpSend
  <2>3. UpInv'
    BY <1>3, <2>9 DEF UpSend
  <2>4. DownInv'
    BY <1>3, <2>9 DEF UpSend
  <2>5. ErrInv' /\ StatusIsUpstreams'
    BY <1>3, <2>9 DEF UpSend
  <2> QED
    BY <2>1, <2>2, <2>3, <2>4, <2>5
<1>4. ASSUME NEW end \in {"ok", "error", "improper"}, UpEnd(end) PROVE IInv'
  <2>1. TypeOK'
    BY <1>4 DEF UpEnd
  <2>2. Control' /\ Read'
    BY <1>4 DEF UpEnd
  <2>3. RefusedInv'
    BY <1>4 DEF UpEnd
  <2>4. UpInv'
    BY <1>4 DEF UpEnd
  <2>5. DownInv'
    BY <1>4 DEF UpEnd
  <2>6. ErrInv' /\ StatusIsUpstreams'
    BY <1>4 DEF UpEnd
  <2> QED
    BY <2>1, <2>2, <2>3, <2>4, <2>5, <2>6
<1>5. CASE ReadFirst
  BY <1>5 DEF ReadFirst
<1>6. CASE ReadFirstFails
  BY <1>6 DEF ReadFirstFails
<1>7. CASE Open
  BY <1>7 DEF Open
<1>8. CASE OpenFails
  BY <1>8 DEF OpenFails
<1>9. CASE Prime
  <2>8. deep => client.sent[1] \in Msg /\ taken = 1
    BY <1>9 DEF Prime
  <2>9. \/ upGot' = upGot
        \/ deep /\ client.sent[1] # Empty /\ ~Over /\ upGot' = Append(upGot, client.sent[1])
    BY <1>9 DEF Prime, Delivered
  <2>7. upGot' \in Seq(Msg)
    <3>1. upGot \in Seq(Msg)
      OBVIOUS
    <3>2. CASE upGot' = upGot
      BY <3>1, <3>2
    <3>3. CASE deep /\ upGot' = Append(upGot, client.sent[1])
      <4> HIDE DEF IInv, TypeOK
      <4>1. client.sent[1] \in Msg
        BY <2>8, <3>3
      <4>2. Append(upGot, client.sent[1]) \in Seq(Msg)
        BY <3>1, <4>1, AppendProperties
      <4> QED
        BY <3>3, <4>2
    <3> QED
      BY <2>9, <3>2, <3>3
  <2>1. TypeOK'
    BY <1>9, <2>7 DEF Prime, StartPipe
  <2>2. Control' /\ Read' /\ RefusedInv'
    BY <1>9 DEF Prime, Delivered, StartPipe
  <2>3. UpInv'
    <3>1. Skip' = Skip /\ upGot = << >> /\ Len(upGot) = 0 /\ client.sent = client'.sent /\ taken' = taken
      BY <1>9 DEF Prime
    <3>2. Skip = IF deep /\ client.sent[1] = Empty THEN 1 ELSE 0
      BY <2>8
    <3>3. CASE upGot' = upGot
      BY <1>9, <3>1, <3>2, <3>3, <2>8 DEF Prime, Delivered, StartPipe
    <3>4. CASE deep /\ client.sent[1] # Empty /\ ~Over /\ upGot' = Append(upGot, client.sent[1])
      <4>1. Len(upGot') = 1 /\ upGot'[1] = client.sent[1] /\ Skip = 0
        BY <3>1, <3>2, <3>4, <2>8
      <4> QED
        BY <1>9, <3>1, <4>1, <3>4, <2>8 DEF Prime, StartPipe
    <3> QED
      BY <2>9, <3>3, <3>4
  <2>4. DownInv'
    BY <1>9 DEF Prime, Delivered, StartPipe
  <2>5. ErrInv' /\ StatusIsUpstreams'
    BY <1>9 DEF Prime, Delivered, StartPipe
  <2> QED
    BY <2>1, <2>2, <2>3, <2>4, <2>5
<1>10. CASE PrimeFails
  BY <1>10 DEF PrimeFails
<1>11. CASE DownRecv
  <2>1. TypeOK' /\ Control'
    BY <1>11 DEF DownRecv
  <2>2. Read'
    BY <1>11 DEF DownRecv
  <2>3. RefusedInv'
    BY <1>11 DEF DownRecv
  <2>4. UpInv'
    BY <1>11 DEF DownRecv
  <2>5. DownInv'
    BY <1>11 DEF DownRecv
  <2>6. ErrInv' /\ StatusIsUpstreams'
    BY <1>11 DEF DownRecv
  <2> QED
    BY <2>1, <2>2, <2>3, <2>4, <2>5, <2>6
<1>23. CASE DownRecvFails
  <2>1. TypeOK' /\ Control'
    BY <1>23 DEF DownRecvFails
  <2>2. Read'
    BY <1>23 DEF DownRecvFails
  <2>3. RefusedInv'
    BY <1>23 DEF DownRecvFails
  <2>4. UpInv'
    BY <1>23 DEF DownRecvFails
  <2>5. DownInv'
    BY <1>23 DEF DownRecvFails
  <2>6. ErrInv'
    <3>1. /\ UNCHANGED << client, up, err, pc, relayed, upHalf, upGot, deep >>
          /\ down = "recv" /\ down' = "fail" /\ refused' = refused \union {"upstream"}
      BY <1>23 DEF DownRecvFails
    <3>2. ErrInv /\ ("upstream" \notin refused => relayed < Len(up.sent))
      BY <1>23 DEF DownRecvFails
    <3>3. err \notin {"error", "improper"}
      BY <1>23 DEF DownRecvFails
    <3> QED
      BY <3>1, <3>2, <3>3
  <2>7. StatusIsUpstreams'
    BY <1>23 DEF DownRecvFails
  <2> QED
    BY <2>1, <2>2, <2>3, <2>4, <2>5, <2>6, <2>7
<1>24. CASE DownFails
  BY <1>24 DEF DownFails, Fail
<1>12. CASE DownSend
  BY <1>12 DEF DownSend
<1>13. CASE DownCanceled
  BY <1>13 DEF DownCanceled, Fail
<1>14. CASE DownEnd
  BY <1>14 DEF DownEnd, Fail
<1>15. CASE UpwardRecv
  BY <1>15 DEF UpwardRecv
<1>16. CASE UpwardSend
  <2>1. TypeOK'
    BY <1>16 DEF UpwardSend, Delivered
  <2>2. Control' /\ Read' /\ RefusedInv'
    BY <1>16 DEF UpwardSend, Delivered
  <2>3. UpInv'
    <3>1. Skip' = Skip /\ client' = client /\ taken' = taken /\ upward' = "recv" /\ up' = up
      BY <1>16 DEF UpwardSend
    <3>2. CASE Over
      BY <1>16, <3>1, <3>2 DEF UpwardSend, Delivered
    <3>3. CASE ~Over
      <4>1. upGot' = Append(upGot, client.sent[taken]) /\ Len(upGot) + Skip = taken - 1
        BY <1>16, <3>3 DEF UpwardSend, Delivered
      <4>2. /\ Len(upGot') = Len(upGot) + 1
            /\ \A i \in 1..Len(upGot) : upGot'[i] = upGot[i]
            /\ upGot'[Len(upGot) + 1] = client.sent[taken]
        BY <4>1
      <4>3. \A i \in 1..Len(upGot') : upGot'[i] = client'.sent[i + Skip]
        BY <3>1, <4>1, <4>2
      <4>4. /\ UNCHANGED << upHalf, pc, refused >> /\ upward = "send"
            /\ UpInv /\ Skip \in {0, 1} /\ taken \in Nat /\ Len(upGot) \in Nat
            /\ taken <= Len(client.sent) /\ Len(client.sent) \in Nat
        BY <1>16 DEF UpwardSend
      <4> HIDE DEF IInv, TypeOK, Control, Read, RefusedInv, DownInv, ErrInv, StatusIsUpstreams, Skip
      <4> QED
        BY <3>1, <3>3, <4>1, <4>2, <4>3, <4>4
    <3> QED
      BY <3>2, <3>3
  <2>4. DownInv'
    BY <1>16 DEF UpwardSend, Delivered
  <2>5. ErrInv' /\ StatusIsUpstreams'
    BY <1>16 DEF UpwardSend, Delivered
  <2> QED
    BY <2>1, <2>2, <2>3, <2>4, <2>5
<1>17. CASE UpwardSendFails
  BY <1>17 DEF UpwardSendFails, Fail
<1>18. CASE UpwardRecvFails
  BY <1>18 DEF UpwardRecvFails
<1>25. CASE UpwardFails
  BY <1>25 DEF UpwardFails, Fail
<1>26. CASE UpwardCanceled
  BY <1>26 DEF UpwardCanceled, Fail
<1>19. CASE UpwardHalf
  BY <1>19 DEF UpwardHalf
<1>20. CASE PipeReturns
  <2>1. TypeOK'
    BY <1>20 DEF PipeReturns, Piped
  <2>2. Control' /\ Read' /\ RefusedInv'
    BY <1>20 DEF PipeReturns, Piped
  <2>3. UpInv'
    BY <1>20 DEF PipeReturns, Piped
  <2>4. DownInv'
    BY <1>20 DEF PipeReturns, Piped
  <2>5. ErrInv'
    BY <1>20 DEF PipeReturns, Piped
  <2>6. StatusIsUpstreams'
    <3>1. /\ UNCHANGED << client, up, relayed, refused >> /\ down = "done" /\ ErrInv
          /\ err = "eof" => pc' = "eof"
          /\ err # "eof" => result' = IF err = "none" THEN "ok" ELSE err
          /\ err \in {"none", "eof", "error", "improper", "canceled", "toolarge"}
          /\ refused \subseteq {"client", "upstream"}
      BY <1>20 DEF PipeReturns, Piped
    <3> HIDE DEF IInv, TypeOK, Control, Read, RefusedInv, UpInv, DownInv
    <3> QED
      BY <3>1
  <2> QED
    BY <2>1, <2>2, <2>3, <2>4, <2>5, <2>6
<1>21. CASE EofStatus
  <2>1. TypeOK' /\ Control'
    BY <1>21 DEF EofStatus
  <2>2. Read'
    BY <1>21 DEF EofStatus
  <2>3. RefusedInv'
    BY <1>21 DEF EofStatus
  <2>4. UpInv'
    BY <1>21 DEF EofStatus
  <2>5. DownInv'
    BY <1>21 DEF EofStatus
  <2>6. ErrInv'
    BY <1>21 DEF EofStatus
  <2>7. StatusIsUpstreams'
    <3>1. /\ UNCHANGED << client, up, relayed, refused >> /\ DownInv /\ down = "done"
          /\ relayed < Len(up.sent) => result' \in {"internal", "toolarge"} \/ Cut
          /\ relayed = Len(up.sent) => result' = up.end \/ Cut
          /\ "upstream" \in refused => relayed < Len(up.sent)
          /\ relayed \in Nat /\ Len(up.sent) \in Nat
          /\ refused \subseteq {"client", "upstream"}
      BY <1>21 DEF EofStatus
    <3> HIDE DEF IInv, TypeOK, Control, Read, RefusedInv, UpInv, ErrInv
    <3> QED
      BY <3>1
  <2> QED
    BY <2>1, <2>2, <2>3, <2>4, <2>5, <2>6, <2>7
<1>22. CASE UNCHANGED vars
  BY <1>22 DEF vars
<1> QED
  BY <1>1, <1>2, <1>3, <1>4, <1>5, <1>6, <1>7, <1>8, <1>9, <1>10, <1>11, <1>12, <1>13, <1>14, <1>15, <1>16, <1>17, <1>18, <1>19, <1>20, <1>21, <1>22,
     <1>23, <1>24, <1>25, <1>26
  DEF Next, Handler, Down, Upward

(* Hence it holds throughout every call.                                     *)
LEMMA InductiveInvariant == Spec => []IInv
<1> QED
  BY InitIInv, StepIInv, PTL DEF Spec

(* The counters stay within the messages there are to read, and the handler  *)
(* and the goroutines of Pipe in the states they have (stream.go 35-82).     *)
THEOREM TypeCorrect == Spec => []TypeOK
<1>1. IInv => TypeOK
  BY DEF IInv
<1> QED
  BY <1>1, InductiveInvariant, PTL

(* A client that is there is told the status of the upstream, whichever      *)
(* goroutine failed first and however many messages were sent; and never     *)
(* that status if a message of either side was refused (proxy.go 287-300,    *)
(* stream.go 45-52).                                                         *)
THEOREM StatusIsTheUpstreams == Spec => []StatusIsUpstreams
<1>1. IInv => StatusIsUpstreams
  BY DEF IInv
<1> QED
  BY <1>1, InductiveInvariant, PTL

-----------------------------------------------------------------------------
(* What Due is, element by element.                                          *)
DueIs ==
  /\ Due \in Seq(Msg \union {Huge})
  /\ Len(Due) = Len(client.sent) - Skip
  /\ \A i \in 1..Len(Due) : Due[i] = client.sent[i + Skip]

(* The messages due are those of the client from the first, or the second,   *)
(* on (proxy.go:270).                                                        *)
LEMMA DueOf == TypeOK => DueIs
<1> SUFFICES ASSUME TypeOK PROVE DueIs
  OBVIOUS
<1>1. client.sent \in Seq(Msg \union {Huge})
  BY DEF TypeOK
<1>2. CASE deep /\ client.sent # << >> /\ client.sent[1] = Empty
  <2>1. Due = Tail(client.sent) /\ Skip = 1
    BY <1>2 DEF Due, Skip
  <2> QED
    BY <1>1, <1>2, <2>1, HeadTailProperties DEF DueIs
<1>3. CASE ~(deep /\ client.sent # << >> /\ client.sent[1] = Empty)
  <2>1. Due = client.sent /\ Skip = 0
    BY <1>3 DEF Due, Skip
  <2>2. \A i \in 1..Len(client.sent) : i + 0 = i
    BY <1>1
  <2> QED
    BY <1>1, <2>1, <2>2 DEF DueIs
<1> QED
  BY <1>2, <1>3

(* The same after a step of the call (proxy.go:270).                         *)
LEMMA NextType == TypeOK' => DueIs'
<1> QED
  BY DueOf, PTL

(* An upstream that goes on and sees the half-close was given every message  *)
(* that is due before it, for any number of messages (stream.go 63-69).      *)
THEOREM HalfCloseComesLast == Spec => []HalfCloseIsLast
<1>1. IInv => HalfCloseIsLast
  <2> SUFFICES ASSUME IInv, upHalf, pc = "pipe", ~Over, ~Cut
               PROVE  client.st = "half" /\ upGot = Due
    BY DEF HalfCloseIsLast
  <2>1. client.st = "half" /\ Len(upGot) + Skip = Len(client.sent)
    BY DEF IInv, ErrInv
  <2>2. upGot \in Seq(Msg \union {Huge}) /\ client.sent \in Seq(Msg \union {Huge})
    BY SeqMonotonic DEF IInv, TypeOK
  <2>3. DueIs
    BY DueOf DEF IInv
  <2>4. Skip \in {0, 1}
    BY DEF Skip
  <2>5. Len(upGot) = Len(Due)
    BY <2>1, <2>2, <2>3, <2>4 DEF DueIs
  <2>6. \A i \in 1..Len(upGot) : upGot[i] = Due[i]
    BY <2>3, <2>5 DEF DueIs, IInv, UpInv
  <2>7. upGot = Due
    BY <2>2, <2>3, <2>5, <2>6, SeqEqual DEF DueIs
  <2> QED
    BY <2>1, <2>7
<1> QED
  BY <1>1, InductiveInvariant, PTL

-----------------------------------------------------------------------------
(* A call that starts has relayed nothing (proxy.go:251).                    *)
LEMMA InitRefines == Init => Promise!Init
BY DEF Init, Promise!Init, Due, Outcome, Told

(* Every step of the call is one of Relay, or changes nothing Relay sees: a  *)
(* message read is none delivered (stream.go 45-77).                         *)
LEMMA StepRefines == IInv /\ IInv' /\ [Next]_vars => [Promise!Next]_Promise!vars
<1> SUFFICES ASSUME IInv, IInv', [Next]_vars PROVE [Promise!Next]_Promise!vars
  OBVIOUS
<1> DEFINE Stutter == Promise!vars' = Promise!vars
<1>a. TypeOK /\ Control /\ DueIs /\ DueIs'
  BY DueOf, NextType DEF IInv
<1>b. client.sent \in Seq(Msg \union {Huge}) /\ up.sent \in Seq(Msg \union {Huge})
      /\ upGot \in Seq(Msg) /\ clientGot \in Seq(Msg)
  BY <1>a DEF TypeOK
<1>c. Skip \in {0, 1}
  BY DEF Skip
<1>d. pc # "done" => Outcome = IF "client" \in refused THEN "failed" ELSE "none"
  BY <1>a DEF Control, Outcome, Told
<1>e. RefusedInv
  BY DEF IInv
<1>1. ASSUME NEW m \in Msg \union {Huge}, ClientSend(m) PROVE Promise!Offer \/ Stutter
  <2>1. Outcome' = Outcome
    BY <1>1 DEF ClientSend, Outcome, Told, pipeVars, Gone
  <2>2. UNCHANGED << up.sent, upGot, clientGot, Outcome >>
    BY <1>1, <2>1 DEF ClientSend, dataVars
  <2>3. client'.sent = Append(client.sent, m) /\ deep' = deep
    BY <1>1, <1>a DEF ClientSend, TypeOK
  <2>4. CASE Skip' = Skip
    <3>1. Due' = Append(Due, m)
      <4>1. Append(Due, m) \in Seq(Msg \union {Huge}) /\ Due' \in Seq(Msg \union {Huge})
        BY <1>a DEF DueIs
      <4>2. /\ Len(client'.sent) = Len(client.sent) + 1
            /\ \A i \in 1..Len(client.sent) : client'.sent[i] = client.sent[i]
            /\ client'.sent[Len(client.sent) + 1] = m
        BY <1>b, <2>3
      <4>3. Len(Due') = Len(Due) + 1 /\ Len(Append(Due, m)) = Len(Due) + 1
        BY <1>a, <1>b, <1>c, <2>4, <4>2 DEF DueIs
      <4>4. \A i \in 1..Len(Due) : Due'[i] = Due[i] /\ Append(Due, m)[i] = Due[i]
        <5> SUFFICES ASSUME NEW i \in 1..Len(Due)
                     PROVE  Due'[i] = Due[i] /\ Append(Due, m)[i] = Due[i]
          OBVIOUS
        <5>1. i \in 1..Len(Due') /\ i + Skip \in 1..Len(client.sent)
          <6>1. Len(Due) \in Nat /\ Len(client.sent) \in Nat /\ Len(Due) = Len(client.sent) - Skip
            BY <1>a, <1>b DEF DueIs
          <6> QED
            BY <1>c, <4>3, <6>1
        <5>2. Due'[i] = client'.sent[i + Skip] /\ Due[i] = client.sent[i + Skip]
          BY <1>a, <2>4, <5>1 DEF DueIs
        <5>3. Append(Due, m)[i] = Due[i]
          BY <1>a, AppendProperties DEF DueIs
        <5> QED
          BY <4>2, <5>1, <5>2, <5>3
      <4>5. Due'[Len(Due) + 1] = m /\ Append(Due, m)[Len(Due) + 1] = m
        <5>1. Len(Due) + 1 \in 1..Len(Due') /\ Len(Due) + 1 + Skip = Len(client.sent) + 1
          <6>1. Len(Due) \in Nat /\ Len(client.sent) \in Nat /\ Len(Due) = Len(client.sent) - Skip
            BY <1>a, <1>b DEF DueIs
          <6> QED
            BY <1>c, <4>3, <6>1
        <5>2. Due'[Len(Due) + 1] = client'.sent[Len(Due) + 1 + Skip]
          BY <1>a, <2>4, <5>1 DEF DueIs
        <5>3. Append(Due, m)[Len(Due) + 1] = m
          BY <1>a, AppendProperties DEF DueIs
        <5> QED
          BY <4>2, <5>1, <5>2, <5>3
      <4>6. \A i \in 1..Len(Due') : Due'[i] = Append(Due, m)[i]
        <5>1. \A i \in 1..Len(Due') : i \in 1..Len(Due) \/ i = Len(Due) + 1
          BY <1>a, <4>3 DEF DueIs
        <5> QED
          BY <4>4, <4>5, <5>1
      <4> QED
        BY <4>1, <4>3, <4>6, SeqEqual
    <3> QED
      BY <2>2, <3>1 DEF Promise!Offer
  <2>5. CASE Skip' # Skip
    <3>1. client.sent = << >>
      <4> SUFFICES ASSUME client.sent # << >> PROVE FALSE
        OBVIOUS
      <4>1. 1 \in 1..Len(client.sent)
        BY <1>b
      <4>2. client'.sent # << >> /\ client'.sent[1] = client.sent[1]
        <5>1. /\ Len(client'.sent) = Len(client.sent) + 1
              /\ \A i \in 1..Len(client.sent) : client'.sent[i] = client.sent[i]
          BY <1>b, <2>3
        <5>2. Len(client'.sent) # 0
          BY <1>b, <5>1
        <5> QED
          BY <4>1, <5>1, <5>2, EmptySeq
      <4> QED
        BY <2>3, <2>5, <4>2 DEF Skip
    <3>2. Skip = 0 /\ Skip' = 1 /\ Len(client.sent) = 0
      BY <2>5, <3>1 DEF Skip
    <3>3. Len(client'.sent) = 1
      BY <1>b, <2>3, <3>2
    <3>4. Len(Due) = 0 /\ Len(Due') = 0
      BY <1>a, <3>2, <3>3 DEF DueIs
    <3>5. Due' = Due
      BY <1>a, <3>4, SeqEqual DEF DueIs
    <3> QED
      BY <2>2, <3>5 DEF Promise!vars
  <2> QED
    BY <2>4, <2>5
<1>2. ASSUME NEW st \in {"half", "gone"}, ClientCloses(st) PROVE Stutter
  <2>1. client'.sent = client.sent /\ deep' = deep /\ Outcome' = Outcome
    BY <1>2, <1>a DEF ClientCloses, TypeOK, Control, Outcome, Told, pipeVars
  <2> QED
    BY <1>2, <2>1 DEF ClientCloses, dataVars, Promise!vars, Due
<1>3. ASSUME NEW m \in Msg \union {Huge}, UpSend(m) PROVE Promise!Answer
  <2>1. up'.sent = Append(up.sent, m) /\ Outcome # "ok" /\ Outcome' = Outcome
    BY <1>3, <1>a, <1>d DEF UpSend, TypeOK, Outcome, Told, pipeVars, Gone
  <2> QED
    BY <1>3, <2>1 DEF UpSend, dataVars, Promise!Answer, Due
<1>4. ASSUME NEW end \in {"ok", "error", "improper"}, UpEnd(end) PROVE Stutter
  <2>1. up'.sent = up.sent
    BY <1>4, <1>a DEF UpEnd, TypeOK
  <2> QED
    BY <1>4, <2>1 DEF UpEnd, dataVars, pipeVars, Promise!vars, Due, Outcome, Told, Gone
<1>5. CASE ReadFirst \/ Open \/ DownRecv \/ DownFails \/ DownCanceled \/ DownEnd
           \/ UpwardRecv \/ UpwardSendFails \/ UpwardFails \/ UpwardCanceled \/ UpwardHalf
  <2>1. UNCHANGED << envVars, upGot, clientGot, refused, result >>
    BY <1>5 DEF ReadFirst, Open, DownRecv, DownFails, DownCanceled, DownEnd, UpwardRecv,
                UpwardSendFails, UpwardFails, UpwardCanceled, UpwardHalf, dataVars, pipeVars
  <2> QED
    BY <2>1 DEF envVars, Promise!vars, Due, Outcome, Told, Gone
<1>14. CASE DownRecvFails
  <2>1. UNCHANGED << envVars, upGot, clientGot, result >> /\ Told' = Told
    BY <1>14 DEF DownRecvFails, Refuse, Told, dataVars
  <2> QED
    BY <2>1 DEF envVars, Promise!vars, Due, Outcome, Gone
<1>15. CASE UpwardRecvFails
  <2>1. /\ UNCHANGED << envVars, upGot, clientGot >> /\ refused' = refused \union {"client"}
        /\ upward = "recv" /\ Told' = "toolarge"
    BY <1>15 DEF UpwardRecvFails, Refuse, Told, dataVars
  <2>3. pc # "done" /\ "client" \notin refused
    BY <2>1, <1>a, <1>e DEF Control, RefusedInv
  <2>4. Outcome = "none"
    BY <2>3, <1>d
  <2>2. Outcome' = "failed"
    BY <2>1 DEF Outcome
  <2> QED
    BY <2>1, <2>2, <2>4 DEF envVars, Due, Promise!Fail, Promise!Next
<1>6. ASSUME NEW status, Return(status), UNCHANGED << envVars, upGot, clientGot, refused >>,
             pc # "done", status # "none",
             status # "ok" \/ (down = "done" /\ "upstream" \notin refused)
      PROVE  Promise!Succeed \/ Promise!Fail \/ Stutter
  <2>1. Due' = Due /\ up'.sent = up.sent /\ Gone' = Gone
    BY <1>6 DEF envVars, Due, Gone
  <2>2. CASE "client" \in refused
    <3>1. Outcome = "failed" /\ Outcome' = "failed"
      BY <1>6, <2>2 DEF Outcome, Told
    <3> QED
      BY <1>6, <2>1, <3>1 DEF Promise!vars
  <2>3. CASE "client" \notin refused /\ status = "ok" /\ ~Gone
    <3>1. Outcome = "none" /\ Outcome' = "ok"
      BY <1>6, <1>d, <2>1, <2>3 DEF Return, Outcome, Told
    <3>2. Len(clientGot) = Len(up.sent) /\ \A i \in 1..Len(clientGot) : clientGot[i] = up.sent[i]
      BY <1>6, <2>3 DEF IInv, DownInv, Cut
    <3>3. clientGot = up.sent
      BY <1>b, <3>2, SeqEqual, SeqMonotonic
    <3> QED
      BY <1>6, <2>1, <3>1, <3>3 DEF Promise!Succeed
  <2>4. CASE "client" \notin refused /\ ~(status = "ok" /\ ~Gone)
    <3>1. Outcome = "none" /\ Outcome' = "failed"
      BY <1>6, <1>d, <2>1, <2>4 DEF Return, Outcome, Told
    <3> QED
      BY <1>6, <2>1, <3>1 DEF Promise!Fail
  <2> QED
    BY <2>2, <2>3, <2>4
<1>7. CASE OpenFails \/ PrimeFails
  <2>1. Return("internal") /\ UNCHANGED << envVars, upGot, clientGot, refused >> /\ pc # "done"
    BY <1>7 DEF OpenFails, PrimeFails, dataVars, pipeVars
  <2> QED
    BY <1>6, <2>1 DEF Promise!Next
<1>16. CASE ReadFirstFails
  <2>1. UNCHANGED << envVars, upGot, clientGot >> /\ Outcome = "none"
    BY <1>16, <1>a, <1>d DEF ReadFirstFails, Control, dataVars
  <2>2. Told' \in {"internal", "toolarge"}
    BY <1>16 DEF ReadFirstFails, Return, Told
  <2>3. Outcome' = "failed"
    BY <2>2 DEF Outcome
  <2> QED
    BY <2>1, <2>3 DEF envVars, Due, Promise!Fail, Promise!Next
<1>8. CASE PipeReturns
  <2>1. UNCHANGED << envVars, upGot, clientGot, refused >> /\ pc = "pipe" /\ down = "done"
    BY <1>8 DEF PipeReturns, Piped, pipeVars
  <2>2. CASE err = "eof"
    BY <1>8, <2>1, <2>2 DEF PipeReturns, envVars, Promise!vars, Due, Outcome, Told, Gone
  <2>3. CASE err # "eof"
    <3> DEFINE status == IF err = "none" THEN "ok" ELSE err
    <3>1. Return(status) /\ status # "none"
      BY <1>8, <2>3 DEF PipeReturns
    <3>2. status = "ok" => "upstream" \notin refused
      BY <1>a, <2>1 DEF IInv, ErrInv, TypeOK
    <3> QED
      BY <1>6, <2>1, <3>1, <3>2 DEF Promise!Next
  <2> QED
    BY <2>2, <2>3
<1>9. CASE EofStatus
  <2>1. UNCHANGED << envVars, upGot, clientGot, refused >> /\ pc = "eof" /\ down = "done"
    BY <1>9, <1>a DEF EofStatus, Control, pipeVars
  <2>2. \/ Return("internal") \/ Return("toolarge") \/ Return("canceled")
        \/ Return(up.end) /\ up.end # "none" /\ relayed = Len(up.sent)
    BY <1>9, <1>a DEF EofStatus, TypeOK
  <2>3. relayed = Len(up.sent) => "upstream" \notin refused
    BY <1>a, <1>b, <1>e DEF RefusedInv, TypeOK
  <2> QED
    BY <1>6, <2>1, <2>2, <2>3 DEF Promise!Next
<1>10. CASE Prime
  <2>1. UNCHANGED << envVars, clientGot, refused, result >> /\ pc = "prime" /\ refused = {}
    BY <1>10, <1>a DEF Prime, StartPipe, Control
  <2>2. Due' = Due /\ up'.sent = up.sent /\ Outcome' = Outcome /\ Outcome = "none"
    BY <1>d, <2>1 DEF envVars, Due, Outcome, Told, Gone
  <2>3. CASE upGot' = upGot
    BY <2>1, <2>2, <2>3 DEF Promise!vars
  <2>4. CASE deep /\ client.sent[1] # Empty /\ upGot' = Append(upGot, client.sent[1])
    <3>1. upGot = << >> /\ Len(upGot) = 0 /\ taken = 1 /\ Len(client.sent) >= 1 /\ Skip = 0
      BY <2>1, <2>4, <1>a DEF IInv, Control, Read, Skip, TypeOK
    <3>2. Len(Due) >= 1 /\ Due[1] = client.sent[1]
      BY <1>a, <1>b, <3>1 DEF DueIs
    <3> QED
      BY <2>1, <2>2, <2>4, <3>1, <3>2 DEF Promise!DeliverUp, Promise!Next
  <2> QED
    BY <1>10, <2>3, <2>4 DEF Prime, Delivered
<1>11. CASE UpwardSend
  <2>1. UNCHANGED << envVars, clientGot, refused, result >> /\ pc # "done" /\ "client" \notin refused
    BY <1>11, <1>a, <1>e DEF UpwardSend, Control, RefusedInv
  <2>2. Due' = Due /\ up'.sent = up.sent /\ Outcome' = Outcome /\ Outcome = "none"
    BY <1>d, <2>1 DEF envVars, Due, Outcome, Told, Gone
  <2>3. CASE Over
    BY <1>11, <2>1, <2>2, <2>3 DEF UpwardSend, Delivered, Promise!vars
  <2>4. CASE ~Over
    <3>1. upGot' = Append(upGot, client.sent[taken]) /\ Len(upGot) + Skip = taken - 1
      BY <1>11, <2>4 DEF UpwardSend, Delivered, IInv, UpInv
    <3>2. taken \in 0..Len(client.sent) /\ Len(upGot) \in Nat /\ Len(client.sent) \in Nat
      BY <1>a, <1>b DEF TypeOK
    <3>3. Len(upGot) < Len(Due) /\ Len(upGot) + 1 \in 1..Len(Due) /\ Len(upGot) + 1 + Skip = taken
      BY <1>a, <1>c, <3>1, <3>2 DEF DueIs
    <3>4. Due[Len(upGot) + 1] = client.sent[taken]
      BY <1>a, <3>3 DEF DueIs
    <3> QED
      BY <2>1, <2>2, <3>1, <3>3, <3>4 DEF Promise!DeliverUp, Promise!Next
  <2> QED
    BY <2>3, <2>4
<1>12. CASE DownSend
  <2>1. UNCHANGED << envVars, upGot, refused, result >> /\ pc # "done" /\ "client" \notin refused
    BY <1>12, <1>a DEF DownSend, Control, Cut
  <2>2. Due' = Due /\ up'.sent = up.sent /\ Outcome' = Outcome /\ Outcome = "none"
    BY <1>d, <2>1 DEF envVars, Due, Outcome, Told, Gone
  <2>3. /\ clientGot' = Append(clientGot, up.sent[relayed]) /\ Len(clientGot) + 1 = relayed
        /\ Len(clientGot) < Len(up.sent)
    BY <1>12, <1>b DEF DownSend, IInv, DownInv, TypeOK
  <2> QED
    BY <2>1, <2>2, <2>3 DEF Promise!DeliverDown, Promise!Next
<1>13. CASE UNCHANGED vars
  BY <1>13 DEF vars, Promise!vars, Due, Outcome, Told, Gone
<1> QED
  BY <1>1, <1>2, <1>3, <1>4, <1>5, <1>7, <1>8, <1>9, <1>10, <1>11, <1>12, <1>13,
     <1>14, <1>15, <1>16
  DEF Next, Handler, Down, Upward, Promise!Next

(* A forwarded call relays what it promises, for every set of messages and   *)
(* every number of them: in order, none twice, none skipped, and success is  *)
(* reported only to a client that was given all (proxy.go 251-301).          *)
THEOREM ImplementsRelay == Spec => RelaySpec
<1> QED
  BY InductiveInvariant, InitRefines, StepRefines, PTL DEF Spec, RelaySpec, Promise!Spec
=============================================================================
