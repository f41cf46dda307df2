---------------------------- MODULE ReflectProofs ----------------------------
(***************************************************************************)
(* What a reflection stream of Reflect never does, for every number of     *)
(* upstreams and requests and whatever the upstreams answer.               *)
(***************************************************************************)
EXTENDS Reflect, TLAPS, SequenceTheorems, WellFoundedInduction

(* Upstream i has answered the first n requests, and was read that far, with *)
(* something other than an error.                                            *)
Fine(i, n) ==
  /\ n <= read[i]
  /\ \A k \in 1..n : up[i].sent[k].kind # "error"

IsSeq(s) == \E S : s \in Seq(S)

(* Every reply there is comes from answers that are no errors, one of each   *)
(* upstream, and is the only one to its request.                             *)
Aligned ==
  /\ IsSeq(replies)
  /\ Len(replies) <= taken
  /\ pc = "recv" => Len(replies) = taken
  /\ pc = "fan" => Len(replies) = taken - 1 /\ taken > 0
  /\ \A i \in Upstream : read[i] <= Len(up[i].sent) /\ Fine(i, Len(replies))

(* While a request is answered, a goroutine has read its upstream's answer   *)
(* to it, or is about to, or has left an error.                              *)
Tasks ==
  \A i \in Upstream :
    /\ task[i] \in {"send", "recv"} => pc = "fan" /\ read[i] = taken - 1
    /\ (pc = "fan" /\ task[i] = "ok") => read[i] = taken /\ Fine(i, taken)
    /\ (pc = "fan" /\ task[i] = "failed") => err # "none"

(* The upstreams may have failed the stream. *)
UpstreamFailed ==
  \E i \in Upstream : Ended(i) \/ \E n \in DOMAIN up[i].sent : up[i].sent[n].kind = "error"

Reasons ==
  /\ err \in {"client", "internal"} => UpstreamFailed
  /\ err = "canceled" => Gone
  /\ result = "none" <=> pc # "done"
  /\ (result \notin {"none", "ok"} /\ ~Gone) =>
       UpstreamFailed \/ Unreadable
       \/ (taken > 0 /\ (Asked = "nothing" \/ (alpha /\ Asked = "numbers")))

(* What is being answered was read. *)
Readable == pc = "fan" => Asked # "unreadable"

IInv == TypeOK /\ Aligned /\ Tasks /\ Reasons /\ Readable

-----------------------------------------------------------------------------
(* Nothing is asked, answered or read at first (reflection.go 83-101).       *)
LEMMA InitIInv == Init => IInv
<1> SUFFICES ASSUME Init PROVE IInv
  OBVIOUS
<1>1. << >> \in Seq(Ask) /\ << >> \in Seq(Answer) /\ << >> \in Seq({}) /\ Len(<< >>) = 0
  OBVIOUS
<1>2. client \in [asked : Seq(Ask), st : {"open", "half", "gone"}] /\ Len(client.asked) = 0
  BY <1>1 DEF Init
<1>3. up \in [Upstream -> [got : Nat, sent : Seq(Answer), end : {"open", "client", "other"}]]
  BY <1>1 DEF Init
<1>4. TypeOK
  BY <1>1, <1>2, <1>3 DEF Init, TypeOK
<1>5. Aligned
  <2>1. replies = << >> /\ Len(replies) = 0 /\ taken = 0 /\ pc = "recv"
    BY DEF Init
  <2>2. \A i \in Upstream : read[i] <= Len(up[i].sent) /\ Fine(i, 0)
    BY DEF Init, Fine
  <2> QED
    BY <1>1, <2>1, <2>2 DEF Aligned, IsSeq
<1>6. Tasks /\ Reasons /\ Readable
  BY DEF Init, Tasks, Reasons, Readable
<1> QED
  BY <1>4, <1>5, <1>6 DEF IInv

UpType == [got : Nat, sent : Seq(Answer), end : {"open", "client", "other"}]

(* A record of an upstream with one field changed (reflection.go 148-184).   *)
LEMMA FieldChanged ==
  ASSUME NEW r \in UpType, NEW v
  PROVE  /\ [r EXCEPT !.got = v] = [got |-> v, sent |-> r.sent, end |-> r.end]
         /\ [r EXCEPT !.sent = v] = [got |-> r.got, sent |-> v, end |-> r.end]
         /\ [r EXCEPT !.end = v] = [got |-> r.got, sent |-> r.sent, end |-> v]
         /\ r.got \in Nat /\ r.sent \in Seq(Answer) /\ r.end \in {"open", "client", "other"}
<1>1. r = [got |-> r.got, sent |-> r.sent, end |-> r.end]
  BY DEF UpType
<1> QED
  BY <1>1 DEF UpType

(* What has changed of one upstream is still what an upstream is             *)
(* (reflection.go 148-184).                                                  *)
LEMMA OneChanged ==
  ASSUME up \in [Upstream -> UpType], NEW i \in Upstream,
         NEW got \in Nat, NEW sent \in Seq(Answer), NEW end \in {"open", "client", "other"},
         up' = [up EXCEPT ![i] = [got |-> got, sent |-> sent, end |-> end]]
  PROVE  /\ up' \in [Upstream -> UpType]
         /\ up'[i] = [got |-> got, sent |-> sent, end |-> end]
         /\ \A j \in Upstream : j # i => up'[j] = up[j]
<1>1. [got |-> got, sent |-> sent, end |-> end] \in UpType
  BY DEF UpType
<1> QED
  BY <1>1

(* A reply more is one more (reflection.go 176-183).                         *)
LEMMA OneMore ==
  ASSUME NEW s, IsSeq(s), NEW x
  PROVE  IsSeq(Append(s, x)) /\ Len(Append(s, x)) = Len(s) + 1
         /\ Len(s) \in Nat /\ DOMAIN s = 1..Len(s)
<1>1. PICK S : s \in Seq(S)
  BY DEF IsSeq
<1>2. S \subseteq S \union {x}
  OBVIOUS
<1>3. s \in Seq(S \union {x})
  BY <1>1, <1>2, SeqMonotonic
<1>4. Append(s, x) \in Seq(S \union {x}) /\ Len(Append(s, x)) = Len(s) + 1
  BY <1>3
<1> QED
  BY <1>3, <1>4 DEF IsSeq

(* What the answers of an upstream were does not change when it gives one    *)
(* more (reflection.go 148-184).                                             *)
LEMMA MoreAnswers ==
  ASSUME TypeOK, Aligned, NEW i \in Upstream, NEW a \in Answer,
         up' = [up EXCEPT ![i].sent = Append(@, a)], UNCHANGED read
  PROVE  /\ up' \in [Upstream -> UpType]
         /\ \A j \in Upstream : /\ up'[j].end = up[j].end
                               /\ Len(up[j].sent) <= Len(up'[j].sent)
                               /\ \A k \in 1..Len(up[j].sent) : up'[j].sent[k] = up[j].sent[k]
<1>1. up[i].sent \in Seq(Answer)
  BY DEF TypeOK
<1>2. Append(up[i].sent, a) \in Seq(Answer)
  BY <1>1
<1>3. up' = [up EXCEPT ![i] = [got |-> up[i].got, sent |-> Append(up[i].sent, a), end |-> up[i].end]]
      /\ up \in [Upstream -> UpType] /\ up[i].got \in Nat /\ up[i].end \in {"open", "client", "other"}
  <2>1. up \in [Upstream -> UpType] /\ up[i] \in UpType
    BY DEF TypeOK, UpType
  <2>2. up' = [up EXCEPT ![i] = [up[i] EXCEPT !.sent = Append(up[i].sent, a)]]
    BY <2>1
  <2> QED
    BY <2>1, <2>2, FieldChanged
<1>4. /\ up' \in [Upstream -> UpType]
      /\ up'[i] = [got |-> up[i].got, sent |-> Append(up[i].sent, a), end |-> up[i].end]
      /\ \A j \in Upstream : j # i => up'[j] = up[j]
  <2> DEFINE changed == [got |-> up[i].got, sent |-> Append(up[i].sent, a), end |-> up[i].end]
  <2>1. changed \in UpType
    BY <1>2, <1>3 DEF UpType
  <2>2. up \in [Upstream -> UpType] /\ up' = [up EXCEPT ![i] = changed]
    BY <1>3
  <2> HIDE DEF changed
  <2>3. up' \in [Upstream -> UpType] /\ up'[i] = changed /\ \A j \in Upstream : j # i => up'[j] = up[j]
    BY <2>1, <2>2
  <2> QED
    BY <2>3 DEF changed
<1>5. up'[i].sent = Append(up[i].sent, a) /\ up'[i].end = up[i].end
  BY <1>4
<1>6. \A j \in Upstream : up[j].sent \in Seq(Answer) /\ Len(up[j].sent) \in Nat
  BY DEF TypeOK
<1>7. \A j \in Upstream : /\ up'[j].end = up[j].end
                         /\ Len(up[j].sent) <= Len(up'[j].sent)
                         /\ \A k \in 1..Len(up[j].sent) : up'[j].sent[k] = up[j].sent[k]
  <2> SUFFICES ASSUME NEW j \in Upstream
               PROVE  /\ up'[j].end = up[j].end
                      /\ Len(up[j].sent) <= Len(up'[j].sent)
                      /\ \A k \in 1..Len(up[j].sent) : up'[j].sent[k] = up[j].sent[k]
    OBVIOUS
  <2>1. CASE j = i
    BY <1>1, <1>5, <2>1
  <2>2. CASE j # i
    BY <1>4, <1>6, <2>2
  <2> QED
    BY <2>1, <2>2
<1> QED
  BY <1>4, <1>7

(* The reasons a stream may have failed for stay when nothing but what the   *)
(* client and the upstreams have sent changes (reflection.go 103-137).       *)
LEMMA ReasonsStay ==
  ASSUME TypeOK, Reasons, pc # "done", pc' # "done", UNCHANGED << err, result >>,
         Gone => Gone', UpstreamFailed => UpstreamFailed'
  PROVE  Reasons'
BY DEF Reasons

(* A request that cannot be read is never sent to the upstreams              *)
(* (reflection.go 109-116).                                                  *)
LEMMA StaysReadable ==
  ASSUME TypeOK, Aligned, Readable, [Next]_vars
  PROVE  Readable'
<1>a. client \in [asked : Seq(Ask), st : {"open", "half", "gone"}] /\ client.asked \in Seq(Ask)
      /\ taken \in Nat /\ taken <= Len(client.asked)
  BY DEF TypeOK
<1>b. ASSUME client'.asked = client.asked, taken' = taken, pc' = "fan" => pc = "fan"
      PROVE  Readable'
  BY <1>b DEF Readable, Asked
<1>1. ASSUME NEW ask \in Ask, ClientAsks(ask) PROVE Readable'
  <2>1. pc' = pc /\ taken' = taken /\ client'.asked = Append(client.asked, ask)
    BY <1>1, <1>a DEF ClientAsks
  <2>2. taken > 0 => client'.asked[taken] = client.asked[taken]
    BY <2>1, <1>a
  <2>3. pc = "fan" => taken > 0
    BY DEF Aligned
  <2> QED
    BY <2>1, <2>2, <2>3 DEF Readable, Asked
<1>2. ASSUME NEW st \in {"half", "gone"}, ClientCloses(st) PROVE Readable'
  <2>1. client'.asked = client.asked /\ taken' = taken /\ pc' = pc
    BY <1>2, <1>a DEF ClientCloses
  <2> QED
    BY <2>1, <1>b
<1>3. CASE TakeRequest
  BY <1>3 DEF TakeRequest, Readable, Asked
<1>4. ASSUME UNCHANGED << client, taken >>, pc' = "fan" => pc = "fan" PROVE Readable'
  BY <1>4 DEF Readable, Asked
<1>5. CASE TakeEnd \/ Reject \/ Reply
  <2>1. UNCHANGED << client, taken >> /\ pc' # "fan"
    BY <1>5 DEF TakeEnd, Reject, Reply, Return
  <2> QED
    BY <2>1, <1>4
<1>6. ASSUME NEW i \in Upstream, Task(i) \/ (\E a \in Answer : UpAnswers(i, a))
                                 \/ (\E end \in {"client", "other"} : UpEnds(i, end))
      PROVE  Readable'
  <2>1. UNCHANGED << client, taken, pc >>
    BY <1>6 DEF Task, Send, SendFails, Recv, RecvFails, UpAnswers, UpEnds
  <2> QED
    BY <2>1, <1>4
<1>7. CASE UNCHANGED vars
  BY <1>7, <1>4 DEF vars
<1> QED
  BY <1>1, <1>2, <1>3, <1>5, <1>6, <1>7 DEF Next, Handler

(* Every step of the client, of an upstream, of the handler and of its       *)
(* goroutines keeps the invariant (reflection.go 103-392).                   *)
LEMMA StepIInv == IInv /\ [Next]_vars => IInv'
<1> SUFFICES ASSUME IInv, [Next]_vars PROVE IInv'
  OBVIOUS
<1>a. TypeOK /\ Aligned /\ Tasks /\ Reasons /\ Readable
  BY DEF IInv
<1>r. Readable'
  BY <1>a, StaysReadable
<1>b. taken \in Nat /\ taken <= Len(client.asked) /\ client.asked \in Seq(Ask) /\ Len(client.asked) \in Nat
  BY <1>a DEF TypeOK
<1>c. Len(replies) \in Nat /\ \A i \in Upstream : read[i] \in Nat
  BY <1>a, <1>b DEF TypeOK, Aligned, IsSeq
<1>1. ASSUME NEW ask \in Ask, ClientAsks(ask) PROVE IInv'
  <2>1. /\ client' = [client EXCEPT !.asked = Append(client.asked, ask)] /\ pc' = pc /\ pc # "done"
        /\ UNCHANGED << alpha, up, taken, task, read, resps, err, replies, result >>
    BY <1>1 DEF ClientAsks, fanVars
  <2>2. client'.asked \in Seq(Ask) /\ Len(client'.asked) = Len(client.asked) + 1 /\ client'.st = client.st
    BY <2>1, <1>a, <1>b DEF TypeOK
  <2>3. TypeOK'
    <3>1. client' \in [asked : Seq(Ask), st : {"open", "half", "gone"}]
      BY <2>1, <2>2, <1>a DEF TypeOK
    <3> QED
      BY <2>1, <2>2, <3>1, <1>a, <1>b DEF TypeOK
  <2>4. Aligned' /\ Tasks'
    BY <2>1, <1>a DEF Aligned, Tasks, Fine
  <2>5. Reasons'
    BY <2>1, <2>2, <1>a, ReasonsStay DEF Gone, UpstreamFailed, Ended
  <2> QED
    BY <2>3, <2>4, <2>5, <1>r DEF IInv
<1>2. ASSUME NEW st \in {"half", "gone"}, ClientCloses(st) PROVE IInv'
  <2>1. /\ client' = [client EXCEPT !.st = st] /\ pc' = pc /\ pc # "done" /\ client.st # "gone"
        /\ UNCHANGED << alpha, up, taken, task, read, resps, err, replies, result >>
    BY <1>2 DEF ClientCloses, fanVars
  <2>2. client'.asked = client.asked
    BY <2>1, <1>a DEF TypeOK
  <2>3. TypeOK'
    <3>1. client' \in [asked : Seq(Ask), st : {"open", "half", "gone"}]
      BY <2>1, <1>a DEF TypeOK
    <3> QED
      BY <2>1, <2>2, <3>1, <1>a DEF TypeOK
  <2>4. Aligned' /\ Tasks'
    BY <2>1, <1>a DEF Aligned, Tasks, Fine
  <2>5. Reasons'
    BY <2>1, <1>a, ReasonsStay DEF Gone, UpstreamFailed, Ended
  <2> QED
    BY <2>3, <2>4, <2>5, <1>r DEF IInv
<1>3. ASSUME NEW i \in Upstream, NEW a \in Answer, UpAnswers(i, a) PROVE IInv'
  <2>1. /\ up' = [up EXCEPT ![i].sent = Append(@, a)] /\ pc' = pc /\ pc # "done"
        /\ UNCHANGED << alpha, client, taken, task, read, resps, err, replies, result >>
    BY <1>3 DEF UpAnswers, fanVars
  <2>2. /\ up' \in [Upstream -> UpType]
        /\ \A j \in Upstream : /\ up'[j].end = up[j].end
                              /\ Len(up[j].sent) <= Len(up'[j].sent)
                              /\ \A k \in 1..Len(up[j].sent) : up'[j].sent[k] = up[j].sent[k]
    BY <2>1, <1>a, MoreAnswers
  <2>3. TypeOK'
    BY <2>1, <2>2, <1>a DEF TypeOK, UpType
  <2>4. \A j \in Upstream : read[j] <= Len(up[j].sent) /\ Len(up[j].sent) \in Nat /\ Len(up'[j].sent) \in Nat
    BY <2>2, <1>a DEF Aligned, TypeOK
  <2>5. \A j \in Upstream : read'[j] <= Len(up'[j].sent) /\ \A n \in Nat : Fine(j, n) => Fine(j, n)'
    BY <2>1, <2>2, <2>4, <1>c DEF Fine
  <2>6. Aligned'
    BY <2>1, <2>5, <1>a, <1>c DEF Aligned
  <2>7. Tasks'
    BY <2>1, <2>5, <1>a, <1>b DEF Tasks
  <2>8. Reasons'
    <3>1. UpstreamFailed => UpstreamFailed'
      <4> SUFFICES ASSUME NEW j \in Upstream, Ended(j) \/ \E n \in DOMAIN up[j].sent : up[j].sent[n].kind = "error"
                   PROVE  UpstreamFailed'
        BY DEF UpstreamFailed
      <4>1. DOMAIN up[j].sent = 1..Len(up[j].sent) /\ DOMAIN up'[j].sent = 1..Len(up'[j].sent)
        BY <2>2, <1>a DEF TypeOK
      <4>2. CASE Ended(j)
        BY <2>2, <4>2 DEF UpstreamFailed, Ended
      <4>3. ASSUME NEW n \in DOMAIN up[j].sent, up[j].sent[n].kind = "error" PROVE UpstreamFailed'
        <5>1. n \in 1..Len(up[j].sent) /\ n \in DOMAIN up'[j].sent
          BY <2>2, <2>4, <4>1, <4>3
        <5>2. up'[j].sent[n].kind = "error"
          BY <2>2, <4>3, <5>1
        <5> QED
          BY <5>1, <5>2 DEF UpstreamFailed
      <4> QED
        BY <4>2, <4>3
    <3> QED
      BY <2>1, <3>1, <1>a, ReasonsStay DEF Gone
  <2> QED
    BY <2>3, <2>6, <2>7, <2>8, <1>r DEF IInv
<1>4. ASSUME NEW i \in Upstream, NEW end \in {"client", "other"}, UpEnds(i, end) PROVE IInv'
  <2>1. /\ up' = [up EXCEPT ![i].end = end] /\ pc' = pc /\ pc # "done" /\ up[i].end = "open"
        /\ UNCHANGED << alpha, client, taken, task, read, resps, err, replies, result >>
    BY <1>4 DEF UpEnds, fanVars, Ended
  <2>2. \A j \in Upstream : up'[j].sent = up[j].sent /\ (up[j].end # "open" => up'[j].end = up[j].end)
    BY <2>1, <1>a DEF TypeOK
  <2>3. TypeOK'
    <3>1. up' = [up EXCEPT ![i] = [got |-> up[i].got, sent |-> up[i].sent, end |-> end]]
          /\ up \in [Upstream -> UpType] /\ up[i].got \in Nat /\ up[i].sent \in Seq(Answer)
      <4>1. up \in [Upstream -> UpType] /\ up[i] \in UpType
        BY <1>a DEF TypeOK, UpType
      <4>2. up' = [up EXCEPT ![i] = [up[i] EXCEPT !.end = end]]
        BY <2>1, <4>1
      <4> QED
        BY <4>1, <4>2, FieldChanged
    <3>2. up' \in [Upstream -> UpType]
      BY <3>1, OneChanged
    <3> QED
      BY <2>1, <3>2, <1>a DEF TypeOK, UpType
  <2>4. Aligned' /\ Tasks'
    BY <2>1, <2>2, <1>a DEF Aligned, Tasks, Fine
  <2>5. Reasons'
    <3>1. UpstreamFailed => UpstreamFailed'
      BY <2>2 DEF UpstreamFailed, Ended
    <3> QED
      BY <2>1, <3>1, <1>a, ReasonsStay DEF Gone
  <2> QED
    BY <2>3, <2>4, <2>5, <1>r DEF IInv
<1>5. CASE TakeRequest
  <2>1. /\ pc = "recv" /\ taken' = taken + 1 /\ taken < Len(client.asked)
        /\ UNCHANGED << alpha, client, up, read, replies >>
    BY <1>5 DEF TakeRequest, fanVars
  <2>2. \A i \in Upstream : read[i] = taken /\ Fine(i, taken)
    BY <2>1, <1>a, <1>c DEF Aligned, TypeOK, Fine
  <2>3. \A i \in Upstream : read'[i] \in 0..taken'
    BY <2>1, <2>2, <1>b
  <2>4. CASE alpha /\ client.asked[taken'] = "nothing"
    <3>1. pc' = "done" /\ result' = "panic" /\ UNCHANGED << task, resps, err >>
      BY <1>5, <2>4 DEF TakeRequest, Return, fanVars
    <3>2. TypeOK'
      BY <2>1, <2>3, <3>1, <1>a, <1>b, <1>c DEF TypeOK
    <3>3. Aligned' /\ Tasks'
      BY <2>1, <3>1, <1>a, <1>b, <1>c DEF Aligned, Tasks, Fine
    <3>4. Reasons'
      BY <2>1, <2>4, <3>1, <1>a, <1>b DEF Reasons, Asked, UpstreamFailed, Ended, Gone
    <3> QED
      BY <3>2, <3>3, <3>4, <1>r DEF IInv
  <2>5. CASE ~(alpha /\ client.asked[taken'] = "nothing")
    <3>1. /\ pc' = "fan" /\ task' = [i \in Upstream |-> "send"]
          /\ resps' = [i \in Upstream |-> NoAnswer] /\ err' = "none" /\ result' = result
      BY <1>5, <2>5 DEF TakeRequest
    <3>2. TypeOK'
      BY <2>1, <2>3, <3>1, <1>a, <1>b, <1>c DEF TypeOK
    <3>3. Aligned'
      BY <2>1, <3>1, <1>a, <1>b, <1>c DEF Aligned, Fine
    <3>4. Tasks'
      BY <2>1, <2>2, <3>1, <1>b DEF Tasks
    <3>5. Reasons'
      BY <2>1, <3>1, <1>a DEF Reasons
    <3> QED
      BY <3>2, <3>3, <3>4, <3>5, <1>r DEF IInv
  <2> QED
    BY <2>4, <2>5
<1>6. CASE TakeEnd
  <2>1. /\ pc = "recv" /\ pc' = "done"
        /\ \/ result' = "ok" \/ (result' = "internal" /\ Gone)
           \/ (result' \in {"internal", "toolarge"} /\ Unreadable)
        /\ UNCHANGED << alpha, client, up, taken, task, read, resps, err, replies >>
    BY <1>6 DEF TakeEnd, Return, fanVars
  <2>2. TypeOK'
    BY <2>1, <1>a DEF TypeOK
  <2>3. Aligned' /\ Tasks'
    BY <2>1, <1>a DEF Aligned, Tasks, Fine
  <2>4. Reasons'
    BY <2>1, <1>a DEF Reasons, UpstreamFailed, Ended, Gone, Unreadable
  <2> QED
    BY <2>2, <2>3, <2>4, <1>r DEF IInv
<1>7. ASSUME NEW i \in Upstream, Send(i) PROVE IInv'
  <2>1. /\ task[i] = "send" /\ task' = [task EXCEPT ![i] = "recv"]
        /\ UNCHANGED << alpha, client, pc, taken, read, resps, err, replies, result >>
    BY <1>7 DEF Send
  <2>2. /\ up' \in [Upstream -> UpType]
        /\ \A j \in Upstream : up'[j].sent = up[j].sent /\ up'[j].end = up[j].end
    <3>1. up \in [Upstream -> UpType] /\ up[i].got + 1 \in Nat /\ up[i].sent \in Seq(Answer)
          /\ up[i].end \in {"open", "client", "other"}
      BY <1>a DEF TypeOK, UpType
    <3>2. CASE up' = up
      BY <3>1, <3>2
    <3>3. CASE up' = [up EXCEPT ![i].got = @ + 1]
      <4>1. up' = [up EXCEPT ![i] = [got |-> up[i].got + 1, sent |-> up[i].sent, end |-> up[i].end]]
        <5>1. up[i] \in UpType
          BY <3>1
        <5>2. up' = [up EXCEPT ![i] = [up[i] EXCEPT !.got = up[i].got + 1]]
          BY <3>1, <3>3
        <5> QED
          BY <5>1, <5>2, FieldChanged
      <4>2. /\ up' \in [Upstream -> UpType]
            /\ up'[i] = [got |-> up[i].got + 1, sent |-> up[i].sent, end |-> up[i].end]
            /\ \A j \in Upstream : j # i => up'[j] = up[j]
        BY <3>1, <4>1, OneChanged
      <4> QED
        BY <4>2
    <3> QED
      BY <1>7, <3>2, <3>3 DEF Send
  <2>3. TypeOK'
    BY <2>1, <2>2, <1>a DEF TypeOK, UpType
  <2>4. Aligned'
    BY <2>1, <2>2, <1>a DEF Aligned, Fine
  <2>5. Tasks'
    BY <2>1, <2>2, <1>a DEF Tasks, Fine, TypeOK
  <2>6. Reasons'
    BY <2>1, <2>2, <1>a DEF Reasons, UpstreamFailed, Ended, Gone, Asked, Unreadable
  <2> QED
    BY <2>3, <2>4, <2>5, <2>6, <1>r DEF IInv
<1>8. ASSUME NEW i \in Upstream, task[i] \in {"send", "recv"}, NEW e \in ErrorsOf(i), Fail(i, e),
             UNCHANGED << alpha, client, up, pc, taken, read, resps, replies, result >>
      PROVE  IInv'
  <2>1. /\ e \in {"client", "internal"} => UpstreamFailed
        /\ e = "canceled" => Gone
        /\ e \in {"client", "internal", "canceled"}
    BY <1>8 DEF ErrorsOf, UpstreamFailed
  <2>2. task' = [task EXCEPT ![i] = "failed"] /\ err' = IF err = "none" THEN e ELSE err
    BY <1>8 DEF Fail
  <2>3. TypeOK'
    BY <1>8, <2>1, <2>2, <1>a DEF TypeOK
  <2>4. Aligned'
    BY <1>8, <1>a DEF Aligned, Fine
  <2>5. Tasks'
    BY <1>8, <2>1, <2>2, <1>a DEF Tasks, Fine, TypeOK
  <2>6. Reasons'
    BY <1>8, <2>1, <2>2, <1>a DEF Reasons, UpstreamFailed, Ended, Gone, Asked
  <2> QED
    BY <2>3, <2>4, <2>5, <2>6, <1>r DEF IInv
<1>9. ASSUME NEW i \in Upstream, SendFails(i) \/ RecvFails(i) PROVE IInv'
  BY <1>8, <1>9 DEF SendFails, RecvFails
<1>10. ASSUME NEW i \in Upstream, Recv(i) PROVE IInv'
  <2> DEFINE a == up[i].sent[read[i] + 1]
  <2>1. /\ task[i] = "recv" /\ read' = [read EXCEPT ![i] = @ + 1] /\ read[i] < Len(up[i].sent)
        /\ UNCHANGED << alpha, client, up, pc, taken, replies, result >>
    BY <1>10 DEF Recv
  <2>2. pc = "fan" /\ read[i] = taken - 1 /\ taken > 0 /\ Len(replies) = taken - 1
    BY <2>1, <1>a DEF Tasks, Aligned
  <2>3. up[i].sent \in Seq(Answer) /\ read[i] + 1 \in 1..Len(up[i].sent) /\ a \in Answer
    BY <2>1, <1>a, <1>c DEF TypeOK
  <2>4. read' \in [Upstream -> 0..taken] /\ read'[i] = taken
    BY <2>1, <2>2, <1>a, <1>b DEF TypeOK
  <2>5. Aligned'
    BY <2>1, <2>2, <2>3, <2>4, <1>a, <1>b, <1>c DEF Aligned, Fine, TypeOK
  <2>6. CASE a.kind = "error"
    <3>1. /\ task' = [task EXCEPT ![i] = "failed"] /\ err' = IF err = "none" THEN "internal" ELSE err
          /\ resps' = resps
      BY <1>10, <2>6 DEF Recv, Fail
    <3>2. UpstreamFailed
      BY <2>3, <2>6 DEF UpstreamFailed
    <3>3. TypeOK'
      BY <2>1, <2>4, <3>1, <1>a DEF TypeOK
    <3>4. Tasks'
      BY <2>1, <2>2, <2>4, <3>1, <1>a DEF Tasks, Fine, TypeOK
    <3>5. Reasons'
      BY <2>1, <2>2, <3>1, <3>2, <1>a DEF Reasons, UpstreamFailed, Ended, Gone, Asked
    <3> QED
      BY <2>5, <3>3, <3>4, <3>5, <1>r DEF IInv
  <2>7. CASE a.kind # "error"
    <3>1. task' = [task EXCEPT ![i] = "ok"] /\ err' = err /\ resps' = [resps EXCEPT ![i] = a]
      BY <1>10, <2>7 DEF Recv, Accept
    <3>2. TypeOK'
      BY <2>1, <2>3, <2>4, <3>1, <1>a DEF TypeOK
    <3>3. Fine(i, taken)'
      <4>1. Fine(i, taken - 1)
        BY <2>2, <1>a DEF Aligned
      <4>2. \A k \in 1..taken : k \in 1..(taken - 1) \/ k = read[i] + 1
        BY <2>2, <1>b
      <4> QED
        BY <2>1, <2>2, <2>4, <2>7, <4>1, <4>2 DEF Fine
    <3>4. Tasks'
      BY <2>1, <2>2, <2>4, <3>1, <3>3, <1>a DEF Tasks, Fine, TypeOK
    <3>5. Reasons'
      BY <2>1, <2>2, <3>1, <1>a DEF Reasons, UpstreamFailed, Ended, Gone, Asked
    <3> QED
      BY <2>5, <3>2, <3>4, <3>5, <1>r DEF IInv
  <2> QED
    BY <2>6, <2>7
<1>11. CASE Reject
  <2>1. /\ pc = "fan" /\ pc' = "done"
        /\ (err # "none" /\ result' = err) \/ (Asked = "nothing" /\ result' = "internal")
        /\ \A i \in Upstream : task[i] \in {"ok", "failed"}
        /\ UNCHANGED << alpha, client, up, taken, task, read, resps, err, replies >>
    BY <1>11 DEF Reject, Waited, Return, fanVars
  <2>2. TypeOK'
    BY <2>1, <1>a DEF TypeOK
  <2>3. Aligned'
    BY <2>1, <1>a, <1>b, <1>c DEF Aligned, Fine
  <2>4. Tasks'
    BY <2>1, <1>a DEF Tasks
  <2>5. Reasons'
    <3>1. UpstreamFailed' = UpstreamFailed /\ Gone' = Gone /\ Asked' = Asked /\ taken > 0
      BY <2>1, <1>a DEF UpstreamFailed, Ended, Gone, Asked, Aligned
    <3>2. err \in {"none", "client", "internal", "canceled"}
      BY <1>a DEF TypeOK
    <3> QED
      BY <2>1, <3>1, <3>2, <1>a DEF Reasons
  <2> QED
    BY <2>2, <2>3, <2>4, <2>5, <1>r DEF IInv
<1>12. CASE Reply
  <2>1. /\ pc = "fan" /\ taken > 0 /\ Asked # "nothing" /\ err = "none" /\ Len(replies) = taken - 1
        /\ UNCHANGED << alpha, client, up, taken, task, read, resps, err >>
    BY <1>12, <1>a DEF Reply, Waited, fanVars, Aligned
  <2>2. \A i \in Upstream : task[i] = "ok" /\ read[i] = taken /\ Fine(i, taken)
    BY <1>12, <2>1, <1>a DEF Reply, Waited, Tasks
  <2>3. UpstreamFailed' = UpstreamFailed /\ Gone' = Gone /\ Asked' = Asked
        /\ \A n : \A i \in Upstream : Fine(i, n)' = Fine(i, n)
    BY <2>1 DEF UpstreamFailed, Ended, Gone, Asked, Fine
  <2>4. Tasks'
    BY <2>1, <2>2, <2>3 DEF Tasks
  <2>5. CASE ~Convertible(MergeResponses)
    <3>1. pc' = "done" /\ result' = "panic" /\ replies' = replies
      BY <1>12, <2>5 DEF Reply, Return
    <3>2. Asked \in Ask /\ Asked # "unreadable"
      BY <2>1, <1>a, <1>b DEF Asked, Readable
    <3>3. alpha /\ Asked = "numbers"
      BY <2>1, <2>5, <3>2
      DEF Convertible, MergeResponses, MergeFiles, MergeServices, NoAnswer, Ask
    <3>4. TypeOK' /\ Aligned'
      BY <2>1, <2>3, <3>1, <1>a, <1>b, <1>c DEF TypeOK, Aligned
    <3>5. Reasons'
      BY <2>1, <2>3, <3>1, <3>3, <1>a DEF Reasons
    <3> QED
      BY <2>4, <3>4, <3>5, <1>r DEF IInv
  <2>6. CASE ~Gone /\ pc' = "recv" /\ result' = result /\ replies' = Append(replies, MergeResponses)
    <3>1. IsSeq(replies') /\ Len(replies') = taken
      BY <2>1, <2>6, <1>a, <1>b, OneMore DEF Aligned
    <3>2. TypeOK'
      BY <2>1, <2>6, <3>1, <1>a, <1>b DEF TypeOK
    <3>3. Aligned'
      BY <2>1, <2>2, <2>3, <2>6, <3>1, <1>a, <1>b DEF Aligned
    <3>4. Reasons'
      BY <2>1, <2>3, <2>6, <1>a DEF Reasons
    <3> QED
      BY <2>4, <3>2, <3>3, <3>4, <1>r DEF IInv
  <2>7. CASE Gone /\ pc' = "done" /\ result' = "internal" /\ replies' = replies
    <3>1. TypeOK' /\ Aligned'
      BY <2>1, <2>3, <2>7, <1>a, <1>b, <1>c DEF TypeOK, Aligned
    <3>2. Reasons'
      BY <2>1, <2>3, <2>7, <1>a DEF Reasons
    <3> QED
      BY <2>4, <3>1, <3>2, <1>r DEF IInv
  <2> QED
    BY <1>12, <2>5, <2>6, <2>7 DEF Reply, Return
<1>13. CASE UNCHANGED vars
  <2>1. UNCHANGED << alpha, client, up, pc, taken, task, read, resps, err, replies, result >>
    BY <1>13 DEF vars
  <2>2. TypeOK' /\ Aligned' /\ Tasks'
    BY <2>1, <1>a DEF TypeOK, Aligned, Tasks, Fine
  <2>3. Reasons'
    BY <2>1, <1>a DEF Reasons, UpstreamFailed, Ended, Gone, Asked, Unreadable
  <2> QED
    BY <2>2, <2>3, <1>r DEF IInv
<1> QED
  BY <1>1, <1>2, <1>3, <1>4, <1>5, <1>6, <1>7, <1>9, <1>10, <1>11, <1>12, <1>13
  DEF Next, Handler, Task

(* Hence it holds throughout every stream.                                   *)
LEMMA InductiveInvariant == Spec => []IInv
<1> QED
  BY InitIInv, StepIInv, PTL DEF Spec

(* The handler reads no answer before it has asked for it, and gives no      *)
(* more replies than it has read requests (reflection.go 103-184).           *)
THEOREM TypeCorrect == Spec => []TypeOK
<1>1. IInv => TypeOK
  BY DEF IInv
<1> QED
  BY <1>1, InductiveInvariant, PTL

(* However many upstreams there are and however their answers interleave, no *)
(* request for descriptors or services that one of them answered with an     *)
(* error gets a reply: the answers of a request are never taken for those of *)
(* another (reflection.go 148-184).                                          *)
THEOREM ErrorsAlwaysReported == Spec => []ErrorNeverHidden
<1>1. IInv => ErrorNeverHidden
  <2> SUFFICES ASSUME IInv, NEW n \in DOMAIN replies, NEW a \in AnswersTo(n)
               PROVE  a.kind # "error"
    BY DEF ErrorNeverHidden
  <2>1. n \in 1..Len(replies)
    BY OneMore DEF IInv, Aligned
  <2>2. PICK i \in Upstream : a = up[i].sent[n]
    BY DEF AnswersTo
  <2> QED
    BY <2>1, <2>2 DEF IInv, Aligned, Fine
<1> QED
  BY <1>1, InductiveInvariant, PTL

(* A stream the client has not left fails only because an upstream failed    *)
(* it, or because of a request the proxy cannot deal with, for every number  *)
(* of upstreams (reflection.go 103-137).                                     *)
THEOREM NeverFailsUnprovoked == Spec => []FailsForAReason
<1>1. IInv => FailsForAReason
  BY DEF IInv, Reasons, FailsForAReason, UpstreamFailed
<1> QED
  BY <1>1, InductiveInvariant, PTL

-----------------------------------------------------------------------------
(* What passes from each upstream to the next holds of all of them: how the  *)
(* loop over the answers is reasoned about (reflection.go 231-250).          *)
LEMMA OneByOne ==
  ASSUME NEW L \in Nat, NEW P,
         L > 0 => 1 \in P,
         \A m \in 1..(L - 1) : m \in P => m + 1 \in P
  PROVE  1..L \subseteq P
<1> DEFINE Out == (1..L) \ P
<1> SUFFICES ASSUME Out # {} PROVE FALSE
  OBVIOUS
<1>1. PICK x \in Out : \A y \in Out : ~(<<y, x>> \in OpToRel(<, Nat))
  <2>1. Out \subseteq Nat
    OBVIOUS
  <2> HIDE DEF Out
  <2> QED
    BY <2>1, NatLessThanWellFounded, WFMin, Zenon
<1>2. \A y \in Out : ~(y < x)
  <2>1. \A y \in Out : y < x => <<y, x>> \in OpToRel(<, Nat)
    BY DEF OpToRel
  <2> HIDE DEF Out
  <2> QED
    BY <1>1, <2>1
<1>3. x # 1
  OBVIOUS
<1>4. x - 1 \in 1..(L - 1) /\ x - 1 \notin Out
  BY <1>2, <1>3
<1> QED
  BY <1>4

(* The places of the elements of the first m of some sequences.              *)
Places(s, m) == UNION { {j} \X DOMAIN s[j] : j \in 1..m }

(* x holds, one for one, the elements of the first m sequences of s.         *)
Joins(s, m, x) ==
  \E from \in Bijection(DOMAIN x, Places(s, m)) :
    \A p \in DOMAIN from : x[p] = s[from[p][1]][from[p][2]]

(* The place of an element (reflection.go 231-250).                          *)
LEMMA PlaceOf ==
  ASSUME NEW s, NEW m, NEW q
  PROVE  q \in Places(s, m) <=>
           \E j \in 1..m : \E k \in DOMAIN s[j] : q = <<j, k>>
BY DEF Places

(* One sequence more is appended to what was joined (reflection.go 247-248). *)
LEMMA JoinsOneMore ==
  ASSUME NEW T, NEW L \in Nat, NEW s \in [1..L -> Seq(T)], NEW m \in 1..(L - 1),
         NEW x \in Seq(T), Joins(s, m, x)
  PROVE  x \o s[m + 1] \in Seq(T) /\ Joins(s, m + 1, x \o s[m + 1])
<1> DEFINE y == s[m + 1]
           z == x \o y
<1>1. y \in Seq(T) /\ m + 1 \in 1..L /\ Len(x) \in Nat /\ Len(y) \in Nat
  OBVIOUS
<1>2. /\ z \in Seq(T) /\ Len(z) = Len(x) + Len(y)
      /\ DOMAIN x = 1..Len(x) /\ DOMAIN y = 1..Len(y) /\ DOMAIN z = 1..(Len(x) + Len(y))
      /\ \A p \in 1..Len(x) : z[p] = x[p]
      /\ \A p \in 1..Len(y) : z[Len(x) + p] = y[p]
  <2> HIDE DEF y
  <2> QED
    BY <1>1
<1>3. PICK b \in Bijection(DOMAIN x, Places(s, m)) :
             \A p \in DOMAIN b : x[p] = s[b[p][1]][b[p][2]]
  BY DEF Joins
<1>4. /\ b \in [1..Len(x) -> Places(s, m)]
      /\ \A p, q \in 1..Len(x) : b[p] = b[q] => p = q
      /\ \A r \in Places(s, m) : \E p \in 1..Len(x) : b[p] = r
  BY <1>2, <1>3 DEF Bijection, Injection, Surjection, IsInjective
<1> DEFINE c == [p \in 1..(Len(x) + Len(y)) |->
                   IF p <= Len(x) THEN b[p] ELSE <<m + 1, p - Len(x)>>]
<1> HIDE DEF y, z
<1>5. ASSUME NEW p \in 1..(Len(x) + Len(y)), p > Len(x)
      PROVE  /\ c[p] = <<m + 1, p - Len(x)>> /\ p - Len(x) \in 1..Len(y)
             /\ c[p][1] = m + 1 /\ c[p][2] = p - Len(x)
             /\ c[p] \in Places(s, m + 1) /\ c[p] \notin Places(s, m)
             /\ z[p] = s[c[p][1]][c[p][2]]
  <2>1. c[p] = <<m + 1, p - Len(x)>> /\ p - Len(x) \in 1..Len(y)
    BY <1>1, <1>5
  <2>2. c[p][1] = m + 1 /\ c[p][2] = p - Len(x)
    BY <2>1
  <2>3. p - Len(x) \in DOMAIN s[m + 1] /\ m + 1 \in 1..(m + 1)
    BY <1>2, <2>1 DEF y
  <2>4. c[p] \in Places(s, m + 1)
    BY <2>1, <2>3, PlaceOf
  <2>5. c[p] \notin Places(s, m)
    BY <2>1, PlaceOf
  <2>6. z[p] = y[p - Len(x)]
    <3>1. Len(x) + (p - Len(x)) = p
      BY <1>1
    <3>2. z[Len(x) + (p - Len(x))] = y[p - Len(x)]
      BY <1>2, <2>1
    <3> QED
      BY <3>1, <3>2
  <2> QED
    BY <2>1, <2>2, <2>4, <2>5, <2>6 DEF y
<1>6. ASSUME NEW p \in 1..(Len(x) + Len(y)), p <= Len(x)
      PROVE  /\ p \in 1..Len(x) /\ c[p] = b[p] /\ c[p] \in Places(s, m)
             /\ c[p] \in Places(s, m + 1) /\ z[p] = s[c[p][1]][c[p][2]]
  <2>1. p \in 1..Len(x) /\ c[p] = b[p]
    BY <1>1, <1>6
  <2>2. c[p] \in Places(s, m) /\ z[p] = s[c[p][1]][c[p][2]]
    BY <1>2, <1>3, <1>4, <2>1
  <2>3. c[p] \in Places(s, m + 1)
    BY <2>2, PlaceOf
  <2> QED
    BY <2>1, <2>2, <2>3
<1>7. c \in [1..(Len(x) + Len(y)) -> Places(s, m + 1)]
  <2>1. \A p \in 1..(Len(x) + Len(y)) : c[p] \in Places(s, m + 1)
    BY <1>1, <1>5, <1>6
  <2> QED
    BY <2>1
<1>8. ASSUME NEW p \in 1..(Len(x) + Len(y)), NEW q \in 1..(Len(x) + Len(y)), c[p] = c[q]
      PROVE  p = q
  <2> HIDE DEF c
  <2>1. CASE p <= Len(x) /\ q <= Len(x)
    BY <1>4, <1>6, <1>8, <2>1
  <2>2. CASE p > Len(x) /\ q > Len(x)
    BY <1>1, <1>5, <1>8, <2>2
  <2>3. CASE (p <= Len(x)) # (q <= Len(x))
    BY <1>1, <1>5, <1>6, <1>8, <2>3
  <2> QED
    BY <1>1, <2>1, <2>2, <2>3
<1>9. ASSUME NEW r \in Places(s, m + 1)
      PROVE  \E p \in 1..(Len(x) + Len(y)) : c[p] = r
  <2>0. PICK j \in 1..(m + 1) : \E k \in DOMAIN s[j] : r = <<j, k>>
    BY PlaceOf
  <2>1. PICK k \in DOMAIN s[j] : r = <<j, k>>
    BY <2>0
  <2>2. CASE j = m + 1
    <3>1. k \in 1..Len(y) /\ Len(x) + k \in 1..(Len(x) + Len(y)) /\ Len(x) + k > Len(x)
      BY <1>1, <1>2, <2>1, <2>2 DEF y
    <3>2. c[Len(x) + k] = <<m + 1, k>>
      <4>1. (Len(x) + k) - Len(x) = k
        BY <1>1, <3>1
      <4> HIDE DEF c
      <4>2. c[Len(x) + k] = <<m + 1, (Len(x) + k) - Len(x)>>
        BY <1>5, <3>1
      <4> QED
        BY <4>1, <4>2
    <3> QED
      BY <2>1, <2>2, <3>1, <3>2
  <2>3. CASE j # m + 1
    <3>1. r \in Places(s, m)
      BY <2>1, <2>3, PlaceOf
    <3>2. PICK p \in 1..Len(x) : b[p] = r
      BY <1>4, <3>1
    <3>3. p \in 1..(Len(x) + Len(y)) /\ c[p] = b[p]
      BY <1>1
    <3> QED
      BY <3>2, <3>3
  <2> QED
    BY <2>2, <2>3
<1>10. c \in Bijection(DOMAIN z, Places(s, m + 1))
  <2> HIDE DEF c
  <2> QED
    BY <1>2, <1>7, <1>8, <1>9 DEF Bijection, Injection, Surjection, IsInjective
<1>11. \A p \in DOMAIN c : z[p] = s[c[p][1]][c[p][2]]
  <2> HIDE DEF c
  <2> SUFFICES ASSUME NEW p \in 1..(Len(x) + Len(y)) PROVE z[p] = s[c[p][1]][c[p][2]]
    BY <1>7
  <2>1. CASE p <= Len(x)
    BY <1>6, <2>1
  <2>2. CASE p > Len(x)
    BY <1>5, <2>2
  <2> QED
    BY <1>1, <2>1, <2>2
<1>12. Joins(s, m + 1, z)
  <2> HIDE DEF c
  <2> QED
    BY <1>10, <1>11 DEF Joins
<1> QED
  BY <1>2, <1>12 DEF z, y

(* The first sequence is joined with nothing (reflection.go 231-250).        *)
LEMMA JoinsFirst ==
  ASSUME NEW T, NEW s, s[1] \in Seq(T)
  PROVE  Joins(s, 1, s[1])
<1> DEFINE x == s[1]
           c == [p \in DOMAIN x |-> <<1, p>>]
<1>1. \A q : q \in Places(s, 1) <=> \E k \in DOMAIN x : q = <<1, k>>
  <2>1. \A j : j \in 1..1 <=> j = 1
    OBVIOUS
  <2> QED
    BY <2>1, PlaceOf
<1>2. c \in [DOMAIN x -> Places(s, 1)]
  BY <1>1
<1>3. c \in Bijection(DOMAIN x, Places(s, 1))
  BY <1>1, <1>2 DEF Bijection, Injection, Surjection, IsInjective
<1>4. \A p \in DOMAIN c : x[p] = s[c[p][1]][c[p][2]]
  OBVIOUS
<1> QED
  BY <1>3, <1>4 DEF Joins

(* f is the recursion by which FlattenSeq joins the sequences of s.          *)
IsJoining(s, L, f) == f = [i \in 1..L |-> IF i = 1 THEN s[i] ELSE f[i - 1] \o s[i]]

(* That recursion has a solution (reflection.go 231-250).                    *)
LEMMA JoiningExists ==
  ASSUME NEW L \in Nat, L > 0, NEW s
  PROVE  \E f : IsJoining(s, L, f)
<1> DEFINE P == { m \in 1..L : \E f : IsJoining(s, m, f) }
<1>1. 1 \in P
  <2> DEFINE f == [i \in 1..1 |-> s[i]]
  <2>1. f = [i \in 1..1 |-> IF i = 1 THEN s[i] ELSE f[i - 1] \o s[i]]
    OBVIOUS
  <2>2. IsJoining(s, 1, f) /\ 1 \in 1..L
    BY <2>1 DEF IsJoining
  <2> HIDE DEF f
  <2> QED
    BY <2>2
<1>2. ASSUME NEW m \in 1..(L - 1), m \in P PROVE m + 1 \in P
  <2>1. PICK f : f = [i \in 1..m |-> IF i = 1 THEN s[i] ELSE f[i - 1] \o s[i]]
    BY <1>2 DEF IsJoining
  <2> DEFINE g == [i \in 1..(m + 1) |-> IF i <= m THEN f[i] ELSE f[m] \o s[m + 1]]
  <2>2. ASSUME NEW i \in 1..(m + 1)
        PROVE  g[i] = IF i = 1 THEN s[i] ELSE g[i - 1] \o s[i]
    <3>1. CASE i <= m
      <4>1. i \in 1..m /\ g[i] = f[i] /\ (i # 1 => i - 1 \in 1..m /\ g[i - 1] = f[i - 1])
        BY <3>1
      <4>2. f[i] = IF i = 1 THEN s[i] ELSE f[i - 1] \o s[i]
        BY <2>1, <4>1
      <4> QED
        BY <4>1, <4>2
    <3>2. CASE i = m + 1
      BY <3>2
    <3> QED
      BY <3>1, <3>2
  <2>3. g = [i \in 1..(m + 1) |-> IF i = 1 THEN s[i] ELSE g[i - 1] \o s[i]]
    <3>1. \A i \in 1..(m + 1) : g[i] = IF i = 1 THEN s[i] ELSE g[i - 1] \o s[i]
      BY <2>2
    <3>2. DOMAIN g = 1..(m + 1) /\ g = [i \in 1..(m + 1) |-> g[i]]
      OBVIOUS
    <3> HIDE DEF g
    <3> QED
      BY <3>1, <3>2
  <2>4. m + 1 \in 1..L
    OBVIOUS
  <2> HIDE DEF g
  <2> QED
    BY <2>3, <2>4 DEF IsJoining
<1>3. 1..L \subseteq P
  <2> HIDE DEF P
  <2> QED
    BY <1>1, <1>2, OneByOne
<1> QED
  BY <1>3

(* It joins the sequences one after the other (reflection.go 231-250).       *)
LEMMA JoiningJoins ==
  ASSUME NEW T, NEW L \in Nat, L > 0, NEW s \in [1..L -> Seq(T)], NEW f, IsJoining(s, L, f)
  PROVE  f[L] \in Seq(T) /\ Joins(s, L, f[L])
<1> DEFINE P == { m \in 1..L : f[m] \in Seq(T) /\ Joins(s, m, f[m]) }
<1>0. \A i \in 1..L : f[i] = IF i = 1 THEN s[i] ELSE f[i - 1] \o s[i]
  BY DEF IsJoining
<1>1. 1 \in P
  <2>1. f[1] = s[1] /\ s[1] \in Seq(T) /\ 1 \in 1..L
    BY <1>0
  <2> QED
    BY <2>1, JoinsFirst
<1>2. ASSUME NEW m \in 1..(L - 1), m \in P PROVE m + 1 \in P
  <2>1. m + 1 \in 1..L /\ f[m + 1] = f[m] \o s[m + 1]
    <3>1. m + 1 \in 1..L /\ m + 1 # 1 /\ (m + 1) - 1 = m
      OBVIOUS
    <3> QED
      BY <1>0, <3>1
  <2>2. f[m] \in Seq(T) /\ Joins(s, m, f[m])
    BY <1>2
  <2> QED
    BY <2>1, <2>2, JoinsOneMore
<1>3. 1..L \subseteq P
  <2> HIDE DEF P
  <2> QED
    BY <1>1, <1>2, OneByOne
<1> QED
  BY <1>3

(* FlattenSeq puts its sequences one after the other (reflection.go          *)
(* 231-250).                                                                 *)
LEMMA Flattened ==
  ASSUME NEW T, NEW L \in Nat, L > 0, NEW s \in [1..L -> Seq(T)]
  PROVE  FlattenSeq(s) \in Seq(T) /\ Joins(s, L, FlattenSeq(s))
<1>1. s \in Seq(Seq(T)) /\ Len(s) = L
  OBVIOUS
<1> DEFINE f == CHOOSE g : g = [i \in 1..L |-> IF i = 1 THEN s[i] ELSE g[i - 1] \o s[i]]
<1>2. FlattenSeq(s) = f[L]
  BY <1>1 DEF FlattenSeq
<1>3. IsJoining(s, L, f)
  BY JoiningExists DEF IsJoining
<1> HIDE DEF f
<1> QED
  BY <1>2, <1>3, JoiningJoins

-----------------------------------------------------------------------------
(* The first upstream of some (reflection.go 305-318).                       *)
LEMMA FirstUpstream ==
  ASSUME NEW P \in SUBSET Upstream, P # {}
  PROVE  Min(P) \in P /\ \A j \in P : Min(P) <= j
<1>0. P \subseteq Nat
  BY ReflectAssumption DEF Upstream
<1>1. PICK x \in P : \A y \in P : ~(<<y, x>> \in OpToRel(<, Nat))
  BY <1>0, NatLessThanWellFounded, WFMin, Zenon
<1>2. \A y \in P : x <= y
  <2>1. \A y \in P : y < x => <<y, x>> \in OpToRel(<, Nat)
    BY <1>0 DEF OpToRel
  <2>2. \A y \in P : ~(y < x)
    BY <1>1, <2>1, Zenon
  <2> QED
    BY <1>0, <2>2
<1> QED
  BY <1>2 DEF Min

(* The descriptors of all answers, one for one (reflection.go 222-256).      *)
LEMMA FilesMerged ==
  ASSUME resps \in [Upstream -> AnswerType]
  PROVE  FilesMerge(resps, MergeFiles)
<1> DEFINE s == [i \in Upstream |-> Of("files", i)]
           all == FlattenSeq(s)
           places == UNION { {i} \X DOMAIN resps[i].items :
                               i \in { j \in Upstream : resps[j].kind = "files" } }
<1>1. s \in [1..N -> Seq(STRING)] /\ Upstream = 1..N /\ N \in Nat
  <2>1. Upstream = 1..N /\ N \in Nat
    BY ReflectAssumption DEF Upstream
  <2>2. \A i \in Upstream : Of("files", i) \in Seq(STRING)
    <3>1. \A i \in Upstream : resps[i].items \in Seq(STRING)
      BY DEF AnswerType
    <3>2. << >> \in Seq(STRING)
      OBVIOUS
    <3> QED
      BY <3>1, <3>2, Zenon DEF Of
  <2> QED
    BY <2>1, <2>2
<1>2. Places(s, N) = places
  <2>1. \A j \in 1..N : DOMAIN s[j] = IF resps[j].kind = "files" THEN DOMAIN resps[j].items ELSE {}
    BY <1>1 DEF Of
  <2>2. \A q : q \in places <=>
               \E j \in 1..N : resps[j].kind = "files" /\ \E k \in DOMAIN resps[j].items : q = <<j, k>>
    BY <1>1
  <2> HIDE DEF s, places
  <2>3. \A q : q \in Places(s, N) <=> \E j \in 1..N : \E k \in DOMAIN s[j] : q = <<j, k>>
    BY PlaceOf
  <2>4. \A q : q \in Places(s, N) <=> q \in places
    BY <2>1, <2>2, <2>3
  <2>5. \A q \in Places(s, N) : q \in places
    BY <2>4
  <2>6. \A q \in places : q \in Places(s, N)
    BY <2>4
  <2> QED
    BY <2>5, <2>6
<1>3. all \in Seq(STRING) /\ Joins(s, N, all)
  <2>1. CASE N > 0
    <3> HIDE DEF s
    <3> QED
      BY <1>1, <2>1, Flattened
  <2>2. CASE N = 0
    <3>1. s = << >> /\ Places(s, N) = {}
      <4>1. s = << >>
        BY <1>1, <2>2
      <4>2. \A q : q \notin Places(s, N)
        BY <2>2, PlaceOf
      <4> QED
        BY <4>1, <4>2
    <3>2. all = << >>
      BY <3>1 DEF FlattenSeq
    <3>3. << >> \in Bijection(DOMAIN << >>, {}) /\ DOMAIN << >> = {} /\ << >> \in Seq(STRING)
      BY DEF Bijection, Injection, Surjection, IsInjective
    <3>4. Joins(s, N, << >>)
      <4> HIDE DEF s
      <4> QED
        BY <3>1, <3>3 DEF Joins
    <3> HIDE DEF s, all
    <3> QED
      BY <3>2, <3>3, <3>4
  <2> QED
    BY <1>1, <2>1, <2>2
<1>4. PICK from \in Bijection(DOMAIN all, places) :
             \A p \in DOMAIN from : all[p] = s[from[p][1]][from[p][2]]
  <2> HIDE DEF s, all, places
  <2> QED
    BY <1>2, <1>3 DEF Joins
<1>5. /\ from \in [1..Len(all) -> places] /\ Len(all) \in Nat /\ DOMAIN all = 1..Len(all)
      /\ \A r \in places : \E p \in 1..Len(all) : from[p] = r
  <2> HIDE DEF all, places
  <2> QED
    BY <1>3, <1>4 DEF Bijection, Injection, Surjection
<1>6. \A p \in DOMAIN from : all[p] = resps[from[p][1]].items[from[p][2]]
  <2> SUFFICES ASSUME NEW p \in DOMAIN from
               PROVE  all[p] = resps[from[p][1]].items[from[p][2]]
    OBVIOUS
  <2> HIDE DEF all
  <2>1. from[p] \in places
    BY <1>5
  <2>2. PICK i \in { j \in Upstream : resps[j].kind = "files" } : from[p] \in {i} \X DOMAIN resps[i].items
    BY <2>1
  <2>3. from[p][1] = i /\ s[i] = resps[i].items
    BY <2>2 DEF Of
  <2> QED
    BY <1>4, <2>3
<1>7. CASE places = {}
  <2>1. all = << >>
    <3> HIDE DEF all, places
    <3>1. Len(all) = 0
      <4>1. 1 \notin 1..Len(all)
        BY <1>5, <1>7
      <4> QED
        BY <1>5, <4>1
    <3> QED
      BY <1>3, <3>1
  <2> QED
    BY <1>7, <2>1 DEF FilesMerge, MergeFiles
<1>8. CASE places # {}
  <2>1. all # << >>
    <3> HIDE DEF all, places
    <3>1. Len(all) # 0
      BY <1>5, <1>8
    <3> QED
      BY <3>1
  <2>2. MergeFiles = [kind |-> "files", items |-> all]
    BY <2>1 DEF MergeFiles
  <2>3. MergeFiles.kind = "files" /\ MergeFiles.items = all
    BY <2>2
  <2> HIDE DEF all
  <2> QED
    BY <1>4, <1>6, <1>8, <2>3 DEF FilesMerge
<1> QED
  BY <1>7, <1>8

(* The services of all answers, unified (reflection.go 258-303).             *)
LEMMA ServicesMerged == ServicesMerge(resps, MergeServices)
<1> DEFINE all == UNION { ToSet(Of("services", i)) : i \in Upstream }
           names == UNION { ToSet(resps[i].items) :
                              i \in { j \in Upstream : resps[j].kind = "services" } }
<1>1. ToSet(<< >>) = {}
  BY DEF ToSet
<1>2. all = names
  <2>1. \A x : x \in all <=> x \in names
    BY <1>1 DEF Of
  <2> QED
    BY <2>1
<1> QED
  BY <1>2 DEF ServicesMerge, MergeServices

(* The extension numbers of the first upstream that has some (reflection.go  *)
(* 305-318).                                                                 *)
LEMMA NumbersMerged == NumbersMerge(resps, FirstNumbers)
<1> DEFINE some == { i \in Upstream : resps[i].kind # "notfound" }
<1>1. CASE some = {}
  BY <1>1 DEF NumbersMerge, FirstNumbers
<1>2. CASE some # {}
  <2>1. Min(some) \in some /\ \A j \in some : Min(some) <= j
    <3>1. some \in SUBSET Upstream
      OBVIOUS
    <3> HIDE DEF some
    <3> QED
      BY <1>2, <3>1, FirstUpstream
  <2>2. \A j \in 1..(Min(some) - 1) : j \in Upstream /\ j \notin some
    <3>1. N \in Nat /\ Min(some) \in 1..N
      BY <2>1, ReflectAssumption DEF Upstream
    <3> HIDE DEF some
    <3> SUFFICES ASSUME NEW j \in 1..(Min(some) - 1) PROVE j \in Upstream /\ j \notin some
      OBVIOUS
    <3>2. j \in 1..N /\ ~(Min(some) <= j)
      BY <3>1
    <3> QED
      BY <2>1, <3>2 DEF Upstream
  <2>3. FirstNumbers = resps[Min(some)]
    BY <1>2 DEF FirstNumbers
  <2>4. Min(some) \in Upstream /\ resps[Min(some)].kind # "notfound"
    BY <2>1
  <2>5. \A j \in 1..(Min(some) - 1) : resps[j].kind = "notfound"
    BY <2>2
  <2> HIDE DEF some
  <2> QED
    BY <2>3, <2>4, <2>5 DEF NumbersMerge
<1> QED
  BY <1>1, <1>2

(* What mergeResponses makes of one answer of each upstream holds what a     *)
(* reply to the request is to hold (reflection.go 189-220).                  *)
LEMMA ResponsesMerged ==
  ASSUME TypeOK, Asked \in Ask, Asked # "nothing", Asked # "unreadable"
  PROVE  Merges(Asked, resps, MergeResponses)
<1>1. resps \in [Upstream -> AnswerType]
  <2>1. NoAnswer \in AnswerType
    <3>1. << >> \in Seq(STRING)
      OBVIOUS
    <3> QED
      BY <3>1 DEF NoAnswer, AnswerType
  <2>2. Answer \union {NoAnswer} \subseteq AnswerType
    BY <2>1, ReflectAssumption
  <2> QED
    BY <2>2 DEF TypeOK
<1>2. CASE Asked = "files"
  <2>1. MergeResponses = MergeFiles
    BY <1>2 DEF MergeResponses
  <2> QED
    BY <1>1, <1>2, <2>1, FilesMerged DEF Merges
<1>3. CASE Asked = "services"
  <2>1. MergeResponses = MergeServices
    BY <1>3 DEF MergeResponses
  <2> QED
    BY <1>3, <2>1, ServicesMerged DEF Merges
<1>4. CASE Asked = "numbers"
  <2>1. MergeResponses = FirstNumbers
    BY <1>4 DEF MergeResponses
  <2> QED
    BY <1>4, <2>1, NumbersMerged DEF Merges
<1> QED
  BY <1>2, <1>3, <1>4 DEF Ask

-----------------------------------------------------------------------------
(* A goroutine that is through holds its upstream's answer to the request at *)
(* hand, not to another.                                                     *)
Current ==
  pc = "fan" => \A i \in Upstream : task[i] = "ok" => resps[i] = up[i].sent[taken]

(* The n-th reply is a merge of the answers to the n-th request.             *)
Merged(n) ==
  /\ \A i \in Upstream : Len(up[i].sent) >= n
  /\ Merges(client.asked[n], [i \in Upstream |-> up[i].sent[n]], replies[n])

(* Nothing is answered at first (reflection.go 83-101).                      *)
LEMMA InitMerges == Init => Current /\ RepliesMerge
<1>1. DOMAIN << >> = {}
  OBVIOUS
<1> QED
  BY <1>1 DEF Init, Current, RepliesMerge

(* A reply stays what it was: its request and the answers to it do not       *)
(* change any more (reflection.go 103-186).                                  *)
LEMMA StaysMerged ==
  ASSUME IInv, NEW n \in Nat, Merged(n),
         n <= Len(client.asked) => client'.asked[n] = client.asked[n],
         n <= taken, replies'[n] = replies[n],
         \A j \in Upstream : /\ Len(up'[j].sent) >= Len(up[j].sent) /\ Len(up'[j].sent) \in Nat
                             /\ n <= Len(up[j].sent) => up'[j].sent[n] = up[j].sent[n]
  PROVE  Merged(n)'
<1>1. n <= Len(client.asked) /\ \A i \in Upstream : Len(up[i].sent) >= n /\ Len(up[i].sent) \in Nat
  <2>1. taken \in Nat /\ taken <= Len(client.asked) /\ Len(client.asked) \in Nat
    BY DEF IInv, TypeOK
  <2>2. \A i \in Upstream : Len(up[i].sent) \in Nat
    BY DEF IInv, TypeOK
  <2> QED
    BY <2>1, <2>2 DEF Merged
<1>2. \A i \in Upstream : Len(up'[i].sent) >= n
  BY <1>1
<1>3. [i \in Upstream |-> up'[i].sent[n]] = [i \in Upstream |-> up[i].sent[n]]
  BY <1>1
<1>4. client'.asked[n] = client.asked[n]
  BY <1>1
<1> QED
  BY <1>2, <1>3, <1>4 DEF Merged

(* A step that leaves the replies alone leaves them merged (reflection.go    *)
(* 103-186).                                                                 *)
LEMMA StayMerged ==
  ASSUME IInv, RepliesMerge, UNCHANGED replies,
         \A n \in 1..Len(client.asked) : client'.asked[n] = client.asked[n],
         \A j \in Upstream : /\ Len(up'[j].sent) >= Len(up[j].sent) /\ Len(up'[j].sent) \in Nat
                             /\ \A n \in 1..Len(up[j].sent) : up'[j].sent[n] = up[j].sent[n]
  PROVE  RepliesMerge'
<1> SUFFICES ASSUME NEW n \in DOMAIN replies PROVE Merged(n)'
  BY DEF RepliesMerge, Merged
<1>1. n \in 1..Len(replies) /\ Len(replies) \in Nat /\ Len(replies) <= taken /\ taken \in Nat
  BY OneMore DEF IInv, Aligned, TypeOK
<1>2. Merged(n)
  BY DEF RepliesMerge, Merged
<1>3. Len(client.asked) \in Nat /\ \A j \in Upstream : Len(up[j].sent) \in Nat
  BY DEF IInv, TypeOK
<1>4. n <= Len(client.asked) => client'.asked[n] = client.asked[n]
  BY <1>1, <1>3
<1>5. \A j \in Upstream : n <= Len(up[j].sent) => up'[j].sent[n] = up[j].sent[n]
  BY <1>1, <1>3
<1> QED
  BY <1>1, <1>2, <1>4, <1>5, StaysMerged

(* Every step keeps the answers with their requests: those read (Current)    *)
(* and those replied (reflection.go 103-392).                                *)
LEMMA StepMerges == IInv /\ Current /\ RepliesMerge /\ [Next]_vars => Current' /\ RepliesMerge'
<1> SUFFICES ASSUME IInv, Current, RepliesMerge, [Next]_vars PROVE Current' /\ RepliesMerge'
  OBVIOUS
<1>a. TypeOK /\ Aligned /\ Tasks /\ Readable
  BY DEF IInv
<1>b. taken \in Nat /\ taken <= Len(client.asked) /\ client.asked \in Seq(Ask) /\ Len(client.asked) \in Nat
  BY <1>a DEF TypeOK
<1>c. \A i \in Upstream : Len(up[i].sent) \in Nat /\ up[i].sent \in Seq(Answer) /\ read[i] \in Nat
  BY <1>a, <1>b DEF TypeOK
<1>d. ASSUME UNCHANGED replies, client'.asked = client.asked,
             \A j \in Upstream : up'[j].sent = up[j].sent
      PROVE  RepliesMerge'
  BY <1>c, <1>d, StayMerged
<1>1. ASSUME NEW ask \in Ask, ClientAsks(ask) PROVE Current' /\ RepliesMerge'
  <2>1. /\ client' = [client EXCEPT !.asked = Append(client.asked, ask)]
        /\ UNCHANGED << up, pc, taken, task, resps, replies >>
    BY <1>1 DEF ClientAsks, fanVars
  <2>2. client'.asked = Append(client.asked, ask)
    BY <2>1, <1>a DEF TypeOK
  <2>3. \A n \in 1..Len(client.asked) : client'.asked[n] = client.asked[n]
    BY <2>2, <1>b
  <2> QED
    BY <2>1, <2>3, <1>c, StayMerged DEF Current
<1>2. ASSUME NEW st \in {"half", "gone"}, ClientCloses(st) PROVE Current' /\ RepliesMerge'
  <2>1. /\ client' = [client EXCEPT !.st = st]
        /\ UNCHANGED << up, pc, taken, task, resps, replies >>
    BY <1>2 DEF ClientCloses, fanVars
  <2>2. client'.asked = client.asked
    BY <2>1, <1>a DEF TypeOK
  <2> QED
    BY <2>1, <2>2, <1>d DEF Current
<1>3. ASSUME NEW i \in Upstream, NEW a \in Answer, UpAnswers(i, a) PROVE Current' /\ RepliesMerge'
  <2>1. /\ up' = [up EXCEPT ![i].sent = Append(@, a)]
        /\ UNCHANGED << client, pc, taken, task, read, resps, replies >>
    BY <1>3 DEF UpAnswers, fanVars
  <2>2. /\ up' \in [Upstream -> UpType]
        /\ \A j \in Upstream : /\ Len(up[j].sent) <= Len(up'[j].sent)
                              /\ \A k \in 1..Len(up[j].sent) : up'[j].sent[k] = up[j].sent[k]
    BY <2>1, <1>a, MoreAnswers
  <2>3. \A j \in Upstream : Len(up'[j].sent) \in Nat /\ Len(up'[j].sent) >= Len(up[j].sent)
    BY <2>2, <1>c DEF UpType
  <2>4. RepliesMerge'
    BY <2>1, <2>2, <2>3, StayMerged
  <2>5. Current'
    <3> SUFFICES ASSUME pc = "fan", NEW j \in Upstream, task[j] = "ok"
                 PROVE  resps[j] = up'[j].sent[taken]
      BY <2>1 DEF Current
    <3>1. resps[j] = up[j].sent[taken]
      BY DEF Current
    <3>2. taken \in 1..Len(up[j].sent)
      BY <1>a, <1>b, <1>c DEF Tasks, Aligned
    <3> QED
      BY <2>2, <3>1, <3>2
  <2> QED
    BY <2>4, <2>5
<1>4. ASSUME NEW i \in Upstream, NEW end \in {"client", "other"}, UpEnds(i, end)
      PROVE  Current' /\ RepliesMerge'
  <2>1. /\ up' = [up EXCEPT ![i].end = end]
        /\ UNCHANGED << client, pc, taken, task, resps, replies >>
    BY <1>4 DEF UpEnds, fanVars
  <2>2. \A j \in Upstream : up'[j].sent = up[j].sent
    BY <2>1, <1>a DEF TypeOK
  <2> QED
    BY <2>1, <2>2, <1>d DEF Current
<1>5. CASE TakeRequest
  <2>1. UNCHANGED << client, up, replies >>
    BY <1>5 DEF TakeRequest
  <2>2. pc' = "done" \/ task' = [i \in Upstream |-> "send"]
    BY <1>5 DEF TakeRequest, Return
  <2> QED
    BY <2>1, <2>2, <1>d DEF Current
<1>6. CASE TakeEnd \/ Reject
  <2>1. pc' = "done" /\ UNCHANGED << client, up, replies >>
    BY <1>6 DEF TakeEnd, Reject, Return
  <2> QED
    BY <2>1, <1>d DEF Current
<1>7. ASSUME NEW i \in Upstream, Send(i) PROVE Current' /\ RepliesMerge'
  <2>1. /\ task' = [task EXCEPT ![i] = "recv"]
        /\ (up' = up \/ up' = [up EXCEPT ![i].got = @ + 1])
        /\ UNCHANGED << client, pc, taken, resps, replies >>
    BY <1>7 DEF Send
  <2>2. \A j \in Upstream : up'[j].sent = up[j].sent
    <3>1. CASE up' = up
      BY <3>1
    <3>2. CASE up' = [up EXCEPT ![i].got = @ + 1]
      BY <3>2, <1>a DEF TypeOK
    <3> QED
      BY <2>1, <3>1, <3>2
  <2>3. Current'
    BY <2>1, <2>2, <1>a DEF Current, TypeOK
  <2> QED
    BY <2>1, <2>2, <2>3, <1>d
<1>8. ASSUME NEW i \in Upstream, SendFails(i) \/ RecvFails(i) PROVE Current' /\ RepliesMerge'
  <2>1. /\ task' = [task EXCEPT ![i] = "failed"]
        /\ UNCHANGED << client, up, pc, taken, resps, replies >>
    BY <1>8 DEF SendFails, RecvFails, Fail
  <2>2. Current'
    BY <2>1, <1>a DEF Current, TypeOK
  <2> QED
    BY <2>1, <2>2, <1>d
<1>9. ASSUME NEW i \in Upstream, Recv(i) PROVE Current' /\ RepliesMerge'
  <2>1. task[i] = "recv" /\ UNCHANGED << client, up, pc, taken, replies >>
    BY <1>9 DEF Recv
  <2>2. read[i] + 1 = taken
    BY <2>1, <1>a, <1>b DEF Tasks
  <2>3. \/ task' = [task EXCEPT ![i] = "failed"] /\ resps' = resps
        \/ task' = [task EXCEPT ![i] = "ok"] /\ resps' = [resps EXCEPT ![i] = up[i].sent[taken]]
    BY <1>9, <2>2 DEF Recv, Fail, Accept
  <2>4. Current'
    BY <2>1, <2>3, <1>a DEF Current, TypeOK
  <2> QED
    BY <2>1, <2>4, <1>d
<1>10. CASE Reply
  <2>1. /\ pc = "fan" /\ pc' # "fan" /\ err = "none" /\ Asked # "nothing"
        /\ \A i \in Upstream : task[i] \in {"ok", "failed"}
        /\ replies' = replies \/ replies' = Append(replies, MergeResponses)
        /\ UNCHANGED << client, up, taken >>
    BY <1>10 DEF Reply, Waited, Return
  <2>2. taken > 0 /\ Len(replies) = taken - 1 /\ IsSeq(replies)
    BY <2>1, <1>a DEF Aligned
  <2>3. \A i \in Upstream : /\ resps[i] = up[i].sent[taken]
                           /\ Len(up[i].sent) >= taken
    BY <2>1, <1>a, <1>b, <1>c DEF Current, Tasks, Aligned
  <2>4. RepliesMerge'
    <3>1. CASE replies' = replies
      BY <2>1, <3>1, <1>d
    <3>2. CASE replies' = Append(replies, MergeResponses)
      <4>1. /\ DOMAIN replies = 1..(taken - 1) /\ DOMAIN replies' = 1..taken
            /\ replies'[taken] = MergeResponses
            /\ \A n \in 1..(taken - 1) : replies'[n] = replies[n]
        <5>1. PICK S : replies \in Seq(S)
          BY <2>2 DEF IsSeq
        <5> QED
          BY <2>2, <3>2, <5>1, <1>b
      <4>2. ASSUME NEW n \in 1..(taken - 1) PROVE Merged(n)'
        <5>1. Merged(n)
          BY <4>1 DEF RepliesMerge, Merged
        <5> QED
          BY <2>1, <4>1, <5>1, <1>b, <1>c, StaysMerged
      <4>3. Merged(taken)'
        <5>1. Merges(Asked, resps, MergeResponses)
          <6>1. Asked \in Ask /\ Asked # "unreadable"
            BY <2>1, <2>2, <1>a, <1>b DEF Asked, Readable
          <6> QED
            BY <2>1, <6>1, <1>a, ResponsesMerged
        <5>2. resps = [i \in Upstream |-> up[i].sent[taken]]
          BY <2>3, <1>a DEF TypeOK
        <5> QED
          BY <2>1, <2>3, <4>1, <5>1, <5>2 DEF Merged, Asked
      <4>4. \A n \in 1..taken : Merged(n)'
        <5> SUFFICES ASSUME NEW n \in 1..taken PROVE Merged(n)'
          OBVIOUS
        <5>1. CASE n = taken
          BY <2>1, <4>3, <5>1 DEF Merged
        <5>2. CASE n # taken
          BY <2>2, <4>2, <5>2, <1>b
        <5> QED
          BY <5>1, <5>2
      <4> QED
        BY <4>1, <4>4 DEF RepliesMerge, Merged
    <3> QED
      BY <2>1, <3>1, <3>2
  <2> QED
    BY <2>1, <2>4 DEF Current
<1>11. CASE UNCHANGED vars
  <2>1. UNCHANGED << client, up, pc, taken, task, resps, replies >>
    BY <1>11 DEF vars
  <2> QED
    BY <2>1, <1>d DEF Current
<1> QED
  BY <1>1, <1>2, <1>3, <1>4, <1>5, <1>6, <1>7, <1>8, <1>9, <1>10, <1>11
  DEF Next, Handler, Task

(* Every reply is a merge of one answer of each upstream to its own request: *)
(* all descriptors one for one, the services unified, the extension numbers  *)
(* of the first upstream that has some; for every number of upstreams and    *)
(* requests, whatever they answer and in whatever order (reflection.go       *)
(* 145-220).                                                                 *)
THEOREM RepliesAlwaysMerge == Spec => []RepliesMerge
<1> QED
  BY InductiveInvariant, InitMerges, StepMerges, PTL DEF Spec
=============================================================================
