------------------------------- MODULE Reflect -------------------------------
(***************************************************************************)
(* A reflection stream of the Reflector middleware, once it has a stream   *)
(* on each of its upstreams (pkg/proxy/middleware/reflection.go 103-392).  *)
(*                                                                         *)
(* Each request of the client is sent to every upstream by a goroutine of  *)
(* its own, which then waits for that upstream's answer; when all of them  *)
(* have returned, the answers are merged into one reply.  An error ends    *)
(* the client's stream.  A client that speaks v1alpha has its requests and *)
(* replies converted.                                                      *)
(***************************************************************************)
EXTENDS Integers, Sequences, FiniteSets, FiniteSetsExt, SequencesExt

CONSTANTS
  N,           \* number of upstreams
  Alpha,       \* whether a client may speak v1alpha, as a set of BOOLEANs
  Answer,      \* what an upstream may answer: a kind and items
  MayAnswer,   \* what each upstream may answer to each request
  MaxRequests  \* bound on the requests of the client

Upstream == 1..N

(* What a request asks for: descriptors, services, extension numbers, or     *)
(* nothing at all; one that does not decode or is larger than grpc-go        *)
(* receives is unreadable.                                                   *)
Ask == {"files", "services", "numbers", "nothing", "unreadable"}

AnswerType == [kind : {"files", "services", "numbers", "notfound", "error"},
               items : Seq(STRING)]

ASSUME ReflectAssumption ==
  /\ N \in Nat
  /\ Alpha \subseteq BOOLEAN
  /\ Answer \subseteq AnswerType
  /\ MayAnswer \in [Upstream -> [Ask -> SUBSET Answer]]
  /\ MaxRequests \in Nat

VARIABLES
  alpha,    \* the client speaks v1alpha
  client,   \* what it has asked, and "open", "half" closed or "gone"
  up,       \* an upstream: requests it got, answers it sent, and how it ended
  pc,       \* the handler: "recv", "fan" or "done"
  taken,    \* number of requests the handler has read
  task,     \* the goroutine of an upstream: "send", "recv", "ok" or "failed"
  read,     \* number of answers read from an upstream
  resps,    \* the answers to the request at hand
  err,      \* the first error of the goroutines, or "none"
  replies,  \* what the client was given
  result    \* the status the stream ended with, or "none"

vars == << alpha, client, up, pc, taken, task, read, resps, err, replies, result >>
fanVars == << task, read, resps, err >>

NoAnswer == [kind |-> "notfound", items |-> << >>]

Init ==
  /\ alpha \in Alpha
  /\ client = [asked |-> << >>, st |-> "open"]
  /\ up = [i \in Upstream |-> [got |-> 0, sent |-> << >>, end |-> "open"]]
  /\ pc = "recv"
  /\ taken = 0
  /\ task = [i \in Upstream |-> "ok"]
  /\ read = [i \in Upstream |-> 0]
  /\ resps = [i \in Upstream |-> NoAnswer]
  /\ err = "none"
  /\ replies = << >>
  /\ result = "none"

Gone == client.st = "gone"
Ended(i) == up[i].end # "open"

-----------------------------------------------------------------------------
(* The client, which need not wait for a reply before it asks again, and the *)
(* upstreams, which answer each request once and end when they like: with a  *)
(* code that ClientCode lets through, as that of an answer larger than       *)
(* grpc-go receives, or in another way.                                      *)

ClientAsks(ask) ==
  /\ pc # "done" /\ client.st = "open"
  /\ Len(client.asked) < MaxRequests
  /\ client' = [client EXCEPT !.asked = Append(@, ask)]
  /\ UNCHANGED << alpha, up, pc, taken, fanVars, replies, result >>

ClientCloses(st) ==
  /\ pc # "done"
  /\ client.st = "open" \/ (client.st = "half" /\ st = "gone")
  /\ client' = [client EXCEPT !.st = st]
  /\ UNCHANGED << alpha, up, pc, taken, fanVars, replies, result >>

UpAnswers(i, a) ==
  /\ pc # "done" /\ ~Ended(i)
  /\ Len(up[i].sent) < up[i].got
  /\ a \in MayAnswer[i][client.asked[Len(up[i].sent) + 1]]
  /\ up' = [up EXCEPT ![i].sent = Append(@, a)]
  /\ UNCHANGED << alpha, client, pc, taken, fanVars, replies, result >>

UpEnds(i, end) ==
  /\ pc # "done" /\ ~Ended(i)
  /\ up' = [up EXCEPT ![i].end = end]
  /\ UNCHANGED << alpha, client, pc, taken, fanVars, replies, result >>

-----------------------------------------------------------------------------
(* The handler reads a request.                                              *)

Return(status) ==
  /\ pc' = "done"
  /\ result' = status

Asked == client.asked[taken]
Unreadable == taken < Len(client.asked) /\ client.asked[taken + 1] = "unreadable"

(* A request that asks nothing makes asV1Request panic, which Recoverer      *)
(* turns into a status.                                                      *)
TakeRequest ==
  /\ pc = "recv"
  /\ taken < Len(client.asked) /\ client.asked[taken + 1] # "unreadable"
  /\ taken' = taken + 1
  /\ IF alpha /\ client.asked[taken'] = "nothing"
     THEN Return("panic") /\ UNCHANGED fanVars
     ELSE /\ pc' = "fan"
          /\ task' = [i \in Upstream |-> "send"]
          /\ resps' = [i \in Upstream |-> NoAnswer]
          /\ err' = "none"
          /\ UNCHANGED << read, result >>
  /\ UNCHANGED << alpha, client, up, replies >>

(* RecvMsg fails: the client has closed its side or gone, or its request is  *)
(* unreadable, of which grpc-go has told it when the handler returns.        *)
TakeEnd ==
  /\ pc = "recv"
  /\ \/ client.st = "half" /\ taken = Len(client.asked) /\ Return("ok")
     \/ Gone /\ Return("internal")
     \/ Unreadable /\ \E status \in {"internal", "toolarge"} : Return(status)
  /\ UNCHANGED << alpha, client, up, taken, fanVars, replies >>

-----------------------------------------------------------------------------
(* The goroutine of upstream i.                                              *)

Fail(i, e) ==
  /\ task' = [task EXCEPT ![i] = "failed"]
  /\ err' = IF err = "none" THEN e ELSE err

\* Mutant: every code of the upstream is let through.
ErrorsOfUnfiltered(i) ==
  (IF Ended(i) THEN {up[i].end} ELSE {}) \union (IF Gone THEN {"canceled"} ELSE {})

(* What a stream that is over fails the request with: the upstream's code if *)
(* ClientCode lets it through, or the client's cancellation.                 *)
ErrorsOf(i) ==
  (IF Ended(i) THEN { IF up[i].end = "client" THEN "client" ELSE "internal" } ELSE {})
    \union (IF Gone THEN {"canceled"} ELSE {})

(* A request sent to an upstream that has ended may be lost unnoticed. *)
Send(i) ==
  /\ task[i] = "send"
  /\ task' = [task EXCEPT ![i] = "recv"]
  /\ up' = IF Ended(i) THEN up ELSE [up EXCEPT ![i].got = @ + 1]
  /\ UNCHANGED << alpha, client, pc, taken, read, resps, err, replies, result >>

(* Send fails with io.EOF; the Recv that follows tells why. *)
SendFails(i) ==
  /\ task[i] = "send"
  /\ \E e \in ErrorsOf(i) : Fail(i, e)
  /\ UNCHANGED << alpha, client, up, pc, taken, read, resps, replies, result >>

Accept(i, a) ==
  /\ resps' = [resps EXCEPT ![i] = a]
  /\ task' = [task EXCEPT ![i] = "ok"]
  /\ UNCHANGED err

\* Mutant: the code of an error response is not looked at.
RecvStrict(i) ==
  /\ task[i] = "recv" /\ read[i] < Len(up[i].sent)
  /\ read' = [read EXCEPT ![i] = @ + 1]
  /\ LET a == up[i].sent[read[i] + 1]
     IN  IF a.kind \in {"error", "notfound"} THEN Fail(i, "internal") /\ UNCHANGED resps
                                             ELSE Accept(i, a)
  /\ UNCHANGED << alpha, client, up, pc, taken, replies, result >>

\* Mutant: an error response counts as an answer that found nothing.
RecvLenient(i) ==
  /\ task[i] = "recv" /\ read[i] < Len(up[i].sent)
  /\ read' = [read EXCEPT ![i] = @ + 1]
  /\ Accept(i, up[i].sent[read[i] + 1])
  /\ UNCHANGED << alpha, client, up, pc, taken, replies, result >>

\* Mutant: what was not found is waited for.
RecvFound(i) ==
  /\ task[i] = "recv" /\ read[i] < Len(up[i].sent)
  /\ read' = [read EXCEPT ![i] = @ + 1]
  /\ LET a == up[i].sent[read[i] + 1]
     IN  IF a.kind = "error" THEN Fail(i, "internal") /\ UNCHANGED resps
         ELSE IF a.kind = "notfound" THEN UNCHANGED << task, err, resps >>
         ELSE Accept(i, a)
  /\ UNCHANGED << alpha, client, up, pc, taken, replies, result >>

(* An error response fails the request, unless its code is NotFound. *)
Recv(i) ==
  /\ task[i] = "recv" /\ read[i] < Len(up[i].sent)
  /\ read' = [read EXCEPT ![i] = @ + 1]
  /\ LET a == up[i].sent[read[i] + 1]
     IN  IF a.kind = "error" THEN Fail(i, "internal") /\ UNCHANGED resps
                             ELSE Accept(i, a)
  /\ UNCHANGED << alpha, client, up, pc, taken, replies, result >>

\* Mutant: the streams do not live in the client's context.
RecvFailsDetached(i) ==
  /\ task[i] = "recv" /\ read[i] = Len(up[i].sent)
  /\ Ended(i)
  /\ \E e \in ErrorsOf(i) : Fail(i, e)
  /\ UNCHANGED << alpha, client, up, pc, taken, read, resps, replies, result >>

RecvFails(i) ==
  /\ task[i] = "recv"
  /\ read[i] = Len(up[i].sent)
  /\ \E e \in ErrorsOf(i) : Fail(i, e)
  /\ UNCHANGED << alpha, client, up, pc, taken, read, resps, replies, result >>

-----------------------------------------------------------------------------
(* The answers are merged.                                                   *)

Of(kind, i) == IF resps[i].kind = kind THEN resps[i].items ELSE << >>

(* mergeDescriptorResponses, mergeServiceResponses (services are made unique *)
(* and sorted) and respondAllExtensionNumbersOfType; what stays empty is a   *)
(* NotFound.                                                                 *)
MergeFiles ==
  LET all == FlattenSeq([i \in Upstream |-> Of("files", i)])
  IN  IF all = << >> THEN NoAnswer ELSE [kind |-> "files", items |-> all]

MergeServices ==
  LET all == UNION { ToSet(Of("services", i)) : i \in Upstream }
  IN  IF all = {} THEN NoAnswer ELSE [kind |-> "services", items |-> all]

FirstNumbers ==
  LET some == { i \in Upstream : resps[i].kind # "notfound" }
  IN  IF some = {} THEN NoAnswer ELSE resps[Min(some)]

MergeResponses == CASE Asked = "files"    -> MergeFiles
                    [] Asked = "services" -> MergeServices
                    [] Asked = "numbers"  -> FirstNumbers

\* Mutant: the first answer is enough.
WaitedForOne == pc = "fan" /\ \E i \in Upstream : task[i] = "ok"

(* errgroup.Wait *)
Waited == pc = "fan" /\ \A i \in Upstream : task[i] \in {"ok", "failed"}

Reject ==
  /\ Waited
  /\ \/ err # "none" /\ Return(err)
     \/ err = "none" /\ Asked = "nothing" /\ Return("internal")
  /\ UNCHANGED << alpha, client, up, taken, fanVars, replies >>

(* asV1AlphaResponse has no case for extension numbers. *)
Convertible(reply) == ~(alpha /\ reply.kind = "numbers")

Reply ==
  /\ Waited /\ err = "none" /\ Asked # "nothing"
  /\ IF ~Convertible(MergeResponses) THEN Return("panic") /\ UNCHANGED replies
     ELSE \/ ~Gone /\ pc' = "recv" /\ UNCHANGED result
             /\ replies' = Append(replies, MergeResponses)
          \/ Gone /\ Return("internal") /\ UNCHANGED replies
  /\ UNCHANGED << alpha, client, up, taken, fanVars >>

Handler == TakeRequest \/ TakeEnd \/ Reject \/ Reply
Task(i) == Send(i) \/ SendFails(i) \/ Recv(i) \/ RecvFails(i)

Next ==
  \/ \E ask \in Ask : ClientAsks(ask)
  \/ \E st \in {"half", "gone"} : ClientCloses(st)
  \/ \E i \in Upstream, a \in Answer : UpAnswers(i, a)
  \/ \E i \in Upstream, end \in {"client", "other"} : UpEnds(i, end)
  \/ Handler
  \/ \E i \in Upstream : Task(i)

Spec == Init /\ [][Next]_vars

(* The handler and its goroutines run; an upstream need not answer. *)
Fairness == WF_vars(Handler) /\ \A i \in Upstream : WF_vars(Task(i))

FairSpec == Spec /\ Fairness

-----------------------------------------------------------------------------
(* The answers the upstreams gave to the n-th request. *)
AnswersTo(n) == { up[i].sent[n] : i \in { j \in Upstream : Len(up[j].sent) >= n } }

(* What a reply holds, given one answer of each upstream (README.md 186-189): *)
(* the descriptors, one for one; the services, unified; the extension numbers *)
(* of the first upstream that has some.                                       *)
FilesMerge(given, reply) ==
  LET places == UNION { {i} \X DOMAIN given[i].items :
                          i \in { j \in Upstream : given[j].kind = "files" } }
  IN  IF places = {} THEN reply = NoAnswer
      ELSE /\ reply.kind = "files"
           /\ \E from \in Bijection(DOMAIN reply.items, places) :
                \A p \in DOMAIN from :
                  reply.items[p] = given[from[p][1]].items[from[p][2]]

ServicesMerge(given, reply) ==
  LET names == UNION { ToSet(given[i].items) :
                         i \in { j \in Upstream : given[j].kind = "services" } }
  IN  IF names = {} THEN reply = NoAnswer
      ELSE reply = [kind |-> "services", items |-> names]

NumbersMerge(given, reply) ==
  IF \A i \in Upstream : given[i].kind = "notfound" THEN reply = NoAnswer
  ELSE \E i \in Upstream : /\ given[i].kind # "notfound" /\ reply = given[i]
                           /\ \A j \in 1..(i - 1) : given[j].kind = "notfound"

Merges(ask, given, reply) ==
  /\ ask = "files" => FilesMerge(given, reply)
  /\ ask = "services" => ServicesMerge(given, reply)
  /\ ask = "numbers" => NumbersMerge(given, reply)

(* The n-th reply answers the n-th request, and holds what every upstream    *)
(* answered to it (reflection.go 145-220).                                   *)
RepliesMerge ==
  \A n \in DOMAIN replies :
    /\ \A i \in Upstream : Len(up[i].sent) >= n
    /\ Merges(client.asked[n], [i \in Upstream |-> up[i].sent[n]], replies[n])

(* A request for descriptors or services that one upstream answered with an  *)
(* error other than NotFound gets no reply, whatever the others answered: a  *)
(* client never takes part of what the upstreams have for the whole of it    *)
(* (reflection.go 170-176).                                                  *)
ErrorNeverHidden ==
  \A n \in DOMAIN replies :
    client.asked[n] # "numbers" => \A a \in AnswersTo(n) : a.kind # "error"

(* A stream the client has not left fails only because an upstream failed it, *)
(* or because of a request the proxy cannot deal with (reflection.go 103-137). *)
FailsForAReason ==
  (result \notin {"none", "ok"} /\ ~Gone) =>
    \/ \E i \in Upstream : Ended(i) \/ \E n \in DOMAIN up[i].sent : up[i].sent[n].kind = "error"
    \/ Unreadable
    \/ Asked = "nothing"
    \/ alpha /\ Asked = "numbers"

(* "AllExtensionNumbersOfType responds with the first non-error response     *)
(* from the upstreams" (README.md:189): such a request never panics.         *)
NumbersAnswered == ~(result = "panic" /\ Asked = "numbers")

(* "respondAllExtensionNumbersOfType returns the first non-error response"   *)
(* (reflection.go:305, README.md:189): a request for extension numbers that  *)
(* an upstream has answered with some is replied to, whatever the others     *)
(* answer, if no stream has broken.                                          *)
NumbersReplied ==
  (pc = "done" /\ taken > 0 /\ Asked = "numbers" /\ ~Gone /\ \A i \in Upstream : ~Ended(i)) =>
    \/ Len(replies) = taken
    \/ \A a \in AnswersTo(taken) : a.kind # "numbers"

(* A request every upstream has answered is replied to, or the stream ends   *)
(* (reflection.go 148-184).                                                  *)
AnsweredIsReplied ==
  \A n \in 1..MaxRequests :
    (\A i \in Upstream : Len(up[i].sent) >= n) ~> (Len(replies) >= n \/ pc = "done")

(* A stream whose client has left ends, even if an upstream hangs: the       *)
(* upstream streams live in the client's context (reflection.go:83).         *)
LeavesHungUpstreams == Gone ~> pc = "done"

TypeOK ==
  /\ alpha \in Alpha
  /\ client \in [asked : Seq(Ask), st : {"open", "half", "gone"}]
  /\ up \in [Upstream -> [got : Nat, sent : Seq(Answer),
                          end : {"open", "client", "other"}]]
  /\ pc \in {"recv", "fan", "done"}
  /\ taken \in 0..Len(client.asked)
  /\ task \in [Upstream -> {"send", "recv", "ok", "failed"}]
  /\ read \in [Upstream -> 0..taken]
  /\ resps \in [Upstream -> Answer \union {NoAnswer}]
  /\ err \in {"none", "client", "internal", "canceled"}
  /\ Len(replies) <= taken
  /\ result \in {"none", "ok", "client", "internal", "toolarge", "canceled", "panic"}
=============================================================================
