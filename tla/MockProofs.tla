------------------------------ MODULE MockProofs ------------------------------
(***************************************************************************)
(* Proofs about Mock, for every configuration, every set of calls and of   *)
(* first messages, and every bound on what is unread: of the rule and the  *)
(* calls, whatever the definer makes of a snippet; of the messages calls   *)
(* share; of what the definer makes of a snippet; and of what templates    *)
(* match and generate.                                                     *)
(***************************************************************************)
EXTENDS Mock, TLAPS, SequenceTheorems, FiniteSetTheorems, WellFoundedInduction

(* What parseRespond and parseRule make of what they are given, the          *)
(* templates aside.                                                          *)
MockFrom(m, r) ==
  /\ m.wait <=> r.wait = "some"
  /\ m.md = r.md
  /\ m.status = r.status
  /\ m.body = {} <=> r.body = {}
  /\ m.status = {} <=> m.body # {}
RuleFrom(R, c) ==
  /\ R.match = {} <=> c.match = {}
  /\ c.forward # "unknown"
  /\ R.mock = {} <=> c.respond = {}
  /\ R.mock = {} <=> c.forward = "known"
  /\ AtMostOne(R.mock)
  /\ \A m \in R.mock : \A r \in c.respond : MockFrom(m, r)

(* The rule in use is what parsing has made of the configured one. *)
Loaded == rule # {} => RuleFrom(Rule, Configured)

(* Where a call is, by what the rule says. *)
Where(c) ==
  /\ outcome[c] = "none" <=> at[c] # "done"
  /\ at[c] = "forward" => Configured.forward = "known" /\ Configured.respond = {}
  /\ at[c] \in {"wait", "respond", "send", "drain"} => Configured.respond # {}
  /\ at[c] = "wait" => \A r \in Configured.respond : r.wait = "some"

(* What its client was sent: one message at most, when it is to be drained,  *)
(* unless the client left.                                                   *)
Sent(c) ==
  /\ \E M : sent[c] \in Seq(M)
  /\ Len(sent[c]) <= 1
  /\ at[c] \notin {"drain", "done"} => sent[c] = << >>
  /\ at[c] = "drain" => sent[c] # << >> \/ client[c] = "gone"

(* How it has ended. *)
Ended(c) ==
  /\ outcome[c] # "empty mock"
  /\ outcome[c] = "ok" =>
       \/ sent[c] # << >> /\ client[c] # "open" /\ unread[c] = 0
       \/ sent[c] = << >> /\ \E r \in Configured.respond : "ok" \in r.status
  /\ outcome[c] \notin {"none", "ok", "undrained"} => sent[c] = << >>
  /\ outcome[c] = "canceled" => \A r \in Configured.respond : r.wait = "some"
  /\ outcome[c] \in {"canceled", "unsent"} => client[c] = "gone"
  /\ outcome[c] = "undrained" => client[c] = "gone" \/ (unread[c] > 0 /\ sent[c] # << >>)
  /\ outcome[c] \notin {"none", "unmatched", "unread"} => Configured.respond # {}
  /\ outcome[c] \notin OwnEnd \union {"ok"} =>
       \E r \in Configured.respond : outcome[c] \in r.status

(* Whether it has the metadata of a response: a header may be lost with the  *)
(* client, and one that grpc refuses is.                                     *)
DressedBy(c, r) ==
  /\ md[c].trailer <=> r.md # "none"
  /\ client[c] # "gone" => (md[c].header <=> r.md = "good")

(* Whether a call that needs its metadata has them. *)
Dressed(c) ==
  \A r \in Configured.respond :
    \/ at[c] \in {"send", "drain"}
    \/ outcome[c] \in {"ok", "ungenerated", "panic", "unsent", "undrained"} \union r.status
    => DressedBy(c, r)

CallInv(c) == Where(c) /\ Sent(c) /\ Ended(c) /\ Dressed(c)
Typed == TypeOK /\ DOMAIN first = Call /\ DOMAIN sent = Call /\ DOMAIN outcome = Call
IInv == Typed /\ Loaded /\ \A c \in Call : CallInv(c)

(* The objects calls share: the message of a static template never changes,  *)
(* and a call about to send holds what was generated for it.                 *)
Kept ==
  rule # {} => \A m \in Rule.mock : m.body # {} => heap["template"] = The(m.body).static
Made(c) == Generate(Rule, first[c])
Holds(c) ==
  at[c] = "send" =>
    /\ rule # {}
    /\ reply[c] = Object(The(MockOf.body), c)
    /\ Made(c).res = "ok"
    /\ Made(c).val = heap[reply[c]]
Objects == Kept /\ \A c \in Call : Holds(c)

-----------------------------------------------------------------------------
(* Facts about the operators.                                                *)

(* The element of a set that has one. *)
LEMMA TheElement ==
  ASSUME NEW S, S # {}
  PROVE  The(S) \in S
BY DEF The

(* A response that parseRespond accepts has a status or a body, and keeps    *)
(* its parts (file.go 285-321).                                              *)
LEMMA ParsedRespond ==
  ASSUME NEW r, ParseRespond(r).res = "ok"
  PROVE  MockFrom(ParseRespond(r).val, r)
<1> DEFINE body == Optional(r.body, BuildTarget)
<1>1. /\ ~((r.status = {}) = (r.body = {}))
      /\ ParseRespond(r) = Then(body,
           LAMBDA b : Ok([wait |-> r.wait = "some", md |-> r.md, status |-> r.status, body |-> b]))
  BY DEF ParseRespond, Fail
<1>2. body.res = "ok"
  BY <1>1 DEF Then
<1>3. body.val = {} <=> r.body = {}
  BY <1>2 DEF Optional, Then, Ok
<1>4. ParseRespond(r).val = [wait |-> r.wait = "some", md |-> r.md,
                             status |-> r.status, body |-> body.val]
  BY <1>1, <1>2 DEF Then, Ok
<1> DEFINE m == ParseRespond(r).val
<1> HIDE DEF body
<1>5. m.md = r.md /\ m.status = r.status /\ m.body = body.val /\ m.wait = (r.wait = "some")
  BY <1>4
<1> HIDE DEF m
<1>6. m.status = {} <=> m.body # {}
  BY <1>1, <1>3, <1>5
<1> QED BY <1>3, <1>5, <1>6 DEF MockFrom, m

(* A rule that parseRule accepts either responds or forwards to an upstream  *)
(* it knows (file.go 240-283).                                               *)
LEMMA ParsedRule ==
  ASSUME NEW c, AtMostOne(c.respond), ParseRule(c).res = "ok"
  PROVE  RuleFrom(ParseRule(c).val, c)
<1> DEFINE match == Optional(c.match, BuildTarget)
           mock == Optional(c.respond, ParseRespond)
           R == ParseRule(c).val
<1>1. match.res = "ok" /\ c.forward # "unknown"
  BY DEF ParseRule, Then, Fail
<1>2. ParseRule(c) = Then(mock,
        LAMBDA k : IF (k # {}) = (c.forward = "known") THEN Fail("error")
                   ELSE Ok([match |-> match.val, mock |-> k]))
  BY <1>1 DEF ParseRule, Then, Fail
<1>3. mock.res = "ok"
  BY <1>2 DEF Then
<1>4. /\ ~((mock.val # {}) = (c.forward = "known"))
      /\ R = [match |-> match.val, mock |-> mock.val]
  BY <1>2, <1>3 DEF Then, Fail, Ok
<1>5. match.val = {} <=> c.match = {}
  BY <1>1 DEF Optional, Then, Ok
<1>6. CASE c.respond = {}
  <2>1. mock.val = {}
    BY <1>6 DEF Optional, Ok
  <2> QED BY <1>1, <1>4, <1>5, <1>6, <2>1 DEF RuleFrom, AtMostOne
<1>7. CASE c.respond # {}
  <2>1. The(c.respond) \in c.respond
    BY <1>7, TheElement
  <2>2. ParseRespond(The(c.respond)).res = "ok"
    BY <1>3, <1>7 DEF Optional, Then
  <2>3. mock.val = {ParseRespond(The(c.respond)).val}
    BY <1>7, <2>2 DEF Optional, Then, Ok
  <2>4. MockFrom(ParseRespond(The(c.respond)).val, The(c.respond))
    BY <2>2, ParsedRespond
  <2>5. \A r \in c.respond : r = The(c.respond)
    BY <2>1 DEF AtMostOne
  <2> HIDE DEF match, mock
  <2>6. \A m \in R.mock : \A r \in c.respond : MockFrom(m, r)
    BY <1>4, <2>3, <2>4, <2>5
  <2>9. AtMostOne(R.mock)
    BY <1>4, <2>3 DEF AtMostOne
  <2>7. R.mock # {} /\ R.match = match.val
    BY <1>4, <2>3
  <2>8. c.forward # "known"
    BY <1>4, <2>3
  <2> QED BY <1>1, <1>5, <1>7, <2>6, <2>7, <2>8, <2>9 DEF RuleFrom
<1> QED BY <1>6, <1>7

-----------------------------------------------------------------------------
(* The invariant.                                                            *)

(* The mock of a loaded rule, and the one configured response it comes from. *)
LEMMA MockInUse ==
  ASSUME IInv, proc = "serving", Configured.respond # {}
  PROVE  /\ MockOf \in Rule.mock
         /\ \A r \in Configured.respond :
              MockFrom(MockOf, r) /\ RespondType(r)
<1>1. RuleFrom(Rule, Configured)
  BY DEF IInv, Typed, TypeOK, Loaded
<1>2. Rule.mock # {}
  BY <1>1 DEF RuleFrom
<1>3. MockOf \in Rule.mock
  BY <1>2, TheElement DEF MockOf
<1>4. \A r \in Configured.respond : RespondType(r)
  BY ConfigAssumption DEF IInv, Typed, TypeOK, Configured
<1>5. \A r \in Configured.respond : MockFrom(MockOf, r)
  BY <1>1, <1>3 DEF RuleFrom
<1> QED BY <1>3, <1>4, <1>5

(* Nothing has happened to a call at first.                                  *)
LEMMA InitIInv == Init => IInv
<1> SUFFICES ASSUME Init PROVE IInv
  OBVIOUS
<1>1. Typed
  BY ConfigAssumption DEF Init, Typed, TypeOK
<1>2. ASSUME NEW c \in Call PROVE CallInv(c)
  <2>1. /\ at[c] = "new" /\ outcome[c] = "none" /\ sent[c] = << >>
        /\ sent[c] \in Seq({}) /\ Len(sent[c]) <= 1
    BY DEF Init
  <2>2. \A r \in Configured.respond : "none" \notin r.status
    BY ConfigAssumption DEF Init, Configured, RespondType, OwnEnd
  <2> QED BY <2>1, <2>2 DEF CallInv, Where, Sent, Ended, Dressed, OwnEnd
<1>3. Loaded
  BY DEF Init, Loaded
<1> QED BY <1>1, <1>2, <1>3 DEF IInv

(* What a step does not touch of a call stays as it is.                      *)
LEMMA Untouched ==
  ASSUME NEW c \in Call, CallInv(c), config' = config,
         at'[c] = at[c], outcome'[c] = outcome[c], sent'[c] = sent[c],
         md'[c] = md[c], client'[c] = client[c], unread'[c] = unread[c]
  PROVE  CallInv(c)'
BY DEF CallInv, Where, Sent, Ended, Dressed, DressedBy, Configured

(* SetHeader and SetTrailer set the metadata of the call alone, and while    *)
(* the client is there the header unless grpc refuses it (proxy.go 190-198). *)
LEMMA MetadataSet ==
  ASSUME Typed, NEW c \in Call, SetMetadata(c)
  PROVE  /\ md' \in [Call -> [header : BOOLEAN, trailer : BOOLEAN]]
         /\ \A d \in Call : d # c => md'[d] = md[d]
         /\ md'[c].trailer <=> MockOf.md # "none"
         /\ client[c] # "gone" => (md'[c].header <=> MockOf.md = "good")
<1>1. md \in [Call -> [header : BOOLEAN, trailer : BOOLEAN]]
  BY DEF Typed, TypeOK
<1>2. PICK h \in BOOLEAN :
        /\ md' = [md EXCEPT ![c] = [header |-> h, trailer |-> MockOf.md # "none"]]
        /\ client[c] # "gone" => (h <=> MockOf.md = "good")
  BY DEF SetMetadata
<1>3. (MockOf.md # "none") \in BOOLEAN
  OBVIOUS
<1>4. md'[c] = [header |-> h, trailer |-> MockOf.md # "none"]
  BY <1>1, <1>2
<1>5. md' \in [Call -> [header : BOOLEAN, trailer : BOOLEAN]] /\ \A d \in Call : d # c => md'[d] = md[d]
  BY <1>1, <1>2, <1>3
<1> QED BY <1>2, <1>4, <1>5

(* Every step keeps the types (parseRule, the middlewares and the clients).  *)
LEMMA TypedStep == IInv /\ [Next]_vars => Typed'
<1> SUFFICES ASSUME IInv, [Next]_vars PROVE Typed'
  OBVIOUS
<1>0. Typed
  BY DEF IInv
<1> USE <1>0 DEF Typed, TypeOK
<1>1. CASE Load
  BY <1>1 DEF Load
<1>2. ASSUME NEW c \in Call, Offer(c) PROVE Typed'
  BY <1>2, ConfigAssumption DEF Offer, procVars
<1>3. ASSUME NEW c \in Call, HalfClose(c) PROVE Typed'
  BY <1>3 DEF HalfClose, procVars
<1>4. ASSUME NEW c \in Call, Leave(c) PROVE Typed'
  BY <1>4 DEF Leave, procVars
<1>5. ASSUME NEW c \in Call, MatchAtOnce(c) PROVE Typed'
  BY <1>5 DEF MatchAtOnce, Matched, procVars
<1>6. ASSUME NEW c \in Call, MatchFirst(c) PROVE Typed'
  BY <1>6, ConfigAssumption DEF MatchFirst, Matched, Finish, procVars
<1>7. ASSUME NEW c \in Call, MatchFails(c) PROVE Typed'
  BY <1>7 DEF MatchFails, Finish, procVars
<1>8. ASSUME NEW c \in Call, WaitOver(c) PROVE Typed'
  BY <1>8 DEF WaitOver, procVars
<1>9. ASSUME NEW c \in Call, WaitCanceled(c) PROVE Typed'
  BY <1>9 DEF WaitCanceled, Finish, procVars
<1>10. ASSUME NEW c \in Call, RespondStatus(c) PROVE Typed'
  <2>1. md' \in [Call -> [header : BOOLEAN, trailer : BOOLEAN]]
    BY <1>10, MetadataSet DEF RespondStatus
  <2> QED BY <1>10, <2>1 DEF RespondStatus, Finish, procVars
<1>11. ASSUME NEW c \in Call, RespondBody(c) PROVE Typed'
  <2>2. md' \in [Call -> [header : BOOLEAN, trailer : BOOLEAN]] /\ proc = "serving"
    BY <1>11, MetadataSet DEF RespondBody, Live
  <2>3. /\ DOMAIN heap' = Call \union {"template"}
        /\ reply' \in [Call -> Call \union {"template"}]
    BY <1>11 DEF RespondBody, Object, Live
  <2>4. /\ at' \in [Call -> {"new", "forward", "wait", "respond", "send", "drain", "done"}]
        /\ DOMAIN outcome' = Call
        /\ proc' \in {"serving", "dead"}
    BY <1>11 DEF RespondBody, Finish, Recoverer, Live
  <2> QED BY <1>11, <2>2, <2>3, <2>4 DEF RespondBody
<1>12. ASSUME NEW c \in Call, Send(c) PROVE Typed'
  BY <1>12 DEF Send, procVars
<1>13. ASSUME NEW c \in Call, SendFails(c) PROVE Typed'
  BY <1>13 DEF SendFails, Finish, procVars
<1>14. ASSUME NEW c \in Call, Drain(c) PROVE Typed'
  BY <1>14, ConfigAssumption DEF Drain, procVars
<1>15. ASSUME NEW c \in Call, DrainEnds(c) PROVE Typed'
  BY <1>15 DEF DrainEnds, Finish, procVars
<1>16. ASSUME NEW c \in Call, DrainFails(c) PROVE Typed'
  BY <1>16 DEF DrainFails, Finish, procVars
<1>17. CASE UNCHANGED vars
  BY <1>17 DEF vars, procVars
<1> QED
  BY <1>1, <1>2, <1>3, <1>4, <1>5, <1>6, <1>7, <1>8, <1>9, <1>10, <1>11, <1>12, <1>13,
     <1>14, <1>15, <1>16, <1>17 DEF Next, Handle


(* A matched call is where its rule sends it.                                *)
LEMMA MatchedWhere ==
  ASSUME IInv, proc = "serving"
  PROVE  /\ Matched \in {"forward", "wait", "respond"}
         /\ Matched = "forward" => Configured.forward = "known" /\ Configured.respond = {}
         /\ Matched \in {"wait", "respond"} => Configured.respond # {}
         /\ Matched = "wait" => \A r \in Configured.respond : r.wait = "some"
<1>1. RuleFrom(Rule, Configured)
  BY DEF IInv, Typed, TypeOK, Loaded
<1>2. CASE Rule.mock = {}
  BY <1>1, <1>2 DEF Matched, RuleFrom
<1>3. CASE Rule.mock # {}
  <2>1. Configured.respond # {}
    BY <1>1, <1>3 DEF RuleFrom
  <2>2. MockOf.wait => \A r \in Configured.respond : r.wait = "some"
    BY <2>1, MockInUse DEF MockFrom
  <2> QED BY <1>3, <2>1, <2>2 DEF Matched
<1> QED BY <1>2, <1>3

(* One message at most, and not none: one. *)
LEMMA OneSent ==
  ASSUME NEW M, NEW s \in Seq(M), Len(s) <= 1, s # << >>
  PROVE  Len(s) = 1
BY EmptySeq

(* None is a sequence of messages, too. *)
LEMMA NoneSent ==
  ASSUME NEW s, s = << >>
  PROVE  s \in Seq({}) /\ Len(s) <= 1
OBVIOUS

(* Where there is no message, one is put. *)
LEMMA FirstSent ==
  ASSUME NEW s, s = << >>, NEW m
  PROVE  Append(s, m) \in Seq({m}) /\ Len(Append(s, m)) <= 1 /\ Append(s, m) # << >>
<1>1. s \in Seq({m}) /\ Len(s) = 0
  OBVIOUS
<1> QED BY <1>1, AppendProperties

(* None of the ends of the handler's own is a configured status.             *)
LEMMA OwnEnds ==
  ASSUME IInv, NEW r \in Configured.respond
  PROVE  r.status \intersect OwnEnd = {}
BY ConfigAssumption DEF IInv, Typed, TypeOK, Configured, RespondType

(* The handler's step of call c keeps its invariant (proxy.go 119-235).      *)
LEMMA HandlerStep ==
  ASSUME IInv, NEW c \in Call, Handle(c)
  PROVE  CallInv(c)'
<1>1. CallInv(c) /\ Typed
  BY DEF IInv
<1>2. \A r \in Configured.respond : r.status \intersect OwnEnd = {}
  BY OwnEnds
<1> USE <1>1, <1>2 DEF CallInv, Where, Sent, Ended, Dressed, DressedBy, Configured, Typed,
           TypeOK, Live, OwnEnd
<1>3. CASE MatchAtOnce(c)
  BY <1>3, MatchedWhere DEF MatchAtOnce, procVars
<1>4. CASE MatchFirst(c)
  <2>1. at[c] = "new" /\ outcome[c] = "none" /\ sent[c] = << >> /\ proc = "serving"
    BY <1>4 DEF MatchFirst
  <2>2. config' = config /\ sent' = sent /\ md' = md /\ client' = client
    BY <1>4 DEF MatchFirst, procVars
  <2>3. \/ at'[c] = Matched /\ outcome'[c] = "none"
        \/ at'[c] = "done" /\ outcome'[c] = "unmatched"
    <3>1. \/ at' = [at EXCEPT ![c] = Matched] /\ outcome' = outcome
          \/ at' = [at EXCEPT ![c] = "done"] /\ outcome' = [outcome EXCEPT ![c] = "unmatched"]
      BY <1>4 DEF MatchFirst, Finish
    <3>2. DOMAIN at = Call /\ DOMAIN outcome = Call
      OBVIOUS
    <3>3. outcome[c] = "none"
      BY <2>1
    <3> QED BY ONLY <3>1, <3>2, <3>3
  <2>4. Configured' = Configured
    BY <2>2
  <2>5. Where(c)'
    BY <2>1, <2>3, <2>4, MatchedWhere
  <2>6. Sent(c)'
    BY <2>1, <2>2, <2>3, MatchedWhere, NoneSent
  <2>7. Ended(c)' /\ Dressed(c)'
    <3>1. \A r \in Configured.respond : "none" \notin r.status /\ "unmatched" \notin r.status
      BY <1>2
    <3>2. sent'[c] = << >> /\ outcome'[c] \in {"none", "unmatched"}
      BY <2>1, <2>2, <2>3
    <3>3. at'[c] \notin {"send", "drain"}
      BY <2>1, <2>3, MatchedWhere
    <3> QED BY ONLY <2>4, <3>1, <3>2, <3>3 DEF Ended, Dressed, OwnEnd
  <2> QED BY <2>5, <2>6, <2>7
<1>5. CASE MatchFails(c)
  BY <1>5 DEF MatchFails, Finish, procVars
<1>6. CASE WaitOver(c)
  BY <1>6 DEF WaitOver, procVars
<1>7. CASE WaitCanceled(c)
  BY <1>7 DEF WaitCanceled, Finish, procVars
<1>10. CASE Send(c)
  <2>1. at[c] = "send" /\ outcome[c] = "none" /\ sent[c] = << >>
    BY <1>10 DEF Send
  <2>2. config' = config /\ md' = md /\ client' = client /\ outcome' = outcome /\ at'[c] = "drain"
    BY <1>10 DEF Send, procVars
  <2>3. \/ client[c] = "gone" /\ sent'[c] = << >>
        \/ /\ \E M : sent'[c] \in Seq(M)
           /\ Len(sent'[c]) <= 1 /\ sent'[c] # << >>
    <3>1. \/ sent'[c] = sent[c] /\ client[c] = "gone"
          \/ sent'[c] = Append(sent[c], heap[reply[c]])
      BY <1>10 DEF Send
    <3>2. /\ Append(sent[c], heap[reply[c]]) \in Seq({heap[reply[c]]})
          /\ Len(Append(sent[c], heap[reply[c]])) <= 1
          /\ Append(sent[c], heap[reply[c]]) # << >>
      BY <2>1, FirstSent
    <3> QED BY ONLY <2>1, <3>1, <3>2
  <2>4. sent'[c] = << >> => sent'[c] \in Seq({}) /\ Len(sent'[c]) <= 1
    BY ONLY NoneSent
  <2>5. Sent(c)'
    <3>1. (\E M : sent'[c] \in Seq(M)) /\ Len(sent'[c]) <= 1
      BY <2>3, <2>4
    <3> QED BY <2>2, <2>3, <3>1
  <2> QED BY <2>1, <2>2, <2>5
<1>11. CASE SendFails(c)
  BY <1>11 DEF SendFails, Finish, procVars
<1>12. CASE Drain(c)
  BY <1>12 DEF Drain, procVars
<1>13. CASE DrainEnds(c)
  BY <1>13 DEF DrainEnds, Drained, Finish, procVars
<1>14. CASE DrainFails(c)
  BY <1>14 DEF DrainFails, Finish, procVars
<1>8. CASE RespondStatus(c)
  <2>1. at[c] = "respond" /\ sent[c] = << >> /\ Configured.respond # {} /\ MockOf.body = {}
    BY <1>8 DEF RespondStatus
  <2>2. \A r \in Configured.respond : MockFrom(MockOf, r)
    BY <1>8, <2>1, MockInUse DEF RespondStatus
  <2>3. MockOf.status # {}
    BY <2>1, <2>2 DEF MockFrom
  <2>4. The(MockOf.status) \in MockOf.status
    BY <2>3, TheElement
  <2>5. /\ config' = config /\ sent' = sent /\ client' = client
        /\ at'[c] = "done" /\ outcome'[c] = The(MockOf.status)
    BY <1>8, <2>3 DEF RespondStatus, Finish, procVars
  <2>11. /\ md'[c].trailer <=> MockOf.md # "none"
         /\ client'[c] # "gone" => (md'[c].header <=> MockOf.md = "good")
    BY <1>8, <2>5, MetadataSet DEF RespondStatus
  <2>6. \A r \in Configured.respond : outcome'[c] \in r.status /\ DressedBy(c, r)'
    BY <2>2, <2>4, <2>5, <2>11 DEF MockFrom, DressedBy
  <2>7. outcome'[c] \notin OwnEnd
    BY <2>1, <2>6
  <2>8. Where(c)' /\ Sent(c)'
    BY <2>1, <2>5, <2>7
  <2>9. Ended(c)'
    <3>1. \E r \in Configured.respond : outcome'[c] \in r.status
      BY <2>1, <2>6
    <3>2. sent'[c] = << >> /\ Configured' = Configured /\ Configured.respond # {}
      BY <2>1, <2>5
    <3>3. outcome'[c] \notin {"empty mock", "canceled", "unsent", "undrained"}
      BY <2>7 DEF OwnEnd
    <3> QED BY ONLY <3>1, <3>2, <3>3 DEF Ended
  <2>10. Dressed(c)'
    BY <2>5, <2>6
  <2> QED BY <2>8, <2>9, <2>10
<1>9. CASE RespondBody(c)
  <2>1. /\ at[c] = "respond" /\ outcome[c] = "none" /\ sent[c] = << >>
        /\ Configured.respond # {}
    BY <1>9 DEF RespondBody
  <2>2. \A r \in Configured.respond : MockFrom(MockOf, r)
    BY <1>9, <2>1, MockInUse DEF RespondBody
  <2>3. config' = config /\ sent' = sent /\ client' = client
    BY <1>9 DEF RespondBody
  <2>6. /\ md'[c].trailer <=> MockOf.md # "none"
        /\ client'[c] # "gone" => (md'[c].header <=> MockOf.md = "good")
    BY <1>9, <2>3, MetadataSet DEF RespondBody
  <2>4. \/ at'[c] = "send" /\ outcome'[c] = "none"
        \/ at'[c] = "done" /\ outcome'[c] \in {"ungenerated", "panic"}
        \/ at'[c] = "respond" /\ outcome'[c] = "none"
    <3>1. \/ at' = [at EXCEPT ![c] = "send"] /\ outcome' = outcome
          \/ at' = [at EXCEPT ![c] = "done"] /\ outcome' = [outcome EXCEPT ![c] = "ungenerated"]
          \/ at' = [at EXCEPT ![c] = "done"] /\ outcome' = [outcome EXCEPT ![c] = "panic"]
          \/ at' = at /\ outcome' = outcome
      BY <1>9 DEF RespondBody, Finish, Recoverer
    <3>2. DOMAIN at = Call /\ DOMAIN outcome = Call
      OBVIOUS
    <3>3. CASE at' = [at EXCEPT ![c] = "send"] /\ outcome' = outcome
      BY <2>1, <3>2, <3>3
    <3>4. ASSUME NEW how \in {"ungenerated", "panic"}, at' = [at EXCEPT ![c] = "done"],
                 outcome' = [outcome EXCEPT ![c] = how]
          PROVE  at'[c] = "done" /\ outcome'[c] \in {"ungenerated", "panic"}
      BY <3>2, <3>4
    <3> QED BY <2>1, <3>1, <3>3, <3>4
  <2>5. \A r \in Configured.respond : DressedBy(c, r)'
    BY <2>2, <2>6 DEF MockFrom, DressedBy
  <2> QED BY <2>1, <2>3, <2>4, <2>5
<1> QED
  BY <1>3, <1>4, <1>5, <1>6, <1>7, <1>8, <1>9, <1>10, <1>11, <1>12, <1>13, <1>14 DEF Handle


(* A step of call c is no step of another call: what a call is at is its     *)
(* own, and the objects calls share do not decide it.                        *)
LEMMA OthersStay ==
  ASSUME Typed, NEW c \in Call, NEW d \in Call, d # c,
         Offer(c) \/ HalfClose(c) \/ Leave(c) \/ Handle(c)
  PROVE  /\ at'[d] = at[d] /\ outcome'[d] = outcome[d] /\ sent'[d] = sent[d]
         /\ md'[d] = md[d] /\ client'[d] = client[d] /\ unread'[d] = unread[d]
<1> USE DEF Typed, TypeOK, procVars, Finish
<1>1. CASE Offer(c) \/ HalfClose(c) \/ Leave(c)
  BY <1>1 DEF Offer, HalfClose, Leave
<1>2. CASE MatchAtOnce(c) \/ MatchFirst(c) \/ MatchFails(c)
  BY <1>2 DEF MatchAtOnce, MatchFirst, MatchFails
<1>3. CASE WaitOver(c) \/ WaitCanceled(c)
  BY <1>3 DEF WaitOver, WaitCanceled
<1>7. CASE RespondStatus(c)
  <2>1. /\ sent' = sent /\ client' = client /\ unread' = unread
        /\ at' = [at EXCEPT ![c] = "done"]
        /\ \E how : outcome' = [outcome EXCEPT ![c] = how]
    BY <1>7 DEF RespondStatus
  <2>2. md'[d] = md[d]
    BY <1>7, MetadataSet DEF RespondStatus
  <2> QED BY <2>1, <2>2
<1>4. CASE RespondBody(c)
  <2>1. md'[d] = md[d]
    BY <1>4, MetadataSet DEF RespondBody
  <2>2. /\ sent' = sent /\ client' = client /\ unread' = unread
        /\ \/ at' = at /\ outcome' = outcome
           \/ at' = [at EXCEPT ![c] = "send"] /\ outcome' = outcome
           \/ \E how : at' = [at EXCEPT ![c] = "done"] /\ outcome' = [outcome EXCEPT ![c] = how]
    BY <1>4 DEF RespondBody, Recoverer
  <2> QED BY <2>1, <2>2
<1>5. CASE Send(c) \/ SendFails(c)
  BY <1>5 DEF Send, SendFails
<1>6. CASE Drain(c) \/ DrainEnds(c) \/ DrainFails(c)
  BY <1>6 DEF Drain, DrainEnds, DrainFails
<1> QED BY <1>1, <1>2, <1>3, <1>4, <1>5, <1>6, <1>7 DEF Handle

(* What a client does to its own call keeps the invariant of the call.       *)
LEMMA ClientStep ==
  ASSUME IInv, NEW c \in Call, Offer(c) \/ HalfClose(c) \/ Leave(c)
  PROVE  CallInv(c)'
<1>1. CallInv(c) /\ Typed
  BY DEF IInv
<1>2. at[c] # "done" /\ outcome[c] = "none"
  BY <1>1 DEF Offer, HalfClose, Leave, Live, CallInv, Where
<1>3. /\ config' = config /\ at' = at /\ outcome' = outcome /\ sent' = sent /\ md' = md
      /\ client[c] = "gone" => client'[c] = "gone"
  BY <1>1 DEF Offer, HalfClose, Leave, procVars, Typed, TypeOK
<1> QED BY <1>1, <1>2, <1>3 DEF CallInv, Where, Sent, Ended, Dressed, DressedBy, Configured

(* Every step keeps the invariant.                                           *)
LEMMA StepIInv == IInv /\ [Next]_vars => IInv'
<1> SUFFICES ASSUME IInv, [Next]_vars PROVE IInv'
  OBVIOUS
<1>1. Typed'
  BY TypedStep
<1>2. Typed /\ Loaded /\ \A c \in Call : CallInv(c)
  BY DEF IInv
<1>3. CASE Load
  <2>1. Loaded'
    <3>1. config' = config /\ rule = {}
      BY <1>2, <1>3 DEF Load, Typed, TypeOK
    <3>2. CASE rule' # {}
      <4> DEFINE c == Config[config]
      <4>1. ParseRule(c).res = "ok" /\ rule' = {ParseRule(c).val}
        BY <1>3, <3>1, <3>2 DEF Load
      <4>2. AtMostOne(c.respond)
        BY <1>2, ConfigAssumption DEF Typed, TypeOK
      <4>3. RuleFrom(ParseRule(c).val, c)
        BY <4>1, <4>2, ParsedRule
      <4>4. Rule' = ParseRule(c).val
        BY <4>1 DEF Rule, The
      <4> QED BY <3>1, <4>3, <4>4 DEF Loaded, Configured
    <3> QED BY <3>2 DEF Loaded
  <2>2. \A c \in Call : CallInv(c)'
    BY <1>2, <1>3, Untouched DEF Load
  <2> QED BY <1>1, <2>1, <2>2 DEF IInv
<1>4. ASSUME NEW c \in Call, Offer(c) \/ HalfClose(c) \/ Leave(c) \/ Handle(c)
      PROVE  IInv'
  <2>1. config' = config /\ rule' = rule
    BY <1>4 DEF Offer, HalfClose, Leave, Handle, MatchAtOnce, MatchFirst, MatchFails, WaitOver,
                WaitCanceled, RespondStatus, RespondBody, Send, SendFails, Drain, DrainEnds,
                DrainFails, procVars
  <2>2. Loaded'
    BY <1>2, <2>1 DEF Loaded, Rule, Configured
  <2>3. CallInv(c)'
    BY <1>4, HandlerStep, ClientStep
  <2>4. ASSUME NEW d \in Call, d # c PROVE CallInv(d)'
    BY <1>2, <1>4, <2>1, <2>4, OthersStay, Untouched
  <2> QED BY <1>1, <2>2, <2>3, <2>4 DEF IInv
<1>5. CASE UNCHANGED vars
  <2>1. Loaded'
    BY <1>2, <1>5 DEF Loaded, Rule, Configured, vars, procVars
  <2>2. \A c \in Call : CallInv(c)'
    BY <1>2, <1>5, Untouched DEF vars, procVars
  <2> QED BY <1>1, <2>1, <2>2 DEF IInv
<1> QED BY <1>3, <1>4, <1>5 DEF Next

-----------------------------------------------------------------------------
(* Type correctness of a rule that responds and of its calls. *)
THEOREM TypeCorrect == Spec => []TypeOK
<1>1. IInv => TypeOK
  BY DEF IInv, Typed
<1> QED BY InitIInv, StepIInv, <1>1, PTL DEF Spec

(* The end of a call tells its client what it was sent and what was read of  *)
(* it (proxy.go 164-235).                                                    *)
THEOREM OutcomesTell == Spec => []OutcomeTellsAll
<1>1. IInv => OutcomeTellsAll
  <2> SUFFICES ASSUME IInv, NEW c \in Call
               PROVE  OutcomeTellsAll!(c)
    BY DEF OutcomeTellsAll
  <2>3. Sent(c) /\ Ended(c) /\ Dressed(c)
    BY DEF IInv, CallInv
  <2>4. Len(sent[c]) <= 1 /\ (sent[c] # << >> => Len(sent[c]) = 1)
    <3>1. Len(sent[c]) <= 1 /\ \E M : sent[c] \in Seq(M)
      BY <2>3 DEF Sent
    <3> QED BY <3>1, OneSent
  <2> QED BY <2>3, <2>4 DEF Ended, Dressed, DressedBy
<1> QED BY InitIInv, StepIInv, <1>1, PTL DEF Spec


-----------------------------------------------------------------------------
(* The messages calls share.                                                 *)

(* A static template generates its own message, whatever the data            *)
(* (template.go 184-186).                                                    *)
LEMMA StaticMade ==
  ASSUME NEW r, NEW M, IsStatic(The(The(r.mock).body)), Generate(r, M).res = "ok"
  PROVE  Generate(r, M).val = The(The(r.mock).body).static
BY DEF Generate, Then, Ok

(* No call holds anything at first. *)
LEMMA InitObjects == Init => Objects
BY DEF Init, Objects, Kept, Holds

(* The static part of a body is put in the template's object when the rule   *)
(* is loaded (definer.go 98-110).                                            *)
LEMMA LoadObjects ==
  ASSUME IInv, Objects, Load
  PROVE  Objects'
<1>1. rule = {} /\ at' = at /\ DOMAIN heap = Call \union {"template"}
  BY DEF Load, IInv, Typed, TypeOK
<1>2. \A c \in Call : Holds(c)'
  BY <1>1 DEF Objects, Holds
<1>3. Kept'
  <2>1. CASE rule' # {}
    <3> DEFINE c == Config[config]
               R == ParseRule(c).val
               bodies == UNION { m.body : m \in R.mock }
    <3>1. /\ ParseRule(c).res = "ok" /\ rule' = {R}
          /\ heap' = IF bodies = {} THEN heap
                     ELSE [heap EXCEPT !["template"] = The(bodies).static]
      BY <1>1, <2>1 DEF Load
    <3>2. AtMostOne(c.respond)
      BY ConfigAssumption DEF IInv, Typed, TypeOK
    <3>3. RuleFrom(R, c)
      BY <3>1, <3>2, ParsedRule
    <3>4. Rule' = R
      BY <3>1 DEF Rule, The
    <3> HIDE DEF R
    <3>5. ASSUME NEW m \in R.mock, m.body # {}
          PROVE  heap'["template"] = The(m.body).static
      <4>1. \A k \in R.mock : k = m
        BY <3>3, <3>5 DEF RuleFrom, AtMostOne
      <4>2. bodies = m.body
        BY <3>5, <4>1
      <4> HIDE DEF bodies
      <4> QED BY <1>1, <3>1, <3>5, <4>2
    <3> QED BY <3>4, <3>5 DEF Kept
  <2> QED BY <2>1 DEF Kept
<1> QED BY <1>2, <1>3 DEF Objects

(* The generation of one call leaves the objects of the others as they are:  *)
(* a combined template makes a new one, a static one hands out its own       *)
(* unchanged (template.go 119-142, 184-186).                                 *)
LEMMA RespondObjects ==
  ASSUME IInv, Objects, NEW c \in Call, RespondBody(c)
  PROVE  Objects'
<1> DEFINE body == The(MockOf.body)
           object == Object(body, c)
           made == Generate(Rule, first[c])
<1>1. /\ DOMAIN heap = Call \union {"template"} /\ "template" \notin Call
      /\ at \in [Call -> {"new", "forward", "wait", "respond", "send", "drain", "done"}]
      /\ reply \in [Call -> Call \union {"template"}]
  BY ConfigAssumption DEF IInv, Typed, TypeOK
<1>2. proc = "serving" /\ at[c] = "respond" /\ MockOf.body # {} /\ rule # {}
  BY DEF RespondBody, Live, IInv, Typed, TypeOK
<1>3. UNCHANGED << config, rule, first, sent >> /\ Rule' = Rule /\ MockOf' = MockOf
  BY DEF RespondBody, Rule, MockOf
<1>4. Rule.mock # {} /\ MockOf \in Rule.mock /\ heap["template"] = body.static
  <2>1. MockOf \in Rule.mock
    BY <1>2, MockInUse DEF IInv, CallInv, Where
  <2> QED BY <1>2, <2>1 DEF Objects, Kept
<1>5. \/ /\ made.res = "ok"
         /\ heap' = [heap EXCEPT ![object] = made.val]
         /\ reply' = [reply EXCEPT ![c] = object]
      \/ heap' = heap /\ reply' = reply /\ at'[c] # "send"
  BY <1>1, <1>2 DEF RespondBody, Finish, Recoverer
<1>6. \A d \in Call : d # c => at'[d] = at[d]
  BY OthersStay DEF IInv, Handle
<1>7. \A d \in Call : Made(d)' = Made(d)
  BY <1>3 DEF Made
<1>8. CASE heap' = heap /\ reply' = reply /\ at'[c] # "send"
  <2>1. Kept'
    BY <1>3, <1>8 DEF Objects, Kept
  <2>2. \A d \in Call : Holds(d)'
    BY <1>3, <1>6, <1>7, <1>8 DEF Objects, Holds
  <2> QED BY <2>1, <2>2 DEF Objects
<1>9. CASE /\ made.res = "ok"
           /\ heap' = [heap EXCEPT ![object] = made.val]
           /\ reply' = [reply EXCEPT ![c] = object]
  <2>1. object \in DOMAIN heap /\ heap'[object] = made.val /\ reply'[c] = object
    BY <1>1, <1>9 DEF Object
  <2>2. heap'["template"] = heap["template"]
    <3>1. CASE IsStatic(body)
      <4>1. object = "template" /\ made.val = body.static
        BY <1>9, <3>1, StaticMade DEF Object, MockOf
      <4> QED BY <1>4, <2>1, <4>1
    <3>2. CASE ~IsStatic(body)
      BY <1>1, <1>9, <3>2 DEF Object
    <3> QED BY <3>1, <3>2
  <2>3. Kept'
    BY <1>3, <2>2 DEF Objects, Kept
  <2>4. Holds(c)'
    BY <1>2, <1>3, <1>7, <1>9, <2>1 DEF Holds, Made
  <2>5. ASSUME NEW d \in Call, d # c PROVE Holds(d)'
    <3>1. CASE at[d] # "send"
      BY <1>6, <2>5, <3>1 DEF Holds
    <3>2. CASE at[d] = "send"
      <4>1. reply[d] = Object(body, d) /\ reply'[d] = reply[d]
        BY <1>1, <1>9, <2>5, <3>2 DEF Objects, Holds
      <4>2. heap'[reply[d]] = heap[reply[d]]
        BY <1>1, <1>9, <2>2, <2>5, <4>1 DEF Object
      <4>3. Holds(d)
        BY DEF Objects
      <4> QED BY <1>3, <1>7, <3>2, <4>1, <4>2, <4>3 DEF Holds
    <3> QED BY <3>1, <3>2
  <2> QED BY <2>3, <2>4, <2>5 DEF Objects
<1> QED BY <1>5, <1>8, <1>9

(* No other step touches the objects, or begins to send.                     *)
LEMMA OtherObjects ==
  ASSUME IInv, Objects, NEW c \in Call,
         Offer(c) \/ HalfClose(c) \/ Leave(c) \/ Handle(c), ~RespondBody(c)
  PROVE  Objects'
<1>1. rule' = rule /\ heap' = heap /\ reply' = reply
  BY DEF Offer, HalfClose, Leave, Handle, MatchAtOnce, MatchFirst, MatchFails, WaitOver,
         WaitCanceled, RespondStatus, Send, SendFails, Drain, DrainEnds, DrainFails, procVars
<1>2. Rule' = Rule /\ MockOf' = MockOf
  BY <1>1 DEF Rule, MockOf
<1>3. \A d \in Call : at'[d] = "send" => at[d] = "send" /\ first'[d] = first[d]
  <2> USE DEF IInv, Typed, TypeOK, Finish, procVars, Matched
  <2>1. CASE Offer(c) \/ HalfClose(c) \/ Leave(c) \/ MatchFails(c)
    BY <2>1 DEF Offer, HalfClose, Leave, MatchFails
  <2>2. CASE MatchAtOnce(c)
    BY <2>2 DEF MatchAtOnce
  <2>3. CASE MatchFirst(c)
    <3>1. \/ at' = [at EXCEPT ![c] = Matched]
          \/ at' = [at EXCEPT ![c] = "done"]
      BY <2>3 DEF MatchFirst
    <3>2. \E m : first' = [first EXCEPT ![c] = {m}]
      BY <2>3 DEF MatchFirst
    <3> QED BY <3>1, <3>2
  <2>4. CASE WaitOver(c) \/ WaitCanceled(c) \/ RespondStatus(c)
    BY <2>4 DEF WaitOver, WaitCanceled, RespondStatus
  <2>5. CASE Send(c) \/ SendFails(c)
    BY <2>5 DEF Send, SendFails
  <2>6. CASE Drain(c) \/ DrainEnds(c) \/ DrainFails(c)
    BY <2>6 DEF Drain, DrainEnds, DrainFails
  <2> QED BY <2>1, <2>2, <2>3, <2>4, <2>5, <2>6 DEF Handle
<1>4. Kept'
  BY <1>1, <1>2 DEF Objects, Kept
<1>5. \A d \in Call : Holds(d)'
  BY <1>1, <1>2, <1>3 DEF Objects, Holds, Made
<1> QED BY <1>4, <1>5 DEF Objects

(* Every step keeps the objects. *)
LEMMA StepObjects == IInv /\ Objects /\ [Next]_vars => Objects'
<1> SUFFICES ASSUME IInv, Objects, [Next]_vars PROVE Objects'
  OBVIOUS
<1>1. CASE UNCHANGED vars
  BY <1>1 DEF Objects, Kept, Holds, Made, Rule, MockOf, vars, procVars
<1> QED BY <1>1, LoadObjects, RespondObjects, OtherObjects DEF Next

(* A client is sent what was generated from the first message of its own     *)
(* call, whatever the other calls of the rule do meanwhile (proxy.go         *)
(* 205-220, template.go 119-186).                                            *)
THEOREM EachIsSentItsOwn == Spec => SendsItsOwn
<1> DEFINE Own == \A c \in Call : sent'[c] # sent[c] =>
                    LET made == Generate(Rule, first[c])
                    IN  made.res = "ok" /\ sent'[c] = Append(sent[c], made.val)
<1>1. IInv /\ Objects /\ [Next]_vars => [Own]_vars
  <2> SUFFICES ASSUME IInv, Objects, Next, NEW d \in Call, sent'[d] # sent[d]
               PROVE  Made(d).res = "ok" /\ sent'[d] = Append(sent[d], Made(d).val)
    BY DEF Made
  <2>1. ~Load
    BY DEF Load
  <2>2. PICK c \in Call : Offer(c) \/ HalfClose(c) \/ Leave(c) \/ Handle(c)
    BY <2>1 DEF Next
  <2>3. c = d
    BY <2>2, OthersStay DEF IInv
  <2>4. Send(d)
    BY <2>2, <2>3 DEF Offer, HalfClose, Leave, Handle, MatchAtOnce, MatchFirst, MatchFails,
         WaitOver, WaitCanceled, RespondStatus, RespondBody, SendFails, Drain, DrainEnds, DrainFails
  <2>5. at[d] = "send" /\ sent'[d] = Append(sent[d], heap[reply[d]])
    BY <2>4 DEF Send, IInv, Typed
  <2> QED BY <2>5 DEF Objects, Holds
<1> QED BY InitIInv, StepIInv, InitObjects, StepObjects, <1>1, PTL DEF Spec, SendsItsOwn


-----------------------------------------------------------------------------
(* What the definer computes.                                                *)

(* What passes from each step of a loop to the next holds of all of them.    *)
LEMMA StepByStep ==
  ASSUME NEW L \in Nat, NEW P, 0 \in P,
         \A m \in 0..(L - 1) : m \in P => m + 1 \in P
  PROVE  0..L \subseteq P
<1> DEFINE Out == (0..L) \ P
<1> SUFFICES ASSUME Out # {} PROVE FALSE
  OBVIOUS
<1>1. PICK x \in Out : \A y \in Out : ~(<<y, x>> \in OpToRel(<, Nat))
  <2>1. Out \subseteq Nat
    OBVIOUS
  <2> HIDE DEF Out
  <2> QED BY <2>1, NatLessThanWellFounded, WFMin, Zenon
<1>2. \A y \in Out : ~(y < x)
  <2>1. \A y \in Out : y < x => <<y, x>> \in OpToRel(<, Nat)
    BY DEF OpToRel
  <2> HIDE DEF Out
  <2> QED BY <1>1, <2>1
<1>3. x # 0
  OBVIOUS
<1>4. x - 1 \in 0..(L - 1) /\ x - 1 \notin Out
  BY <1>2, <1>3
<1> QED BY <1>4

(* setField fails as buildValue does (definer.go 251-262).                   *)
LEMMA SetFieldFails ==
  ASSUME NEW types, NEW fs, NEW msg, NEW f, NEW v, NEW nested
  PROVE  LET built == BuildValue(types, f, v, nested)
             set == SetField(types, fs, msg, f, v, nested)
         IN  IF built.res = "ok" THEN set = Ok(Put(fs, msg, f, built.val)) ELSE set = built
BY DEF SetField, Then

(* What parseTemplate does with a field. *)
ParseField(types, t, f) ==
  CASE Role(f) = "broken"  -> Fail("error")
    [] Role(f) = "dynamic" -> Ok([t EXCEPT !.dynamic = Append(@, f)])
    [] Role(f) = "matcher" -> Ok([t EXCEPT !.matchers = Append(@, f)])
    [] OTHER ->
         Then(SetField(types, t.fields, t.static, f, f.value, BuildMessage(types)),
              LAMBDA msg : Ok([t EXCEPT !.static = msg]))

(* The steps of the three loops over fields: of buildMessage, parseTemplate  *)
(* and combined.Generate.                                                    *)
LoopStep(loop, v, f) ==
  CASE loop.of = "message" -> SetField(loop.types, loop.fields, v, f, f.value, loop.nested)
    [] loop.of = "template" -> ParseField(loop.types, v, f)
    [] loop.of = "fill" ->
         SetField(loop.types, loop.fields, v, f, Render(f.value, loop.data), loop.nested)

(* One of them, over the first L elements of a sequence.                     *)
Run(loop, seq, init, L, a) ==
  a = [i \in 0..L |->
         IF i = 0 THEN Ok(init)
         ELSE IF a[i - 1].res = "ok" THEN LoopStep(loop, a[i - 1].val, seq[i]) ELSE a[i - 1]]

(* Every loop can be run (definer.go 98-131, 240-249, template.go 123-139).  *)
LEMMA RunExists ==
  ASSUME NEW loop, NEW seq, NEW init, NEW L \in Nat
  PROVE  \E a : Run(loop, seq, init, L, a)
<1> DEFINE P == { m \in 0..L : \E a : Run(loop, seq, init, m, a) }
           Set(o, i) == IF o.res = "ok" THEN LoopStep(loop, o.val, seq[i]) ELSE o
<1>1. 0 \in P
  <2> DEFINE a == [i \in 0..0 |-> Ok(init)]
  <2>1. a = [i \in 0..0 |-> IF i = 0 THEN Ok(init) ELSE Set(a[i - 1], i)]
    OBVIOUS
  <2>2. Run(loop, seq, init, 0, a)
    <3> HIDE DEF a
    <3> QED BY <2>1 DEF Run
  <2> HIDE DEF a
  <2> QED BY <2>2
<1>2. ASSUME NEW m \in 0..(L - 1), m \in P PROVE m + 1 \in P
  <2>1. PICK a : a = [i \in 0..m |-> IF i = 0 THEN Ok(init) ELSE Set(a[i - 1], i)]
    BY <1>2 DEF Run
  <2> HIDE DEF Set
  <2> DEFINE b == [i \in 0..(m + 1) |-> IF i <= m THEN a[i] ELSE Set(a[m], m + 1)]
  <2>2. ASSUME NEW i \in 0..(m + 1)
        PROVE  b[i] = IF i = 0 THEN Ok(init) ELSE Set(b[i - 1], i)
    <3>1. CASE i <= m
      <4>1. i \in 0..m /\ b[i] = a[i] /\ (i # 0 => i - 1 \in 0..m /\ b[i - 1] = a[i - 1])
        BY <3>1
      <4>2. a[i] = IF i = 0 THEN Ok(init) ELSE Set(a[i - 1], i)
        BY <2>1, <4>1
      <4> QED BY <4>1, <4>2
    <3>2. CASE i = m + 1
      BY <3>2
    <3> QED BY <3>1, <3>2
  <2>3. b = [i \in 0..(m + 1) |-> b[i]]
    OBVIOUS
  <2>4. b = [i \in 0..(m + 1) |-> IF i = 0 THEN Ok(init) ELSE Set(b[i - 1], i)]
    <3> HIDE DEF b
    <3> QED BY <2>2, <2>3
  <2>5. Run(loop, seq, init, m + 1, b)
    <3> HIDE DEF b
    <3> QED BY <2>4 DEF Run, Set
  <2>6. m + 1 \in 0..L
    OBVIOUS
  <2> HIDE DEF b
  <2> QED BY <2>5, <2>6
<1>3. 0..L \subseteq P
  <2> HIDE DEF P
  <2> QED BY <1>1, <1>2, StepByStep
<1> QED BY <1>3

(* Every step of it has succeeded, or one has failed. *)
Succeeds(loop, seq, L, a) ==
  \A i \in 1..L : /\ a[i - 1].res = "ok" /\ a[i].res = "ok"
                  /\ a[i] = LoopStep(loop, a[i - 1].val, seq[i])
Breaks(loop, seq, L, a) ==
  \E i \in 1..L : a[i - 1].res = "ok" /\ a[L] = LoopStep(loop, a[i - 1].val, seq[i])

(* A loop ends with the outcome of the first step that fails, or every step  *)
(* has succeeded (definer.go 98-131, 240-249, template.go 123-139).          *)
LEMMA RunEnds ==
  ASSUME NEW loop, NEW seq, NEW init, NEW L \in Nat, NEW a, Run(loop, seq, init, L, a)
  PROVE  /\ a[0] = Ok(init)
         /\ a[L].res = "ok" => Succeeds(loop, seq, L, a)
         /\ a[L].res # "ok" => Breaks(loop, seq, L, a)
<1> DEFINE step(i) == LoopStep(loop, a[i - 1].val, seq[i])
           P == { i \in 0..L :
                    /\ a[i].res = "ok" => \A j \in 1..i : /\ a[j - 1].res = "ok" /\ a[j].res = "ok"
                                                          /\ a[j] = step(j)
                    /\ a[i].res # "ok" => \E j \in 1..i : a[j - 1].res = "ok" /\ a[i] = step(j) }
<1>1. a[0] = Ok(init)
  BY DEF Run
<1>2. 0 \in P
  BY <1>1 DEF Ok
<1>3. ASSUME NEW m \in 0..(L - 1), m \in P PROVE m + 1 \in P
  <2>1. m + 1 \in 0..L /\ m + 1 # 0 /\ (m + 1) - 1 = m /\ m + 1 \in 1..(m + 1)
    OBVIOUS
  <2>2. a[m + 1] = IF a[m].res = "ok" THEN step(m + 1) ELSE a[m]
    BY <2>1 DEF Run
  <2>3. \A j \in 1..(m + 1) : j \in 1..m \/ j = m + 1
    OBVIOUS
  <2> HIDE DEF step
  <2>4. CASE a[m].res # "ok"
    BY <1>3, <2>1, <2>2, <2>4
  <2>5. CASE a[m].res = "ok"
    <3>1. a[m + 1] = step(m + 1)
      BY <2>2, <2>5
    <3>2. \A j \in 1..m : a[j - 1].res = "ok" /\ a[j].res = "ok" /\ a[j] = step(j)
      BY <1>3, <2>5
    <3> QED BY <2>1, <2>3, <2>5, <3>1, <3>2
  <2> QED BY <2>4, <2>5
<1>4. 0..L \subseteq P
  <2> HIDE DEF P
  <2> QED BY <1>2, <1>3, StepByStep
<1>5. L \in P
  BY <1>4
<1> QED BY <1>1, <1>5 DEF Succeeds, Breaks

(* A message of type t, with the messages its fields without a value are.    *)
BuiltOf(types, t, nested) ==
  Each(types[t], NoFields,
       LAMBDA msg, f : SetField(types, types[t], msg, f, f.value, nested))

(* buildMessage fails as one of its fields does, and succeeds when they all  *)
(* do (definer.go 240-249).                                                  *)
LEMMA BuiltFails ==
  ASSUME NEW types, NEW t, NEW nested, Len(types[t]) \in Nat
  PROVE  LET built(i) == BuildValue(types, types[t][i], types[t][i].value, nested)
             made == BuiltOf(types, t, nested)
         IN  /\ made.res = "ok" => \A i \in 1..Len(types[t]) : built(i).res = "ok"
             /\ made.res # "ok" => \E i \in 1..Len(types[t]) : built(i) = made
<1> DEFINE L == Len(types[t])
           loop == [of |-> "message", types |-> types, fields |-> types[t], nested |-> nested]
           built(i) == BuildValue(types, types[t][i], types[t][i].value, nested)
           a == CHOOSE b : b = [i \in 0..L |->
                  IF i = 0 THEN Ok(NoFields)
                  ELSE Then(b[i - 1], LAMBDA v :
                         SetField(types, types[t], v, types[t][i], types[t][i].value, nested))]
<1>1. BuiltOf(types, t, nested) = a[L]
  BY DEF BuiltOf, Each
<1>2. \A v, f : LoopStep(loop, v, f) = SetField(types, types[t], v, f, f.value, nested)
  BY DEF LoopStep
<1>3. Run(loop, types[t], NoFields, L, a)
  <2> DEFINE to(o, i) == IF o.res = "ok" THEN LoopStep(loop, o.val, types[t][i]) ELSE o
  <2>0. \E b : Run(loop, types[t], NoFields, L, b)
    BY RunExists
  <2>1. PICK b : b = [i \in 0..L |-> IF i = 0 THEN Ok(NoFields) ELSE to(b[i - 1], i)]
    <3> HIDE DEF loop, L
    <3> QED BY <2>0 DEF Run
  <2>2. \A o, i : to(o, i) = Then(o, LAMBDA v :
                    SetField(types, types[t], v, types[t][i], types[t][i].value, nested))
    BY <1>2 DEF Then
  <2>3. a = [i \in 0..L |-> IF i = 0 THEN Ok(NoFields) ELSE to(a[i - 1], i)]
    <3> HIDE DEF to, loop
    <3> QED BY <2>1, <2>2 DEF Then
  <2> HIDE DEF a
  <2> QED BY <2>3 DEF Run
<1> HIDE DEF a, loop
<1>4. /\ a[L].res = "ok" => Succeeds(loop, types[t], L, a)
      /\ a[L].res # "ok" => Breaks(loop, types[t], L, a)
  BY <1>3, RunEnds
<1>5. \A v, i : LET set == LoopStep(loop, v, types[t][i])
                IN  IF built(i).res = "ok" THEN set.res = "ok" ELSE set = built(i)
  BY <1>2, SetFieldFails DEF Ok
<1> HIDE DEF built
<1>6. /\ a[L].res = "ok" => \A i \in 1..L : built(i).res = "ok"
      /\ a[L].res # "ok" => \E i \in 1..L : built(i) = a[L]
  BY <1>4, <1>5 DEF Succeeds, Breaks
<1> QED BY <1>1, <1>6 DEF built

(* Independent calls fail as one of them does.                               *)
LEMMA AllFails ==
  ASSUME NEW o
  PROVE  /\ All(o).res \in {"ok", "error", "panic"}
         /\ All(o).res = "panic" => \E k \in DOMAIN o : o[k].res = "panic"
BY DEF All, Ok, Fail

(* The text of a value option reads as a scalar or does not.                 *)
LEMMA ScalarReads ==
  ASSUME NEW kind \in Scalar, NEW text
  PROVE  ParseScalar(kind, text).res \in {"ok", "error"}
BY DEF ParseScalar, Scalar, Ok, Fail

(* Decoding JSON does not panic (dynamic.Message.UnmarshalJSON, definer.go   *)
(* 484-493).                                                                 *)
LEMMA DecodeFails ==
  ASSUME NEW fs, NEW v
  PROVE  /\ Decode(fs, v).res \in {"ok", "error"}
         /\ DecodeItem(fs, v).res \in {"ok", "error"}
<1>1. ASSUME NEW f, NEW item PROVE FromJSON(f, item).res \in {"ok", "error"}
  <2>1. ParseScalar("enum", item.text).res \in {"ok", "error"}
    BY ScalarReads DEF Scalar
  <2> QED BY <2>1 DEF FromJSON, Ok, Fail
<1> DEFINE Field(k) == fs[FieldNamed(fs, k)]
           read == All([k \in DOMAIN v.items |-> FromJSON(Field(k), v.items[k])])
<1>2. \/ Decode(fs, v) = Fail("error")
      \/ Decode(fs, v) =
           Then(read, LAMBDA r : Ok([k \in { j \in DOMAIN r : r[j] # Zero(Field(j).kind) } |-> r[k]]))
  BY DEF Decode
<1>3. read.res \in {"ok", "error"}
  <2> DEFINE o == [k \in DOMAIN v.items |-> FromJSON(Field(k), v.items[k])]
  <2>1. \A k \in DOMAIN o : o[k].res # "panic"
    BY <1>1
  <2>2. read = All(o)
    OBVIOUS
  <2> HIDE DEF o, read
  <2> QED BY <2>1, <2>2, AllFails
<1> HIDE DEF read
<1>4. Decode(fs, v).res \in {"ok", "error"}
  BY <1>2, <1>3 DEF Then, Ok, Fail
<1> QED BY <1>4 DEF DecodeItem, Ok

(* What buildValue may fail with: it panics on a list or a map of scalars,   *)
(* or as the message does that it builds for a field without a value, and    *)
(* only there its recursion goes on (definer.go 264-301).                    *)
LEMMA BuildValueFails ==
  ASSUME NEW types, NEW f, NEW v, NEW nested, FieldType(types, f)
  PROVE  LET made == BuildValue(types, f, v, nested)
             nests == f.label = "one" /\ f.kind = "message" /\ v.form = "empty"
         IN  /\ nests => made = nested[f.type] /\ f.type \in DOMAIN types
             /\ ~nests => /\ made.res \in {"ok", "error", "panic"}
                          /\ made.res = "panic" => f.label # "one" /\ f.kind # "message"
<1> DEFINE made == BuildValue(types, f, v, nested)
<1> USE DEF FieldType
<1>1. CASE v.form = "empty"
  BY <1>1 DEF BuildValue, Ok
<1>2. CASE v.form # "empty" /\ f.label = "one"
  <2>1. made = IF f.kind = "message" THEN Decode(types[f.type], v) ELSE ParseScalar(f.kind, v.text)
    BY <1>2 DEF BuildValue
  <2>2. f.kind = "message" => made.res \in {"ok", "error"}
    BY <2>1, DecodeFails
  <2>3. f.kind # "message" => made.res \in {"ok", "error"}
    BY <2>1, ScalarReads
  <2> QED BY <1>2, <2>2, <2>3
<1>3. CASE v.form # "empty" /\ f.label = "repeated"
  <2> DEFINE o == [i \in DOMAIN v.items |->
                     IF f.kind = "message" THEN DecodeItem(types[f.type], v.items[i])
                     ELSE IF Casts(f.kind, v.items[i]) THEN Ok(Cast(f.kind, v.items[i]))
                     ELSE Fail("panic")]
  <2>1. made = Fail("error") \/ made = All(o)
    BY <1>3 DEF BuildValue, BuildRepeated
  <2>2. f.kind = "message" => \A i \in DOMAIN o : o[i].res # "panic"
    BY DecodeFails
  <2> HIDE DEF o
  <2>3. All(o).res \in {"ok", "error", "panic"} /\ (f.kind = "message" => All(o).res # "panic")
    BY <2>2, AllFails
  <2> QED BY <1>3, <2>1, <2>3 DEF Fail
<1>4. CASE v.form # "empty" /\ f.label = "map"
  <2> DEFINE o == [k \in DOMAIN v.items |-> MapEntry(types, f, k, v.items[k])]
  <2>1. \/ made = Fail("error")
        \/ made = Then(All(o), LAMBDA es : Ok([x \in { es[k].key : k \in DOMAIN es } |->
                                 es[CHOOSE k \in DOMAIN es : es[k].key = x].val]))
    BY <1>4 DEF BuildValue, BuildMap
  <2>2. f.kind = "message" => \A k \in DOMAIN o : o[k].res # "panic"
    <3>1. ASSUME f.kind = "message", NEW k, NEW item PROVE MapEntry(types, f, k, item).res # "panic"
      <4>1. ParseScalar(f.key, k).res \in {"ok", "error"}
        BY ScalarReads DEF Scalar
      <4>2. DecodeItem(types[f.type], item).res \in {"ok", "error"}
        BY DecodeFails
      <4> QED BY <3>1, <4>1, <4>2 DEF MapEntry, Then, Ok, Fail
    <3> QED BY <3>1
  <2> HIDE DEF o
  <2>3. All(o).res \in {"ok", "error", "panic"} /\ (f.kind = "message" => All(o).res # "panic")
    BY <2>2, AllFails
  <2> QED BY <1>4, <2>1, <2>3 DEF Fail, Then, Ok
<1> QED BY <1>1, <1>2, <1>3, <1>4

(* The recursion of buildMessage, by its depth.                              *)
Builder(types, K, b) ==
  b = [n \in 0..K |->
         IF n = 0 THEN [t \in DOMAIN types |-> Fail("endless")]
         ELSE [t \in DOMAIN types |-> BuiltOf(types, t, b[n - 1])]]

(* It can be run to any depth (definer.go 240-249).                          *)
LEMMA BuilderExists ==
  ASSUME NEW types, NEW K \in Nat
  PROVE  \E b : Builder(types, K, b)
<1> DEFINE P == { m \in 0..K : \E b : Builder(types, m, b) }
           First == [t \in DOMAIN types |-> Fail("endless")]
           Deeper(nested) == [t \in DOMAIN types |-> BuiltOf(types, t, nested)]
<1>1. 0 \in P
  <2> DEFINE b == [n \in 0..0 |-> First]
  <2> HIDE DEF First
  <2>1. b = [n \in 0..0 |-> IF n = 0 THEN First ELSE Deeper(b[n - 1])]
    OBVIOUS
  <2>2. Builder(types, 0, b)
    <3> HIDE DEF b
    <3> QED BY <2>1 DEF Builder, First
  <2> HIDE DEF b
  <2> QED BY <2>2
<1>2. ASSUME NEW m \in 0..(K - 1), m \in P PROVE m + 1 \in P
  <2>1. PICK a : a = [n \in 0..m |-> IF n = 0 THEN First ELSE Deeper(a[n - 1])]
    BY <1>2 DEF Builder
  <2> HIDE DEF First, Deeper
  <2> DEFINE b == [n \in 0..(m + 1) |-> IF n <= m THEN a[n] ELSE Deeper(a[m])]
  <2>2. ASSUME NEW n \in 0..(m + 1)
        PROVE  b[n] = IF n = 0 THEN First ELSE Deeper(b[n - 1])
    <3>1. CASE n <= m
      <4>1. n \in 0..m /\ b[n] = a[n] /\ (n # 0 => n - 1 \in 0..m /\ b[n - 1] = a[n - 1])
        BY <3>1
      <4>2. a[n] = IF n = 0 THEN First ELSE Deeper(a[n - 1])
        BY <2>1, <4>1
      <4> QED BY <4>1, <4>2
    <3>2. CASE n = m + 1
      BY <3>2
    <3> QED BY <3>1, <3>2
  <2>3. b = [n \in 0..(m + 1) |-> b[n]]
    OBVIOUS
  <2>4. b = [n \in 0..(m + 1) |-> IF n = 0 THEN First ELSE Deeper(b[n - 1])]
    <3> HIDE DEF b
    <3> QED BY <2>2, <2>3
  <2>5. Builder(types, m + 1, b)
    <3> HIDE DEF b
    <3> QED BY <2>4 DEF Builder, First, Deeper
  <2>6. m + 1 \in 0..K
    OBVIOUS
  <2> HIDE DEF b
  <2> QED BY <2>5, <2>6
<1>3. 0..K \subseteq P
  <2> HIDE DEF P
  <2> QED BY <1>1, <1>2, StepByStep
<1> QED BY <1>3

(* BuildMessage is its outcome at a depth of one more than there are types.  *)
LEMMA MessageBuilder ==
  ASSUME NEW types, TypesType(types)
  PROVE  LET K == Cardinality(DOMAIN types) + 1
         IN  /\ K \in Nat
             /\ \E b : Builder(types, K, b) /\ BuildMessage(types) = b[K]
<1> DEFINE K == Cardinality(DOMAIN types) + 1
           b == CHOOSE c : Builder(types, K, c)
<1>1. K \in Nat
  BY FS_CardinalityType DEF TypesType
<1>2. BuildMessage(types) = b[K]
  BY DEF BuildMessage, Builder, BuiltOf
<1>3. Builder(types, K, b)
  BY <1>1, BuilderExists
<1> HIDE DEF b, K
<1>4. K \in Nat /\ \E c : Builder(types, K, c) /\ BuildMessage(types) = c[K]
  BY <1>1, <1>2, <1>3
<1> QED BY <1>4 DEF K

(* Some type has a list or a map of scalars. *)
SomeMany(types) ==
  \E t \in DOMAIN types : \E i \in DOMAIN types[t] :
    types[t][i].label # "one" /\ types[t][i].kind # "message"

(* One level of it: a message has an outcome of one of its fields, which is  *)
(* that of a type it contains, or not one of the recursion (definer.go       *)
(* 240-301).                                                                 *)
LEMMA OneLevel ==
  ASSUME NEW types, TypesType(types), NEW t \in DOMAIN types, NEW nested,
         \A u \in DOMAIN types : nested[u].res \in {"ok", "error", "panic", "endless"}
  PROVE  LET made == BuiltOf(types, t, nested)
         IN  /\ made.res \in {"ok", "error", "panic", "endless"}
             /\ Contained(types, t) \subseteq DOMAIN types
             /\ made.res = "ok" => \A u \in Contained(types, t) : nested[u].res = "ok"
             /\ made.res = "endless" => \E u \in Contained(types, t) : nested[u].res = "endless"
             /\ made.res = "panic" => \/ SomeMany(types)
                                      \/ \E u \in DOMAIN types : nested[u].res = "panic"
<1> DEFINE made == BuiltOf(types, t, nested)
           F(i) == types[t][i]
           built(i) == BuildValue(types, F(i), F(i).value, nested)
<1>1. Len(types[t]) \in Nat /\ DOMAIN types[t] = 1..Len(types[t])
  BY DEF TypesType
<1>2. \A i \in DOMAIN types[t] : FieldType(types, F(i))
  BY DEF TypesType
<1>3. /\ made.res = "ok" => \A i \in DOMAIN types[t] : built(i).res = "ok"
      /\ made.res # "ok" => \E i \in DOMAIN types[t] : built(i).res = made.res
  BY <1>1, BuiltFails
<1>4. \A i \in DOMAIN types[t] :
        /\ Unvalued(F(i)) => /\ built(i) = nested[F(i).type]
                             /\ F(i).type \in DOMAIN types
        /\ ~Unvalued(F(i)) => /\ built(i).res \in {"ok", "error", "panic"}
                              /\ built(i).res = "panic" => F(i).label # "one" /\ F(i).kind # "message"
  BY <1>2, BuildValueFails DEF Unvalued
<1>5. \A u : u \in Contained(types, t) <=> \E i \in DOMAIN types[t] : Unvalued(F(i)) /\ u = F(i).type
  BY DEF Contained
<1> HIDE DEF made, built
<1>6. made.res = "ok" \/ \E i \in DOMAIN types[t] : built(i).res = made.res /\ made.res # "ok"
  BY <1>3
<1>7. /\ made.res \in {"ok", "error", "panic", "endless"}
      /\ Contained(types, t) \subseteq DOMAIN types
  <2> HIDE DEF F
  <2> QED BY <1>4, <1>5, <1>6
<1>8. /\ made.res = "ok" => \A u \in Contained(types, t) : nested[u].res = "ok"
      /\ made.res = "endless" => \E u \in Contained(types, t) : nested[u].res = "endless"
  <2> HIDE DEF F
  <2> QED BY <1>3, <1>4, <1>5
<1>9. made.res = "panic" => SomeMany(types) \/ \E u \in DOMAIN types : nested[u].res = "panic"
  BY <1>3, <1>4 DEF SomeMany
<1> QED BY <1>7, <1>8, <1>9 DEF made

(* All of its levels.                                                        *)
Follows(types, up, down) ==
  \A t \in DOMAIN types :
    /\ up[t].res = "ok" => \A u \in Contained(types, t) : down[u].res = "ok"
    /\ up[t].res = "endless" => \E u \in Contained(types, t) : down[u].res = "endless"
    /\ up[t].res = "panic" => SomeMany(types) \/ \E u \in DOMAIN types : down[u].res = "panic"

(* Each level of the recursion follows from the one below (definer.go        *)
(* 240-301).                                                                 *)
LEMMA Levels ==
  ASSUME NEW types, TypesType(types), NEW K \in Nat, NEW b, Builder(types, K, b)
  PROVE  /\ \A n \in 0..K : \A t \in DOMAIN types :
              b[n][t].res \in {"ok", "error", "panic", "endless"}
         /\ \A t \in DOMAIN types : b[0][t].res = "endless" /\ Contained(types, t) \subseteq DOMAIN types
         /\ \A n \in 0..(K - 1) : Follows(types, b[n + 1], b[n])
<1> DEFINE P == { n \in 0..K : \A t \in DOMAIN types :
                    b[n][t].res \in {"ok", "error", "panic", "endless"} }
<1>1. \A t \in DOMAIN types : b[0][t].res = "endless"
  BY DEF Builder, Fail
<1>2. \A n \in 0..(K - 1) : \A t \in DOMAIN types : b[n + 1][t] = BuiltOf(types, t, b[n])
  <2> SUFFICES ASSUME NEW n \in 0..(K - 1), NEW t \in DOMAIN types
               PROVE  b[n + 1][t] = BuiltOf(types, t, b[n])
    OBVIOUS
  <2>1. n + 1 \in 0..K /\ n + 1 # 0 /\ (n + 1) - 1 = n
    OBVIOUS
  <2> QED BY <2>1 DEF Builder
<1>3. ASSUME NEW n \in 0..(K - 1), n \in P PROVE n + 1 \in P /\ Follows(types, b[n + 1], b[n])
  <2>1. n + 1 \in 0..K
    OBVIOUS
  <2>2. \A u \in DOMAIN types : b[n][u].res \in {"ok", "error", "panic", "endless"}
    BY <1>3
  <2> QED BY <1>2, <2>1, <2>2, OneLevel DEF Follows
<1>4. 0 \in P
  BY <1>1
<1>5. 0..K \subseteq P
  <2> HIDE DEF P
  <2> QED BY <1>3, <1>4, StepByStep
<1>6. \A t \in DOMAIN types : Contained(types, t) \subseteq DOMAIN types
  BY OneLevel, <1>1, <1>4
<1> QED BY <1>1, <1>3, <1>5, <1>6

(* What is built at some depth does not contain itself (definer.go 264-272). *)
LEMMA BuiltIsNotRecursive ==
  ASSUME NEW types, TypesType(types), NEW K \in Nat, NEW b, Builder(types, K, b),
         NEW t \in DOMAIN types, b[K][t].res = "ok"
  PROVE  ~Recursive(types, t)
<1> SUFFICES ASSUME NEW C \in SUBSET DOMAIN types, t \in C,
                    \A u \in C : Contained(types, u) \intersect C # {}
             PROVE  FALSE
  BY DEF Recursive
<1> DEFINE P == { n \in 0..K : \A u \in C : b[n][u].res # "ok" }
<1>1. 0 \in P
  BY Levels
<1>2. ASSUME NEW n \in 0..(K - 1), n \in P PROVE n + 1 \in P
  <2>1. Follows(types, b[n + 1], b[n])
    BY Levels
  <2>2. n + 1 \in 0..K
    OBVIOUS
  <2>3. ASSUME NEW u \in C PROVE b[n + 1][u].res # "ok"
    <3>1. PICK w \in C : w \in Contained(types, u)
      OBVIOUS
    <3>2. b[n][w].res # "ok"
      BY <1>2
    <3> QED BY <2>1, <3>1, <3>2 DEF Follows
  <2> QED BY <2>2, <2>3
<1>3. 0..K \subseteq P
  <2> HIDE DEF P
  <2> QED BY <1>1, <1>2, StepByStep
<1>4. K \in P
  BY <1>3
<1> QED BY <1>4

(* What panics at some depth has a list or a map of scalars (definer.go      *)
(* 303-421).                                                                 *)
LEMMA PanicsOnMany ==
  ASSUME NEW types, TypesType(types), NEW K \in Nat, NEW b, Builder(types, K, b),
         NEW t \in DOMAIN types, b[K][t].res = "panic"
  PROVE  SomeMany(types)
<1> SUFFICES ASSUME ~SomeMany(types) PROVE FALSE
  OBVIOUS
<1> DEFINE P == { n \in 0..K : \A u \in DOMAIN types : b[n][u].res # "panic" }
<1>1. 0 \in P
  BY Levels
<1>2. ASSUME NEW n \in 0..(K - 1), n \in P PROVE n + 1 \in P
  <2>1. Follows(types, b[n + 1], b[n])
    BY Levels
  <2>2. n + 1 \in 0..K
    OBVIOUS
  <2> QED BY <1>2, <2>1, <2>2 DEF Follows
<1>3. 0..K \subseteq P
  <2> HIDE DEF P
  <2> QED BY <1>1, <1>2, StepByStep
<1>4. K \in P
  BY <1>3
<1> QED BY <1>4

(* A type that contains one that contains itself does so, too. *)
LEMMA ContainsRecursive ==
  ASSUME NEW types, NEW t \in DOMAIN types, NEW u \in Contained(types, t), Recursive(types, u)
  PROVE  Recursive(types, t)
<1>1. PICK C \in SUBSET DOMAIN types :
        u \in C /\ \A w \in C : Contained(types, w) \intersect C # {}
  BY DEF Recursive
<1> DEFINE D == C \union {t}
<1>2. D \in SUBSET DOMAIN types /\ t \in D
  OBVIOUS
<1>3. \A w \in D : Contained(types, w) \intersect D # {}
  BY <1>1
<1> QED BY <1>2, <1>3 DEF Recursive

(* A type that does not contain itself is built at a depth of one more than  *)
(* there are types: at every depth there is one more whose messages are.     *)
(* (definer.go 264-272).                                                     *)
LEMMA EndlessIsRecursive ==
  ASSUME NEW types, TypesType(types), NEW b, Builder(types, Cardinality(DOMAIN types) + 1, b),
         NEW t \in DOMAIN types, b[Cardinality(DOMAIN types) + 1][t].res = "endless"
  PROVE  Recursive(types, t)
<1> DEFINE K == Cardinality(DOMAIN types) + 1
           W == { u \in DOMAIN types : ~Recursive(types, u) }
           Ending(n) == { u \in W : \A m \in n..K : b[m][u].res # "endless" }
           P == { n \in 0..K : W \subseteq Ending(n) \/ Cardinality(Ending(n)) >= n }
<1> SUFFICES ASSUME t \in W PROVE FALSE
  OBVIOUS
<1>1. K \in Nat /\ IsFiniteSet(DOMAIN types) /\ Cardinality(DOMAIN types) \in Nat
  BY FS_CardinalityType DEF TypesType
<1>2. \A n : IsFiniteSet(Ending(n)) /\ Cardinality(Ending(n)) \in Nat
             /\ Cardinality(Ending(n)) <= Cardinality(DOMAIN types)
  <2>1. \A n : Ending(n) \subseteq DOMAIN types
    OBVIOUS
  <2> HIDE DEF Ending
  <2> QED BY <1>1, <2>1, FS_Subset, FS_CardinalityType
<1>3. 0 \in P
  <2>1. Cardinality(Ending(0)) \in Nat
    BY <1>2
  <2> HIDE DEF Ending
  <2> QED BY <1>1, <2>1
<1>4. ASSUME NEW n \in 0..(K - 1), n \in P PROVE n + 1 \in P
  <2>1. n + 1 \in 0..K
    BY <1>1
  <2>2. Ending(n) \subseteq Ending(n + 1)
    BY <1>1
  <2>3. CASE W \subseteq Ending(n)
    BY <2>1, <2>2, <2>3
  <2>4. CASE ~(W \subseteq Ending(n)) /\ Cardinality(Ending(n)) >= n
    <3> DEFINE D == W \ Ending(n)
    <3>1. PICK w \in D : w \in D
      BY <2>4
    <3>2. PICK u \in D : Contained(types, u) \intersect D = {}
      <4>1. ~Recursive(types, w) /\ D \in SUBSET DOMAIN types
        OBVIOUS
      <4> HIDE DEF D
      <4> QED BY <3>1, <4>1 DEF Recursive
    <3>3. Contained(types, u) \subseteq Ending(n)
      <4>1. u \in DOMAIN types /\ ~Recursive(types, u) /\ Contained(types, u) \subseteq DOMAIN types
        BY <1>1, Levels
      <4>2. Contained(types, u) \subseteq W
        BY <4>1, ContainsRecursive
      <4> HIDE DEF W, Ending
      <4> QED BY <3>2, <4>2
    <3>4. u \in Ending(n + 1)
      <4>1. ASSUME NEW m \in (n + 1)..K PROVE b[m][u].res # "endless"
        <5>1. m - 1 \in 0..(K - 1) /\ m - 1 \in n..K /\ (m - 1) + 1 = m
          BY <1>1
        <5>2. Follows(types, b[m], b[m - 1])
          BY <1>1, <5>1, Levels
        <5>3. \A x \in Contained(types, u) : b[m - 1][x].res # "endless"
          BY <3>3, <5>1
        <5> QED BY <5>2, <5>3 DEF Follows
      <4> QED BY <4>1
    <3>5. Cardinality(Ending(n + 1)) >= n + 1
      <4>1. u \notin Ending(n) /\ Ending(n) \union {u} \subseteq Ending(n + 1)
        BY <2>2, <3>4
      <4> HIDE DEF Ending, D
      <4>2. Cardinality(Ending(n) \union {u}) = Cardinality(Ending(n)) + 1
        BY <1>2, <4>1, FS_AddElement
      <4>3. Cardinality(Ending(n) \union {u}) <= Cardinality(Ending(n + 1))
        BY <1>2, <4>1, FS_Subset
      <4>4. Cardinality(Ending(n)) \in Nat /\ Cardinality(Ending(n + 1)) \in Nat
        BY <1>2
      <4> QED BY <2>4, <4>2, <4>3, <4>4
    <3> QED BY <2>1, <3>5
  <2> QED BY <1>4, <2>3, <2>4
<1>5. 0..K \subseteq P
  <2> HIDE DEF P, K
  <2> QED BY <1>1, <1>3, <1>4, StepByStep
<1>6. W \subseteq Ending(K)
  <2>1. K \in P
    BY <1>1, <1>5
  <2>2. ~(Cardinality(Ending(K)) >= K)
    <3> HIDE DEF Ending
    <3> QED BY <1>1, <1>2
  <2> QED BY <2>1, <2>2
<1> QED BY <1>1, <1>6

(* What the recursion of buildMessage comes to, for each type: it succeeds   *)
(* only for a type that does not contain itself and has no end only for one  *)
(* that does (definer.go 240-301).                                           *)
LEMMA MessageOutcomes ==
  ASSUME NEW types, TypesType(types), NEW t \in DOMAIN types
  PROVE  LET made == BuildMessage(types)[t]
         IN  /\ made.res \in {"ok", "error", "panic", "endless"}
             /\ made.res = "ok" => ~Recursive(types, t)
             /\ made.res = "endless" => Recursive(types, t)
             /\ made.res = "panic" => SomeMany(types)
<1> DEFINE K == Cardinality(DOMAIN types) + 1
<1>1. K \in Nat
  BY MessageBuilder
<1>2. PICK b : Builder(types, K, b) /\ BuildMessage(types) = b[K]
  BY MessageBuilder
<1>3. K \in 0..K
  BY <1>1
<1>4. b[K][t].res = "endless" => Recursive(types, t)
  BY <1>2, EndlessIsRecursive
<1> HIDE DEF K
<1>5. b[K][t].res \in {"ok", "error", "panic", "endless"}
  BY <1>1, <1>2, <1>3, Levels
<1>6. b[K][t].res = "ok" => ~Recursive(types, t)
  BY <1>1, <1>2, BuiltIsNotRecursive
<1>7. b[K][t].res = "panic" => SomeMany(types)
  BY <1>1, <1>2, PanicsOnMany
<1> QED BY <1>2, <1>4, <1>5, <1>6, <1>7

(* A template under construction. *)
Dynamic(types, target) == { types[target][i] : i \in { j \in DOMAIN types[target] :
                              Role(types[target][j]) = "dynamic" } }
Template(types, target, t) ==
  /\ t = [types |-> types, fields |-> types[target], static |-> t.static,
          dynamic |-> t.dynamic, matchers |-> t.matchers]
  /\ t.dynamic \in Seq(Dynamic(types, target))

(* A step of parseTemplate fails as buildValue does for a static field, with *)
(* an error for another, and keeps the template one (definer.go 98-131).     *)
LEMMA FieldParsed ==
  ASSUME NEW types, NEW target, NEW t, Template(types, target, t), NEW i \in DOMAIN types[target]
  PROVE  LET f == types[target][i]
             built == BuildValue(types, f, f.value, BuildMessage(types))
             made == ParseField(types, t, f)
         IN  /\ made.res = "ok" => Template(types, target, made.val)
             /\ Role(f) = "static" => IF built.res = "ok" THEN made.res = "ok" ELSE made = built
             /\ Role(f) # "static" => made.res \in {"ok", "error"}
<1> DEFINE f == types[target][i]
           built == BuildValue(types, f, f.value, BuildMessage(types))
           made == ParseField(types, t, f)
           set == SetField(types, t.fields, t.static, f, f.value, BuildMessage(types))
<1>1. Role(f) \in {"broken", "dynamic", "matcher", "static"}
  BY DEF Role
<1>2. CASE Role(f) = "broken"
  BY <1>2 DEF ParseField, Fail
<1>3. CASE Role(f) = "dynamic"
  <2> DEFINE more == Append(t.dynamic, f)
  <2>1. made = Ok([t EXCEPT !.dynamic = more])
    BY <1>3 DEF ParseField
  <2>2. f \in Dynamic(types, target)
    BY <1>3 DEF Dynamic
  <2>3. more \in Seq(Dynamic(types, target))
    BY <2>2 DEF Template
  <2> HIDE DEF f, made, more
  <2>4. [t EXCEPT !.dynamic = more] =
          [types |-> types, fields |-> types[target], static |-> t.static,
           dynamic |-> more, matchers |-> t.matchers]
    BY DEF Template
  <2>5. Template(types, target, made.val) /\ made.res = "ok"
    BY <2>1, <2>3, <2>4 DEF Template, Ok
  <2> QED BY <1>3, <2>5 DEF f, made
<1>4. CASE Role(f) = "matcher"
  <2> DEFINE more == Append(t.matchers, f)
  <2>1. made = Ok([t EXCEPT !.matchers = more])
    BY <1>4 DEF ParseField
  <2> HIDE DEF f, made, more
  <2>2. [t EXCEPT !.matchers = more] =
          [types |-> types, fields |-> types[target], static |-> t.static,
           dynamic |-> t.dynamic, matchers |-> more]
    BY DEF Template
  <2>3. Template(types, target, made.val) /\ made.res = "ok"
    BY <2>1, <2>2 DEF Template, Ok
  <2> QED BY <1>4, <2>3 DEF f, made
<1>5. CASE Role(f) = "static"
  <2>1. made = Then(set, LAMBDA msg : Ok([t EXCEPT !.static = msg]))
    BY <1>5 DEF ParseField
  <2>2. IF built.res = "ok" THEN set.res = "ok" ELSE set = built
    BY SetFieldFails DEF Ok
  <2> HIDE DEF f, made, set, built
  <2>3. [t EXCEPT !.static = set.val] =
          [types |-> types, fields |-> types[target], static |-> set.val,
           dynamic |-> t.dynamic, matchers |-> t.matchers]
    BY DEF Template
  <2>4. set.res = "ok" => made.res = "ok" /\ Template(types, target, made.val)
    BY <2>1, <2>3 DEF Template, Then, Ok
  <2>5. set.res # "ok" => made = set
    BY <2>1 DEF Then
  <2>6. made.res = "ok" => Template(types, target, made.val)
    BY <2>4, <2>5
  <2> QED BY <1>5, <2>2, <2>4, <2>5, <2>6 DEF f, made, built
<1> QED BY <1>1, <1>2, <1>3, <1>4, <1>5

(* The loop of parseTemplate. *)
Parser(types) == [of |-> "template", types |-> types]
Blank(types, target) ==
  [types |-> types, fields |-> types[target], static |-> NoFields,
   dynamic |-> << >>, matchers |-> << >>]

(* parseTemplate is such a loop (definer.go 89-136).                         *)
LEMMA ParserRuns ==
  ASSUME NEW types, NEW target, Len(types[target]) \in Nat
  PROVE  LET L == Len(types[target])
         IN  \E a : /\ Run(Parser(types), types[target], Blank(types, target), L, a)
                    /\ ParseTemplate(types, target) = a[L]
<1> DEFINE fs == types[target]
           L == Len(fs)
           init == [types |-> types, fields |-> fs, static |-> NoFields,
                    dynamic |-> << >>, matchers |-> << >>]
           loop == Parser(types)
           a == CHOOSE b : b = [i \in 0..L |->
                  IF i = 0 THEN Ok(init)
                  ELSE Then(b[i - 1], LAMBDA v : ParseField(types, v, fs[i]))]
<1>1. ParseTemplate(types, target) = a[L]
  BY DEF ParseTemplate, Each, ParseField
<1>2. \A v, f : LoopStep(loop, v, f) = ParseField(types, v, f)
  BY DEF LoopStep, Parser
<1>3. Run(loop, fs, init, L, a)
  <2> DEFINE to(o, i) == IF o.res = "ok" THEN LoopStep(loop, o.val, fs[i]) ELSE o
  <2>0. \E b : Run(loop, fs, init, L, b)
    BY RunExists
  <2>1. PICK b : b = [i \in 0..L |-> IF i = 0 THEN Ok(init) ELSE to(b[i - 1], i)]
    <3> HIDE DEF loop, L, init, fs
    <3> QED BY <2>0 DEF Run
  <2>2. \A o, i : to(o, i) = Then(o, LAMBDA v : ParseField(types, v, fs[i]))
    BY <1>2 DEF Then
  <2>3. a = [i \in 0..L |-> IF i = 0 THEN Ok(init) ELSE to(a[i - 1], i)]
    <3> HIDE DEF to, loop, init
    <3> QED BY <2>1, <2>2 DEF Then
  <2> HIDE DEF a, loop, init, fs, L
  <2> QED BY <2>3 DEF Run
<1>4. init = Blank(types, target)
  BY DEF Blank
<1> HIDE DEF a, init, L, loop
<1> QED BY <1>1, <1>3, <1>4 DEF L, loop

(* parseTemplate fails with an error or as one of the static fields does,    *)
(* and makes a template of the target when they all are built (definer.go    *)
(* 89-136).                                                                  *)
LEMMA TargetParsed ==
  ASSUME NEW types, TypesType(types), NEW target \in DOMAIN types
  PROVE  LET built(i) == BuildValue(types, types[target][i], types[target][i].value,
                                    BuildMessage(types))
             static(i) == Role(types[target][i]) = "static"
             made == ParseTemplate(types, target)
         IN  /\ made.res = "ok" =>
                  /\ Template(types, target, made.val)
                  /\ \A i \in DOMAIN types[target] : static(i) => built(i).res = "ok"
             /\ made.res \notin {"ok", "error"} =>
                  \E i \in DOMAIN types[target] : static(i) /\ built(i) = made
<1> DEFINE fs == types[target]
           L == Len(fs)
           init == Blank(types, target)
           loop == Parser(types)
           built(i) == BuildValue(types, fs[i], fs[i].value, BuildMessage(types))
<1>0. L \in Nat /\ DOMAIN fs = 1..L
  BY DEF TypesType
<1>1. PICK a : Run(loop, fs, init, L, a) /\ ParseTemplate(types, target) = a[L]
  BY <1>0, ParserRuns
<1>2. \A v, f : LoopStep(loop, v, f) = ParseField(types, v, f)
  BY DEF LoopStep, Parser
<1>4. Template(types, target, init)
  <2>1. << >> \in Seq(Dynamic(types, target))
    OBVIOUS
  <2> QED BY <2>1 DEF Template, Blank
<1> HIDE DEF loop, init, L
<1>5. /\ a[0] = Ok(init)
      /\ a[L].res = "ok" => Succeeds(loop, fs, L, a)
      /\ a[L].res # "ok" => Breaks(loop, fs, L, a)
  BY <1>0, <1>1, RunEnds
<1> DEFINE P == { i \in 0..L : a[i].res = "ok" => Template(types, target, a[i].val) }
<1>6. 0..L \subseteq P
  <2>1. 0 \in P
    BY <1>0, <1>4, <1>5 DEF Ok
  <2>2. ASSUME NEW m \in 0..(L - 1), m \in P PROVE m + 1 \in P
    <3>1. m + 1 \in 0..L /\ m + 1 # 0 /\ (m + 1) - 1 = m /\ m + 1 \in DOMAIN fs
      BY <1>0
    <3>2. a[m + 1] = IF a[m].res = "ok" THEN ParseField(types, a[m].val, fs[m + 1]) ELSE a[m]
      BY <1>1, <1>2, <3>1 DEF Run
    <3>3. CASE a[m].res = "ok"
      BY <2>2, <3>1, <3>2, <3>3, FieldParsed
    <3>4. CASE a[m].res # "ok"
      BY <3>1, <3>2, <3>4
    <3> QED BY <3>3, <3>4
  <2> HIDE DEF P
  <2> QED BY <1>0, <2>1, <2>2, StepByStep
<1>7. \A i \in 0..L : a[i].res = "ok" => Template(types, target, a[i].val)
  BY <1>6
<1>8. ASSUME NEW i \in 1..L, a[i - 1].res = "ok"
      PROVE  LET made == LoopStep(loop, a[i - 1].val, fs[i])
             IN  /\ Role(fs[i]) = "static" =>
                      IF built(i).res = "ok" THEN made.res = "ok" ELSE made = built(i)
                 /\ Role(fs[i]) # "static" => made.res \in {"ok", "error"}
  <2>1. i - 1 \in 0..L /\ i \in DOMAIN fs
    BY <1>0
  <2> QED BY <1>2, <1>7, <1>8, <2>1, FieldParsed
<1> HIDE DEF built, fs
<1>9. a[L].res = "ok" => /\ Template(types, target, a[L].val)
                         /\ \A i \in 1..L : Role(fs[i]) = "static" => built(i).res = "ok"
  <2>1. a[L].res = "ok" => \A i \in 1..L : Role(fs[i]) = "static" => built(i).res = "ok"
    BY <1>5, <1>8 DEF Succeeds
  <2> QED BY <1>0, <1>7, <2>1
<1>10. a[L].res \notin {"ok", "error"} =>
         \E i \in 1..L : Role(fs[i]) = "static" /\ built(i) = a[L]
  BY <1>5, <1>8 DEF Breaks
<1> QED BY <1>0, <1>1, <1>9, <1>10 DEF built, fs

(* The loop of Generate, and what it sets a templated field to. *)
Filler(t, data) == [of |-> "fill", types |-> t.types, fields |-> t.fields, data |-> data,
                    nested |-> BuildMessage(t.types)]
FilledIn(t, data, f) == BuildValue(t.types, f, Render(f.value, data), BuildMessage(t.types))

(* Generate of a combined template is such a loop (template.go 119-142).     *)
LEMMA FillerRuns ==
  ASSUME NEW t, NEW msg, NEW data, Len(t.dynamic) \in Nat
  PROVE  LET L == Len(t.dynamic)
         IN  \E a : /\ Run(Filler(t, data), t.dynamic, msg, L, a)
                    /\ Fill(t, msg, data) = a[L]
<1> DEFINE fs == t.dynamic
           L == Len(fs)
           loop == Filler(t, data)
           set(v, f) == SetField(t.types, t.fields, v, f, Render(f.value, data),
                                 BuildMessage(t.types))
           a == CHOOSE b : b = [i \in 0..L |->
                  IF i = 0 THEN Ok(msg)
                  ELSE Then(b[i - 1], LAMBDA v : set(v, fs[i]))]
<1>1. Fill(t, msg, data) = a[L]
  BY DEF Fill, Each
<1>2. \A v, f : LoopStep(loop, v, f) = set(v, f)
  BY DEF LoopStep, Filler
<1>3. Run(loop, fs, msg, L, a)
  <2> DEFINE to(o, i) == IF o.res = "ok" THEN LoopStep(loop, o.val, fs[i]) ELSE o
  <2>0. \E b : Run(loop, fs, msg, L, b)
    BY RunExists
  <2>1. PICK b : b = [i \in 0..L |-> IF i = 0 THEN Ok(msg) ELSE to(b[i - 1], i)]
    <3> HIDE DEF loop, L, fs
    <3> QED BY <2>0 DEF Run
  <2>2. \A o, i : to(o, i) = Then(o, LAMBDA v : set(v, fs[i]))
    <3> HIDE DEF loop, set
    <3> QED BY <1>2 DEF Then
  <2>3. a = [i \in 0..L |-> IF i = 0 THEN Ok(msg) ELSE to(a[i - 1], i)]
    <3> HIDE DEF to, loop, set
    <3> QED BY <2>1, <2>2 DEF Then
  <2> HIDE DEF a, loop, fs, L
  <2> QED BY <2>3 DEF Run
<1> HIDE DEF a, loop
<1> QED BY <1>1, <1>3 DEF loop

(* Generate of a combined template fails as one of its templated fields does *)
(* with the values it prints (template.go 119-142).                          *)
LEMMA FillFails ==
  ASSUME NEW t, NEW msg, NEW data, Len(t.dynamic) \in Nat, Fill(t, msg, data).res # "ok"
  PROVE  \E i \in 1..Len(t.dynamic) :
           BuildValue(t.types, t.dynamic[i], Render(t.dynamic[i].value, data),
                      BuildMessage(t.types)) = Fill(t, msg, data)
<1> DEFINE fs == t.dynamic
           L == Len(fs)
           loop == Filler(t, data)
           set(v, f) == SetField(t.types, t.fields, v, f, Render(f.value, data),
                                 BuildMessage(t.types))
           built(i) == FilledIn(t, data, fs[i])
<1>1. PICK a : Run(loop, fs, msg, L, a) /\ Fill(t, msg, data) = a[L]
  BY FillerRuns
<1>2. \A v, f : LoopStep(loop, v, f) = set(v, f)
  BY DEF LoopStep, Filler
<1>4. L \in Nat
  OBVIOUS
<1> HIDE DEF loop, L
<1>5. a[L].res # "ok" => Breaks(loop, fs, L, a)
  BY <1>1, <1>4, RunEnds
<1>6. \A v, i : IF built(i).res = "ok" THEN set(v, fs[i]).res = "ok" ELSE set(v, fs[i]) = built(i)
  BY SetFieldFails DEF Ok, FilledIn
<1> HIDE DEF set, built, fs
<1>7. \E i \in 1..L : built(i) = a[L]
  <2>1. PICK i \in 1..L : a[L] = LoopStep(loop, a[i - 1].val, fs[i])
    BY <1>1, <1>5 DEF Breaks
  <2>2. a[L] = set(a[i - 1].val, fs[i])
    BY <1>2, <2>1
  <2>3. built(i).res # "ok" /\ built(i) = a[L]
    BY <1>1, <1>6, <2>2
  <2> QED BY <2>3
<1> QED BY <1>1, <1>7 DEF built, L, fs, FilledIn

-----------------------------------------------------------------------------
(* The ends of the process.                                                  *)

(* Building the template of a snippet that the definer accepts ends; what it *)
(* neither makes nor refuses has a list or a map of scalars, or is recursive *)
(* (definer.go 42-136).                                                      *)
LEMMA TargetBuilt ==
  ASSUME NEW s, SnippetType(s)
  PROVE  LET made == BuildTarget(s)
         IN  /\ made.res = "ok" =>
                  /\ Builds(s)
                  /\ The(FindTarget(s)) \in DOMAIN s.types
                  /\ Template(s.types, The(FindTarget(s)), made.val)
             /\ made.res \notin {"ok", "error"} => ~Builds(s) \/ SomeMany(s.types)
<1> DEFINE made == BuildTarget(s)
           t == The(FindTarget(s))
           F(i) == s.types[t][i]
           nested == BuildMessage(s.types)
           built(i) == BuildValue(s.types, F(i), F(i).value, nested)
<1>1. made.res # "error" => Cardinality(FindTarget(s)) = 1 /\ made = ParseTemplate(s.types, t)
  BY DEF BuildTarget, Fail, The
<1>2. Cardinality(FindTarget(s)) = 1 => t \in DOMAIN s.types
  <2>1. Cardinality(FindTarget(s)) = 1 => FindTarget(s) # {}
    BY FS_EmptySet
  <2>2. FindTarget(s) \subseteq DOMAIN s.types
    BY DEF FindTarget, SnippetType
  <2> QED BY <2>1, <2>2, TheElement
<1>3. \A f : f \in Fields({s}) <=> \E i \in DOMAIN s.types[t] : f = F(i)
  BY DEF Fields, Target
<1>4. TypesType(s.types)
  BY DEF SnippetType
<1>5. ASSUME made.res = "ok" PROVE Builds(s) /\ Template(s.types, t, made.val)
  <2>1. /\ Template(s.types, t, made.val)
        /\ \A i \in DOMAIN s.types[t] : Role(F(i)) = "static" => built(i).res = "ok"
    BY <1>1, <1>2, <1>4, <1>5, TargetParsed
  <2>2. ASSUME NEW i \in DOMAIN s.types[t], Unvalued(F(i)), F(i).matcher.form = "none"
        PROVE  ~Recursive(s.types, F(i).type)
    <3>1. FieldType(s.types, F(i))
      BY <1>1, <1>2, <1>4, <1>5 DEF TypesType
    <3>2. Role(F(i)) = "static"
      BY <2>2 DEF Role, Unvalued
    <3>3. built(i) = nested[F(i).type] /\ F(i).type \in DOMAIN s.types
      BY <2>2, <3>1, BuildValueFails DEF Unvalued
    <3>4. nested[F(i).type].res = "ok"
      BY <2>1, <3>2, <3>3
    <3> QED BY <1>4, <3>3, <3>4, MessageOutcomes
  <2>3. Builds(s)
    BY <1>3, <2>2 DEF Builds
  <2> QED BY <2>1, <2>3
<1>6. ASSUME made.res \notin {"ok", "error"}, Builds(s) PROVE SomeMany(s.types)
  <2>1. PICK i \in DOMAIN s.types[t] : Role(F(i)) = "static" /\ built(i) = made
    BY <1>1, <1>2, <1>4, <1>6, TargetParsed
  <2>2. FieldType(s.types, F(i)) /\ t \in DOMAIN s.types
    BY <1>1, <1>2, <1>4, <1>6 DEF TypesType
  <2>3. CASE Unvalued(F(i))
    <3>1. made = nested[F(i).type] /\ F(i).type \in DOMAIN s.types
      BY <2>1, <2>2, <2>3, BuildValueFails DEF Unvalued
    <3>2. F(i).matcher.form = "none"
      BY <2>1, <2>2 DEF Role, FieldType
    <3>3. ~Recursive(s.types, F(i).type)
      BY <1>3, <1>6, <2>3, <3>2 DEF Builds
    <3>4. made.res = "panic"
      BY <1>4, <1>6, <3>1, <3>3, MessageOutcomes
    <3> QED BY <1>4, <3>1, <3>4, MessageOutcomes
  <2>4. CASE ~Unvalued(F(i))
    <3>1. F(i).label # "one" /\ F(i).kind # "message"
      BY <1>6, <2>1, <2>2, <2>4, BuildValueFails DEF Unvalued
    <3> QED BY <2>2, <3>1 DEF SomeMany
  <2> QED BY <2>3, <2>4
<1> QED BY <1>1, <1>2, <1>5, <1>6

(* What parseRespond makes of a response with a body is what the definer     *)
(* makes of its snippet (file.go 285-321).                                   *)
LEMMA RespondBuilt ==
  ASSUME NEW r, RespondType(r)
  PROVE  LET made == ParseRespond(r)
         IN  /\ made.res = "ok" => \A s \in r.body : /\ BuildTarget(s).res = "ok"
                                                     /\ The(made.val.body) = BuildTarget(s).val
             /\ made.res \notin {"ok", "error"} => \E s \in r.body : BuildTarget(s).res = made.res
<1> DEFINE made == ParseRespond(r)
           body == Optional(r.body, BuildTarget)
<1>1. \/ made = Fail("error")
      \/ made = Then(body, LAMBDA b :
           Ok([wait |-> r.wait = "some", md |-> r.md, status |-> r.status, body |-> b]))
  BY DEF ParseRespond
<1>2. CASE r.body = {}
  BY <1>1, <1>2 DEF Optional, Then, Ok, Fail
<1>3. CASE r.body # {}
  <2> DEFINE s == The(r.body)
  <2>1. s \in r.body /\ \A x \in r.body : x = s
    <3>1. s \in r.body
      BY <1>3, TheElement
    <3> QED BY <3>1 DEF RespondType, AtMostOne
  <2>2. body = Then(BuildTarget(s), LAMBDA v : Ok({v}))
    BY <1>3 DEF Optional
  <2> HIDE DEF s, body
  <2>3. IF BuildTarget(s).res = "ok" THEN body = Ok({BuildTarget(s).val}) ELSE body = BuildTarget(s)
    BY <2>2 DEF Then
  <2>4. ASSUME made.res = "ok" PROVE BuildTarget(s).res = "ok" /\ The(made.val.body) = BuildTarget(s).val
    <3>1. body.res = "ok" /\ made.val.body = body.val
      BY <1>1, <2>4 DEF Then, Ok, Fail
    <3>2. BuildTarget(s).res = "ok" /\ made.val.body = {BuildTarget(s).val}
      BY <2>3, <3>1 DEF Ok
    <3> HIDE DEF made
    <3> QED BY <3>2 DEF The
  <2>5. made.res \notin {"ok", "error"} => BuildTarget(s).res = made.res
    BY <1>1, <2>3 DEF Then, Ok, Fail
  <2> HIDE DEF made
  <2>6. /\ made.res = "ok" => \A x \in r.body : /\ BuildTarget(x).res = "ok"
                                                /\ The(made.val.body) = BuildTarget(x).val
        /\ made.res \notin {"ok", "error"} => \E x \in r.body : BuildTarget(x).res = made.res
    BY <2>1, <2>4, <2>5
  <2> QED BY <2>6 DEF made
<1> QED BY <1>2, <1>3

(* The outcome of parsing a rule is that of one of its snippets, or an error *)
(* (file.go 240-321).                                                        *)
LEMMA RuleBuilt ==
  ASSUME NEW n \in DOMAIN Config
  PROVE  LET c == Config[n]
             made == ParseRule(c)
         IN  /\ made.res = "ok" =>
                  /\ \A s \in c.match : BuildTarget(s).res = "ok"
                  /\ \A r \in c.respond : \A s \in r.body :
                       /\ BuildTarget(s).res = "ok"
                       /\ The(The(made.val.mock).body) = BuildTarget(s).val
             /\ made.res \notin {"ok", "error"} =>
                  \E s \in c.match \union UNION { r.body : r \in c.respond } :
                    BuildTarget(s).res = made.res
<1> DEFINE c == Config[n]
           made == ParseRule(c)
           match == Optional(c.match, BuildTarget)
           mock == Optional(c.respond, ParseRespond)
<1>1. /\ AtMostOne(c.match) /\ AtMostOne(c.respond)
      /\ \A r \in c.respond : RespondType(r)
  BY ConfigAssumption
<1>2. IF match.res = "ok"
      THEN \/ made = Fail("error")
           \/ made = Then(mock, LAMBDA k : IF (k # {}) = (c.forward = "known") THEN Fail("error")
                                           ELSE Ok([match |-> match.val, mock |-> k]))
      ELSE made = match \/ made = Fail("error")
  BY DEF ParseRule, Then
<1>3. /\ match.res = "ok" => \A s \in c.match : BuildTarget(s).res = "ok"
      /\ match.res # "ok" => \E s \in c.match : BuildTarget(s) = match
  <2>1. CASE c.match = {}
    BY <2>1 DEF Optional, Ok
  <2>2. CASE c.match # {}
    <3> DEFINE s == The(c.match)
    <3>1. s \in c.match /\ \A x \in c.match : x = s
      <4>1. s \in c.match
        BY <2>2, TheElement
      <4> QED BY <1>1, <4>1 DEF AtMostOne
    <3>2. match = Then(BuildTarget(s), LAMBDA v : Ok({v}))
      BY <2>2 DEF Optional
    <3> HIDE DEF s, match
    <3>3. IF BuildTarget(s).res = "ok" THEN match.res = "ok" ELSE match = BuildTarget(s)
      BY <3>2 DEF Then, Ok
    <3> QED BY <3>1, <3>3
  <2> QED BY <2>1, <2>2
<1>4. /\ mock.res = "ok" => \A r \in c.respond : /\ ParseRespond(r).res = "ok"
                                                 /\ mock.val = {ParseRespond(r).val}
      /\ mock.res # "ok" => \E r \in c.respond : ParseRespond(r) = mock
  <2>1. CASE c.respond = {}
    BY <2>1 DEF Optional, Ok
  <2>2. CASE c.respond # {}
    <3> DEFINE r == The(c.respond)
    <3>1. r \in c.respond /\ \A x \in c.respond : x = r
      <4>1. r \in c.respond
        BY <2>2, TheElement
      <4> QED BY <1>1, <4>1 DEF AtMostOne
    <3>2. mock = Then(ParseRespond(r), LAMBDA v : Ok({v}))
      BY <2>2 DEF Optional
    <3> HIDE DEF r, mock
    <3>3. IF ParseRespond(r).res = "ok" THEN mock = Ok({ParseRespond(r).val})
          ELSE mock = ParseRespond(r)
      BY <3>2 DEF Then, Ok
    <3>4. ParseRespond(r).res = "ok" => mock.res = "ok" /\ mock.val = {ParseRespond(r).val}
      BY <3>3 DEF Ok
    <3> QED BY <3>1, <3>3, <3>4
  <2> QED BY <2>1, <2>2
<1> HIDE DEF match, mock
<1>5. ASSUME made.res = "ok"
      PROVE  match.res = "ok" /\ mock.res = "ok" /\ made.val.mock = mock.val
  BY <1>2, <1>5 DEF Then, Ok, Fail
<1>6. ASSUME made.res = "ok", NEW r \in c.respond, NEW s \in r.body
      PROVE  BuildTarget(s).res = "ok" /\ The(The(made.val.mock).body) = BuildTarget(s).val
  <2>1. ParseRespond(r).res = "ok" /\ made.val.mock = {ParseRespond(r).val}
    BY <1>4, <1>5, <1>6
  <2>2. The(made.val.mock) = ParseRespond(r).val
    <3> HIDE DEF made
    <3> QED BY <2>1 DEF The
  <2> QED BY <1>1, <2>1, <2>2, RespondBuilt
<1>7. ASSUME made.res \notin {"ok", "error"}
      PROVE  \E s \in c.match \union UNION { r.body : r \in c.respond } :
               BuildTarget(s).res = made.res
  <2>1. CASE match.res # "ok"
    <3>1. PICK s \in c.match : BuildTarget(s) = match
      BY <1>3, <2>1
    <3>2. made = match
      <4>1. made = match \/ made = [res |-> "error"]
        BY <1>2, <2>1 DEF Fail
      <4> HIDE DEF made
      <4> QED BY <1>7, <4>1
    <3> QED BY <3>1, <3>2
  <2>2. CASE match.res = "ok"
    <3>1. mock.res = made.res
      BY <1>2, <1>7, <2>2 DEF Then, Ok, Fail
    <3>2. PICK r \in c.respond : ParseRespond(r) = mock
      BY <1>4, <1>7, <3>1
    <3>3. PICK s \in r.body : BuildTarget(s).res = made.res
      BY <1>1, <1>7, <3>1, <3>2, RespondBuilt
    <3> QED BY <3>3
  <2> QED BY <2>1, <2>2
<1> HIDE DEF made
<1>8. made.res = "ok" => \A s \in c.match : BuildTarget(s).res = "ok"
  BY <1>3, <1>5
<1> QED BY <1>6, <1>7, <1>8 DEF made

(* The rule in use is what parsing made of the configured one, and a process *)
(* that died without a rule died in parsing it.                              *)
Outcome ==
  LET made == ParseRule(Configured)
  IN  /\ rule # {} => made.res = "ok" /\ Rule = made.val
      /\ proc = "dead" /\ rule = {} => made.res \notin {"ok", "error"}

(* Every step keeps it: rules are parsed once (file.go 240-283).             *)
LEMMA StepOutcome == IInv /\ Outcome /\ [Next]_vars => Outcome'
<1> SUFFICES ASSUME IInv, Outcome, [Next]_vars PROVE Outcome'
  OBVIOUS
<1>1. CASE Load
  <2> DEFINE made == ParseRule(Config[config])
  <2>1. rule = {} /\ config' = config
    BY <1>1 DEF Load, IInv, Typed, TypeOK
  <2>2. IF made.res = "ok" THEN proc' = "serving" /\ rule' = {made.val}
        ELSE proc' = (IF made.res = "error" THEN "refused" ELSE "dead") /\ rule' = {}
    BY <1>1, <2>1 DEF Load
  <2>3. ParseRule(Configured)' = made
    BY <2>1 DEF Configured
  <2> HIDE DEF made
  <2>4. rule' # {} => Rule' = made.val
    BY <2>2 DEF Rule, The
  <2> QED BY <2>2, <2>3, <2>4 DEF Outcome
<1>2. CASE UNCHANGED procVars
  BY <1>2 DEF Outcome, Configured, Rule, procVars
<1>3. ASSUME NEW c \in Call, RespondBody(c) PROVE Outcome'
  <2>1. rule # {} /\ UNCHANGED << config, rule >>
    BY <1>3 DEF RespondBody, Live, IInv, Typed, TypeOK
  <2> QED BY <2>1 DEF Outcome, Configured, Rule
<1>4. ASSUME NEW c \in Call, Offer(c) \/ HalfClose(c) \/ Leave(c) \/ Handle(c), ~RespondBody(c)
      PROVE  UNCHANGED procVars
  BY <1>4 DEF Offer, HalfClose, Leave, Handle, MatchAtOnce, MatchFirst, MatchFails, WaitOver,
         WaitCanceled, RespondStatus, Send, SendFails, Drain, DrainEnds, DrainFails
<1>5. CASE UNCHANGED vars
  BY <1>2, <1>5 DEF vars
<1> QED BY <1>1, <1>2, <1>3, <1>4, <1>5 DEF Next

(* Before the rule is parsed, there is none. *)
LEMMA InitOutcome == Init => Outcome
BY DEF Init, Outcome

(* Loading ends unless a message type contains itself by fields without a    *)
(* value, and dies otherwise only of a list or a map of scalars (definer.go  *)
(* 240-301).                                                                 *)
THEOREM LoadingEnds == Spec => []BuildsUnlessRecursive
<1>1. IInv /\ Outcome => BuildsUnlessRecursive
  <2> SUFFICES ASSUME IInv, Outcome PROVE BuildsUnlessRecursive
    OBVIOUS
  <2>1. \A s \in Snippets : SnippetType(s)
    BY ConfigAssumption DEF Snippets, Configured, IInv, Typed, TypeOK
  <2>2. config \in DOMAIN Config /\ (proc = "serving" => rule # {})
    BY DEF IInv, Typed, TypeOK
  <2>3. ASSUME proc = "serving", NEW s \in Snippets PROVE Builds(s)
    <3>1. ParseRule(Configured).res = "ok"
      BY <2>2, <2>3 DEF Outcome
    <3>2. BuildTarget(s).res = "ok"
      BY <2>2, <3>1, RuleBuilt DEF Snippets, Configured
    <3> QED BY <2>1, <3>2, TargetBuilt
  <2>4. ASSUME proc = "dead", rule = {}, \A s \in Snippets : Builds(s)
        PROVE  \E s \in Snippets : SomeMany(s.types)
    <3>1. PICK s \in Snippets : BuildTarget(s).res \notin {"ok", "error"}
      BY <2>2, <2>4, RuleBuilt DEF Outcome, Snippets, Configured
    <3> QED BY <2>1, <2>4, <3>1, TargetBuilt
  <2> QED BY <2>3, <2>4 DEF BuildsUnlessRecursive, SomeMany
<1> QED BY InitIInv, StepIInv, InitOutcome, StepOutcome, <1>1, PTL DEF Spec

(* What a template prints of a first message is there or is an error.        *)
LEMMA DataReads ==
  ASSUME NEW r, NEW M
  PROVE  Data(r, M).res \in {"ok", "error"}
BY DEF Data, DataMap, Ok, Fail

(* The process dies in a call only when that fills a template of a message   *)
(* type that contains itself, by a templated field that prints nothing       *)
(* (template.go 119-142, definer.go 264-272, middleware.go 103-132).         *)
THEOREM CallsDoNotEndTheProcess == Spec => ServesOn
<1> DEFINE Safe == proc = "serving" /\ ~\E r \in Configured.respond : \E s \in r.body : Endless(s)
<1>1. ASSUME IInv, Outcome, Next, Safe PROVE proc' = "serving"
  <2>1. config \in DOMAIN Config /\ rule # {}
    BY <1>1 DEF IInv, Typed, TypeOK
  <2>2. CASE \E c \in Call : RespondBody(c)
    <3>1. PICK c \in Call : RespondBody(c)
      BY <2>2
    <3> DEFINE made == Generate(Rule, first[c])
               body == The(MockOf.body)
    <3> SUFFICES ASSUME made.res = "endless" PROVE FALSE
      BY <1>1, <3>1 DEF RespondBody, Recoverer, Live
    <3>2. Configured.respond # {} /\ MockOf.body # {}
      BY <1>1, <3>1 DEF RespondBody, Live, IInv, CallInv, Where
    <3>3. PICK r \in Configured.respond : MockFrom(MockOf, r)
      BY <1>1, <3>2, MockInUse
    <3>4. PICK s \in r.body : TRUE
      BY <3>2, <3>3 DEF MockFrom
    <3>5. BuildTarget(s).res = "ok" /\ body = BuildTarget(s).val
      BY <1>1, <2>1, RuleBuilt DEF Outcome, Configured, MockOf
    <3>6. SnippetType(s)
      BY <2>1, ConfigAssumption DEF Configured
    <3> DEFINE t == The(FindTarget(s))
    <3>7. t \in DOMAIN s.types /\ Template(s.types, t, body) /\ TypesType(s.types)
      BY <3>5, <3>6, TargetBuilt DEF SnippetType
    <3>8. body.types = s.types /\ body.dynamic \in Seq(Dynamic(s.types, t))
      <4> HIDE DEF body, t
      <4> QED BY <3>7 DEF Template
    <3> DEFINE read == Data(Rule, first[c])
               data == read.val
    <3>9. Fill(body, body.static, data).res = "endless"
      <4>1. read.res \in {"ok", "error"}
        BY DataReads
      <4>2. made = Then(read, LAMBDA d : IF IsStatic(body) THEN Ok(body.static)
                                         ELSE Fill(body, body.static, d))
        BY DEF Generate, MockOf
      <4> HIDE DEF made, read, body
      <4> QED BY <4>1, <4>2 DEF Then, Ok
    <3> HIDE DEF body, t, made, read
    <3>10. PICK i \in 1..Len(body.dynamic) :
             BuildValue(body.types, body.dynamic[i], Render(body.dynamic[i].value, data),
                        BuildMessage(body.types)).res = "endless"
      BY <3>8, <3>9, FillFails
    <3>11. body.dynamic[i] \in Dynamic(s.types, t)
      BY <3>8, <3>10
    <3>12. PICK j \in DOMAIN s.types[t] :
             body.dynamic[i] = s.types[t][j] /\ Role(s.types[t][j]) = "dynamic"
      BY <3>11 DEF Dynamic
    <3> DEFINE f == s.types[t][j]
    <3>13. FieldType(s.types, f) /\ f \in Fields({s})
      <4>1. FieldType(s.types, f)
        BY <3>7 DEF TypesType
      <4> QED BY <4>1 DEF Fields, Target, t
    <3>14. f.value.form = "template"
      BY <3>12 DEF Role
    <3> DEFINE v == Render(body.dynamic[i].value, data)
    <3>15. BuildValue(s.types, f, v, BuildMessage(s.types)).res = "endless"
      BY <3>8, <3>10, <3>12
    <3> HIDE DEF f, v
    <3>16. /\ f.label = "one" /\ f.kind = "message" /\ f.type \in DOMAIN s.types
           /\ BuildMessage(s.types)[f.type].res = "endless"
      BY <3>13, <3>15, BuildValueFails
    <3>17. Recursive(s.types, f.type)
      BY <3>7, <3>16, MessageOutcomes
    <3>18. Endless(s)
      BY <3>13, <3>14, <3>16, <3>17 DEF Endless, Templated
    <3> QED BY <1>1, <3>3, <3>4, <3>18
  <2>3. CASE ~\E c \in Call : RespondBody(c)
    BY <1>1, <2>3 DEF Next, Load, Offer, HalfClose, Leave, Handle, MatchAtOnce, MatchFirst,
         MatchFails, WaitOver, WaitCanceled, RespondStatus, Send, SendFails, Drain, DrainEnds,
         DrainFails, procVars
  <2> QED BY <2>2, <2>3
<1>2. IInv /\ Outcome /\ [Next]_vars => [Safe => proc' = "serving"]_vars
  BY <1>1
<1> QED BY InitIInv, StepIInv, InitOutcome, StepOutcome, <1>2, PTL DEF Spec, ServesOn

-----------------------------------------------------------------------------
(* What a template holds.                                                    *)

(* A message has a field as it was set: a zero is not there. *)
Has(msg, f, val) ==
  IF Unset(f, val) THEN f.name \notin DOMAIN msg
  ELSE f.name \in DOMAIN msg /\ msg[f.name] = val

(* A set field is as it was set, and no other is there that was not          *)
(* (definer.go 257, TrySetField).                                            *)
LEMMA PutSets ==
  ASSUME NEW fs, NEW msg, NEW f, NEW val
  PROVE  LET put == Put(fs, msg, f, val)
         IN  /\ Has(put, f, val)
             /\ DOMAIN put \subseteq DOMAIN msg \union {f.name}
             /\ put = [n \in DOMAIN put |-> put[n]]
BY DEF Put, Has

(* Setting a field leaves alone those that are in no oneof (definer.go 257,  *)
(* TrySetField).                                                             *)
LEMMA PutKeeps ==
  ASSUME NEW fs, NEW msg, NEW f, NEW val, NEW name, name # f.name,
         \A i \in DOMAIN fs : fs[i].name = name => fs[i].oneof = 0
  PROVE  LET put == Put(fs, msg, f, val)
         IN  /\ name \in DOMAIN put <=> name \in DOMAIN msg
             /\ name \in DOMAIN msg => put[name] = msg[name]
<1> DEFINE rivals == { fs[i].name : i \in { j \in DOMAIN fs : f.oneof # 0 /\ fs[j].oneof = f.oneof } }
<1>1. name \notin rivals
  OBVIOUS
<1>2. CASE Unset(f, val)
  BY <1>2 DEF Put
<1>3. CASE ~Unset(f, val)
  <2>1. Put(fs, msg, f, val) =
          [n \in (DOMAIN msg \ rivals) \union {f.name} |-> IF n = f.name THEN val ELSE msg[n]]
    BY <1>3 DEF Put
  <2> HIDE DEF rivals
  <2> QED BY <1>1, <2>1
<1> QED BY <1>2, <1>3

(* The elements of a sequence, and of one with an element more. *)
Elements(s) == { s[k] : k \in 1..Len(s) }

(* Appending adds one element (definer.go 107, 128). *)
LEMMA OneMoreElement ==
  ASSUME NEW S, NEW s \in Seq(S), NEW x \in S
  PROVE  Append(s, x) \in Seq(S) /\ Elements(Append(s, x)) = Elements(s) \union {x}
<1>1. /\ Append(s, x) \in Seq(S) /\ Len(Append(s, x)) = Len(s) + 1
      /\ \A k \in 1..Len(s) : Append(s, x)[k] = s[k]
      /\ Append(s, x)[Len(s) + 1] = x
  BY AppendProperties
<1>2. 1..(Len(s) + 1) = (1..Len(s)) \union {Len(s) + 1}
  OBVIOUS
<1> QED BY <1>1, <1>2 DEF Elements

AllOf(fs) == { fs[i] : i \in DOMAIN fs }
(* What parseTemplate has made of the first j fields of its target. *)
OfRole(fs, j, role) == { fs[i] : i \in { k \in 1..j : Role(fs[k]) = role } }
Built(types, f) == BuildValue(types, f, f.value, BuildMessage(types))
Parsed(types, target, j, t) ==
  LET fs == types[target]
  IN  /\ t.types = types /\ t.fields = fs
      /\ t.dynamic \in Seq(AllOf(fs)) /\ Elements(t.dynamic) = OfRole(fs, j, "dynamic")
      /\ t.matchers \in Seq(AllOf(fs)) /\ Elements(t.matchers) = OfRole(fs, j, "matcher")
      /\ t.static = [n \in DOMAIN t.static |-> t.static[n]]
      /\ DOMAIN t.static \subseteq { f.name : f \in OfRole(fs, j, "static") }
      /\ \A f \in OfRole(fs, j, "static") : f.oneof = 0 => Has(t.static, f, Built(types, f).val)
      /\ \A i \in 1..j : Role(fs[i]) # "broken"

(* One field more of a role, or none. *)
LEMMA OneMoreOfRole ==
  ASSUME NEW fs, NEW i \in Nat \ {0}, NEW role
  PROVE  OfRole(fs, i, role) =
           OfRole(fs, i - 1, role) \union (IF Role(fs[i]) = role THEN {fs[i]} ELSE {})
<1>1. 1..i = (1..(i - 1)) \union {i}
  OBVIOUS
<1> QED BY <1>1 DEF OfRole

(* A step of parseTemplate adds its field to the part of its role (definer.go *)
(* 98-131).                                                                  *)
LEMMA FieldKnown ==
  ASSUME NEW types, TypesType(types), NEW target \in DOMAIN types, NEW t,
         NEW i \in 1..Len(types[target]),
         Template(types, target, t), Parsed(types, target, i - 1, t),
         ParseField(types, t, types[target][i]).res = "ok"
  PROVE  Parsed(types, target, i, ParseField(types, t, types[target][i]).val)
<1> DEFINE fs == types[target]
           f == fs[i]
           made == ParseField(types, t, f)
           new == made.val
<1>0. Len(fs) \in Nat /\ DOMAIN fs = 1..Len(fs) /\ f \in AllOf(fs)
  BY DEF TypesType, AllOf
<1>1. \A k, l \in DOMAIN fs : fs[k].name = fs[l].name => k = l
  BY DEF TypesType
<1>2. t = [types |-> types, fields |-> fs, static |-> t.static,
           dynamic |-> t.dynamic, matchers |-> t.matchers]
  BY DEF Template
<1>3. Role(f) \in {"dynamic", "matcher", "static"} /\ Role(f) # "broken"
  BY DEF Role, ParseField, Fail
<1>4. \A role : OfRole(fs, i, role) =
                  OfRole(fs, i - 1, role) \union (IF Role(f) = role THEN {f} ELSE {})
  BY OneMoreOfRole
<1>5. \A k \in 1..i : k \in 1..(i - 1) \/ k = i
  OBVIOUS
<1>6. CASE Role(f) = "dynamic"
  <2> DEFINE more == Append(t.dynamic, f)
  <2>1. new = [t EXCEPT !.dynamic = more]
    BY <1>6 DEF ParseField, Ok
  <2>2. more \in Seq(AllOf(fs)) /\ Elements(more) = Elements(t.dynamic) \union {f}
    BY <1>0, OneMoreElement DEF Parsed
  <2> HIDE DEF f, new, more, fs
  <2>3. new = [types |-> types, fields |-> fs, static |-> t.static,
               dynamic |-> more, matchers |-> t.matchers]
    BY <1>2, <2>1
  <2>4. /\ new.types = types /\ new.fields = fs /\ new.static = t.static
        /\ new.dynamic = more /\ new.matchers = t.matchers
    BY <2>3
  <2>5. /\ OfRole(fs, i, "dynamic") = OfRole(fs, i - 1, "dynamic") \union {f}
        /\ \A role \in {"matcher", "static"} : OfRole(fs, i, role) = OfRole(fs, i - 1, role)
    BY <1>4, <1>6
  <2>6. \A k \in 1..i : Role(fs[k]) # "broken"
    BY <1>3, <1>5 DEF Parsed, f, fs
  <2> HIDE DEF made
  <2>7. Parsed(types, target, i, new)
    BY <2>2, <2>4, <2>5, <2>6 DEF Parsed, fs
  <2> QED BY <2>7 DEF new, made, f, fs
<1>7. CASE Role(f) = "matcher"
  <2> DEFINE more == Append(t.matchers, f)
  <2>1. new = [t EXCEPT !.matchers = more]
    BY <1>7 DEF ParseField, Ok
  <2>2. more \in Seq(AllOf(fs)) /\ Elements(more) = Elements(t.matchers) \union {f}
    BY <1>0, OneMoreElement DEF Parsed
  <2> HIDE DEF f, new, more, fs
  <2>3. new = [types |-> types, fields |-> fs, static |-> t.static,
               dynamic |-> t.dynamic, matchers |-> more]
    BY <1>2, <2>1
  <2>4. /\ new.types = types /\ new.fields = fs /\ new.static = t.static
        /\ new.matchers = more /\ new.dynamic = t.dynamic
    BY <2>3
  <2>5. /\ OfRole(fs, i, "matcher") = OfRole(fs, i - 1, "matcher") \union {f}
        /\ \A role \in {"dynamic", "static"} : OfRole(fs, i, role) = OfRole(fs, i - 1, role)
    BY <1>4, <1>7
  <2>6. \A k \in 1..i : Role(fs[k]) # "broken"
    BY <1>3, <1>5 DEF Parsed, f, fs
  <2> HIDE DEF made
  <2>7. Parsed(types, target, i, new)
    BY <2>2, <2>4, <2>5, <2>6 DEF Parsed, fs
  <2> QED BY <2>7 DEF new, made, f, fs
<1>8. CASE Role(f) = "static"
  <2> DEFINE set == SetField(types, fs, t.static, f, f.value, BuildMessage(types))
             put == Put(fs, t.static, f, Built(types, f).val)
  <2>1. made = Then(set, LAMBDA msg : Ok([t EXCEPT !.static = msg]))
    BY <1>8, <1>2 DEF ParseField
  <2>2. IF Built(types, f).res = "ok" THEN set = Ok(put) ELSE set = Built(types, f)
    BY SetFieldFails DEF Built
  <2>3. made.res = "ok"
    OBVIOUS
  <2>4. /\ Has(put, f, Built(types, f).val)
        /\ DOMAIN put \subseteq DOMAIN t.static \union {f.name}
        /\ put = [n \in DOMAIN put |-> put[n]]
    BY PutSets
  <2>5. ASSUME NEW g \in OfRole(fs, i - 1, "static"), g.oneof = 0
        PROVE  Has(put, g, Built(types, g).val)
    <3>1. PICK k \in 1..(i - 1) : g = fs[k]
      BY DEF OfRole
    <3>2. k \in DOMAIN fs /\ k # i
      BY <1>0
    <3>3. g.name # f.name /\ \A l \in DOMAIN fs : fs[l].name = g.name => fs[l].oneof = 0
      BY <1>0, <1>1, <2>5, <3>1, <3>2
    <3>4. Has(t.static, g, Built(types, g).val)
      BY <2>5 DEF Parsed
    <3>5. /\ g.name \in DOMAIN put <=> g.name \in DOMAIN t.static
          /\ g.name \in DOMAIN t.static => put[g.name] = t.static[g.name]
      BY <3>3, PutKeeps
    <3> HIDE DEF put
    <3> QED BY <3>4, <3>5 DEF Has
  <2> HIDE DEF f, made, set, put, fs
  <2>6. new = [t EXCEPT !.static = put]
    BY <2>1, <2>2, <2>3 DEF Then, Ok
  <2>7. new = [types |-> types, fields |-> fs, static |-> put,
               dynamic |-> t.dynamic, matchers |-> t.matchers]
    BY <1>2, <2>6
  <2>8. /\ new.types = types /\ new.fields = fs /\ new.static = put
        /\ new.dynamic = t.dynamic /\ new.matchers = t.matchers
    <3> HIDE DEF new
    <3> QED BY <2>7
  <2> HIDE DEF new
  <2>9. /\ OfRole(fs, i, "static") = OfRole(fs, i - 1, "static") \union {f}
        /\ \A role \in {"dynamic", "matcher"} : OfRole(fs, i, role) = OfRole(fs, i - 1, role)
    BY <1>4, <1>8
  <2>10. \A k \in 1..i : Role(fs[k]) # "broken"
    BY <1>3, <1>5 DEF Parsed, f, fs
  <2>11. DOMAIN put \subseteq { g.name : g \in OfRole(fs, i, "static") }
    <3>1. DOMAIN t.static \subseteq { g.name : g \in OfRole(fs, i - 1, "static") }
      BY DEF Parsed, fs
    <3> QED BY <2>4, <2>9, <3>1
  <2>12. \A g \in OfRole(fs, i, "static") : g.oneof = 0 => Has(put, g, Built(types, g).val)
    BY <2>4, <2>5, <2>9
  <2>13. Parsed(types, target, i, new)
    BY <2>4, <2>8, <2>9, <2>10, <2>11, <2>12 DEF Parsed, fs
  <2> QED BY <2>13 DEF new, made, f, fs
<1> QED BY <1>3, <1>6, <1>7, <1>8

(* What parseTemplate makes of a target is known of all its fields, and the  *)
(* static ones are built (definer.go 89-136).                                *)
LEMMA TargetKnown ==
  ASSUME NEW types, TypesType(types), NEW target \in DOMAIN types,
         ParseTemplate(types, target).res = "ok"
  PROVE  Parsed(types, target, Len(types[target]), ParseTemplate(types, target).val)
<1> DEFINE fs == types[target]
           L == Len(fs)
           loop == Parser(types)
           init == Blank(types, target)
<1>0. L \in Nat /\ DOMAIN fs = 1..L
  BY DEF TypesType
<1>1. PICK a : Run(loop, fs, init, L, a) /\ ParseTemplate(types, target) = a[L]
  BY <1>0, ParserRuns
<1>2. \A v, f : LoopStep(loop, v, f) = ParseField(types, v, f)
  BY DEF LoopStep, Parser
<1>3. a[0] = Ok(init) /\ Succeeds(loop, fs, L, a)
  <2> HIDE DEF L, fs, loop, init
  <2> QED BY <1>0, <1>1, RunEnds
<1>4. Template(types, target, init) /\ Parsed(types, target, 0, init)
  <2>1. << >> \in Seq(Dynamic(types, target)) /\ << >> \in Seq(AllOf(fs))
    OBVIOUS
  <2>2. Elements(<< >>) = {} /\ \A role : OfRole(fs, 0, role) = {}
    BY DEF Elements, OfRole
  <2>3. NoFields = [n \in DOMAIN NoFields |-> NoFields[n]] /\ DOMAIN NoFields = {}
    BY DEF NoFields
  <2>4. /\ init.types = types /\ init.fields = fs /\ init.static = NoFields
        /\ init.dynamic = << >> /\ init.matchers = << >>
    BY DEF Blank
  <2>5. Template(types, target, init)
    BY <2>1 DEF Template, Blank
  <2> HIDE DEF init
  <2>6. init.static = [n \in DOMAIN init.static |-> init.static[n]] /\ DOMAIN init.static = {}
    BY <2>3, <2>4
  <2>7. 1..0 = {}
    OBVIOUS
  <2>8. Parsed(types, target, 0, init)
    BY <2>1, <2>2, <2>4, <2>6, <2>7 DEF Parsed
  <2> QED BY <2>5, <2>8
<1> DEFINE P == { i \in 0..L : /\ Template(types, target, a[i].val)
                               /\ Parsed(types, target, i, a[i].val) }
<1>5. 0..L \subseteq P
  <2>1. 0 \in P
    BY <1>0, <1>3, <1>4 DEF Ok
  <2>2. ASSUME NEW m \in 0..(L - 1), m \in P PROVE m + 1 \in P
    <3>1. m + 1 \in 1..L /\ m + 1 \in 0..L /\ (m + 1) - 1 = m
      BY <1>0
    <3>2. a[m + 1] = ParseField(types, a[m].val, fs[m + 1]) /\ a[m + 1].res = "ok"
      BY <1>2, <1>3, <3>1 DEF Succeeds
    <3>3. Template(types, target, a[m + 1].val)
      BY <1>0, <2>2, <3>1, <3>2, FieldParsed
    <3>4. Parsed(types, target, m + 1, a[m + 1].val)
      BY <2>2, <3>1, <3>2, FieldKnown
    <3> QED BY <3>1, <3>3, <3>4
  <2> HIDE DEF P, L
  <2> QED BY <1>0, <2>1, <2>2, StepByStep
<1> QED BY <1>0, <1>1, <1>5

-----------------------------------------------------------------------------
(* What fields say.                                                          *)

(* A number less than the modulus is its own remainder. *)
LEMMA SmallRemainder ==
  ASSUME NEW a \in Nat, NEW b \in Nat, a < b
  PROVE  a % b = a
OBVIOUS

(* A number that fits is kept (definer.go 407-420).                          *)
LEMMA FittingKept ==
  ASSUME NEW n \in -Half..Half-1
  PROVE  Wrap(n) = n
<1>0. Half \in Nat
  BY ProtodefAssumption
<1>1. n \in Int /\ n + Half \in Nat /\ 2 * Half \in Nat /\ n + Half < 2 * Half
  BY <1>0
<1>2. (n + Half) % (2 * Half) = n + Half
  <2> DEFINE a == n + Half
             b == 2 * Half
  <2>1. a \in Nat /\ b \in Nat /\ a < b
    BY <1>1
  <2> HIDE DEF a, b
  <2>2. a % b = a
    BY <2>1, SmallRemainder
  <2> QED BY <2>2 DEF a, b
<1> QED BY <1>0, <1>1, <1>2 DEF Wrap

(* The empty text. *)
IsEmpty(text) == text = ""

(* The parser of a plain field reads what its text says (definer.go 442-493). *)
LEMMA SaidIsRead ==
  ASSUME NEW f, f.kind \in {"text", "number"}, NEW text, IsEmpty(text) => f.kind = "text",
         ParseScalar(f.kind, text).res = "ok"
  PROVE  Says(f, text) \subseteq {ParseScalar(f.kind, text).val}
<1>1. CASE f.kind = "text"
  BY <1>1 DEF Says, ParseScalar, Ok
<1>2. CASE f.kind = "number"
  <2>1. text \in DOMAIN Numeral /\ ParseScalar(f.kind, text).val = Wrap(Numeral[text])
    BY <1>2 DEF ParseScalar, Ok, Fail
  <2>2. ASSUME NEW n \in Says(f, text) PROVE n = Wrap(Numeral[text])
    <3>1. n \in -Half..Half-1 /\ Numeral[text] = n
      BY <1>2, <2>1 DEF Says, IsEmpty
    <3> QED BY <3>1, FittingKept
  <2> QED BY <2>1, <2>2
<1> QED BY <1>1, <1>2

(* The value of a plain field that has no template (definer.go 264-301).     *)
LEMMA PlainValue ==
  ASSUME NEW types, NEW f, FieldType(types, f), PlainField(f),
         f.value.form \in {"empty", "plain"}, Built(types, f).res = "ok"
  PROVE  /\ f.value.form = "empty" => Built(types, f).val = Zero(f.kind)
         /\ f.value.form = "plain" /\ Says(f, f.value.text) # {} =>
              \A val : val \in Says(f, f.value.text) <=> val = Built(types, f).val
         /\ \A val : Unset(f, val) <=> val = Zero(f.kind)
<1>1. f.label = "one" /\ f.kind \in {"text", "number"} /\ f.oneof = 0 /\ f.kind # "message"
  BY DEF PlainField
<1>2. \A val : Unset(f, val) <=> val = Zero(f.kind)
  BY <1>1 DEF Unset
<1>3. CASE f.value.form = "empty"
  <2>1. Built(types, f) = Ok(Zero(f.kind))
    BY <1>1, <1>3 DEF Built, BuildValue
  <2> QED BY <1>2, <1>3, <2>1 DEF Ok
<1>4. CASE f.value.form = "plain"
  <2>1. ~IsEmpty(f.value.text)
    BY <1>1, <1>4 DEF FieldType, IsEmpty
  <2>2. Built(types, f) = ParseScalar(f.kind, f.value.text)
    BY <1>1, <1>4 DEF Built, BuildValue
  <2>3. /\ f.kind \in {"text", "number"}
        /\ ParseScalar(f.kind, f.value.text).res = "ok"
    BY <1>1, <2>2
  <2>4. Says(f, f.value.text) \subseteq {ParseScalar(f.kind, f.value.text).val}
    BY <2>1, <2>3, SaidIsRead
  <2> QED BY <1>2, <1>4, <2>2, <2>4
<1> QED BY <1>3, <1>4

-----------------------------------------------------------------------------
(* What a template matches.                                                  *)

(* A template as its fields tell it. *)
Describes(types, target, t) ==
  LET fs == AllOf(types[target])
  IN  /\ t.types = types /\ t.fields = types[target]
      /\ t.static = [n \in DOMAIN t.static |-> t.static[n]]
      /\ \A n \in DOMAIN t.static : \E f \in fs : f.name = n /\ Role(f) = "static"
      /\ \A f, g \in fs : f.name = g.name => f = g
      /\ \A f \in fs : FieldType(types, f) /\ Role(f) \in {"static", "dynamic", "matcher"}
      /\ \A f \in fs : Role(f) = "static" =>
           Built(types, f).res = "ok" /\ (f.oneof = 0 => Has(t.static, f, Built(types, f).val))
      /\ Len(t.dynamic) \in Nat /\ DOMAIN t.dynamic = 1..Len(t.dynamic)
      /\ Elements(t.dynamic) = { f \in fs : Role(f) = "dynamic" }
      /\ Len(t.matchers) \in Nat /\ DOMAIN t.matchers = 1..Len(t.matchers)
      /\ Elements(t.matchers) = { f \in fs : Role(f) = "matcher" }
      /\ IsStatic(t) <=> \A f \in fs : Role(f) = "static"
      /\ Names(t.fields) = { f.name : f \in fs }
      /\ \A f \in fs : t.fields[FieldNamed(t.fields, f.name)] = f

(* The template of a snippet that the definer accepts is so described        *)
(* (definer.go 42-136).                                                      *)
LEMMA TargetDescribed ==
  ASSUME NEW types, TypesType(types), NEW target \in DOMAIN types,
         ParseTemplate(types, target).res = "ok"
  PROVE  Describes(types, target, ParseTemplate(types, target).val)
<1> DEFINE fs == types[target]
           L == Len(fs)
           t == ParseTemplate(types, target).val
<1>0. L \in Nat /\ DOMAIN fs = 1..L
  BY DEF TypesType
<1>1. \A k, l \in DOMAIN fs : fs[k].name = fs[l].name => k = l
  BY DEF TypesType
<1>2. Parsed(types, target, L, t)
  BY TargetKnown
<1>3. \A i \in DOMAIN fs : /\ FieldType(types, fs[i])
                           /\ Role(fs[i]) = "static" => Built(types, fs[i]).res = "ok"
  BY TargetParsed DEF Built, TypesType
<1>4. \A role : OfRole(fs, L, role) = { f \in AllOf(fs) : Role(f) = role }
  BY <1>0 DEF OfRole, AllOf
<1>5. \A f \in AllOf(fs) : Role(f) \in {"static", "dynamic", "matcher"}
  <2>1. \A f : Role(f) \in {"static", "dynamic", "matcher", "broken"}
    BY DEF Role
  <2> QED BY <1>0, <1>2, <2>1 DEF Parsed, AllOf
<1> HIDE DEF t
<1>6. /\ t.types = types /\ t.fields = fs
      /\ t.static = [n \in DOMAIN t.static |-> t.static[n]]
      /\ t.dynamic \in Seq(AllOf(fs)) /\ Elements(t.dynamic) = { f \in AllOf(fs) : Role(f) = "dynamic" }
      /\ t.matchers \in Seq(AllOf(fs)) /\ Elements(t.matchers) = { f \in AllOf(fs) : Role(f) = "matcher" }
      /\ \A f \in AllOf(fs) : Role(f) = "static" /\ f.oneof = 0 => Has(t.static, f, Built(types, f).val)
      /\ \A n \in DOMAIN t.static : \E f \in AllOf(fs) : f.name = n /\ Role(f) = "static"
  BY <1>2, <1>4 DEF Parsed
<1>7. \A f, g \in AllOf(fs) : f.name = g.name => f = g
  BY <1>1 DEF AllOf
<1>8. Names(fs) = { f.name : f \in AllOf(fs) }
  BY DEF Names, AllOf
<1>9. ASSUME NEW f \in AllOf(fs) PROVE fs[FieldNamed(fs, f.name)] = f
  <2>1. PICK k \in DOMAIN fs : f = fs[k]
    BY DEF AllOf
  <2>2. FieldNamed(fs, f.name) \in DOMAIN fs /\ fs[FieldNamed(fs, f.name)].name = f.name
    BY <2>1 DEF FieldNamed
  <2> QED BY <1>1, <2>1, <2>2
<1>10. \A q \in Seq(AllOf(fs)) : q = << >> <=> Elements(q) = {}
  BY DEF Elements
<1>11. IsStatic(t) <=> \A f \in AllOf(fs) : Role(f) = "static"
  BY <1>5, <1>6, <1>10 DEF IsStatic
<1>12. \A f \in AllOf(fs) : FieldType(types, f) /\ (Role(f) = "static" => Built(types, f).res = "ok")
  BY <1>3 DEF AllOf
<1>13. \A q \in Seq(AllOf(fs)) : Len(q) \in Nat /\ DOMAIN q = 1..Len(q)
  OBVIOUS
<1> HIDE DEF fs
<1> QED BY <1>5, <1>6, <1>7, <1>8, <1>9, <1>11, <1>12, <1>13 DEF Describes, t, fs

(* A plain field that is compared by its value has what is written in a      *)
(* message when it has the value it was built as (definer.go 89-136).        *)
LEMMA StaticField ==
  ASSUME NEW types, NEW f, FieldType(types, f), PlainField(f), Fits(f), Role(f) = "static",
         Built(types, f).res = "ok", NEW m
  PROVE  /\ HasWritten(f, m) <=> Get(f, m) = Built(types, f).val
         /\ \A val : Unset(f, val) <=> val = Zero(f.kind)
         /\ Get(f, m) = IF f.name \in DOMAIN m.fields THEN m.fields[f.name] ELSE Zero(f.kind)
<1>1. f.label = "one" /\ f.kind # "message" /\ f.value.form \in {"empty", "plain", "template", "broken"}
  BY DEF PlainField, FieldType
<1>2. f.value.form \in {"empty", "plain"} /\ f.matcher.form = "none"
  BY <1>1 DEF Role, FieldType
<1>3. /\ f.value.form = "empty" => Built(types, f).val = Zero(f.kind)
      /\ f.value.form = "plain" /\ Says(f, f.value.text) # {} =>
           \A val : val \in Says(f, f.value.text) <=> val = Built(types, f).val
      /\ \A val : Unset(f, val) <=> val = Zero(f.kind)
  BY <1>2, PlainValue
<1>4. f.value.form = "plain" => Says(f, f.value.text) # {}
  BY <1>2 DEF Fits
<1>5. Get(f, m) = IF f.name \in DOMAIN m.fields THEN m.fields[f.name] ELSE Zero(f.kind)
  BY <1>1 DEF Get
<1>6. HasWritten(f, m) <=> Get(f, m) = Built(types, f).val
  <2>1. CASE f.value.form = "empty"
    BY <1>2, <1>3, <2>1 DEF HasWritten
  <2>2. CASE f.value.form = "plain"
    BY <1>2, <1>3, <1>4, <2>2 DEF HasWritten
  <2> QED BY <1>2, <2>1, <2>2
<1> QED BY <1>3, <1>5, <1>6

(* What a template matches has what is written, and what has it and nothing  *)
(* the template would not see is matched (template.go 56-116, 174-182).      *)
LEMMA MatchesWritten ==
  ASSUME NEW types, NEW target, NEW t, Describes(types, target, t), NEW m,
         m.fields = [k \in DOMAIN m.fields |-> m.fields[k]]
  PROVE  LET fs == AllOf(types[target])
             written == \A f \in fs : Fits(f) => HasWritten(f, m)
             exact == \A f \in fs : f.value.form # "template" /\ f.matcher.form = "none"
             only == \A n \in DOMAIN m.fields : \E f \in fs : f.name = n /\ m.fields[n] # Zero(f.kind)
         IN  /\ TemplateMatches(t, m) => m.decodes /\ written
             /\ ( /\ m.decodes /\ written
                  /\ \A f \in fs : Fits(f)
                  /\ exact => m.canonical /\ only ) =>
                TemplateMatches(t, m)
<1> DEFINE fs == AllOf(types[target])
           val(f) == Built(types, f).val
           part == StaticPart(t, m)
           D == { n \in DOMAIN part : TRUE }
           written == \A f \in fs : Fits(f) => HasWritten(f, m)
           exact == \A f \in fs : f.value.form # "template" /\ f.matcher.form = "none"
           only == \A n \in DOMAIN m.fields : \E f \in fs : f.name = n /\ m.fields[n] # Zero(f.kind)
<1>1. \A f \in fs : FieldType(types, f) /\ Role(f) \in {"static", "dynamic", "matcher"}
  BY DEF Describes
<1>2. \A f, g \in fs : f.name = g.name => f = g
  BY DEF Describes
<1>3. ASSUME NEW f \in fs, Role(f) = "static", PlainField(f), Fits(f)
      PROVE  /\ HasWritten(f, m) <=> Get(f, m) = val(f)
             /\ \A v : Unset(f, v) <=> v = Zero(f.kind)
             /\ Get(f, m) = IF f.name \in DOMAIN m.fields THEN m.fields[f.name] ELSE Zero(f.kind)
             /\ IF val(f) = Zero(f.kind) THEN f.name \notin DOMAIN t.static
                ELSE f.name \in DOMAIN t.static /\ t.static[f.name] = val(f)
  <2>1. Built(types, f).res = "ok" /\ Has(t.static, f, val(f))
    BY <1>3 DEF Describes, PlainField
  <2>2. /\ HasWritten(f, m) <=> Get(f, m) = val(f)
        /\ \A v : Unset(f, v) <=> v = Zero(f.kind)
        /\ Get(f, m) = IF f.name \in DOMAIN m.fields THEN m.fields[f.name] ELSE Zero(f.kind)
    BY <1>1, <1>3, <2>1, StaticField
  <2> QED BY <2>1, <2>2 DEF Has
<1>4. \A f : Fits(f) => PlainField(f)
  BY DEF Fits
<1>5. ASSUME NEW f \in fs
      PROVE  /\ f.name \in Names(t.dynamic) <=> Role(f) = "dynamic"
             /\ f.name \in Names(t.matchers) <=> Role(f) = "matcher"
  <2>1. /\ Names(t.dynamic) = { g.name : g \in Elements(t.dynamic) }
        /\ Names(t.matchers) = { g.name : g \in Elements(t.matchers) }
    BY DEF Describes, Names, Elements
  <2>2. /\ Elements(t.dynamic) = { g \in fs : Role(g) = "dynamic" }
        /\ Elements(t.matchers) = { g \in fs : Role(g) = "matcher" }
    BY DEF Describes
  <2>3. ASSUME NEW role PROVE f.name \in { g.name : g \in { h \in fs : Role(h) = role } } <=> Role(f) = role
    <3> HIDE DEF fs
    <3> QED BY <1>2
  <2> HIDE DEF fs
  <2> QED BY <2>1, <2>2, <2>3
<1>6. /\ DOMAIN part = { n \in DOMAIN m.fields :
           \E f \in fs : f.name = n /\ Role(f) = "static" /\ ~Unset(f, m.fields[n]) }
      /\ part = [n \in DOMAIN part |-> m.fields[n]]
  <2>1. /\ Names(t.fields) = { f.name : f \in fs }
        /\ \A f \in fs : t.fields[FieldNamed(t.fields, f.name)] = f
    BY DEF Describes
  <2>2. part = [n \in DOMAIN Known(t, m) \ (Names(t.dynamic) \union Names(t.matchers)) |-> m.fields[n]]
    BY DEF StaticPart
  <2>3. DOMAIN Known(t, m) = { k \in DOMAIN m.fields \intersect Names(t.fields) :
                                 ~Unset(t.fields[FieldNamed(t.fields, k)], m.fields[k]) }
    BY DEF Known
  <2>4. DOMAIN part = DOMAIN Known(t, m) \ (Names(t.dynamic) \union Names(t.matchers))
    BY <2>2
  <2> HIDE DEF part, fs
  <2>5. ASSUME NEW n, NEW f \in fs, f.name = n
        PROVE  n \in DOMAIN part <=> n \in DOMAIN m.fields /\ Role(f) = "static" /\ ~Unset(f, m.fields[n])
    BY <1>1, <1>5, <2>1, <2>3, <2>4, <2>5
  <2>6. \A n \in DOMAIN part : n \in DOMAIN m.fields /\ \E f \in fs : f.name = n
    BY <2>1, <2>3, <2>4
  <2> QED BY <2>2, <2>4, <2>5, <2>6
<1>7. /\ IsStatic(t) <=> \A f \in fs : Role(f) = "static"
      /\ t.static = [n \in DOMAIN t.static |-> t.static[n]]
      /\ \A n \in DOMAIN t.static : \E f \in fs : f.name = n /\ Role(f) = "static"
  BY DEF Describes
<1>8. \A i \in DOMAIN t.matchers : t.matchers[i] \in fs /\ Role(t.matchers[i]) = "matcher"
  BY DEF Describes, Elements
<1>9. \A f \in fs : Role(f) = "matcher" => \E i \in DOMAIN t.matchers : t.matchers[i] = f
  BY DEF Describes, Elements
<1>10. ASSUME NEW f
       PROVE  /\ Role(f) = "dynamic" => f.value.form = "template"
              /\ Role(f) = "matcher" => f.value.form # "template" /\ f.matcher.form = "expr"
              /\ Role(f) = "static" => f.value.form # "template" /\ f.matcher.form # "expr"
  <2>1. CASE f.value.form \in {"broken", "template"}
    BY <2>1 DEF Role
  <2>2. CASE f.value.form \notin {"broken", "template"}
    BY <2>2 DEF Role
  <2> QED BY <2>1, <2>2
<1> HIDE DEF part, fs, written, exact, only, val
<1>11. ASSUME TemplateMatches(t, m) PROVE m.decodes /\ written
  <2>1. m.decodes
    BY <1>11 DEF TemplateMatches
  <2>2. ASSUME NEW f \in fs, Fits(f) PROVE HasWritten(f, m)
    <3>1. CASE Role(f) = "dynamic"
      BY <1>10, <3>1 DEF HasWritten
    <3>2. CASE Role(f) = "matcher"
      <4>1. ~IsStatic(t)
        BY <1>7, <3>2
      <4>2. PICK i \in DOMAIN t.matchers : t.matchers[i] = f
        BY <1>9, <3>2
      <4>3. Get(f, m) \in f.matcher.accepts
        BY <1>11, <4>1, <4>2 DEF TemplateMatches
      <4> QED BY <1>10, <3>2, <4>3 DEF HasWritten
    <3>3. CASE Role(f) = "static"
      <4>1. /\ HasWritten(f, m) <=> Get(f, m) = val(f)
            /\ \A v : Unset(f, v) <=> v = Zero(f.kind)
            /\ Get(f, m) = IF f.name \in DOMAIN m.fields THEN m.fields[f.name] ELSE Zero(f.kind)
            /\ IF val(f) = Zero(f.kind) THEN f.name \notin DOMAIN t.static
               ELSE f.name \in DOMAIN t.static /\ t.static[f.name] = val(f)
        BY <1>3, <1>4, <2>2, <3>3
      <4>2. CASE IsStatic(t)
        <5>1. m.fields = t.static
          BY <1>11, <4>2 DEF TemplateMatches
        <5> QED BY <4>1, <5>1
      <4>3. CASE ~IsStatic(t)
        <5>1. part = t.static
          BY <1>11, <4>3 DEF TemplateMatches, part
        <5>2. f.name \in DOMAIN part <=> f.name \in DOMAIN m.fields /\ ~Unset(f, m.fields[f.name])
          BY <1>2, <1>6, <2>2, <3>3
        <5>3. f.name \in DOMAIN part => part[f.name] = m.fields[f.name]
          BY <1>6
        <5> QED BY <4>1, <5>1, <5>2, <5>3
      <4> QED BY <4>2, <4>3
    <3> QED BY <1>1, <2>2, <3>1, <3>2, <3>3
  <2> QED BY <2>1, <2>2 DEF written
<1>12. ASSUME m.decodes, written, \A f \in fs : Fits(f), exact => m.canonical /\ only
       PROVE  TemplateMatches(t, m)
  <2>1. ASSUME NEW f \in fs, Role(f) = "static"
        PROVE  /\ Get(f, m) = val(f)
               /\ \A v : Unset(f, v) <=> v = Zero(f.kind)
               /\ Get(f, m) = IF f.name \in DOMAIN m.fields THEN m.fields[f.name] ELSE Zero(f.kind)
               /\ IF val(f) = Zero(f.kind) THEN f.name \notin DOMAIN t.static
                  ELSE f.name \in DOMAIN t.static /\ t.static[f.name] = val(f)
    BY <1>3, <1>4, <1>12, <2>1 DEF written
  <2>2. CASE IsStatic(t)
    <3>1. m.canonical /\ only
      <4>1. \A f \in fs : f.value.form # "template" /\ f.matcher.form \notin {"expr", "broken"}
        BY <1>7, <1>10, <2>2 DEF Role
      <4>2. \A f \in fs : f.matcher.form \in {"none", "broken", "expr"}
        BY <1>1 DEF FieldType
      <4>3. exact
        BY <4>1, <4>2 DEF exact
      <4> QED BY <1>12, <4>3
    <3>2. ASSUME NEW n \in DOMAIN m.fields PROVE n \in DOMAIN t.static /\ t.static[n] = m.fields[n]
      <4>1. PICK f \in fs : f.name = n /\ m.fields[n] # Zero(f.kind)
        BY <3>1 DEF only
      <4> QED BY <1>7, <2>1, <2>2, <3>2, <4>1
    <3>3. ASSUME NEW n \in DOMAIN t.static PROVE n \in DOMAIN m.fields
      <4>1. PICK f \in fs : f.name = n /\ Role(f) = "static"
        BY <1>7
      <4> QED BY <2>1, <4>1
    <3>4. m.fields = t.static
      BY <1>7, <3>2, <3>3
    <3> QED BY <1>12, <2>2, <3>1, <3>4 DEF TemplateMatches
  <2>3. CASE ~IsStatic(t)
    <3>1. ASSUME NEW n \in DOMAIN part PROVE n \in DOMAIN t.static /\ t.static[n] = part[n]
      <4>1. PICK f \in fs : f.name = n /\ Role(f) = "static" /\ ~Unset(f, m.fields[n])
        BY <1>6
      <4>2. n \in DOMAIN m.fields /\ part[n] = m.fields[n]
        BY <1>6
      <4> QED BY <2>1, <4>1, <4>2
    <3>2. ASSUME NEW n \in DOMAIN t.static PROVE n \in DOMAIN part
      <4>1. PICK f \in fs : f.name = n /\ Role(f) = "static"
        BY <1>7
      <4>2. n \in DOMAIN m.fields /\ ~Unset(f, m.fields[n])
        BY <2>1, <4>1
      <4> QED BY <1>6, <4>1, <4>2
    <3>3. part = t.static
      <4>1. part = [n \in DOMAIN part |-> part[n]]
        BY <1>6
      <4> QED BY <1>7, <3>1, <3>2, <4>1
    <3>4. ASSUME NEW i \in DOMAIN t.matchers
          PROVE  Get(t.matchers[i], m) \in t.matchers[i].matcher.accepts
      <4>1. t.matchers[i] \in fs /\ Role(t.matchers[i]) = "matcher"
        BY <1>8
      <4>2. HasWritten(t.matchers[i], m)
        BY <1>12, <4>1 DEF written
      <4> QED BY <1>10, <4>1, <4>2 DEF HasWritten
    <3> QED BY <1>12, <2>3, <3>3, <3>4 DEF TemplateMatches, part
  <2> QED BY <2>2, <2>3
<1> QED BY <1>11, <1>12 DEF written, exact, only, fs

(* A call is unmatched when its first message, read once, does not match the *)
(* template of the rule, which stays.                                        *)
Judged(c) ==
  /\ at[c] = "new" => first[c] = {}
  /\ \A m \in first[c] :
       /\ rule # {} /\ Rule.match # {}
       /\ outcome[c] = "unmatched" <=> ~TemplateMatches(The(Rule.match), m)

(* No call is judged at first. *)
LEMMA InitJudged == Init => \A c \in Call : Judged(c)
BY DEF Init, Judged

(* What a step does not touch of a call does not judge it anew. *)
LEMMA StillJudged ==
  ASSUME NEW c \in Call, Judged(c), rule # {} => rule' = rule,
         first'[c] = first[c], at'[c] = "new" => at[c] = "new",
         \/ outcome'[c] = outcome[c]
         \/ outcome[c] # "unmatched" /\ outcome'[c] # "unmatched"
  PROVE  Judged(c)'
BY DEF Judged, Rule

(* The handler's step of a call judges it by its first message, or not at    *)
(* all (proxy.go 119-235).                                                   *)
LEMMA HandlerJudges ==
  ASSUME IInv, NEW c \in Call, Judged(c), Handle(c)
  PROVE  Judged(c)'
<1>1. Typed /\ Where(c)
  BY DEF IInv, CallInv
<1>2. outcome[c] = "none" /\ at[c] # "done" /\ rule # {} /\ config' = config /\ rule' = rule
  BY <1>1 DEF Handle, MatchAtOnce, MatchFirst, MatchFails, WaitOver, WaitCanceled, RespondStatus,
              RespondBody, Send, SendFails, Drain, DrainEnds, DrainFails, procVars, Live, Where,
              Typed, TypeOK
<1> USE <1>1 DEF Typed, TypeOK, Finish, procVars
<1>3. CASE MatchFirst(c)
  <2>1. PICK m \in Incoming[config] :
          /\ first' = [first EXCEPT ![c] = {m}]
          /\ IF TemplateMatches(The(Rule.match), m)
             THEN at' = [at EXCEPT ![c] = Matched] /\ UNCHANGED outcome
             ELSE Finish(c, "unmatched")
    BY <1>3 DEF MatchFirst
  <2>2. Matched # "new"
    BY DEF Matched
  <2>3. Rule.match # {} /\ Rule' = Rule
    BY <1>2, <1>3 DEF MatchFirst, Rule
  <2>4. first'[c] = {m} /\ at'[c] # "new"
    BY <2>1, <2>2
  <2>5. outcome'[c] = "unmatched" <=> ~TemplateMatches(The(Rule.match), m)
    BY <1>2, <2>1
  <2> QED BY <1>2, <2>3, <2>4, <2>5 DEF Judged
<1>4. CASE RespondStatus(c)
  <2>1. /\ proc = "serving" /\ Configured.respond # {} /\ MockOf.body = {}
        /\ first' = first /\ at'[c] # "new"
        /\ outcome'[c] = IF MockOf.status = {} THEN "empty mock" ELSE The(MockOf.status)
    BY <1>4 DEF RespondStatus, Live, Where
  <2>2. PICK r \in Configured.respond : MockFrom(MockOf, r)
    BY <2>1, MockInUse
  <2>3. MockOf.status # {} => The(MockOf.status) \in r.status
    BY <2>2, TheElement DEF MockFrom
  <2>4. "unmatched" \notin r.status
    BY OwnEnds DEF OwnEnd
  <2>5. outcome'[c] # "unmatched"
    BY <2>1, <2>3, <2>4
  <2> QED BY <1>2, <2>1, <2>5, StillJudged
<1>5. CASE RespondBody(c)
  <2>1. first' = first /\ at'[c] # "new" /\ outcome'[c] # "unmatched"
    BY <1>2, <1>5 DEF RespondBody, Recoverer
  <2> QED BY <1>2, <2>1, StillJudged
<1>6. CASE \/ MatchAtOnce(c) \/ MatchFails(c) \/ WaitOver(c) \/ WaitCanceled(c)
  <2>1. Matched # "new"
    BY DEF Matched
  <2>2. first' = first /\ at'[c] # "new" /\ outcome'[c] # "unmatched"
    BY <1>2, <1>6, <2>1 DEF MatchAtOnce, MatchFails, WaitOver, WaitCanceled
  <2> QED BY <1>2, <2>2, StillJudged
<1>7. CASE Send(c) \/ SendFails(c) \/ Drain(c) \/ DrainEnds(c) \/ DrainFails(c)
  <2>1. first' = first /\ at'[c] # "new" /\ outcome'[c] # "unmatched"
    BY <1>2, <1>7 DEF Send, SendFails, Drain, DrainEnds, DrainFails
  <2> QED BY <1>2, <2>1, StillJudged
<1> QED BY <1>3, <1>4, <1>5, <1>6, <1>7 DEF Handle

(* Every step keeps the judgement of every call. *)
LEMMA StepJudged ==
  IInv /\ (\A c \in Call : Judged(c)) /\ [Next]_vars => (\A c \in Call : Judged(c))'
<1> SUFFICES ASSUME IInv, \A c \in Call : Judged(c), [Next]_vars, NEW d \in Call
             PROVE  Judged(d)'
  OBVIOUS
<1>1. CASE Load \/ UNCHANGED vars
  <2>1. first' = first /\ at' = at /\ outcome' = outcome /\ (rule # {} => rule' = rule)
    BY <1>1 DEF Load, IInv, Typed, TypeOK, vars, procVars
  <2> QED BY <2>1, StillJudged
<1>2. ASSUME NEW c \in Call, Offer(c) \/ HalfClose(c) \/ Leave(c) \/ Handle(c) PROVE Judged(d)'
  <2>1. CASE c # d
    <3>1. rule' = rule /\ at'[d] = at[d] /\ outcome'[d] = outcome[d]
      <4>1. rule' = rule
        BY <1>2 DEF Offer, HalfClose, Leave, Handle, MatchAtOnce, MatchFirst, MatchFails, WaitOver,
             WaitCanceled, RespondStatus, RespondBody, Send, SendFails, Drain, DrainEnds,
             DrainFails, procVars
      <4> QED BY <1>2, <2>1, <4>1, OthersStay DEF IInv
    <3>2. first'[d] = first[d]
      <4>1. first' = first \/ \E m : first' = [first EXCEPT ![c] = {m}]
        BY <1>2 DEF Offer, HalfClose, Leave, Handle, MatchAtOnce, MatchFirst, MatchFails, WaitOver,
             WaitCanceled, RespondStatus, RespondBody, Send, SendFails, Drain, DrainEnds,
             DrainFails
      <4> QED BY <2>1, <4>1 DEF IInv, Typed
    <3> QED BY <3>1, <3>2, StillJudged
  <2>2. CASE c = d /\ Handle(c)
    BY <2>2, HandlerJudges
  <2>3. CASE c = d /\ (Offer(c) \/ HalfClose(c) \/ Leave(c))
    <3>1. first' = first /\ at' = at /\ outcome' = outcome /\ rule' = rule
      BY <2>3 DEF Offer, HalfClose, Leave, procVars
    <3> QED BY <3>1, StillJudged
  <2> QED BY <1>2, <2>1, <2>2, <2>3
<1> QED BY <1>1, <1>2 DEF Next

(* The template of a snippet that the definer accepts is its target's        *)
(* (definer.go 42-136).                                                      *)
LEMMA SnippetDescribed ==
  ASSUME NEW s, SnippetType(s), BuildTarget(s).res = "ok"
  PROVE  LET target == The(FindTarget(s))
         IN  target \in DOMAIN s.types /\ Describes(s.types, target, BuildTarget(s).val)
<1> DEFINE target == The(FindTarget(s))
<1>1. target \in DOMAIN s.types
  BY TargetBuilt
<1>2. BuildTarget(s) = ParseTemplate(s.types, target) /\ TypesType(s.types)
  BY DEF BuildTarget, Fail, The, SnippetType
<1> HIDE DEF target
<1>3. Describes(s.types, target, BuildTarget(s).val)
  BY <1>1, <1>2, TargetDescribed
<1> QED BY <1>1, <1>3 DEF target

(* The template that a loaded rule matches with is that of its snippet       *)
(* (file.go 240-283, definer.go 42-136).                                     *)
LEMMA MatchBuilt ==
  ASSUME NEW n \in DOMAIN Config, ParseRule(Config[n]).res = "ok", NEW s \in Config[n].match
  PROVE  LET target == The(FindTarget(s))
         IN  /\ target \in DOMAIN s.types
             /\ Describes(s.types, target, The(ParseRule(Config[n]).val.match))
             /\ Fields(Config[n].match) = AllOf(s.types[target])
<1> DEFINE c == Config[n]
           match == Optional(c.match, BuildTarget)
           target == The(FindTarget(s))
           made == ParseRule(c)
<1>1. c.match = {s} /\ SnippetType(s)
  <2>1. AtMostOne(c.match) /\ \A x \in c.match : SnippetType(x)
    BY ConfigAssumption
  <2> QED BY <2>1 DEF AtMostOne
<1>2. match = Then(BuildTarget(s), LAMBDA v : Ok({v}))
  <2>1. The({s}) = s
    BY DEF The
  <2> QED BY <1>1, <2>1 DEF Optional
<1> HIDE DEF match
<1>3. match.res = "ok" /\ made.val.match = match.val
  <2>1. match.res = "ok"
    BY DEF ParseRule, Then, Fail, match
  <2>2. \/ made = Fail("error")
        \/ made = Then(Optional(c.respond, ParseRespond),
             LAMBDA k : IF (k # {}) = (c.forward = "known") THEN Fail("error")
                        ELSE Ok([match |-> match.val, mock |-> k]))
    BY <2>1 DEF ParseRule, Then, match
  <2> QED BY <2>1, <2>2 DEF Then, Ok, Fail
<1>4. BuildTarget(s).res = "ok" /\ match.val = {BuildTarget(s).val}
  BY <1>2, <1>3 DEF Then, Ok
<1>5. The(made.val.match) = BuildTarget(s).val
  <2> HIDE DEF made
  <2> QED BY <1>3, <1>4 DEF The
<1>6. target \in DOMAIN s.types /\ Describes(s.types, target, BuildTarget(s).val)
  BY <1>1, <1>4, SnippetDescribed
<1>7. Fields(c.match) = AllOf(s.types[target])
  BY <1>1 DEF Fields, Target, AllOf
<1> HIDE DEF made, target
<1> QED BY <1>5, <1>6, <1>7 DEF made, target

(* The rule answers the calls whose first message has what its snippet says, *)
(* and only those (proxy.go 119-162, template.go 56-116, definer.go 42-136). *)
THEOREM MatchesAreWritten == Spec => []MatchedAsWritten
<1>1. IInv /\ Outcome /\ (\A c \in Call : Judged(c)) => MatchedAsWritten
  <2> SUFFICES ASSUME IInv, Outcome, \A c \in Call : Judged(c), NEW c \in Call, NEW m \in first[c]
               PROVE  MatchedAsWritten!(c)!(m)
    BY DEF MatchedAsWritten
  <2>1. /\ rule # {} /\ Rule.match # {}
        /\ outcome[c] = "unmatched" <=> ~TemplateMatches(The(Rule.match), m)
    BY DEF Judged
  <2>2. config \in DOMAIN Config /\ m \in Incoming[config]
    BY DEF IInv, Typed, TypeOK
  <2>3. m.fields = [k \in DOMAIN m.fields |-> m.fields[k]]
    BY <2>2, ConfigAssumption
  <2>4. ParseRule(Config[config]).res = "ok" /\ Rule = ParseRule(Config[config]).val
    BY <2>1 DEF Outcome, Configured
  <2>5. PICK s \in Config[config].match : TRUE
    BY <2>1 DEF IInv, Loaded, RuleFrom, Configured
  <2> DEFINE target == The(FindTarget(s))
             t == The(Rule.match)
  <2>6. /\ Describes(s.types, target, t)
        /\ Fields(Configured.match) = AllOf(s.types[target])
    BY <2>2, <2>4, <2>5, MatchBuilt DEF Configured
  <2> HIDE DEF target, t
  <2>7. LET fs == Fields(Configured.match)
            written == \A f \in fs : Fits(f) => HasWritten(f, m)
            exact == \A f \in fs : f.value.form # "template" /\ f.matcher.form = "none"
            only == \A n \in DOMAIN m.fields : \E f \in fs : f.name = n /\ m.fields[n] # Zero(f.kind)
        IN  /\ TemplateMatches(t, m) => m.decodes /\ written
            /\ ( /\ m.decodes /\ written
                 /\ \A f \in fs : Fits(f)
                 /\ exact => m.canonical /\ only ) =>
               TemplateMatches(t, m)
    BY <2>3, <2>6, MatchesWritten
  <2>8. outcome[c] = "unmatched" <=> ~TemplateMatches(t, m)
    BY <2>1 DEF t
  <2> QED BY <2>7, <2>8
<1> QED BY InitIInv, StepIInv, InitOutcome, StepOutcome, InitJudged, StepJudged, <1>1, PTL DEF Spec

-----------------------------------------------------------------------------
(* What a loaded rule answers.                                               *)

(* A call whose message cannot be generated has a templated field: its first *)
(* message decodes, for the rule matched it, and a static message is there   *)
(* (proxy.go 200-212, template.go 119-186).                                  *)
LEMMA GenerateFails ==
  ASSUME IInv, Outcome, NEW c \in Call, Judged(c), RespondBody(c),
         Generate(Rule, first[c]).res \in {"error", "panic"}
  PROVE  \E r \in Configured.respond : \E f \in Fields(r.body) : f.value.form = "template"
<1> DEFINE made == Generate(Rule, first[c])
           body == The(MockOf.body)
           read == Data(Rule, first[c])
<1>1. /\ proc = "serving" /\ rule # {} /\ config \in DOMAIN Config
      /\ Configured.respond # {} /\ MockOf.body # {} /\ outcome[c] = "none"
  BY DEF RespondBody, Live, IInv, CallInv, Where, Typed, TypeOK
<1>2. PICK r \in Configured.respond : MockFrom(MockOf, r)
  BY <1>1, MockInUse
<1>3. PICK s \in r.body : TRUE
  BY <1>1, <1>2 DEF MockFrom
<1>4. BuildTarget(s).res = "ok" /\ body = BuildTarget(s).val
  BY <1>1, RuleBuilt DEF Outcome, Configured, MockOf
<1>5. SnippetType(s)
  BY <1>1, ConfigAssumption DEF Configured
<1> DEFINE t == The(FindTarget(s))
<1>6. Template(s.types, t, body)
  BY <1>4, <1>5, TargetBuilt
<1>7. body.types = s.types /\ body.dynamic \in Seq(Dynamic(s.types, t))
  <2> HIDE DEF body, t
  <2> QED BY <1>6 DEF Template
<1>8. read.res = "ok"
  <2>1. CASE first[c] = {} \/ Rule.match = {}
    BY <2>1 DEF Data, Ok
  <2>2. CASE first[c] # {} /\ Rule.match # {}
    <3>1. The(first[c]) \in first[c]
      BY <2>2, TheElement
    <3>2. TemplateMatches(The(Rule.match), The(first[c]))
      BY <1>1, <3>1 DEF Judged
    <3>3. The(first[c]).decodes
      BY <3>2 DEF TemplateMatches
    <3> QED BY <2>2, <3>3 DEF Data, DataMap, Ok
  <2> QED BY <2>1, <2>2
<1>9. Fill(body, body.static, read.val).res # "ok"
  <2>1. made = Then(read, LAMBDA d : IF IsStatic(body) THEN Ok(body.static)
                                     ELSE Fill(body, body.static, d))
    BY DEF Generate, MockOf
  <2>2. made.res # "ok"
    OBVIOUS
  <2> HIDE DEF made, read, body
  <2> QED BY <1>8, <2>1, <2>2 DEF Then, Ok
<1> HIDE DEF body, t, made, read
<1>10. PICK i \in 1..Len(body.dynamic) : TRUE
  BY <1>7, <1>9, FillFails
<1>11. body.dynamic[i] \in Dynamic(s.types, t)
  BY <1>7, <1>10
<1>12. PICK j \in DOMAIN s.types[t] : Role(s.types[t][j]) = "dynamic"
  BY <1>11 DEF Dynamic
<1>13. s.types[t][j].value.form = "template"
  BY <1>12 DEF Role
<1>14. s.types[t][j] \in Fields(r.body)
  BY <1>3 DEF Fields, Target, t
<1> QED BY <1>13, <1>14

(* The message of a call could not be generated for a field that is          *)
(* templated.                                                                *)
Blamed(c) ==
  outcome[c] \in {"ungenerated", "panic"} =>
    \E r \in Configured.respond : \E f \in Fields(r.body) : f.value.form = "template"

(* Every call has ended in nothing at first. *)
LEMMA InitBlamed == Init => \A c \in Call : Blamed(c)
BY DEF Init, Blamed

(* A handler says that a message could not be generated when it could not    *)
(* be, and a configured status does not say so (proxy.go 165-240).           *)
LEMMA HandlerBlames ==
  ASSUME IInv, Outcome, NEW c \in Call, Judged(c), Blamed(c), Handle(c)
  PROVE  Blamed(c)'
<1>1. Typed /\ Where(c)
  BY DEF IInv, CallInv
<1>2. outcome[c] = "none" /\ config' = config /\ Configured' = Configured
  BY <1>1 DEF Handle, MatchAtOnce, MatchFirst, MatchFails, WaitOver, WaitCanceled, RespondStatus,
              RespondBody, Send, SendFails, Drain, DrainEnds, DrainFails, procVars, Live, Where,
              Configured
<1>3. CASE RespondBody(c)
  <2>1. CASE Generate(Rule, first[c]).res \in {"error", "panic"}
    <3>1. \E r \in Configured.respond : \E f \in Fields(r.body) : f.value.form = "template"
      BY <1>3, <2>1, GenerateFails
    <3> QED BY <1>2, <3>1 DEF Blamed
  <2>2. CASE Generate(Rule, first[c]).res \notin {"error", "panic"}
    <3>1. outcome' = outcome
      BY <1>3, <2>2 DEF RespondBody
    <3> QED BY <1>2, <3>1 DEF Blamed
  <2> QED BY <2>1, <2>2
<1>4. CASE RespondStatus(c)
  <2>1. /\ proc = "serving" /\ Configured.respond # {}
        /\ outcome'[c] = IF MockOf.status = {} THEN "empty mock" ELSE The(MockOf.status)
    BY <1>1, <1>4 DEF RespondStatus, Live, Where, Finish, Typed, TypeOK
  <2>2. PICK r \in Configured.respond : MockFrom(MockOf, r)
    BY <2>1, MockInUse
  <2>3. MockOf.status # {} => The(MockOf.status) \in r.status
    BY <2>2, TheElement DEF MockFrom
  <2>4. "ungenerated" \notin r.status /\ "panic" \notin r.status
    BY OwnEnds DEF OwnEnd
  <2> QED BY <2>1, <2>3, <2>4 DEF Blamed
<1>5. CASE Handle(c) /\ ~RespondBody(c) /\ ~RespondStatus(c)
  <2>1. outcome'[c] \notin {"ungenerated", "panic"}
    BY <1>1, <1>2, <1>5 DEF Handle, MatchAtOnce, MatchFirst, MatchFails, WaitOver, WaitCanceled, Send,
         SendFails, Drain, DrainEnds, DrainFails, Finish, Typed, TypeOK
  <2> QED BY <2>1 DEF Blamed
<1> QED BY <1>3, <1>4, <1>5

(* Every step keeps it. *)
LEMMA StepBlamed ==
  /\ IInv /\ Outcome /\ (\A c \in Call : Judged(c)) /\ (\A c \in Call : Blamed(c))
  /\ [Next]_vars
  => (\A c \in Call : Blamed(c))'
<1> SUFFICES ASSUME IInv, Outcome, \A c \in Call : Judged(c), \A c \in Call : Blamed(c),
                    [Next]_vars, NEW d \in Call
             PROVE  Blamed(d)'
  OBVIOUS
<1>1. CASE Load \/ UNCHANGED vars
  BY <1>1 DEF Load, vars, procVars, Blamed, Configured
<1>2. ASSUME NEW c \in Call, Offer(c) \/ HalfClose(c) \/ Leave(c) \/ Handle(c) PROVE Blamed(d)'
  <2>1. config' = config
    BY <1>2 DEF Offer, HalfClose, Leave, Handle, MatchAtOnce, MatchFirst, MatchFails, WaitOver,
         WaitCanceled, RespondStatus, RespondBody, Send, SendFails, Drain, DrainEnds, DrainFails,
         procVars
  <2>2. CASE c # d
    <3>1. outcome'[d] = outcome[d]
      BY <1>2, <2>2, OthersStay DEF IInv
    <3> QED BY <2>1, <3>1 DEF Blamed, Configured
  <2>3. CASE c = d /\ Handle(c)
    BY <2>3, HandlerBlames
  <2>4. CASE c = d /\ (Offer(c) \/ HalfClose(c) \/ Leave(c))
    <3>1. outcome' = outcome
      BY <2>4 DEF Offer, HalfClose, Leave
    <3> QED BY <2>1, <3>1 DEF Blamed, Configured
  <2> QED BY <1>2, <2>2, <2>3, <2>4
<1> QED BY <1>1, <1>2 DEF Next

(* A loaded rule has one thing to do and does it, but for a call whose       *)
(* client has left it, or whose message has a templated field that cannot be *)
(* set (file.go 240-321, proxy.go 165-240).                                  *)
THEOREM LoadedRulesAnswer == Spec => []LoadedRuleAnswers
<1>1. IInv /\ (\A c \in Call : Blamed(c)) => LoadedRuleAnswers
  <2> SUFFICES ASSUME IInv, NEW c \in Call, Blamed(c)
               PROVE  LoadedRuleAnswers!(c)
    BY DEF LoadedRuleAnswers
  <2>1. Where(c) /\ Ended(c)
    BY DEF IInv, CallInv
  <2>2. ASSUME at[c] = "done", outcome[c] \notin {"unmatched", "unread"}
        PROVE  \E r \in Configured.respond :
                 \/ outcome[c] \in r.status
                 \/ sent[c] # << >>
                 \/ client[c] = "gone"
                 \/ /\ outcome[c] \in {"ungenerated", "panic"}
                    /\ \E f \in Fields(r.body) : f.value.form = "template"
    <3>1. outcome[c] # "none" /\ Configured.respond # {}
      BY <2>1, <2>2 DEF Where, Ended
    <3>2. CASE outcome[c] \in {"ungenerated", "panic"}
      BY <3>2 DEF Blamed
    <3>3. CASE outcome[c] \notin {"ungenerated", "panic"}
      BY <2>1, <2>2, <3>1, <3>3 DEF Ended, OwnEnd
    <3> QED BY <3>2, <3>3
  <2>3. /\ at[c] = "forward" => Configured.forward = "known" /\ Configured.respond = {}
        /\ outcome[c] = "undrained" => client[c] = "gone" \/ unread[c] > 0
    BY <2>1 DEF Where, Ended
  <2> QED BY <2>2, <2>3
<1> QED BY InitIInv, StepIInv, InitOutcome, StepOutcome, InitJudged, StepJudged, InitBlamed,
           StepBlamed, <1>1, PTL DEF Spec

-----------------------------------------------------------------------------
(* What a template generates.                                                *)

(* What Generate has done after its first i templated fields.                *)
Filling(types, target, t, msg, data, i, m) ==
  LET fs == AllOf(types[target])
  IN  /\ \A k \in 1..i : t.dynamic[k].oneof = 0 =>
           Has(m, t.dynamic[k], FilledIn(t, data, t.dynamic[k]).val)
      /\ \A f \in fs : Role(f) # "dynamic" /\ f.oneof = 0 =>
           /\ f.name \in DOMAIN m <=> f.name \in DOMAIN msg
           /\ f.name \in DOMAIN m => m[f.name] = msg[f.name]

(* A step sets its field and leaves those that are in no oneof (template.go  *)
(* 119-142, definer.go 257).                                                 *)
LEMMA OneMoreFilled ==
  ASSUME NEW types, NEW target, NEW t, Describes(types, target, t), NEW msg, NEW data,
         NEW i \in 1..Len(t.dynamic), NEW m, Filling(types, target, t, msg, data, i - 1, m)
  PROVE  LET f == t.dynamic[i]
         IN  Filling(types, target, t, msg, data, i, Put(t.fields, m, f, FilledIn(t, data, f).val))
<1> DEFINE fs == AllOf(types[target])
           f == t.dynamic[i]
           val(g) == FilledIn(t, data, g).val
           put == Put(t.fields, m, f, val(f))
<1>1. /\ Len(t.dynamic) \in Nat
      /\ \A k \in 1..Len(t.dynamic) : t.dynamic[k] \in fs /\ Role(t.dynamic[k]) = "dynamic"
  BY DEF Describes, Elements
<1>2. \A g, h \in fs : g.name = h.name => g = h
  BY DEF Describes
<1>3. t.fields = types[target]
  BY DEF Describes
<1>4. Has(put, f, val(f))
  BY PutSets
<1>5. ASSUME NEW g \in fs, g # f, g.oneof = 0
      PROVE  /\ g.name \in DOMAIN put <=> g.name \in DOMAIN m
             /\ g.name \in DOMAIN m => put[g.name] = m[g.name]
  <2>1. g.name # f.name
    BY <1>1, <1>2, <1>5
  <2>2. \A k \in DOMAIN t.fields : t.fields[k].name = g.name => t.fields[k].oneof = 0
    BY <1>2, <1>3, <1>5 DEF AllOf
  <2> QED BY <2>1, <2>2, PutKeeps
<1> HIDE DEF fs, f, put, val
<1>6. ASSUME NEW k \in 1..i, t.dynamic[k].oneof = 0 PROVE Has(put, t.dynamic[k], val(t.dynamic[k]))
  <2>1. CASE t.dynamic[k] = f
    BY <1>4, <2>1
  <2>2. CASE t.dynamic[k] # f
    <3>1. k \in 1..(i - 1) /\ k \in 1..Len(t.dynamic)
      BY <1>1, <2>2 DEF f
    <3>2. Has(m, t.dynamic[k], val(t.dynamic[k]))
      BY <1>6, <3>1 DEF Filling, val
    <3> QED BY <1>1, <1>5, <1>6, <2>2, <3>1, <3>2 DEF Has
  <2> QED BY <2>1, <2>2
<1>7. ASSUME NEW g \in fs, Role(g) # "dynamic", g.oneof = 0
      PROVE  /\ g.name \in DOMAIN put <=> g.name \in DOMAIN msg
             /\ g.name \in DOMAIN put => put[g.name] = msg[g.name]
  <2>1. g # f
    BY <1>1, <1>7 DEF f
  <2>2. /\ g.name \in DOMAIN m <=> g.name \in DOMAIN msg
        /\ g.name \in DOMAIN m => m[g.name] = msg[g.name]
    BY <1>7 DEF Filling, fs
  <2> QED BY <1>5, <1>7, <2>1, <2>2
<1> QED BY <1>6, <1>7 DEF Filling, fs, f, put, val

(* A combined template generates a message with its templated fields filled  *)
(* in and its static part, the members of oneofs aside (template.go 119-142). *)
LEMMA Filled ==
  ASSUME NEW types, NEW target, NEW t, Describes(types, target, t), NEW msg, NEW data,
         Fill(t, msg, data).res = "ok"
  PROVE  LET fs == AllOf(types[target])
             got == Fill(t, msg, data).val
         IN  /\ \A f \in fs : Role(f) = "dynamic" =>
                  /\ FilledIn(t, data, f).res = "ok"
                  /\ f.oneof = 0 => Has(got, f, FilledIn(t, data, f).val)
             /\ \A f \in fs : Role(f) # "dynamic" /\ f.oneof = 0 =>
                  /\ f.name \in DOMAIN got <=> f.name \in DOMAIN msg
                  /\ f.name \in DOMAIN got => got[f.name] = msg[f.name]
<1> DEFINE fs == AllOf(types[target])
           L == Len(t.dynamic)
           loop == Filler(t, data)
           set(v, f) == SetField(t.types, t.fields, v, f, Render(f.value, data),
                                 BuildMessage(t.types))
<1>0. L \in Nat /\ Elements(t.dynamic) = { f \in fs : Role(f) = "dynamic" }
  BY DEF Describes
<1>1. PICK a : Run(loop, t.dynamic, msg, L, a) /\ Fill(t, msg, data) = a[L]
  BY <1>0, FillerRuns
<1>2. \A v, f : LoopStep(loop, v, f) = set(v, f)
  BY DEF LoopStep, Filler
<1>3. \A v, f : IF FilledIn(t, data, f).res = "ok"
                THEN set(v, f) = Ok(Put(t.fields, v, f, FilledIn(t, data, f).val))
                ELSE set(v, f) = FilledIn(t, data, f)
  BY SetFieldFails DEF FilledIn
<1> HIDE DEF loop, L, set, fs
<1>4. a[0] = Ok(msg) /\ Succeeds(loop, t.dynamic, L, a)
  BY <1>0, <1>1, RunEnds
<1>5. ASSUME NEW i \in 1..L
      PROVE  /\ FilledIn(t, data, t.dynamic[i]).res = "ok"
             /\ a[i].val = Put(t.fields, a[i - 1].val, t.dynamic[i],
                               FilledIn(t, data, t.dynamic[i]).val)
  <2>1. a[i] = set(a[i - 1].val, t.dynamic[i]) /\ a[i].res = "ok"
    BY <1>2, <1>4 DEF Succeeds
  <2> QED BY <1>3, <2>1 DEF Ok
<1> DEFINE P == { i \in 0..L : Filling(types, target, t, msg, data, i, a[i].val) }
<1>6. 0..L \subseteq P
  <2>1. 0 \in P
    BY <1>0, <1>4 DEF Ok, Filling
  <2>2. ASSUME NEW k \in 0..(L - 1), k \in P PROVE k + 1 \in P
    <3>1. k + 1 \in 1..L /\ k + 1 \in 0..L /\ (k + 1) - 1 = k
      BY <1>0
    <3>2. Filling(types, target, t, msg, data, k, a[k].val)
      BY <2>2
    <3>3. Filling(types, target, t, msg, data, k + 1,
                  Put(t.fields, a[k].val, t.dynamic[k + 1],
                      FilledIn(t, data, t.dynamic[k + 1]).val))
      BY <3>1, <3>2, OneMoreFilled DEF L
    <3>4. a[k + 1].val = Put(t.fields, a[k].val, t.dynamic[k + 1],
                             FilledIn(t, data, t.dynamic[k + 1]).val)
      BY <1>5, <3>1
    <3> QED BY <3>1, <3>3, <3>4
  <2> HIDE DEF P
  <2> QED BY <1>0, <2>1, <2>2, StepByStep
<1>7. Filling(types, target, t, msg, data, L, Fill(t, msg, data).val)
  BY <1>0, <1>1, <1>6
<1>8. \A f \in fs : Role(f) = "dynamic" => \E k \in 1..L : t.dynamic[k] = f
  BY <1>0 DEF Elements, L
<1> QED BY <1>5, <1>7, <1>8 DEF Filling, fs

(* A template's message has the fields of the target that are in no oneof as *)
(* they were built, the templated ones with what is printed (template.go     *)
(* 119-142, 184-186).                                                        *)
LEMMA GeneratedFields ==
  ASSUME NEW types, NEW target, NEW t, Describes(types, target, t), NEW data,
         NEW made, made = IF IsStatic(t) THEN Ok(t.static) ELSE Fill(t, t.static, data),
         made.res = "ok", NEW f \in AllOf(types[target]), f.oneof = 0
  PROVE  /\ Role(f) = "static" => /\ Built(types, f).res = "ok"
                                  /\ Has(made.val, f, Built(types, f).val)
         /\ Role(f) = "dynamic" => /\ FilledIn(t, data, f).res = "ok"
                                   /\ Has(made.val, f, FilledIn(t, data, f).val)
<1>1. Role(f) = "static" => Built(types, f).res = "ok" /\ Has(t.static, f, Built(types, f).val)
  BY DEF Describes
<1>2. CASE IsStatic(t)
  <2>1. Role(f) = "static" /\ made.val = t.static
    BY <1>2 DEF Describes, Ok
  <2> QED BY <1>1, <2>1
<1>3. CASE ~IsStatic(t)
  <2>1. made = Fill(t, t.static, data)
    BY <1>3
  <2>2. Role(f) = "dynamic" => FilledIn(t, data, f).res = "ok" /\ Has(made.val, f, FilledIn(t, data, f).val)
    BY <2>1, Filled
  <2>3. Role(f) = "static" => /\ f.name \in DOMAIN made.val <=> f.name \in DOMAIN t.static
                              /\ f.name \in DOMAIN made.val => made.val[f.name] = t.static[f.name]
    BY <2>1, Filled
  <2> QED BY <1>1, <2>2, <2>3 DEF Has
<1> QED BY <1>2, <1>3

(* A value that is only a template reads as what it prints (template.go      *)
(* 124-133).                                                                 *)
LEMMA AloneReads ==
  ASSUME NEW v, v.shape = "alone", NEW data
  PROVE  LET text == Printing(v, data)
         IN  /\ IsEmpty(text) => Render(v, data).form = "empty"
             /\ ~IsEmpty(text) => Render(v, data).form = "plain" /\ Render(v, data).text = text
BY DEF Render, Printing, IsEmpty

(* A list of a template reads as a list of what it prints (template.go       *)
(* 124-133).                                                                 *)
LEMMA ListReads ==
  ASSUME NEW v, v.shape = "list", NEW data
  PROVE  LET text == Printing(v, data)
         IN  /\ Render(v, data).form = "list"
             /\ IsEmpty(text) /\ ~v.quoted => Render(v, data).items = << >>
             /\ (v.quoted \/ text \notin DOMAIN Numeral) /\ ~(IsEmpty(text) /\ ~v.quoted) =>
                  Render(v, data).items = << [form |-> "plain", text |-> text] >>
<1> DEFINE text == Printing(v, data)
<1>1. Render(v, data) =
        [form |-> "list", items |-> IF IsEmpty(text) /\ ~v.quoted THEN << >>
                                    ELSE << Item(v.quoted, text, "plain") >>]
  BY DEF Render, IsEmpty
<1>2. v.quoted \/ text \notin DOMAIN Numeral =>
        Item(v.quoted, text, "plain") = [form |-> "plain", text |-> text]
  BY DEF Item
<1> HIDE DEF text
<1> QED BY <1>1, <1>2 DEF text

(* The empty text says the zero of a plain field. *)
LEMMA EmptySaysZero ==
  ASSUME NEW f, f.kind \in {"text", "number"}, NEW text, IsEmpty(text)
  PROVE  Says(f, text) = {Zero(f.kind)}
BY DEF Says, Zero, IsEmpty

(* A plain field that is templated gets what is printed (template.go         *)
(* 119-142, definer.go 264-301).                                             *)
LEMMA PlainFilled ==
  ASSUME NEW types, NEW f, FieldType(types, f), PlainField(f), f.value.form = "template",
         NEW t, NEW data, FilledIn(t, data, f).res = "ok",
         Says(f, Printing(f.value, data)) # {}
  PROVE  FilledIn(t, data, f).val \in Says(f, Printing(f.value, data))
<1> DEFINE text == Printing(f.value, data)
           v == Render(f.value, data)
           made == FilledIn(t, data, f)
<1>1. f.label = "one" /\ f.kind \in {"text", "number"} /\ f.kind # "message"
  BY DEF PlainField
<1>2. f.value.shape = "alone"
  BY <1>1 DEF FieldType
<1>3. /\ IsEmpty(text) => v.form = "empty"
      /\ ~IsEmpty(text) => v.form = "plain" /\ v.text = text
  BY <1>2, AloneReads
<1>4. made = BuildValue(t.types, f, v, BuildMessage(t.types))
  BY DEF FilledIn
<1> HIDE DEF text, v, made
<1>5. CASE IsEmpty(text)
  <2>1. made = Ok(Zero(f.kind))
    BY <1>1, <1>3, <1>4, <1>5 DEF BuildValue
  <2>2. Says(f, text) = {Zero(f.kind)}
    BY <1>1, <1>5, EmptySaysZero
  <2> QED BY <2>1, <2>2 DEF Ok, text, made
<1>6. CASE ~IsEmpty(text)
  <2>1. made = ParseScalar(f.kind, text)
    BY <1>1, <1>3, <1>4, <1>6 DEF BuildValue
  <2>2. ParseScalar(f.kind, text).res = "ok"
    BY <2>1 DEF made
  <2>3. Says(f, text) \subseteq {made.val}
    BY <1>1, <1>6, <2>1, <2>2, SaidIsRead
  <2> QED BY <2>3 DEF text, made
<1> QED BY <1>5, <1>6

(* A list of texts that is a template gets what is printed as its one item,  *)
(* or no item when nothing is printed and there are no quotes, unless a      *)
(* numeral is printed without them, or fails (template.go 119-142,           *)
(* definer.go 369-381, 412-424).                                             *)
LEMMA ListFilled ==
  ASSUME NEW types, NEW f, FieldType(types, f), f.kind = "text",
         f.value.form = "template", f.value.shape = "list",
         NEW t, NEW data, FilledIn(t, data, f).res = "ok",
         f.value.quoted \/ Printing(f.value, data) \notin DOMAIN Numeral
  PROVE  /\ f.oneof = 0 /\ f.label # "one"
         /\ IF IsEmpty(Printing(f.value, data)) /\ ~f.value.quoted
            THEN Unset(f, FilledIn(t, data, f).val)
            ELSE /\ FilledIn(t, data, f).val = << Printing(f.value, data) >>
                 /\ ~Unset(f, FilledIn(t, data, f).val)
<1> DEFINE text == Printing(f.value, data)
           item == [form |-> "plain", text |-> text]
           v == Render(f.value, data)
           made == FilledIn(t, data, f)
           none == IsEmpty(text) /\ ~f.value.quoted
<1>1. f.label \in {"repeated", "map"} /\ f.oneof = 0 /\ f.kind # "message" /\ f.label # "one"
  BY DEF FieldType
<1>2. v.form = "list" /\ (none => v.items = << >>) /\ (~none => v.items = << item >>)
  BY ListReads
<1>3. made = BuildValue(t.types, f, v, BuildMessage(t.types))
  BY DEF FilledIn
<1>4. made.res = "ok"
  OBVIOUS
<1> HIDE DEF item, v, made, none
<1>6. f.label = "repeated"
  <2>1. f.label = "map" => made = Fail("error")
    BY <1>2, <1>3 DEF BuildValue, BuildMap
  <2> QED BY <1>1, <1>4, <2>1 DEF Fail
<1>7. made = All([i \in DOMAIN v.items |->
                    IF Casts("text", v.items[i]) THEN Ok(Cast("text", v.items[i])) ELSE Fail("panic")])
  <2>1. made = BuildRepeated(t.types, f, v)
    BY <1>2, <1>3, <1>6 DEF BuildValue
  <2> QED BY <1>1, <1>2, <2>1 DEF BuildRepeated
<1> DEFINE S == [i \in DOMAIN v.items |->
                   IF Casts("text", v.items[i]) THEN Ok(Cast("text", v.items[i])) ELSE Fail("panic")]
<1>8. made.val = [i \in DOMAIN v.items |-> S[i].val]
  <2>1. DOMAIN S = DOMAIN v.items
    OBVIOUS
  <2> HIDE DEF S
  <2>2. made = All(S)
    BY <1>7 DEF S
  <2>3. made = Ok([i \in DOMAIN S |-> S[i].val])
    BY <1>4, <2>2 DEF All, Fail
  <2> QED BY <2>1, <2>3 DEF Ok
<1>9. CASE none
  <2>1. DOMAIN v.items = {}
    BY <1>2, <1>9
  <2>2. DOMAIN made.val = {}
    BY <1>8, <2>1
  <2>3. Unset(f, made.val)
    BY <1>1, <2>2 DEF Unset
  <2> QED BY <1>1, <1>9, <2>3 DEF made, none, text
<1>10. CASE ~none
  <2>1. DOMAIN v.items = {1} /\ v.items[1] = item
    BY <1>2, <1>10
  <2>2. S[1] = Ok(text)
    <3>1. Casts("text", item) /\ Cast("text", item) = text
      BY DEF Casts, Cast, IsText, item
    <3> QED BY <2>1, <3>1
  <2>3. S[1].val = text
    BY <2>2 DEF Ok
  <2> HIDE DEF S, text
  <2>4. made.val = [i \in {1} |-> text]
    BY <1>8, <2>1, <2>3
  <2>5. made.val = << text >> /\ DOMAIN made.val # {}
    BY <2>4
  <2>6. ~Unset(f, made.val)
    BY <1>1, <2>5 DEF Unset
  <2> QED BY <1>1, <1>10, <2>5, <2>6 DEF made, none, text
<1> QED BY <1>9, <1>10

(* A plain field has no value in a message when it is at its zero. *)
LEMMA PlainUnset ==
  ASSUME NEW f, PlainField(f), NEW val
  PROVE  Unset(f, val) <=> val = Zero(f.kind)
<1>1. f.label = "one" /\ f.kind \in {"text", "number"} /\ f.oneof = 0 /\ f.kind # "message"
  BY DEF PlainField
<1> QED BY <1>1 DEF Unset

(* A message has in a field what its text says. *)
Tells(msg, f, text) ==
  LET got == Get(f, [fields |-> msg])
  IN  /\ (PlainField(f) /\ f.matcher.form = "none" /\ Says(f, text) # {}) => got \in Says(f, text)
      /\ ( /\ f.value.form = "template" /\ f.value.shape = "list" /\ f.kind = "text"
           /\ f.value.quoted \/ text \notin DOMAIN Numeral ) =>
           got = IF f.value.quoted \/ ~IsEmpty(text) THEN << text >> ELSE << >>

(* What is read of a field of a generated message is what the snippet says   *)
(* with what is printed: the value of a plain field, the item of a list of   *)
(* texts (template.go 119-142, 184-186, definer.go 89-136, 264-381).         *)
LEMMA FieldSent ==
  ASSUME NEW types, NEW target, NEW t, Describes(types, target, t), NEW data,
         NEW made, made = IF IsStatic(t) THEN Ok(t.static) ELSE Fill(t, t.static, data),
         made.res = "ok", NEW f \in AllOf(types[target]), NEW text,
         f.value.form = "template" => text = Printing(f.value, data),
         f.value.form = "plain" => text = f.value.text,
         f.value.form \notin {"template", "plain"} => IsEmpty(text)
  PROVE  Tells(made.val, f, text)
<1> DEFINE m == [fields |-> made.val]
           got == Get(f, m)
<1>1. FieldType(types, f) /\ Role(f) \in {"static", "dynamic", "matcher"}
  BY DEF Describes
<1>2. m.fields = made.val
  OBVIOUS
<1>3. f.value.form = "template" => Role(f) = "dynamic"
  BY DEF Role
<1>4. f.oneof = 0 =>
        /\ Role(f) = "static" => /\ Built(types, f).res = "ok"
                                 /\ Has(made.val, f, Built(types, f).val)
        /\ Role(f) = "dynamic" => /\ FilledIn(t, data, f).res = "ok"
                                  /\ Has(made.val, f, FilledIn(t, data, f).val)
  BY GeneratedFields
<1> HIDE DEF m
<1>5. ASSUME PlainField(f), f.matcher.form = "none", Says(f, text) # {}
      PROVE  got \in Says(f, text)
  <2>1. f.label = "one" /\ f.kind \in {"text", "number"} /\ f.oneof = 0 /\ f.kind # "message"
    BY <1>5 DEF PlainField
  <2>2. f.value.form \in {"empty", "plain", "template"}
    BY <1>1, <2>1 DEF FieldType, Role
  <2>3. ASSUME NEW val, Has(made.val, f, val) PROVE got = val
    <3>1. Unset(f, val) <=> val = Zero(f.kind)
      BY <1>5, PlainUnset
    <3>2. got = IF f.name \in DOMAIN made.val THEN made.val[f.name] ELSE Zero(f.kind)
      BY <1>2, <2>1 DEF Get
    <3> QED BY <2>3, <3>1, <3>2 DEF Has
  <2> HIDE DEF got
  <2>4. CASE f.value.form = "template"
    <3>1. FilledIn(t, data, f).res = "ok" /\ got = FilledIn(t, data, f).val
      BY <1>3, <1>4, <2>1, <2>3, <2>4
    <3> QED BY <1>1, <1>5, <2>4, <3>1, PlainFilled
  <2>5. CASE f.value.form # "template"
    <3>1. Role(f) = "static"
      BY <1>1, <1>5, <2>2, <2>5 DEF Role
    <3>2. Built(types, f).res = "ok" /\ got = Built(types, f).val
      BY <1>4, <2>1, <2>3, <3>1
    <3>3. /\ f.value.form = "empty" => Built(types, f).val = Zero(f.kind)
          /\ f.value.form = "plain" /\ Says(f, f.value.text) # {} =>
               \A val : val \in Says(f, f.value.text) <=> val = Built(types, f).val
      BY <1>1, <1>5, <2>2, <2>5, <3>2, PlainValue
    <3>4. CASE f.value.form = "plain"
      BY <1>5, <3>2, <3>3, <3>4
    <3>5. CASE f.value.form = "empty"
      <4>1. Says(f, text) = {Zero(f.kind)}
        BY <2>1, <3>5, EmptySaysZero
      <4> QED BY <3>2, <3>3, <3>5, <4>1
    <3> QED BY <2>2, <2>5, <3>4, <3>5
  <2> QED BY <2>2, <2>4, <2>5
<1>6. ASSUME f.value.form = "template", f.value.shape = "list", f.kind = "text",
             f.value.quoted \/ text \notin DOMAIN Numeral
      PROVE  got = IF f.value.quoted \/ ~IsEmpty(text) THEN << text >> ELSE << >>
  <2>1. f.oneof = 0
    <3>1. f.label # "one"
      BY <1>1, <1>6 DEF FieldType
    <3> QED BY <1>1, <3>1 DEF FieldType
  <2>2. FilledIn(t, data, f).res = "ok" /\ Has(made.val, f, FilledIn(t, data, f).val)
    BY <1>3, <1>4, <1>6, <2>1
  <2>3. /\ f.label # "one"
        /\ IF IsEmpty(text) /\ ~f.value.quoted
           THEN Unset(f, FilledIn(t, data, f).val)
           ELSE /\ FilledIn(t, data, f).val = << text >>
                /\ ~Unset(f, FilledIn(t, data, f).val)
    BY <1>1, <1>6, <2>2, ListFilled
  <2> QED BY <1>2, <1>6, <2>2, <2>3 DEF Has, Get
<1> QED BY <1>5, <1>6 DEF Tells, m

(* What templates print is what the first message of the call tells, by the  *)
(* fields of the matching snippet (template.go 144-172, proxy.go 190-203).   *)
LEMMA DataIsTold ==
  ASSUME IInv, Outcome, rule # {}, NEW c \in Call,
         Data(Rule, first[c]).res = "ok", NEW v
  PROVE  Printing(v, Data(Rule, first[c]).val) = Told(c, v.of)
<1> DEFINE name == v.of
           data == Data(Rule, first[c])
<1>1. config \in DOMAIN Config /\ (Rule.match = {} <=> Configured.match = {})
  BY DEF IInv, Typed, TypeOK, Loaded, RuleFrom
<1>2. CASE first[c] = {} \/ Rule.match = {}
  <2>1. data.val = << >>
    BY <1>2 DEF Data, Ok
  <2>2. Printing(v, data.val) = NoValue
    BY <2>1 DEF Printing
  <2>3. ~\E f \in Fields(Configured.match), m \in first[c] : f.name = name
    BY <1>1, <1>2 DEF Fields
  <2> QED BY <2>2, <2>3 DEF Told
<1>3. CASE first[c] # {} /\ Rule.match # {}
  <2> DEFINE t == The(Rule.match)
             m == The(first[c])
  <2>1. PICK s \in Configured.match : TRUE
    BY <1>1, <1>3
  <2> DEFINE target == The(FindTarget(s))
             fs == AllOf(s.types[target])
  <2>2. Describes(s.types, target, t) /\ Fields(Configured.match) = fs
    BY <1>1, <2>1, MatchBuilt DEF Outcome, Configured
  <2>3. data = DataMap(t, m) /\ data.res = "ok"
    BY <1>3 DEF Data
  <2> HIDE DEF t, m, target, data
  <2>4. data.val = [n \in Names(t.fields) |-> Printed(t.fields[FieldNamed(t.fields, n)],
                                                      Get(t.fields[FieldNamed(t.fields, n)], m))]
    BY <2>3 DEF DataMap, Ok, Fail
  <2>5. /\ Names(t.fields) = { f.name : f \in fs }
        /\ \A f \in fs : t.fields[FieldNamed(t.fields, f.name)] = f
        /\ \A f, g \in fs : f.name = g.name => f = g
    BY <2>2 DEF Describes
  <2> HIDE DEF fs
  <2>6. CASE \E f \in fs : f.name = name
    <3>1. PICK f \in fs : f.name = name
      BY <2>6
    <3>2. Printing(v, data.val) = Printed(f, Get(f, m))
      BY <2>4, <2>5, <3>1 DEF Printing
    <3>3. (CHOOSE g \in Fields(Configured.match) : g.name = name) = f
      <4>1. \A g \in fs : g.name = name <=> g = f
        BY <2>5, <3>1
      <4> QED BY <2>2, <3>1, <4>1
    <3>4. \E g \in Fields(Configured.match), x \in first[c] : g.name = name
      BY <1>3, <2>2, <3>1
    <3>5. Told(c, name) = Printed(f, Get(f, m))
      BY <3>3, <3>4 DEF Told, m
    <3> QED BY <3>2, <3>5 DEF data
  <2>7. CASE ~\E f \in fs : f.name = name
    <3>1. Printing(v, data.val) = NoValue
      BY <2>4, <2>5, <2>7 DEF Printing
    <3>2. ~\E g \in Fields(Configured.match), x \in first[c] : g.name = name
      BY <2>2, <2>7
    <3>3. Told(c, name) = NoValue
      BY <3>2 DEF Told
    <3> QED BY <3>1, <3>3 DEF data
  <2> QED BY <2>6, <2>7
<1> QED BY <1>2, <1>3

(* What was sent is what Generate makes of the call's own first message.     *)
SentMade(c) ==
  sent[c] # << >> =>
    rule # {} /\ Made(c).res = "ok" /\ sent[c][1] = Made(c).val

(* Nothing is sent at first. *)
LEMMA InitSent == Init => \A c \in Call : SentMade(c)
BY DEF Init, SentMade

(* A call that does not send keeps what it has sent, and its first message.  *)
LEMMA StillSent ==
  ASSUME NEW c \in Call, SentMade(c), rule # {} => rule' = rule, sent'[c] = sent[c],
         sent[c] # << >> => first'[c] = first[c]
  PROVE  SentMade(c)'
BY DEF SentMade, Made, Rule, MockOf

(* A call sends what was generated for it (proxy.go 205-220).                *)
LEMMA SendSends ==
  ASSUME IInv, Objects, NEW c \in Call, Send(c)
  PROVE  SentMade(c)'
<1>1. at[c] = "send" /\ rule # {} /\ rule' = rule /\ first' = first /\ proc = "serving"
  BY DEF Send, Live, procVars, IInv, Typed, TypeOK
<1>2. Made(c).res = "ok" /\ Made(c).val = heap[reply[c]]
  BY <1>1 DEF Objects, Holds
<1>3. sent[c] = << >> /\ sent'[c] \in {<< >>, Append(sent[c], heap[reply[c]])}
  BY <1>1 DEF Send, IInv, Typed, CallInv, Sent
<1>4. Append(<< >>, heap[reply[c]])[1] = heap[reply[c]]
  OBVIOUS
<1>5. Rule' = Rule /\ MockOf' = MockOf /\ Made(c)' = Made(c)
  BY <1>1 DEF Rule, MockOf, Made
<1> QED BY <1>1, <1>2, <1>3, <1>4, <1>5 DEF SentMade

(* Every step keeps what is sent. *)
LEMMA StepSent ==
  IInv /\ Objects /\ (\A c \in Call : SentMade(c)) /\ [Next]_vars => (\A c \in Call : SentMade(c))'
<1> SUFFICES ASSUME IInv, Objects, \A c \in Call : SentMade(c), [Next]_vars, NEW d \in Call
             PROVE  SentMade(d)'
  OBVIOUS
<1>1. CASE Load \/ UNCHANGED vars
  <2>1. first' = first /\ sent' = sent /\ (rule # {} => rule' = rule)
    BY <1>1 DEF Load, IInv, Typed, TypeOK, vars, procVars
  <2> QED BY <2>1, StillSent
<1>2. ASSUME NEW c \in Call, Offer(c) \/ HalfClose(c) \/ Leave(c) \/ Handle(c) PROVE SentMade(d)'
  <2>1. CASE c = d /\ Send(c)
    BY <2>1, SendSends
  <2>2. CASE ~(c = d /\ Send(c))
    <3>1. rule' = rule
      BY <1>2 DEF Offer, HalfClose, Leave, Handle, MatchAtOnce, MatchFirst, MatchFails, WaitOver,
           WaitCanceled, RespondStatus, RespondBody, Send, SendFails, Drain, DrainEnds,
           DrainFails, procVars
    <3>2. sent'[d] = sent[d]
      <4>1. CASE c # d
        BY <1>2, <4>1, OthersStay DEF IInv
      <4>2. CASE c = d
        <5>1. sent' = sent
          BY <1>2, <2>2, <4>2 DEF Offer, HalfClose, Leave, Handle, MatchAtOnce, MatchFirst,
             MatchFails, WaitOver, WaitCanceled, RespondStatus, RespondBody, SendFails, Drain,
             DrainEnds, DrainFails
        <5> QED BY <5>1
      <4> QED BY <4>1, <4>2
    <3>3. sent[d] # << >> => first'[d] = first[d]
      <4>1. \/ first' = first
            \/ at[c] = "new" /\ \E m : first' = [first EXCEPT ![c] = {m}]
        BY <1>2 DEF Offer, HalfClose, Leave, Handle, MatchAtOnce, MatchFirst, MatchFails, WaitOver,
             WaitCanceled, RespondStatus, RespondBody, Send, SendFails, Drain, DrainEnds,
             DrainFails
      <4>2. sent[d] # << >> => at[d] # "new"
        BY DEF IInv, CallInv, Sent
      <4> QED BY <4>1, <4>2 DEF IInv, Typed
    <3> QED BY <3>1, <3>2, <3>3, StillSent
  <2> QED BY <2>1, <2>2
<1> QED BY <1>1, <1>2 DEF Next

(* A mock sends what its snippet says, with the values of the call's own     *)
(* first message in its templates (template.go 119-186, proxy.go 190-220,    *)
(* definer.go 42-136).                                                       *)
THEOREM SendsAsConfigured == Spec => []SentAsConfigured
<1>1. IInv /\ Outcome /\ (\A c \in Call : SentMade(c)) => SentAsConfigured
  <2> SUFFICES ASSUME IInv, Outcome, \A c \in Call : SentMade(c),
                      NEW c \in Call, NEW r \in Configured.respond, sent[c] # << >>,
                      NEW f \in Fields(r.body)
               PROVE  SentAsConfigured!(c, r)!2!(f)
    BY DEF SentAsConfigured
  <2> DEFINE text == CASE f.value.form = "template" -> Told(c, f.value.of)
                       [] f.value.form = "plain" -> f.value.text
                       [] OTHER -> ""
             made == Made(c)
             body == The(MockOf.body)
             read == Data(Rule, first[c])
  <2>1. rule # {} /\ made.res = "ok" /\ sent[c][1] = made.val
    BY DEF SentMade
  <2>2. config \in DOMAIN Config
    BY DEF IInv, Typed, TypeOK
  <2>3. PICK s \in r.body : f \in Fields({s})
    BY DEF Fields
  <2>4. BuildTarget(s).res = "ok" /\ body = BuildTarget(s).val
    BY <2>1, <2>2, <2>3, RuleBuilt DEF Outcome, Configured, MockOf
  <2>5. SnippetType(s)
    BY <2>2, <2>3, ConfigAssumption DEF Configured
  <2> DEFINE target == The(FindTarget(s))
  <2>6. Describes(s.types, target, body) /\ f \in AllOf(s.types[target])
    BY <2>3, <2>4, <2>5, SnippetDescribed DEF Fields, Target, AllOf
  <2>7. read.res = "ok" /\ made = IF IsStatic(body) THEN Ok(body.static)
                                  ELSE Fill(body, body.static, read.val)
    <3>1. made = Then(read, LAMBDA d : IF IsStatic(body) THEN Ok(body.static)
                                       ELSE Fill(body, body.static, d))
      BY DEF Made, Generate, MockOf
    <3> HIDE DEF made, read, body
    <3> QED BY <2>1, <3>1 DEF Then
  <2>8. /\ f.value.form = "template" => text = Printing(f.value, read.val)
        /\ f.value.form = "plain" => text = f.value.text
        /\ f.value.form \notin {"template", "plain"} => IsEmpty(text)
    <3>1. Told(c, f.value.of) = Printing(f.value, read.val)
      BY <2>1, <2>7, DataIsTold
    <3> HIDE DEF read
    <3> QED BY <3>1 DEF IsEmpty
  <2> HIDE DEF text, made, body, read, target
  <2>9. Tells(made.val, f, text)
    BY <2>1, <2>6, <2>7, <2>8, FieldSent
  <2> QED BY <2>1, <2>9 DEF Tells, text, IsEmpty
<1> QED BY InitIInv, StepIInv, InitOutcome, StepOutcome, InitObjects, StepObjects, InitSent, StepSent,
           <1>1, PTL DEF Spec
=============================================================================
