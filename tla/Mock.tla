-------------------------------- MODULE Mock --------------------------------
(***************************************************************************)
(* A rule that responds by itself, from the configuration to the answered  *)
(* calls: parseRule and parseRespond (pkg/discovery/fileprovider/file.go), *)
(* then for every call the match and mock middlewares (pkg/proxy/proxy.go) *)
(* inside Recoverer (pkg/proxy/middleware/middleware.go), with the message *)
(* templates of Protodef.  Calls share the templates of the rule: the      *)
(* message a template generates is an object in `heap`.                    *)
(***************************************************************************)
EXTENDS Protodef

CONSTANTS
  Call,
  Config,    \* rules as configured, by name
  Calls,     \* the calls made under each
  Incoming,  \* the messages their clients may send first
  MaxUnread  \* bound on the messages of a client the server has not read

(* The ends of a call that are not a status of the configuration; "ok" is    *)
(* both what a handler returns and a code that may be configured.            *)
OwnEnd == {"none", "unmatched", "unread", "canceled", "empty mock", "ungenerated",
           "panic", "unsent", "undrained"}

(* A rule as configured: whether its regexps are there and compile, the body *)
(* snippet it matches, if any, whether it forwards to a known or unknown     *)
(* upstream, and what it responds, if anything: its wait, its status codes   *)
(* and body snippets (none or one of each), and its metadata: a header and a *)
(* trailer, of which grpc may refuse the header, or none.                    *)
AtMostOne(S) == \A x, y \in S : x = y
RespondType(r) ==
  /\ r.wait \in {"none", "some", "bad"}
  /\ r.md \in {"none", "good", "refused"}
  /\ AtMostOne(r.status) /\ AtMostOne(r.body)
  /\ r.status \intersect OwnEnd = {}

ASSUME ConfigAssumption ==
  /\ MaxUnread \in Nat \ {0}
  /\ "template" \notin Call
  /\ Calls \in [DOMAIN Config -> SUBSET Call]
  /\ DOMAIN Incoming = DOMAIN Config
  /\ \A n \in DOMAIN Config : \A m \in Incoming[n] :
       m.fields = [k \in DOMAIN m.fields |-> m.fields[k]]
  /\ \A n \in DOMAIN Config :
       /\ Config[n].patterns \in {"good", "bad"}
       /\ Config[n].forward \in {"none", "known", "unknown"}
       /\ AtMostOne(Config[n].match) /\ AtMostOne(Config[n].respond)
       /\ \A r \in Config[n].respond : RespondType(r) /\ \A s \in r.body : SnippetType(s)
       /\ \A s \in Config[n].match : SnippetType(s)

VARIABLES
  config,   \* the name of the rule as configured
  proc,     \* "loading", "serving", "refused" (the rule is an error) or "dead"
  rule,     \* the rule in use: none or one
  heap,     \* message objects: the body template's static part, and each call's
  at,       \* where each call is
  first,    \* its first message, if it was read ahead: none or one
  reply,    \* the object it is going to send
  sent,     \* the messages sent to the client
  md,       \* whether its header and its trailer are set
  outcome,  \* what the handler returned
  client,   \* "open", "closed" (for sending) or "gone"
  unread    \* messages of the client that the server has not read

procVars == << config, proc, rule >>
vars == << procVars, heap, at, first, reply, sent, md, outcome, client, unread >>

The(S) == CHOOSE x \in S : TRUE

-----------------------------------------------------------------------------
(* The configuration.                                                        *)

Optional(S, Build(_)) ==
  IF S = {} THEN Ok({}) ELSE Then(Build(The(S)), LAMBDA v : Ok({v}))

\* Mutant: a response without a status and a body is accepted.
ParseRespondEmpty(r) ==
  IF \/ r.wait = "bad" \/ "bad" \in r.status
     \/ r.status # {} /\ r.body # {}
  THEN Fail("error")
  ELSE Then(Optional(r.body, BuildTarget),
            LAMBDA body : Ok([wait |-> r.wait = "some", md |-> r.md,
                              status |-> r.status, body |-> body]))

(* File.parseRespond *)
ParseRespond(r) ==
  IF \/ r.wait = "bad" \/ "bad" \in r.status
     \/ (r.status = {}) = (r.body = {})
  THEN Fail("error")
  ELSE Then(Optional(r.body, BuildTarget),
            LAMBDA body : Ok([wait |-> r.wait = "some", md |-> r.md,
                              status |-> r.status, body |-> body]))

(* File.parseRule *)
ParseRule(c) ==
  LET Rest(match) ==
        Then(Optional(c.respond, ParseRespond),
             LAMBDA mock : IF (mock # {}) = (c.forward = "known") THEN Fail("error")
                           ELSE Ok([match |-> match, mock |-> mock]))
  IN  IF c.patterns = "bad" THEN Fail("error")
      ELSE Then(Optional(c.match, BuildTarget),
                LAMBDA match : IF c.forward = "unknown" THEN Fail("error") ELSE Rest(match))

Rule == The(rule)
MockOf == The(Rule.mock)

Init ==
  /\ config \in DOMAIN Config
  /\ proc = "loading"
  /\ rule = {}
  /\ heap = [o \in Call \union {"template"} |-> NoFields]
  /\ at = [c \in Call |-> "new"]
  /\ first = [c \in Call |-> {}]
  /\ reply = [c \in Call |-> c]
  /\ sent = [c \in Call |-> << >>]
  /\ md = [c \in Call |-> [header |-> FALSE, trailer |-> FALSE]]
  /\ outcome = [c \in Call |-> "none"]
  /\ client = [c \in Call |-> "open"]
  /\ unread = [c \in Call |-> 0]

(* Rules are parsed in Discovery's Run, where nothing recovers a panic. *)
Load ==
  /\ proc = "loading"
  /\ \E parsed \in {ParseRule(Config[config])} :
       IF parsed.res = "ok"
       THEN /\ proc' = "serving"
            /\ rule' = {parsed.val}
            /\ LET bodies == UNION { m.body : m \in parsed.val.mock }
               IN  heap' = IF bodies = {} THEN heap
                           ELSE [heap EXCEPT !["template"] = The(bodies).static]
       ELSE /\ proc' = IF parsed.res = "error" THEN "refused" ELSE "dead"
            /\ UNCHANGED << rule, heap >>
  /\ UNCHANGED << config, at, first, reply, sent, md, outcome, client, unread >>

-----------------------------------------------------------------------------
(* Clients.                                                                  *)

Live(c) == proc = "serving" /\ at[c] # "done" /\ c \in Calls[config]

Offer(c) ==
  /\ Live(c) /\ client[c] = "open" /\ unread[c] < MaxUnread
  /\ unread' = [unread EXCEPT ![c] = @ + 1]
  /\ UNCHANGED << procVars, heap, at, first, reply, sent, md, outcome, client >>

HalfClose(c) ==
  /\ Live(c) /\ client[c] = "open"
  /\ client' = [client EXCEPT ![c] = "closed"]
  /\ UNCHANGED << procVars, heap, at, first, reply, sent, md, outcome, unread >>

(* The client cancels or its connection breaks: the context is done. *)
Leave(c) ==
  /\ Live(c) /\ client[c] # "gone"
  /\ client' = [client EXCEPT ![c] = "gone"]
  /\ UNCHANGED << procVars, heap, at, first, reply, sent, md, outcome, unread >>

-----------------------------------------------------------------------------
(* The handler.                                                              *)

(* The handler of c returns. *)
Finish(c, how) ==
  /\ at' = [at EXCEPT ![c] = "done"]
  /\ outcome' = [outcome EXCEPT ![c] = how]

(* Where a call goes that was matched to the rule: on to the forward         *)
(* middleware when the rule has no mock, and first to wait when it says so.  *)
Matched == IF Rule.mock = {} THEN "forward" ELSE IF MockOf.wait THEN "wait" ELSE "respond"

(* matchMiddleware for a rule without a body: nothing is read. *)
MatchAtOnce(c) ==
  /\ Live(c) /\ at[c] = "new" /\ Rule.match = {}
  /\ at' = [at EXCEPT ![c] = Matched]
  /\ UNCHANGED << procVars, heap, first, reply, sent, md, outcome, client, unread >>

(* matchMiddleware reads the first message and matches it; noMatchHandler    *)
(* ends a call that does not match.                                          *)
MatchFirst(c) ==
  /\ Live(c) /\ at[c] = "new" /\ Rule.match # {} /\ unread[c] > 0
  /\ unread' = [unread EXCEPT ![c] = @ - 1]
  /\ \E m \in Incoming[config] :
       /\ first' = [first EXCEPT ![c] = {m}]
       /\ IF TemplateMatches(The(Rule.match), m)
          THEN at' = [at EXCEPT ![c] = Matched] /\ UNCHANGED outcome
          ELSE Finish(c, "unmatched")
  /\ UNCHANGED << procVars, heap, reply, sent, md, client >>

(* RecvMsg fails: there is no client, no message, or the message is larger   *)
(* than grpc-go receives.                                                    *)
MatchFails(c) ==
  /\ Live(c) /\ at[c] = "new" /\ Rule.match # {}
  /\ client[c] \in {"gone", "closed"} \/ unread[c] > 0
  /\ Finish(c, "unread")
  /\ UNCHANGED << procVars, heap, first, reply, sent, md, client, unread >>

WaitOver(c) ==
  /\ Live(c) /\ at[c] = "wait"
  /\ at' = [at EXCEPT ![c] = "respond"]
  /\ UNCHANGED << procVars, heap, first, reply, sent, md, outcome, client, unread >>

WaitCanceled(c) ==
  /\ Live(c) /\ at[c] = "wait" /\ client[c] = "gone"
  /\ Finish(c, "canceled")
  /\ UNCHANGED << procVars, heap, first, reply, sent, md, client, unread >>

(* SetHeader and SetTrailer.  A header that is refused, or is set for a      *)
(* client that has gone, is logged and left out.                             *)
SetMetadata(c) ==
  \E header \in IF MockOf.md # "good" THEN {FALSE}
                 ELSE IF client[c] = "gone" THEN BOOLEAN ELSE {TRUE} :
    md' = [md EXCEPT ![c] = [header |-> header, trailer |-> MockOf.md # "none"]]

RespondStatus(c) ==
  /\ Live(c) /\ at[c] = "respond" /\ MockOf.body = {}
  /\ SetMetadata(c)
  /\ Finish(c, IF MockOf.status = {} THEN "empty mock" ELSE The(MockOf.status))
  /\ UNCHANGED << procVars, heap, first, reply, sent, client, unread >>

(* The data of a body template: the first message M, read by the template    *)
(* the rule matched it with.                                                 *)
Data(r, M) == IF M = {} \/ r.match = {} THEN Ok(<< >>) ELSE DataMap(The(r.match), The(M))

(* DataMap and Generate of a rule that responds with a body: the message to  *)
(* send, or a failure.                                                       *)
Generate(r, M) ==
  LET body == The(The(r.mock).body)
  IN  Then(Data(r, M), LAMBDA data : IF IsStatic(body) THEN Ok(body.static)
                                     ELSE Fill(body, body.static, data))

\* Mutant: Generate sets the templated fields in the template's own message.
ObjectShared(body, c) == "template"

(* The object Generate returns: a static template gives its own message,     *)
(* the other a new one.                                                      *)
Object(body, c) == IF IsStatic(body) THEN "template" ELSE c

\* Mutant: there is no Recoverer.
NoRecoverer(c) == proc' = "dead" /\ UNCHANGED << at, outcome >>

(* Recoverer turns a panic of the handler into a status. *)
Recoverer(c) == Finish(c, "panic") /\ UNCHANGED proc

RespondBody(c) ==
  /\ Live(c) /\ at[c] = "respond" /\ MockOf.body # {}
  /\ SetMetadata(c)
  /\ \E made \in {Generate(Rule, first[c])}, object \in {Object(The(MockOf.body), c)} :
       \/ /\ made.res = "ok"
          /\ heap' = [heap EXCEPT ![object] = made.val]
          /\ reply' = [reply EXCEPT ![c] = object]
          /\ at' = [at EXCEPT ![c] = "send"]
          /\ UNCHANGED << proc, outcome >>
       \/ /\ made.res = "error"
          /\ Finish(c, "ungenerated")
          /\ UNCHANGED << proc, heap, reply >>
       \/ /\ made.res = "panic"
          /\ Recoverer(c)
          /\ UNCHANGED << heap, reply >>
       \/ /\ made.res = "endless"   \* no recover stops a stack overflow
          /\ proc' = "dead"
          /\ UNCHANGED << heap, reply, at, outcome >>
  /\ UNCHANGED << config, rule, first, sent, client, unread >>

\* Mutant: the rest of the stream is read before the message is sent.
SendAfterDrain(c) ==
  /\ Live(c) /\ at[c] = "send" /\ unread[c] = 0 /\ client[c] = "closed"
  /\ at' = [at EXCEPT ![c] = "drain"]
  /\ sent' = [sent EXCEPT ![c] = Append(@, heap[reply[c]])]
  /\ UNCHANGED << procVars, heap, first, reply, md, outcome, client, unread >>

(* SendMsg marshals the object now. *)
Send(c) ==
  /\ Live(c) /\ at[c] = "send"
  /\ at' = [at EXCEPT ![c] = "drain"]
  /\ sent' = IF client[c] = "gone" THEN sent
             ELSE [sent EXCEPT ![c] = Append(@, heap[reply[c]])]
  /\ UNCHANGED << procVars, heap, first, reply, md, outcome, client, unread >>

SendFails(c) ==
  /\ Live(c) /\ at[c] = "send" /\ client[c] = "gone"
  /\ Finish(c, "unsent")
  /\ UNCHANGED << procVars, heap, first, reply, sent, md, client, unread >>

\* Mutant: a read at the end of the stream counts as a message.
DrainPastEnd(c) ==
  /\ Live(c) /\ at[c] = "drain" /\ client[c] # "gone"
  /\ unread' = [unread EXCEPT ![c] = @ - 1]
  /\ UNCHANGED << procVars, heap, at, first, reply, sent, md, outcome, client >>

(* The rest of the stream is read until the client half-closes. *)
Drain(c) ==
  /\ Live(c) /\ at[c] = "drain" /\ unread[c] > 0
  /\ unread' = [unread EXCEPT ![c] = @ - 1]
  /\ UNCHANGED << procVars, heap, at, first, reply, sent, md, outcome, client >>

\* Mutant: the call ends when there is nothing to read for the moment.
DrainedAtOnce(c) == unread[c] = 0 /\ client[c] # "gone"

Drained(c) == unread[c] = 0 /\ client[c] = "closed"

DrainEnds(c) ==
  /\ Live(c) /\ at[c] = "drain" /\ Drained(c)
  /\ Finish(c, "ok")
  /\ UNCHANGED << procVars, heap, first, reply, sent, md, client, unread >>

\* Mutant: an error other than the end of the stream is read past.
DrainRetries(c) ==
  /\ Live(c) /\ at[c] = "drain" /\ client[c] = "gone"
  /\ UNCHANGED vars

(* The client has gone, or its message is larger than grpc-go receives. *)
DrainFails(c) ==
  /\ Live(c) /\ at[c] = "drain"
  /\ client[c] = "gone" \/ unread[c] > 0
  /\ Finish(c, "undrained")
  /\ UNCHANGED << procVars, heap, first, reply, sent, md, client, unread >>

Handle(c) ==
  \/ MatchAtOnce(c) \/ MatchFirst(c) \/ MatchFails(c)
  \/ WaitOver(c) \/ WaitCanceled(c)
  \/ RespondStatus(c) \/ RespondBody(c)
  \/ Send(c) \/ SendFails(c)
  \/ Drain(c) \/ DrainEnds(c) \/ DrainFails(c)

Next ==
  \/ Load
  \/ \E c \in Call : Offer(c) \/ HalfClose(c) \/ Leave(c) \/ Handle(c)

(* The handlers run, and the timer of a wait fires; clients owe nothing. *)
Spec == Init /\ [][Next]_vars /\ \A c \in Call : WF_vars(Handle(c))

-----------------------------------------------------------------------------
TypeOK ==
  /\ config \in DOMAIN Config
  /\ proc \in {"loading", "serving", "refused", "dead"}
  /\ proc = "serving" => rule # {}
  /\ rule # {} => proc \in {"serving", "dead"}
  /\ DOMAIN heap = Call \union {"template"}
  /\ at \in [Call -> {"new", "forward", "wait", "respond", "send", "drain", "done"}]
  /\ \A c \in Call : first[c] \subseteq Incoming[config]
  /\ reply \in [Call -> Call \union {"template"}]
  /\ md \in [Call -> [header : BOOLEAN, trailer : BOOLEAN]]
  /\ client \in [Call -> {"open", "closed", "gone"}]
  /\ unread \in [Call -> 0..MaxUnread]

Configured == Config[config]

(* What the snippets say, read from the options and not as the code does: a  *)
(* field is plain if its value is a scalar it alone decides.                 *)
Target(snippet) == snippet.types[The(FindTarget(snippet))]
Fields(S) == UNION { { Target(s)[i] : i \in DOMAIN Target(s) } : s \in S }
PlainField(f) ==
  f.label = "one" /\ f.kind \in {"text", "number"} /\ f.oneof = 0
Says(f, text) ==
  IF f.kind = "text" THEN {text}
  ELSE IF text = "" THEN {0}
  ELSE { n \in -Half..Half-1 : text \in DOMAIN Numeral /\ Numeral[text] = n }

(* The first message is the call's own, and what is printed of a field is    *)
(* its value there, or its zero; a field the matching snippet does not have  *)
(* prints as NoValue.                                                        *)
Told(c, name) ==
  IF \E f \in Fields(Configured.match), m \in first[c] : f.name = name
  THEN LET f == CHOOSE g \in Fields(Configured.match) : g.name = name
       IN  Printed(f, Get(f, The(first[c])))
  ELSE NoValue

(* A mock sends what its snippet says, with the values of the call's own     *)
(* first message in the templated fields, whatever other calls do with the   *)
(* same template between its Generate and its SendMsg (template.go:119,      *)
(* proxy.go:214-220).  A list that is printed is read again, as YAML: an     *)
(* empty text is an item only between quotes, and a numeral without them is  *)
(* a number, of which nothing is claimed, as of a number that does not fit.  *)
SentAsConfigured ==
  \A c \in Call, r \in Configured.respond : sent[c] # << >> =>
    \A f \in Fields(r.body) :
      LET text == CASE f.value.form = "template" -> Told(c, f.value.of)
                    [] f.value.form = "plain" -> f.value.text
                    [] OTHER -> ""
          got == Get(f, [fields |-> sent[c][1]])
      IN  /\ (PlainField(f) /\ f.matcher.form = "none" /\ Says(f, text) # {}) => got \in Says(f, text)
          /\ ( /\ f.value.form = "template" /\ f.value.shape = "list" /\ f.kind = "text"
               /\ f.value.quoted \/ text \notin DOMAIN Numeral ) =>
               got = IF f.value.quoted \/ text # "" THEN << text >> ELSE << >>

(* A client is sent what was generated from the first message of its own     *)
(* call, although SendMsg encodes the object later than Generate has made it *)
(* and other calls generate from the same template meanwhile                 *)
(* (template.go:119-186, proxy.go:205-220).                                  *)
SendsItsOwn ==
  [][\A c \in Call : sent'[c] # sent[c] =>
       LET made == Generate(Rule, first[c])
       IN  made.res = "ok" /\ sent'[c] = Append(sent[c], made.val)]_vars

(* The rule answers the calls whose first message has the values its snippet *)
(* says (README.md:145): every plain field has its value, is accepted by its *)
(* matcher, or is templated.  And when the snippet has plain fields only, it *)
(* answers all of those calls, provided that, if it has neither matchers nor *)
(* templates, nothing else is in the message, not even a zero, and its       *)
(* encoding is canonical.  Numbers that do not fit are not claimed to match. *)
HasWritten(f, m) ==
  IF f.value.form = "template" THEN TRUE
  ELSE IF f.matcher.form = "expr" THEN Get(f, m) \in f.matcher.accepts
  ELSE IF f.value.form = "plain" THEN Get(f, m) \in Says(f, f.value.text)
  ELSE Get(f, m) = Zero(f.kind)
Fits(f) ==
  PlainField(f) /\ (f.value.form = "plain" /\ f.matcher.form = "none" => Says(f, f.value.text) # {})
MatchedAsWritten ==
  \A c \in Call : \A m \in first[c] :
    LET fs == Fields(Configured.match)
        written == \A f \in fs : Fits(f) => HasWritten(f, m)
        exact == \A f \in fs : f.value.form # "template" /\ f.matcher.form = "none"
        only == \A n \in DOMAIN m.fields : \E f \in fs : f.name = n /\ m.fields[n] # Zero(f.kind)
    IN  /\ outcome[c] # "unmatched" => m.decodes /\ written
        /\ ( /\ m.decodes /\ written
             /\ \A f \in fs : Fits(f)
             /\ exact => m.canonical /\ only ) =>
           outcome[c] # "unmatched"

(* Loading ends unless a message type contains itself, directly or through   *)
(* others, by singular fields without a value, starting from a field that is *)
(* built (definer.go:240, 264-272).                                          *)
Unvalued(f) == f.label = "one" /\ f.kind = "message" /\ f.value.form = "empty"
Contained(types, t) ==
  { types[t][i].type : i \in { j \in DOMAIN types[t] : Unvalued(types[t][j]) } }
Recursive(types, t) ==
  \E C \in SUBSET DOMAIN types :
    t \in C /\ \A u \in C : Contained(types, u) \intersect C # {}
Builds(snippet) ==
  \A f \in Fields({snippet}) :
    (Unvalued(f) /\ f.matcher.form = "none") => ~Recursive(snippet.types, f.type)
Snippets == Configured.match \union UNION { r.body : r \in Configured.respond }
BuildsUnlessRecursive ==
  proc \in {"serving", "refused", "dead"} =>
    /\ proc = "serving" => \A s \in Snippets : Builds(s)
    /\ (proc = "dead" /\ rule = {} /\ \A s \in Snippets : FindTarget(s) # {} /\ Builds(s)) =>
         \E s \in Snippets : \E t \in DOMAIN s.types : \E i \in DOMAIN s.types[t] :
           s.types[t][i].label # "one" /\ s.types[t][i].kind # "message"

(* A rule that was loaded answers: a call is forwarded only if the rule does *)
(* not respond, and of the others every one that was matched has its status  *)
(* or a message, unless its client has left it or a templated field of the   *)
(* body cannot be set (file.go 270-321, proxy.go 165-240).  Its messages are *)
(* read but for one that is too large.                                       *)
LoadedRuleAnswers ==
  \A c \in Call :
    /\ at[c] = "forward" => Configured.forward = "known" /\ Configured.respond = {}
    /\ (at[c] = "done" /\ outcome[c] \notin {"unmatched", "unread"}) =>
         \E r \in Configured.respond :
           \/ outcome[c] \in r.status
           \/ sent[c] # << >>
           \/ client[c] = "gone"
           \/ /\ outcome[c] \in {"ungenerated", "panic"}
              /\ \E f \in Fields(r.body) : f.value.form = "template"
    /\ outcome[c] = "undrained" => client[c] = "gone" \/ unread[c] > 0

(* What a client may conclude from the end of its call: OK means it was sent *)
(* one message and everything it sent was read, after it half-closed, unless *)
(* the rule responds with the code OK; any other status but a failure to     *)
(* read the rest means no message; whatever came after the wait carries the  *)
(* metadata, but for a header that grpc refuses (proxy.go 178-240).          *)
OutcomeTellsAll ==
  \A c \in Call :
    /\ Len(sent[c]) <= 1
    /\ outcome[c] = "ok" =>
         \/ Len(sent[c]) = 1 /\ client[c] # "open" /\ unread[c] = 0
         \/ sent[c] = << >> /\ \E r \in Configured.respond : "ok" \in r.status
    /\ outcome[c] \notin {"none", "ok", "undrained"} => sent[c] = << >>
    /\ outcome[c] = "canceled" => \A r \in Configured.respond : r.wait = "some"
    /\ \A r \in Configured.respond :
         \/ at[c] \in {"send", "drain"}
         \/ outcome[c] \in {"ok", "ungenerated", "panic", "unsent", "undrained"} \union r.status
         => /\ md[c].trailer <=> r.md # "none"
            /\ client[c] # "gone" => (md[c].header <=> r.md = "good")

(* No call ends the process: what panics in a call ends that call only       *)
(* (middleware.go:103-132).  What nothing recovers is a recursion without    *)
(* end, and a call meets one only by a templated field of a message type     *)
(* that contains itself: it is built from its type when its template prints  *)
(* nothing (template.go:136, definer.go:264-272).                            *)
Templated(f) == f.label = "one" /\ f.kind = "message" /\ f.value.form = "template"
Endless(s) == \E f \in Fields({s}) : Templated(f) /\ Recursive(s.types, f.type)
ServesOn ==
  [][(proc = "serving" /\ ~\E r \in Configured.respond : \E s \in r.body : Endless(s)) =>
       proc' = "serving"]_vars

(* While the process lives, the mock has responded before the client         *)
(* half-closes, and the call ends once it has (proxy.go:230).                *)
Responds ==
  \A c \in Call : at[c] = "respond" ~>
    (sent[c] # << >> \/ at[c] = "done" \/ client[c] = "gone" \/ proc = "dead")
Returns ==
  \A c \in Call : client[c] # "open" ~> (at[c] \in {"done", "forward"} \/ proc = "dead")
=============================================================================
