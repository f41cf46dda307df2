------------------------------ MODULE Discovery ------------------------------
(***************************************************************************)
(* discovery.Service (pkg/discovery/service.go) with the requests that use *)
(* it (the match and forward middlewares of pkg/proxy/proxy.go, and the    *)
(* reflection streams of pkg/proxy/middleware/reflection.go).              *)
(*                                                                         *)
(* Run waits for an event of a provider, asks every provider for its       *)
(* state (dialing its upstreams), installs the merged rules under the      *)
(* write lock, closes the previous upstreams and publishes the new ones.   *)
(* Requests take a snapshot of the matching rules under the read lock and  *)
(* use it after the lock is gone: they may open a stream on a connection   *)
(* that Run has closed in the meantime.                                    *)
(*                                                                         *)
(* The published upstreams have a second writer.  A reflection stream is   *)
(* handed the service's own slice and drops the upstreams without          *)
(* reflection by appending in place: it shifts the elements of the array   *)
(* that Run closes, at any time and without a lock.                        *)
(***************************************************************************)
EXTENDS Routing

CONSTANTS
  NProviders,   \* number of configured providers
  Name,         \* upstream names
  Uri, Pred, Msg,  \* methods, header predicates, first messages
  Mock,         \* the target of a rule that responds by itself
  File,         \* the contents a provider can find when it is asked
  Request,      \* calls made to the proxy, each with its method and headers
  UriOf, MdOf,
  Stream,       \* reflection streams
  Reflecting,   \* upstreams that are to serve reflection, in every file
  MaxMerges     \* bound on the merges that dial: later ones find no upstreams

Provider == 1..NProviders

(* One connection per dial: `gen` is the merge that dialed it. *)
Conn == [gen : Nat, prov : Provider, name : Name]

RuleTo(T) == [uri : SUBSET Uri, md : SUBSET Pred,
              msg : (SUBSET Msg) \union {NoMatcher}, to : T]

(* A file: its upstreams in the order of their names, those among them      *)
(* whose address does not dial, the rules as parsed up to their targets,    *)
(* and whether it can be opened and decoded at all.                         *)
FileType == [readable : BOOLEAN, ups : Seq(Name), bad : SUBSET Name,
             rules : Seq(RuleTo(Name \union {Mock}))]

ASSUME ConstantsAssumption ==
  /\ NProviders \in Nat \ {0}
  /\ File \subseteq FileType
  /\ \A f \in File : IsInjective(f.ups)
  /\ UriOf \in [Request -> Uri]
  /\ MdOf \in [Request -> SUBSET Pred]
  /\ Reflecting \subseteq Name
  /\ MaxMerges \in Nat
  /\ Mock \notin Name
  /\ Mock \notin Conn

VARIABLES
  stopOnError,  \* Service.StopOnError
  ctxDone,      \* the context of Run is done
  event,        \* providers whose event a FanIn goroutine is handing over
  srcClosed,    \* providers that have closed their event channel
  pc,           \* where Run is: "select", "merge", "swap", "exit" or "stopped"
  gen,          \* number of merges begun, up to MaxMerges + 1
  next,         \* the provider mergeStates asks next
  merged,       \* mergeStates' local rules and upstreams
  failed,       \* mergeStates has met an error
  closing,      \* the place closeUpstreams has reached
  rules,        \* Service.rules
  upstreams,    \* Service.upstreams
  locked,       \* Run holds the write lock
  dialed,       \* connections created by grpc.NewClient
  closed,       \* connections on which Close was called
  filter,       \* each stream's place in the loop over `upstreams`, or 0, and
                \* the length it has cut its own slice of them to
  call,         \* where each request is
  matches,      \* its snapshot of the rules, while it awaits a first message
  target        \* the target of the rule it was routed to

sourceVars == << stopOnError, ctxDone, event, srcClosed >>
mergeVars == << gen, next, merged, failed >>
tableVars == << rules, upstreams, locked, filter >>
connVars == << dialed, closed >>
callVars == << call, matches, target >>
svcVars == << sourceVars, pc, mergeVars, closing, tableVars, connVars >>
vars == << svcVars, callVars >>

Nothing == [rules |-> << >>, ups |-> << >>]
NoFilter == [idx |-> 0, len |-> 0]

Init ==
  /\ stopOnError \in BOOLEAN
  /\ ctxDone = FALSE
  /\ event = {}
  /\ srcClosed = {}
  /\ pc = "select"
  /\ gen = 0
  /\ next = 1
  /\ merged = Nothing
  /\ failed = FALSE
  /\ closing = 1
  /\ rules = << >>
  /\ upstreams = << >>
  /\ locked = FALSE
  /\ dialed = {}
  /\ closed = {}
  /\ filter = [s \in Stream |-> NoFilter]
  /\ call = [r \in Request |-> "new"]
  /\ matches = [r \in Request |-> << >>]
  /\ target = [r \in Request |-> Mock]

-----------------------------------------------------------------------------
(* The environment of Run: providers, their channels, and the signal.        *)

(* Provider p reports a change.  Its channel is unbuffered (or holds its     *)
(* only event) and FanIn forwards one event at a time.                       *)
Report(p) ==
  /\ p \notin srcClosed \union event
  /\ event' = event \union {p}
  /\ UNCHANGED << stopOnError, ctxDone, srcClosed, pc, mergeVars, closing,
                  tableVars, connVars, callVars >>

Cancel ==
  /\ ~ctxDone
  /\ ctxDone' = TRUE
  /\ UNCHANGED << stopOnError, event, srcClosed, pc, mergeVars, closing,
                  tableVars, connVars, callVars >>

(* Provider p sees the context done and closes its channel. *)
CloseSource(p) ==
  /\ ctxDone
  /\ p \notin srcClosed
  /\ srcClosed' = srcClosed \union {p}
  /\ UNCHANGED << stopOnError, ctxDone, event, pc, mergeVars, closing,
                  tableVars, connVars, callVars >>

-----------------------------------------------------------------------------
(* Service.Run                                                               *)

NextGen == IF gen <= MaxMerges THEN gen + 1 ELSE gen

\* Mutant: the connections in use are closed before the new state is loaded.
BeginMergeClosingFirst ==
  /\ pc = "select"
  /\ pc' = "merge" /\ gen' = NextGen /\ next' = 1
  /\ merged' = Nothing /\ failed' = FALSE
  /\ closed' = closed \union Range(upstreams)
  /\ UNCHANGED << stopOnError, ctxDone, srcClosed, closing, tableVars, dialed, callVars >>

BeginMerge ==
  /\ pc = "select"
  /\ pc' = "merge"
  /\ gen' = NextGen
  /\ next' = 1
  /\ merged' = Nothing
  /\ failed' = FALSE
  /\ UNCHANGED << stopOnError, ctxDone, srcClosed, closing, tableVars, connVars, callVars >>

(* `case ev := <-ch`: the event of one of the forwarding goroutines... *)
TakeEvent(p) ==
  /\ p \in event
  /\ event' = event \ {p}
  /\ BeginMerge

(* ...or, once every provider has gone and FanIn has closed its output, the  *)
(* zero value: `ev` is read without its `ok`, so Run merges once more, and   *)
(* may go on doing so for as long as select does not pick the other case.    *)
TakeZeroEvent ==
  /\ event = {}
  /\ srcClosed = Provider
  /\ event' = event
  /\ BeginMerge

\* Mutant: the context is looked at only when no event is ready.
TakeDoneWhenIdle ==
  /\ pc = "select" /\ ctxDone
  /\ event = {} /\ srcClosed # Provider
  /\ pc' = "exit" /\ closing' = 1
  /\ UNCHANGED << sourceVars, mergeVars, tableVars, connVars, callVars >>

(* `case <-ctx.Done()`: return, and the deferred closeUpstreams starts. *)
TakeDone ==
  /\ pc = "select"
  /\ ctxDone
  /\ pc' = "exit"
  /\ closing' = 1
  /\ UNCHANGED << sourceVars, mergeVars, tableVars, connVars, callVars >>

\* Mutant: a connection dialed by an earlier merge is used again.
DialCached(p, names) ==
  [ i \in 1..Len(names) |-> [gen |-> 1, prov |-> p, name |-> names[i]] ]

(* The connections provider p gets for a list of names in the current merge. *)
DialAll(p, names) ==
  [ i \in 1..Len(names) |-> [gen |-> gen, prov |-> p, name |-> names[i]] ]

\* Mutant: the rule keeps the name of its upstream.
ResolvedByName(p, rule) == rule

(* parseRule's lookup of the forward target among the dialed upstreams. *)
Resolved(p, rule) ==
  [ rule EXCEPT !.to = IF @ = Mock THEN Mock
                       ELSE [gen |-> gen, prov |-> p, name |-> @] ]

Dangling(f) ==
  \E i \in DOMAIN f.rules : f.rules[i].to # Mock /\ f.rules[i].to \notin Range(f.ups)

BadAddress(f) == Range(f.ups) \intersect f.bad # {}

(* The bound on what is dialed: after MaxMerges merges no file has upstreams. *)
Dials(f) == gen <= MaxMerges \/ f.ups = << >>

StateFrame == UNCHANGED << sourceVars, pc, gen, closing, tableVars, closed, callVars >>

(* Provider.State fails: the file is missing, does not decode or has another *)
(* version (nothing is dialed); an upstream does not dial (those dialed      *)
(* before it, in map order, are forgotten); or a rule does not parse (all of *)
(* them are).  mergeStates keeps the error and goes on with the next one.    *)
StateFails(p, f, D) ==
  /\ pc = "merge" /\ next = p
  /\ Dials(f)
  /\ \/ ~f.readable /\ D = {}
     \/ f.readable /\ BadAddress(f) /\ D \subseteq Range(DialAll(p, f.ups))
                   /\ \A c \in D : c.name \notin f.bad
     \/ f.readable /\ ~BadAddress(f) /\ Dangling(f)
                   /\ D = Range(DialAll(p, f.ups))
  /\ dialed' = dialed \union D
  /\ failed' = TRUE
  /\ next' = next + 1
  /\ merged' = merged
  /\ StateFrame

(* Provider.State succeeds: its rules and upstreams join the merged ones. *)
StateOk(p, f) ==
  /\ pc = "merge" /\ next = p
  /\ Dials(f)
  /\ f.readable
  /\ ~BadAddress(f)
  /\ ~Dangling(f)
  /\ merged' = [rules |-> merged.rules \o [ i \in 1..Len(f.rules) |->
                                              Resolved(p, f.rules[i]) ],
                ups   |-> merged.ups \o DialAll(p, f.ups)]
  /\ dialed' = dialed \union Range(DialAll(p, f.ups))
  /\ next' = next + 1
  /\ failed' = failed
  /\ StateFrame

MergeDone == pc = "merge" /\ next = NProviders + 1

(* Every provider was asked: mergeStates sorts the rules; with an error and  *)
(* StopOnError Run returns, without the upstreams that were just dialed.     *)
GiveUp ==
  /\ MergeDone
  /\ failed /\ stopOnError
  /\ pc' = "exit"
  /\ closing' = 1
  /\ merged' = Nothing
  /\ UNCHANGED << sourceVars, gen, next, failed, tableVars, connVars, callVars >>

\* Mutant: the lock is not held while the upstreams are swapped.
InstallUnlocked ==
  /\ MergeDone /\ ~(failed /\ stopOnError)
  /\ rules' \in SortSlice(merged.rules)
  /\ locked' = FALSE
  /\ pc' = "swap" /\ closing' = 1
  /\ UNCHANGED << sourceVars, mergeVars, upstreams, filter, connVars, callVars >>

(* Otherwise (an error is only logged): s.mu.Lock(), s.rules = rules... *)
InstallRules ==
  /\ MergeDone
  /\ ~(failed /\ stopOnError)
  /\ rules' \in SortSlice(merged.rules)
  /\ locked' = TRUE
  /\ pc' = "swap"
  /\ closing' = 1
  /\ UNCHANGED << sourceVars, mergeVars, upstreams, filter, connVars, callVars >>

(* ...closeUpstreams, one connection at a time (also deferred, on return),   *)
(* as the array has them by then; to close one twice is only logged...       *)
CloseOne ==
  /\ pc \in {"swap", "exit"}
  /\ closing <= Len(upstreams)
  /\ closed' = closed \union {upstreams[closing]}
  /\ closing' = closing + 1
  /\ UNCHANGED << sourceVars, pc, mergeVars, tableVars, dialed, callVars >>

(* ...s.upstreams = upstreams, s.mu.Unlock().  What streams go on to shift is *)
(* an array the service has let go of.                                       *)
PublishUpstreams ==
  /\ pc = "swap" /\ closing > Len(upstreams)
  /\ upstreams' = merged.ups
  /\ filter' = [s \in Stream |-> NoFilter]
  /\ merged' = Nothing
  /\ locked' = FALSE
  /\ pc' = "select"
  /\ UNCHANGED << sourceVars, gen, next, failed, closing, rules, connVars, callVars >>

Return ==
  /\ pc = "exit" /\ closing > Len(upstreams)
  /\ pc' = "stopped"
  /\ UNCHANGED << sourceVars, mergeVars, closing, tableVars, connVars, callVars >>

Run ==
  \/ \E p \in Provider : TakeEvent(p)
  \/ TakeZeroEvent
  \/ TakeDone
  \/ \E p \in Provider, f \in File :
       StateOk(p, f) \/ \E D \in SUBSET Range(DialAll(p, f.ups)) : StateFails(p, f, D)
  \/ GiveUp
  \/ InstallRules
  \/ CloseOne
  \/ PublishUpstreams
  \/ Return

-----------------------------------------------------------------------------
(* Requests: matchMiddleware, mockMiddleware and forwardMiddleware as far as *)
(* they touch the service's rules and connections.                           *)

Move(r, at, found, to) ==
  /\ call' = [call EXCEPT ![r] = at]
  /\ matches' = [matches EXCEPT ![r] = found]
  /\ target' = [target EXCEPT ![r] = to]
  /\ UNCHANGED svcVars

(* MatchMetadata under the read lock; what follows works on the snapshot.    *)
Match(r) ==
  LET found == MatchMetadata(rules, UriOf[r], MdOf[r])
  IN  /\ call[r] = "new"
      /\ ~locked
      /\ \/ /\ DOMAIN found = {}
            /\ Move(r, "nomatch", << >>, Mock)
         \/ /\ NeedsDeeperMatch(found)
            /\ Move(r, "recv", found, Mock)
         \/ /\ DOMAIN found # {}
            /\ ~NeedsDeeperMatch(found)
            /\ Move(r, "routed", << >>, found[First(DOMAIN found)].to)

(* The first message arrives and MatchMessage picks the rule, or finds none. *)
ReadFirst(r, m) ==
  LET found == MatchMessage(matches[r], m)
  IN  /\ call[r] = "recv"
      /\ \/ found = {} /\ Move(r, "nomatch", << >>, Mock)
         \/ \E rule \in found : Move(r, "routed", << >>, rule.to)

ReadFirstFails(r) ==
  /\ call[r] = "recv"
  /\ Move(r, "noread", << >>, Mock)

(* A mock answers by itself; a forward opens a stream on the connection it   *)
(* matched, which fails when the connection was closed.                      *)
Serve(r) ==
  /\ call[r] = "routed"
  /\ Move(r, IF target[r] = Mock THEN "mock"
             ELSE IF target[r] \in closed THEN "nostream" ELSE "stream",
          << >>, target[r])

(* The stream runs to its end, or closing its connection aborts it. *)
Finish(r) ==
  /\ call[r] = "stream"
  /\ Move(r, IF target[r] \in closed THEN "aborted" ELSE "ok", << >>, target[r])

Serving ==
  \E r \in Request : \/ Match(r)
                     \/ \E m \in Msg : ReadFirst(r, m)
                     \/ ReadFirstFails(r)
                     \/ Serve(r)
                     \/ Finish(r)

-----------------------------------------------------------------------------
(* Reflection streams, as far as they write the service's upstreams.  One    *)
(* append is one step here; ReflectFilter takes it apart.                    *)

FilterFrame ==
  UNCHANGED << sourceVars, pc, mergeVars, closing, rules, locked, connVars, callVars >>

(* Service.Upstreams, under the read lock: the slice itself. *)
TakeSlice(s) ==
  /\ filter[s].idx = 0
  /\ ~locked
  /\ filter' = [filter EXCEPT ![s] = [idx |-> 1, len |-> Len(upstreams)]]
  /\ upstreams' = upstreams
  /\ FilterFrame

(* `range` goes over all of the slice, whatever was cut off it. *)
Filtering(s) == filter[s].idx \in 1..Len(upstreams)

KeepNext(s) ==
  /\ Filtering(s)
  /\ upstreams[filter[s].idx].name \in Reflecting
  /\ filter' = [filter EXCEPT ![s].idx = @ + 1]
  /\ upstreams' = upstreams
  /\ FilterFrame

(* append(ups[:i-1], ups[i:]...) on a slice of n elements, in its own array. *)
Shifted(ups, i, n) ==
  [ j \in 1..Len(ups) |-> IF i <= j /\ j < n THEN ups[j + 1] ELSE ups[j] ]

(* An upstream without reflection is appended over; the place may be beyond  *)
(* what is left of the slice, and the handler panics.                        *)
DropNext(s) ==
  /\ Filtering(s)
  /\ upstreams[filter[s].idx].name \notin Reflecting
  /\ \/ /\ filter[s].idx <= filter[s].len
        /\ upstreams' = Shifted(upstreams, filter[s].idx, filter[s].len)
        /\ filter' = [filter EXCEPT ![s] = [idx |-> @.idx + 1, len |-> @.len - 1]]
     \/ /\ filter[s].idx > filter[s].len
        /\ upstreams' = upstreams
        /\ filter' = [filter EXCEPT ![s] = NoFilter]
  /\ FilterFrame

(* The loop is over; the next reflection call begins anew. *)
FilterEnds(s) ==
  /\ filter[s].idx > Len(upstreams)
  /\ filter' = [filter EXCEPT ![s] = NoFilter]
  /\ upstreams' = upstreams
  /\ FilterFrame

Reflector ==
  \E s \in Stream : TakeSlice(s) \/ KeepNext(s) \/ DropNext(s) \/ FilterEnds(s)

Next ==
  \/ \E p \in Provider : Report(p) \/ CloseSource(p)
  \/ Cancel
  \/ Run
  \/ Serving
  \/ Reflector

Spec == Init /\ [][Next]_vars

(* Run is a running goroutine, so it moves while it can.  Go's select picks  *)
(* among the ready cases at random, so a done context is noticed in the end  *)
(* even when a closed event channel is ready every time.                     *)
Fairness == WF_vars(Run) /\ SF_vars(TakeDone)

FairSpec == Spec /\ Fairness

-----------------------------------------------------------------------------
(* Connections that are up, those a list of rules forwards to, and whether   *)
(* Run has not begun to return.                                              *)
Open == dialed \ closed
Targets(rs) == { rs[i].to : i \in DOMAIN rs } \ {Mock}
Running == pc \notin {"exit", "stopped"}

TypeOK ==
  /\ stopOnError \in BOOLEAN
  /\ ctxDone \in BOOLEAN /\ failed \in BOOLEAN /\ locked \in BOOLEAN
  /\ event \subseteq Provider /\ srcClosed \subseteq Provider
  /\ pc \in {"select", "merge", "swap", "exit", "stopped"}
  /\ gen \in Nat /\ next \in 1..(NProviders + 1) /\ closing \in Nat \ {0}
  /\ merged \in [rules : Seq(RuleTo(Conn \union {Mock})), ups : Seq(Conn)]
  /\ rules \in Seq(RuleTo(Conn \union {Mock}))
  /\ upstreams \in Seq(Conn)
  /\ dialed \subseteq Conn /\ closed \subseteq Conn
  /\ filter \in [Stream -> [idx : 0..(Len(upstreams) + 1), len : 0..Len(upstreams)]]
  /\ call \in [Request -> {"new", "recv", "routed", "stream", "nomatch", "noread",
                            "mock", "ok", "nostream", "aborted"}]
  /\ target \in [Request -> Conn \union {Mock}]
  /\ DOMAIN matches = Request
  /\ \A r \in Request :
       /\ DOMAIN matches[r] \subseteq Nat
       /\ \A i \in DOMAIN matches[r] : matches[r][i] \in RuleTo(Conn \union {Mock})

(* While Run is running, whatever the table forwards to is an open           *)
(* connection; and whenever the lock is free the table and the published     *)
(* upstreams stem from one merge: readers never see rules and upstreams of   *)
(* different reloads (service.go 58-62).  That the table's connections are   *)
(* among the published ones is not true: reflection.go 60 may have shifted   *)
(* them out.                                                                 *)
TableIsServable ==
  /\ Running => Targets(rules) \subseteq Open
  /\ ~locked => \A c, d \in Targets(rules) \union Range(upstreams) : c.gen = d.gen

(* A call is lost to a closed connection only across a reload that dropped   *)
(* the connection from the table, or once Run is returning: forwardMiddleware *)
(* uses a rule after MatchMetadata has released the lock.                    *)
LostOnlyAcrossReload ==
  [][ \A r \in Request :
        (call'[r] \in {"nostream", "aborted"} /\ call'[r] # call[r])
          => (Running => target[r] \notin Targets(rules)) ]_vars

(* Once its context is done Run returns, whatever the reflection streams do  *)
(* to its upstreams, and although the event channel, closed by then, is      *)
(* ready at every select and has Run merge again (service.go 44-48).         *)
StopsOnCancel == ctxDone ~> pc = "stopped"

(* "close upstreams on exit" (service.go 29): when Run has returned no       *)
(* connection it has dialed is open.                                         *)
ClosedOnExit == pc = "stopped" => Open = {}

(* The service implements the routing table it promises. *)
Promise == INSTANCE RouteTable WITH
  Table <- Seq(RuleTo(Conn \union {Mock})),
  EmptyTable <- << >>,
  table <- rules, up <- Open, retired <- closed, running <- Running

RouteTableSpec == Promise!Spec
=============================================================================
