# A TLA+ model of gRoxy

gRoxy is a gRPC proxy. It reads routing rules and upstreams from a YAML file (or
from stdin), matches every incoming call against the rules, and answers it with a
mock, forwards it to an upstream, or merges the reflection answers of several
upstreams. The file is watched, and the rules are replaced while calls run.

This directory holds TLA+ modules that model that code, TLC configurations that
check them on small instances, and proofs that TLAPS checks for every value of the
constants. Paths below are relative to `src/`; `PROJECT.json` maps every definition
to its lines.

## The system

| part | source | state | operations | hard parts |
|---|---|---|---|---|
| discovery service | `pkg/discovery/service.go` | `rules`, `upstreams`, a RWMutex | `Run`, `mergeStates`, `closeUpstreams`, `MatchMetadata`, `Upstreams` | reload against running calls; partial failures; shutdown |
| rule matching | `pkg/discovery/discovery.go`, `service.go` | none | `Matches`, `NeedsDeeperMatch`, `MatchMessage`, the order of the rules | the first message may be needed; `sort.Slice` is not stable |
| file provider | `pkg/discovery/fileprovider/file.go`, `config.go` | the last submitted modification time | `Events`, `State`, `rules`, `upstreams`, `parseRule`, `parseRespond` | polling, non-blocking submission, connections of a failed load |
| stdin provider | `fileprovider/stdin.go` | none | `Events`, `State` | one event; its channel closes with the context |
| match, mock and forward middlewares | `pkg/proxy/proxy.go` | the rule and the first message, in the context of the call | `matchMiddleware`, `mockMiddleware`, `forwardMiddleware`, `eofStatus` | a rule outlives the lock; a message read ahead |
| pipe | `pkg/grpcx/stream.go`, `codec.go` | the two goroutines of a call | `Pipe`, `StatusFromError`, `ClientCode` | either side ends at any time; which error is first |
| reflection merger | `pkg/proxy/middleware/reflection.go` | one client stream per upstream | filter, fan-out, merge, v1alpha conversion | a shared slice without a lock; partial failures |
| other middlewares | `middleware.go`, `log.go` | health status | `Recoverer`, `AppInfo`, `PassMetadata`, `Health`, `Log` | |
| process | `cmd/groxy/main.go`, `proxy.Listen`, `proxy.Close` | the context of everything, the group's error, `Server.grpc` | signal handling, errgroup, `GracefulStop` | shutdown order; a stop before the start |
| templates | `pkg/protodef` | a message per template, shared by all calls | `BuildTarget`, `Matches`, `DataMap`, `Generate` | recursion over descriptors; panics; value, template and matcher on one field |

How they interact: a provider sends events over a channel that `lo.FanIn` merges;
`Run` takes one, asks *every* provider for its state (which dials the upstreams),
installs the result under the write lock and closes the previous connections. A
call takes a snapshot of the matching rules under the read lock, may read its first
message, and goes on with the rule it has found, whatever `Run` does meanwhile. A
reflection stream takes `Service.upstreams` itself, not a copy of it, and shifts its
elements without a lock: that list has two writers.

What makes each part correct:

- *discovery*: the table never names a closed connection; a call suffers only from a
  reload that drops its connection; `Run` stops, and leaves nothing open.
- *matching*: the rule that answers is the best one by the documented order.
- *file provider*: a change is served in the end; what is taken for unchanged is served.
- *forwarding*: both directions are relayed in order and completely; the status is the
  upstream's; the call ends.
- *reflection*: the right upstreams are asked; a reply merges all answers to its own
  request; an error is never hidden.
- *templates and mock*: the rule answers the calls its snippet describes, with what its
  snippet says and the values of that call; nothing in a call ends the process.
- *process*: no stop loses a call, except that the discovery service closes connections
  under it; a stop nobody asked for is reported; the process ends.

## Modules

| module | models | proofs |
|---|---|---|
| `Routing` | a rule, the order of rules, matching a request: operators only | in `RuleOrderProofs` and `DiscoveryProofs` |
| `RuleOrder` | from the rules of a file to the rule that answers a request | `RuleOrderProofs` |
| `RouteTable` | abstract: what the discovery service promises | |
| `Discovery` | `Service.Run` with its providers, the calls that use its rules, and the reflection streams that write its upstreams; implements `RouteTable` | `DiscoveryProofs` |
| `FileWatch` | `File.Events` and its way through `Run` | `FileWatchProofs` |
| `Relay` | abstract: what forwarding a call promises | |
| `Forward` | `forwardMiddleware`, `Pipe` and `eofStatus` for one call; implements `Relay` | `ForwardProofs` |
| `ReflectFilter` | the filter of reflection streams on the shared slice | |
| `Reflect` | one reflection stream: fan-out, merge, conversion | `ReflectProofs` |
| `Protodef` | snippets, templates and messages: operators only | in `MockProofs` |
| `Mock` | a rule that responds by itself, from its configuration to the end of its calls | `MockProofs` |
| `Lifecycle` | the process: signal, errgroup, `Listen`, `Close`, with the discovery service as `RouteTable` has it | `LifecycleProofs` |

`MCx` gives the instance of module `x` that TLC checks. Definitions commented
`Mutant:` are not part of a model: each is the faulty form of the definition below
it, and is used to see that a property notices the fault.

### Routing and RuleOrder

A URI regexp is the set of methods it matches, a header regexp is a predicate that
the request's metadata satisfies or not, a body template is the set of first messages
it matches. `Outranks` is the `less` function of `mergeStates`; `SortSlice` is the set
of arrangements `sort.Slice` may leave: stable up to `StableLen` elements (twelve, the
length below which Go sorts by insertion), any sorted arrangement beyond. `Route` is
`matchMiddleware`: it reads the first message when some match has a body.
`RuleOrder` adds `File.rules` (the not-matched response is a last rule) and states the
result in terms of the file: `RoutesToBest`.

The comment at `service.go:154`, "matches are sorted by presence of the message", is
true only among rules with equally many headers; `MatchMessage` does not depend on it.

### Discovery and RouteTable

`pc` is where `Run` is; `gen` numbers its merges; a connection is
`[gen, prov, name]`, since every load dials anew. The actions follow `Run`:
`TakeEvent`/`TakeZeroEvent`/`TakeDone` are the select (the event is read without its
`ok`, so a closed channel yields merges for ever), `StateOk`/`StateFails` one provider
in `mergeStates`, `GiveUp` the return with StopOnError, `InstallRules`, `CloseOne` (one
connection at a time) and `PublishUpstreams` the locked section, `CloseOne` and `Return`
the deferred `closeUpstreams`. What a provider reads is any member of `File` each time:
good, unreadable, with an address that does not dial, or with a rule that does not
parse, which stands for every error of `parseRule` and `parseRespond` (they all come
after the dialing). `grpc.NewClient` does not connect, so "dials" means "makes a
`ClientConn`". `Match`, `ReadFirst`, `Serve` and `Finish` are a call. A mock is one step.

`upstreams` has a second writer. `TakeSlice`, `KeepNext`, `DropNext` and `FilterEnds`
are the loop of a reflection stream (`reflection.go:57-62`) on the slice `Upstreams`
hands out; `DropNext` appends in place, at any moment but that of another step,
`CloseOne` included. So the published list may hold a connection twice and lack
another: nothing is claimed of its being complete or without repetition, and
`closeUpstreams` may meet a connection again, which the code only logs. What is left
true is that its elements stem from one merge, and that no rule's connection is closed
while the table names it, since an old list holds none of a newer merge, however it was
shifted. `PublishUpstreams` ends the filters' hold on `upstreams`: what a stream goes on
to shift is the array the service has let go of. `DropNext` is one step where the code
moves an element at a time; `ReflectFilter` takes it apart.

`gen` counts the merges only up to `MaxMerges + 1`; merging itself never ends. Merges
beyond the bound share a number and find files without upstreams, so they dial nothing
that could be mixed up, and a `Run` whose event channel is closed may merge for ever.

`RouteTable` promises: a table that is replaced as a whole and only names open
connections; a connection is retired once, and while the service runs never one the
table names. The refinement maps `table` to `rules`, `up` to the open connections,
`retired` to the closed ones and `running` to "Run has not begun to return".

### FileWatch

The watcher polls (`Poll`), offers an event without blocking (`Submit`), the FanIn
goroutine holds it (`holding`) until `Run` is at its select; an offer nobody
receives (`SubmitMissed`) is left to a later tick. The file may be written or
removed between any two steps; a write moves its modification time by a member of
`Steps`, which may be zero or negative. A tick may come at any moment.

### Forward and Relay

One call whose rule is settled; `deep` says that the first message was read ahead.
`down` and `upward` are Pipe's goroutines, each between its RecvMsg and its SendMsg.
The client may half-close or go at any time, the upstream may end with OK, an error
or without trailers. A send to a stream that has ended may be accepted and lost or
return io.EOF, as in grpc-go. A message of no bytes is left nil by `RawBytesCodec`,
and one that was read ahead is then not sent at all (`proxy.go:270`): `Due` is what
remains. Header, trailer and method rewriting are left out.

A message of either side may be over grpc-go's receive limit (`Huge`). The client's is
refused by the server's stream, which tells the client at once and is then over, and
with it the context of the call: `Cut`, `UpwardRecvFails`, and `Told` for what the
client learns whatever the handler returns. The upstream's makes `RecvMsg` fail and ends
the stream to the upstream: `Over`, `DownRecvFails`. Either goroutine may be between the
refusal and its return when the other meets the end of the stream, hence `UpwardFails` and
`DownFails`. A refused call must not end with what the upstream said.

`Relay` promises: each side gets a prefix of what the other sent, in order, and the
outcome is "ok" only when the client was given everything.

### ReflectFilter and Reflect

`ReflectFilter` is the loop at `reflection.go:57-62` element by element on the array of
`Service.upstreams`, then the opening of the streams. `Reflect` starts there: for each
request of the client a goroutine per upstream sends and receives (`Send`, `Recv` and
their failures), `Waited` is `errgroup.Wait`, `Reject` and `Reply` are what follows.
`client` and `other` are the ways an upstream ends its stream: with a code `ClientCode`
lets through, or otherwise. A panic is what `Recoverer` makes of it: the stream ends.
An upstream answers each request once, as reflection services do. A request of the client
that does not decode or is over the limit (`unreadable`) ends the stream in `TakeEnd`.
`mergeResponses` is reached only if no upstream has answered with an error: for descriptors
and services that is `ErrorNeverHidden`; for extension numbers it is a disagreement with
the documentation, `NumbersReplied`.

### Protodef and Mock

A snippet is what protoparse makes of it: its message types, each a sequence of fields
with their options. The text of a value option is given by what it reads as: nothing, a
scalar, a list, an object, or a template with what it prints. What a template prints is a
text that the code reads again, and `Render` says as what: alone, for a singular scalar
field, as itself, and as no value at all if it is empty; as the item of a list or at a key of
an object by YAML (a list, a map) or JSON (a message), with quotes around it or without.
Without quotes a numeral becomes a number, which in a list of texts is cast to the character
of that code (`Garbled`), an empty text leaves an empty list or a null, and a word is no JSON.
Texts are words that read as themselves, numerals, or empty: a text that holds brackets,
quotes or colons, or reads as a boolean, is left out, and so is a template with more than one
place. `SnippetType` is what protoparse has seen to
before the definer looks: fields of a type have different names, the types they name are
there, lists and maps are in no oneof, keys are scalars. Of the scalar types `string`, `int32` and enums
are told apart: a text is kept, a number is parsed, or cast and cut to its width, a name
is looked up. `BuildValue` has an outcome for every path of `buildValue`: a value, an
error, a panic (reflect refuses a conversion, or the enum parser is given a map field), or
a recursion without end. `BuildMessage` recurses over types to a depth of the number of
types; deeper means for ever. A message on the wire is its fields by the sender's type,
whether it decodes, and whether its encoding is the one `proto.Marshal` would give, since
a static template compares bytes. A combined template decodes it: `Known` drops what the
type does not name and, outside a oneof, what is at its zero. `DataMap` has every field of
the template's type, those the client left out at their zero; a body template prints
`<no value>` for a name the matching snippet does not have.

`Mock` starts from a rule as configured. `Load` is `parseRule`, and decides whether the
process serves, refuses the rule, or dies: the parsing runs in `Service.Run`, where nothing
recovers a panic. Then each call goes through `matchMiddleware` (`MatchAtOnce`,
`MatchFirst`, `MatchFails`) and `mockMiddleware` (`WaitOver` or `WaitCanceled`,
`RespondStatus` or `RespondBody`, `Send`, `Drain` and how it ends), inside `Recoverer`.
Of the metadata, grpc may refuse the header (`SetHeader` validates it; a header for a client
that has gone may fail as well), which is only logged: `md` has the header and the trailer
apart. A message over the limit fails the first read (`MatchFails`) and the drain
(`DrainFails`) with the client still there. `heap` holds the message objects: a static template hands out its own, a combined one a
new one, and `SendMsg` encodes the object in a later step than the one that made it.
`OwnEnd` are the ends of a call that are the handler's own: a code of the configuration is
none of them, but the code OK makes a call end as one that was answered does.
`rule` holds the rule as the definer has parsed it, so that the definer runs once for a
behaviour, as in the code.

### Lifecycle

`sig` is the goroutine that awaits a signal, `disc`, `srv` and `closer` the three of the
errgroup; `cause` is what has made the group's context done, `groupErr` the error the
group keeps. A signal before `signal.Notify` kills; later ones than the first are not
looked at. `Close` of a server `Listen` has not made dereferences nil. `Serve` refuses a
stopped server; a listener may break. `GracefulStop` is `draining` (clients that do not
know yet may still begin a call), `refusing`, `done`. The discovery service is the state
of `RouteTable` (`table`, `up`, `retired`), with guards that are `RouteTable`'s: what
`Discovery` is shown to implement is what `Lifecycle` takes for granted. A call that ends on a retired connection is `cut`. When the group
returns an error main logs it and returns: the exit status is 0 either way.

## What TLC checks

| run | bounds | shows |
|---|---|---|
| `discovery_service` | 1 provider, 6 files, 2 merges that dial, 1 call, 1 reflection stream that filters `[a, b]` | `TableIsServable`, `LostOnlyAcrossReload`, `RouteTableSpec`; `StopsOnCancel` under fairness |
| `discovery_exit` | the same | violation: `ClosedOnExit` |
| `watch_spaced` | delay 2, steps 2 and 3, 4 writes | `UnchangedMeansServed`, `CatchesUp`, `ReloadsCease` |
| `watch_reload` | delay 2, steps -1 to 2, 2 writes | violation: `CatchesUp` |
| `rule_order` | all files of up to 3 rules of 5 kinds with and without a not-matched rule, all requests; the sort is stable up to 3 rules | `RoutesToBest`, `NeverOutranked` |
| `forward_call` | up to 2 messages each way, any of them of no bytes or over the limit | `RelaySpec`, `StatusIsUpstreams`, `HalfCloseIsLast`, `Returns`, `HalfCloseArrives` |
| `filter_first` | 3 upstreams, the first without reflection, 2 streams | violation: `ReflectsTheEnabled` |
| `reflect_merge` | 2 upstreams, 2 requests, both versions | `RepliesMerge`, `ErrorNeverHidden`, `FailsForAReason`, `AnsweredIsReplied`, `LeavesHungUpstreams` |
| `reflect_alpha` | the same, 1 request | violation: `NumbersAnswered` |
| `reflect_numbers` | the same, 1 request, not v1alpha | violation: `NumbersReplied` |
| `mock_call` | 588 rules (headers grpc accepts and refuses among them), one call with one of up to 8 first messages or two calls with one of 2, 1 unread message or one over the limit, 4-bit numbers | `SentAsConfigured`, `MatchedAsWritten`, `BuildsUnlessRecursive`, `LoadedRuleAnswers`, `OutcomeTellsAll`, `SendsItsOwn`, `ServesOn`, `Responds`, `Returns` |
| `lifecycle` | 2 connections, 2 calls, StopOnError | `StopsLoseNoCall`, `CutOnlyByRetirement`, `ErrorReported`, `Ends` |

Why the bounds are enough for the question asked. Discovery: two merges that dial, and any
number that do not, are a first load, a reload that closes it and one that closes the second,
so every list has been both new and old, and a call can span two reloads; one provider whose
loads fail in every way makes every partial state of `mergeStates` but that in which another
provider has succeeded, which the proofs cover (they are for any number of providers and of
streams). FileWatch: four writes let one fall into every gap of the watcher and
of `Run` in turn. RuleOrder: three rules and the not-matched one contain every pair of
kinds in either order with a third rule between; `StableLen`, which is twelve in the code,
is three, so that the lists of four are those whose equals the sort may exchange:
`RoutesToBest` is about the others, `NeverOutranked` about all. Forward: with two messages there is one read
ahead and one piped, and one in flight on each side when the other side ends. Reflect:
a second request is what a late answer to the first could be taken for. ReflectFilter:
`filter_first` needs two streams only. Mock: the rules are all
combinations of a rule's parts; every kind of field with every form of value; and pairs of
fields in which a template, a matcher, a oneof or a nested type meets another field. Two
calls where they could meet, in the message of a template, and one elsewhere (`Meet`);
`Half` is 8, so that 9 does not fit. Lifecycle: two connections, one that a reload drops
and one it keeps, and a call on each; stdin's StopOnError only adds behaviours. `MaxMerges`, `MaxWrites`,
`MaxMsgs`, `MaxRequests` and `MaxUnread` bound the behaviours in guards. Deadlock is not checked
where the modelled activity ends (a call that has returned, a stopped service, a file
nobody writes); what must not stop is stated as a leads-to property.

Fairness is weak fairness of the code's own goroutines, which the Go scheduler runs,
and of the ticker; clients, upstreams, writers and signals are never fair. Two strong
fairness conditions. `TakeDone` in Discovery: Go's select picks at random among the
ready cases, so a done context that stays ready is picked in the end although the
closed channel is ready every time as well (with weak fairness alone `StopsOnCancel`
fails: `Run` merges for ever). `Submit` in FileWatch: the non-blocking send
finds no receiver while the FanIn goroutine is on its way back to its receive, which
takes it no time compared with a tick, so that does not happen at every tick.

`Returns` (of Forward and of Mock) assumes no more of the peers than that they have
finished; nothing makes an upstream answer, hence `LeavesHungUpstreams` speaks of a client
that has left. In `Mock` each call's handler is fair by itself, the timer of a wait
included. In `Lifecycle` the fair action is `Wind`, what the program does once it is to
end; signals, reloads, a broken listener and calls owe nothing, and `Ends` has "every call
ends" as its hypothesis: a call that does not end keeps `GracefulStop` waiting, whatever
signals follow.

### Disagreements found

- `CatchesUp`: a change within `Delay` of the last loaded one is never loaded
  (`file.go:78` against README.md:169).
- `ReflectsTheEnabled`: the in-place filter on the shared slice loses upstreams that
  serve reflection (`reflection.go:60` against README.md:184).
- `ClosedOnExit`: connections of a failed load are never closed (`file.go:120` against the
  comment at `service.go:29`).
- `NumbersReplied`: one upstream's error rejects a request for extension numbers that
  another has answered (`reflection.go:170` against README.md:189 and the comment at
  `reflection.go:305`).
- `NumbersAnswered`: extension numbers panic for v1alpha (`reflection.go:388` against
  README.md:189).

Met while modelling, and stated as what does hold: a reflection stream shifts connections
out of the list `closeUpstreams` goes over (`TableIsServable` does not say that the table's
connections are published; README.md is silent on it, and `ReflectsTheEnabled` is what
clients see of it); an improper close that
`stream.go:46-48` calls a success is an error when the other goroutine's send meets it
first (left out of `StatusIsUpstreams`); a stop that is graceful for the server cuts the
calls that are forwarded, since the discovery service closes its connections at the same
signal (`CutOnlyByRetirement`); a message type that contains itself ends the process when
its field has no value (`BuildsUnlessRecursive`), and a call does when the field is
templated and its template prints nothing (`template.go:136`; the hypothesis of
`ServesOn`); a rule that responds with the code OK, which `file.go:307` accepts, answers OK
without a message (`OutcomeTellsAll`); a number that does not fit `int32` is cut to its
low bits, silently, and a numeral that a template prints into a list of texts without quotes
becomes a character (`SentAsConfigured` claims nothing of either).

## What is proved

Assumptions are the named `ASSUME`s of the modules, which TLC evaluates in every run.

*Discovery* (`DiscoveryProofs`), for every number of providers, every set of files,
requests and reflection streams, and every bound. `TableIsServable` is not inductive: that
a swap closes no connection the new table names depends on where connections come from.
The argument is age. A connection carries the merge that dialed it, and those closed
during a merge belong to earlier ones (`AgeInv`); what a merge collects is its own, and
the merged rules name it (`MergedInv`); what is published is older than what is being
merged, and stays so however the streams shift the list, because shifting adds no element
to it (`PublishedInv`); the rules name open connections, which are new ones during the
swap and otherwise of the same merge as the published ones (`TableInv`); the lock is held
in the swap and only there (`ControlInv`). From it follow `TableAlwaysServable`, the action
property `CallsLostOnlyAcrossReload` and, step by step, `ImplementsRouteTable`, where
closing a connection a second time is a stutter.

*FileWatch* (`FileWatchProofs`): `TypeCorrect` for every delay and set of steps, and
`RestMeansServed` when writes move the modification time forward. The invariant follows
what was submitted on its way: if the file still has the submitted time, its content is
to be loaded, is loaded, or is served.

*RuleOrder* (`RuleOrderProofs`): `RulesSorted` and `BestRuleAnswers`, for lists of any
length and any `StableLen`, so without any assumption on the stability of the sort; and
`ShortFilesRouteToBest`, which is the documented order read off the file, up to
`StableLen` rules. It needs to know of the rules in use not only that they are sorted but which
arrangement of the file they are (`Installed`): with the file's order among equals, the
first that matches is the best in the file's terms.

*Lifecycle* (`LifecycleProofs`), for every set of connections and calls, with or without
StopOnError. `IInv` is `TypeOK` with three facts: what the table names is open until Run
returns (`TableUp`); calls are in progress only while the server could have begun them and
until it is drained (`CallsWithin`), which makes `NoCallLostByStop` inductive; and which
cause and error go with each way the goroutines end (`Causes`), from which
`StopsAreReported` follows at `Exit`. `CutByRetirementOnly` needs `TableUp`: a retired
connection is never again in the table.

*Forward* (`ForwardProofs`), for every set of messages and every bound on their number.
`IInv` says where the goroutines are while the handler is where it is (`Control`), what
was read (`Read`), that what either side was given is a prefix of what the other sent,
shorter than what was read by the one message its goroutine holds (`UpInv`, `DownInv`),
which side was refused a message over the limit (`RefusedInv`), and where the first error
came from (`ErrInv`). The last is what makes
`StatusIsTheUpstreams` inductive; from the counts come `HalfCloseComesLast` and
`ImplementsRelay`, where a send maps to a delivery and a return to the outcome.

*Reflect* (`ReflectProofs`), for every number of upstreams and requests and every choice
of answers. The replies are aligned with the answers (`Aligned`, `Tasks`): a goroutine
still at work has read its upstream up to the request before, one that is through has
read the answer to this one. Hence `ErrorsAlwaysReported`; `NeverFailsUnprovoked` needs
where each error comes from (`Reasons`), and that what is unreadable is never sent on
(`Readable`). That upstreams answer each request once, and in
order, is an assumption of the model. `RepliesAlwaysMerge` is proved of the reply that is
about to be sent, whose answers are all there (`Current`), and of those that were, whose
answers do not change any more. That joining the descriptors of all answers loses and
invents none is a fact about a recursive function: it is shown to exist and to join one for
one, by the least place at which it would not.

*Mock* (`MockProofs`), for every configuration, every set of calls and of first messages.
`IInv` is the types (`Typed`), what the loaded rule has of the configured one (`Loaded`:
`ParsedRule` reads it off `parseRule` and `parseRespond`), and what is true of each call
(`CallInv`: where it may be by what its rule says, what it was sent, how it may end, whether
it has its trailer and its header). `OutcomesTell` follows, and `LoadedRulesAnswer` with what
is known of how a call may fail in `Generate` (`Blamed`: a templated field is to blame). `EachIsSentItsOwn` is
about the objects calls share: the template's own object always holds the static part
(`Kept`), and a call that is about to send holds what was generated for it (`Holds`), since a
static template generates the same for all and another object belongs to one call.

The other theorems are about what the definer computes; an invariant, `Outcome`, says that the
rule in use is what `parseRule` returns for the configured one. Each of the definer's three
loops is a recursive function that exists (`RunExists`) and ends with the first failure or after
all steps (`RunEnds`); induction over the places of a sequence is `StepByStep`, on sets.
`buildMessage` recurses over types: `Levels` says what one depth adds, `EndlessIsRecursive`
that at each depth one more of the types that do not contain themselves is built, so that a
depth of one more than there are types is enough for all of them. Hence `LoadingEnds`, and
with the loop of `combined.Generate` (`FillFails`), `CallsDoNotEndTheProcess`.

The last two read snippets and messages by their fields. Of the loop of `parseTemplate`
`FieldKnown` says what it has made of the fields so far: each is in the part of its role, and
the static ones have the values they are built as, unless they are in a oneof, where setting
one clears the rest (`PutSets`, `PutKeeps`). At its end that is `Describes`, which no longer
speaks of places in a sequence. `MatchesAreWritten` follows from it (`MatchesWritten`: the
part of a message that a template compares, `StaticPart`, is its static fields that are not
at their zero) with an invariant, `Judged`: a call is unmatched exactly if its first message,
read once, does not match. For `SendsAsConfigured`, `Filled` says the same of the loop of
`combined.Generate`, `DataIsTold` that what templates print are the values of the call's own
first message by the fields of the matching snippet, and the invariant `SentMade`, which rests
on `Holds`, that what was sent is what was generated from it. Both hold of `Half`, `Numeral`
and the rest for every value that `ProtodefAssumption` allows; `FittingKept` is the one fact
about the width of numbers.

Only model-checked: liveness (`StopsOnCancel`, `CatchesUp`, `ReloadsCease`, `Returns`,
`HalfCloseArrives`, `AnsweredIsReplied`, `LeavesHungUpstreams`, `Ends`, `Responds`),
which is out of the prover's reach; the filter of reflection streams by itself
(`ReflectFilter`); and the five properties that the code violates.

## What is not modelled

Logging, generated code, mocks and tooling: they keep no state of the program. The
middlewares that set headers (`AppInfo`, `PassMetadata`) and the health service, whose
status is set once. Headers, trailers and the rewriting of the method. That stdin is read
once, so that a second load would find nothing: only one event comes, but with a second
provider there would be more. Of templates: `fixed32` and `fixed64`, floats, bytes and
booleans; `text/template` and `expr` beyond what a field prints and a matcher accepts;
what a template prints of a list, a map or a message. The YAML of the configuration beyond
whether it decodes. In Lifecycle, a load that ends the process (it is in `Mock`). Memory
effects of the unsynchronised slice beyond whole elements: the model reads and writes one
element atomically.

## Plan

Done, in this order: Routing, Discovery with RouteTable, FileWatch, RuleOrder, Forward
with Relay, ReflectFilter, Reflect; proofs of the first four; Protodef with Mock,
Lifecycle with its proofs; the proofs of Forward, Reflect and Mock; then the second writer of
the upstreams in Discovery, refused messages in Forward, Reflect and Mock, refused headers in
Mock, and what a rendered text reads as in Protodef, with the proofs that follow.
Left: the template values that `Protodef` leaves out.
