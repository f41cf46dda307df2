------------------------------ MODULE RuleOrder ------------------------------
(***************************************************************************)
(* From a configuration file to the rule that answers a request: File.rules *)
(* appends the not-matched response as a last rule, mergeStates sorts, and  *)
(* matchMiddleware looks the request up (pkg/discovery/fileprovider/        *)
(* file.go, pkg/discovery/service.go, pkg/proxy/proxy.go).  The properties  *)
(* compare what it finds with what the file says, read in its own order.    *)
(***************************************************************************)
EXTENDS Routing

CONSTANTS
  Uri, Pred, Msg,  \* methods, header predicates, first messages
  Config,          \* files: their rules, and whether they have a not-matched section
  Default          \* the target of the not-matched rule

(* Targets name the rules, so each rule of a file has its own.  The headers   *)
(* of a rule are a map of the file, hence finitely many.                      *)
Rule == [uri : SUBSET Uri, md : SUBSET Pred, msg : (SUBSET Msg) \union {NoMatcher},
         to : Nat \union {Default}]
Request == [uri : Uri, md : SUBSET Pred, msg : Msg]

ASSUME ConfigAssumption ==
  /\ Config \subseteq [rules : Seq(Rule), notMatched : BOOLEAN]
  /\ \A c \in Config : \A i \in DOMAIN c.rules :
       c.rules[i].to # Default /\ IsFiniteSet(c.rules[i].md)

VARIABLES
  stage,    \* "load", "ask" or "answered"
  config,   \* the file
  rules,    \* Service.rules
  request,  \* the request to route
  chosen    \* the rule it was routed to: none or one

vars == << stage, config, rules, request, chosen >>

(* The rule made of the not-matched section: ".*", no headers, no body. *)
NotMatched == [uri |-> Uri, md |-> {}, msg |-> NoMatcher, to |-> Default]

(* File.rules: the rules in the order of the file, then the not-matched one. *)
Collect(c) == IF c.notMatched THEN Append(c.rules, NotMatched) ELSE c.rules

Init ==
  /\ stage = "load"
  /\ config \in Config
  /\ rules = << >>
  /\ request \in Request
  /\ chosen = {}

(* The file is loaded. *)
Load ==
  /\ stage = "load"
  /\ stage' = "ask"
  /\ rules' \in SortSlice(Collect(config))
  /\ UNCHANGED << config, request, chosen >>

(* matchMiddleware routes the request. *)
Ask ==
  /\ stage = "ask"
  /\ stage' = "answered"
  /\ chosen' = Route(rules, request.uri, request.md, request.msg)
  /\ UNCHANGED << config, rules, request >>

Next == Load \/ Ask

Spec == Init /\ [][Next]_vars

-----------------------------------------------------------------------------
(* What a rule asks for, all of it. *)
Accepts(r) ==
  /\ request.uri \in r.uri
  /\ r.md \subseteq request.md
  /\ r.msg = NoMatcher \/ request.msg \in r.msg

TypeOK ==
  /\ stage \in {"load", "ask", "answered"}
  /\ config \in Config
  /\ rules \in Seq(Rule)
  /\ request \in Request
  /\ chosen \subseteq Rule

(* The order the comment in mergeStates announces (service.go 86-89), told   *)
(* of the file: of the rules that accept the request one with the most       *)
(* headers answers it, among those one with a body, and, as long as          *)
(* sort.Slice keeps rules of equal rank in place, among those the first in   *)
(* the file; none only if none accepts it.                                   *)
Rank(r) == 2 * Cardinality(r.md) + (IF r.msg = NoMatcher THEN 0 ELSE 1)
Candidates == { i \in DOMAIN Collect(config) : Accepts(Collect(config)[i]) }
Precedes(i, j) ==
  LET ri == Rank(Collect(config)[i])
      rj == Rank(Collect(config)[j])
  IN  ri > rj \/ (ri = rj /\ i < j)
RoutesToBest ==
  (stage = "answered" /\ Len(Collect(config)) <= StableLen) =>
    chosen = { Collect(config)[i] : i \in
                 { j \in Candidates : \A k \in Candidates \ {j} : Precedes(j, k) } }

(* However long the list, and whatever sort.Slice does to rules of equal     *)
(* rank in a long one, the rule that answers accepts the request and is not  *)
(* outranked by another one that does; if one accepts it, one answers.       *)
NeverOutranked ==
  stage = "answered" =>
    /\ \A r \in chosen : Accepts(r)
    /\ \A i \in DOMAIN rules :
         Accepts(rules[i]) => \E r \in chosen : r = rules[i] \/ ~Outranks(rules[i], r)
=============================================================================
