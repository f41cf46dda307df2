------------------------------- MODULE Routing -------------------------------
(***************************************************************************)
(* Routing rules: the order mergeStates puts them in and how a request     *)
(* finds its rule (pkg/discovery/service.go and discovery.go).             *)
(*                                                                         *)
(* A rule is a record with                                                 *)
(*   uri  the methods its URI regexp matches,                              *)
(*   md   the header predicates ("key matches regexp") it asks for,        *)
(*   msg  the first messages its body template matches, or NoMatcher,      *)
(*   to   where the request goes.                                          *)
(* A request is a method, the set of header predicates its metadata        *)
(* satisfies and a first message.  A template that fails to evaluate is    *)
(* skipped by MatchMessage like one that does not match, so `msg` leaves   *)
(* out the messages it fails on.                                           *)
(***************************************************************************)
EXTENDS Integers, FiniteSets, Sequences, Functions

CONSTANTS
  NoMatcher,   \* "the rule has no body template"
  StableLen    \* sort.Slice is an insertion sort, hence stable, up to this length

ASSUME StableLenAssumption == StableLen \in Nat

-----------------------------------------------------------------------------
\* Mutant: rules with a body come before rules with more headers.
OutranksByBody(r, s) ==
  \/ r.msg # NoMatcher /\ s.msg = NoMatcher
  \/ /\ (r.msg = NoMatcher) = (s.msg = NoMatcher)
     /\ Cardinality(r.md) > Cardinality(s.md)

(* The `less` function mergeStates gives to sort.Slice. *)
Outranks(r, s) ==
  \/ Cardinality(r.md) > Cardinality(s.md)
  \/ /\ Cardinality(r.md) = Cardinality(s.md)
     /\ r.msg # NoMatcher
     /\ s.msg = NoMatcher

\* Mutant: the rules are not sorted.
SortNothing(rs) == {rs}

(* What sort.Slice may leave in a slice: an arrangement in which no element *)
(* outranks an earlier one.  Elements that do not outrank each other keep   *)
(* their places only when the slice is short.                               *)
SortSlice(rs) ==
  LET n == Len(rs)
      Ordered(p) == \A i, j \in 1..n : i < j => ~Outranks(rs[p[j]], rs[p[i]])
      Stable(p)  == \A i, j \in 1..n :
                      (i < j /\ p[j] < p[i]) => Outranks(rs[p[i]], rs[p[j]])
  IN  { [i \in 1..n |-> rs[p[i]]] :
          p \in { q \in Injection(1..n, 1..n) :
                    Ordered(q) /\ (n <= StableLen => Stable(q)) } }

(* RequestMatcher.Matches: the URI and every header predicate. *)
Matches(rule, uri, md) == uri \in rule.uri /\ rule.md \subseteq md

(* Service.MatchMetadata: the matching rules, each at its place in the      *)
(* list, so that the order of the slice is the order of the places.         *)
MatchMetadata(rules, uri, md) ==
  [ i \in { j \in DOMAIN rules : Matches(rules[j], uri, md) } |-> rules[i] ]

(* The first place of a non-empty set of places. *)
First(places) == CHOOSE i \in places : \A j \in places : i <= j

(* Matches.NeedsDeeperMatch *)
NeedsDeeperMatch(matches) ==
  \E i \in DOMAIN matches : matches[i].msg # NoMatcher

(* The places MatchMessage would stop at. *)
Accepting(matches, m) ==
  { i \in DOMAIN matches : matches[i].msg = NoMatcher \/ m \in matches[i].msg }

(* Matches.MatchMessage: the rules it may return, none or one. *)
MatchMessage(matches, m) ==
  LET places == Accepting(matches, m)
  IN  IF places = {} THEN {} ELSE { matches[First(places)] }

(* matchMiddleware: the rule of a request, as a set of none or one.         *)
Route(rules, uri, md, m) ==
  LET matches == MatchMetadata(rules, uri, md)
  IN  IF DOMAIN matches = {} THEN {}
      ELSE IF NeedsDeeperMatch(matches) THEN MatchMessage(matches, m)
      ELSE { matches[First(DOMAIN matches)] }
=============================================================================
