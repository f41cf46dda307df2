--------------------------- MODULE RuleOrderProofs ---------------------------
(***************************************************************************)
(* Proofs about RuleOrder, for every set of files and requests and whether *)
(* or not sort.Slice is stable for lists of that length.                   *)
(***************************************************************************)
EXTENDS RuleOrder, TLAPS, SequenceTheorems, FiniteSetTheorems, WellFoundedInduction

-----------------------------------------------------------------------------
(* Facts about sorting and matching (Routing), for rules of any kind and    *)
(* lists of any length.                                                     *)

(* Sorting rearranges: every rule of the result is a rule of the argument    *)
(* (sort.Slice in mergeStates).                                              *)
LEMMA SortedRules ==
  ASSUME NEW S, NEW rs \in Seq(S), NEW t \in SortSlice(rs)
  PROVE  /\ t \in Seq(S)
         /\ Len(t) = Len(rs)
         /\ \A i \in 1..Len(t) : \E j \in 1..Len(rs) : t[i] = rs[j]
<1> DEFINE n == Len(rs)
<1>1. PICK p \in Injection(1..n, 1..n) : t = [i \in 1..n |-> rs[p[i]]]
  BY DEF SortSlice
<1>2. p \in [1..n -> 1..n]
  BY DEF Injection
<1>3. n \in Nat /\ \A i \in 1..n : p[i] \in 1..n /\ rs[p[i]] \in S
  BY <1>2
<1>4. t \in Seq(S) /\ Len(t) = n
  BY <1>1, <1>3
<1>5. \A i \in 1..n : t[i] = rs[p[i]]
  BY <1>1
<1> QED BY <1>3, <1>4, <1>5

(* Sorting sorts: no rule of the result outranks an earlier one, however     *)
(* long the list (sort.Slice in mergeStates).                                *)
LEMMA SortedOrder ==
  ASSUME NEW S, NEW rs \in Seq(S), NEW t \in SortSlice(rs),
         NEW i \in 1..Len(t), NEW j \in 1..Len(t), i < j
  PROVE  ~Outranks(t[j], t[i])
<1> DEFINE n == Len(rs)
<1>1. PICK p \in Injection(1..n, 1..n) :
        /\ t = [k \in 1..n |-> rs[p[k]]]
        /\ \A k, l \in 1..n : k < l => ~Outranks(rs[p[l]], rs[p[k]])
  BY DEF SortSlice
<1>2. Len(t) = n
  BY SortedRules
<1>3. t[i] = rs[p[i]] /\ t[j] = rs[p[j]]
  BY <1>1, <1>2
<1> QED BY <1>1, <1>2, <1>3

(* The first place of a non-empty set of places is one of them, and no other *)
(* comes before it: the loops of MatchMessage and matchMiddleware stop there. *)
LEMMA FirstPlace ==
  ASSUME NEW P \in SUBSET Nat, P # {}
  PROVE  First(P) \in P /\ \A j \in P : First(P) <= j
<1>1. IsWellFoundedOn(OpToRel(<, Nat), Nat)
  BY NatLessThanWellFounded
<1>2. PICK x \in P : \A y \in P : ~(<<y, x>> \in OpToRel(<, Nat))
  BY <1>1, WFMin, Zenon
<1>3. \A y \in P : ~(y < x)
  BY <1>2 DEF OpToRel
<1>4. \A y \in P : x <= y
  BY <1>3
<1> QED BY <1>4 DEF First

(* What a rule asks of a request, all of it. *)
Takes(r, uri, md, m) == Matches(r, uri, md) /\ (r.msg = NoMatcher \/ m \in r.msg)

(* matchMiddleware finds the first rule of the table that takes the request, *)
(* body included, and finds none only when there is none: reading the first  *)
(* message because some match needs it changes nothing for the others.       *)
LEMMA RouteIsFirst ==
  ASSUME NEW S, NEW rs \in Seq(S), NEW uri, NEW md, NEW m
  PROVE  LET places == { i \in 1..Len(rs) : Takes(rs[i], uri, md, m) }
         IN  Route(rs, uri, md, m) = IF places = {} THEN {} ELSE {rs[First(places)]}
<1> DEFINE places == { i \in 1..Len(rs) : Takes(rs[i], uri, md, m) }
           found == MatchMetadata(rs, uri, md)
<1>1. /\ DOMAIN found = { i \in 1..Len(rs) : Matches(rs[i], uri, md) }
      /\ \A i \in DOMAIN found : found[i] = rs[i]
  BY DEF MatchMetadata
<1>2. places \subseteq DOMAIN found /\ places \in SUBSET Nat
  BY <1>1 DEF Takes
<1>3. places # {} => First(places) \in places
  <2> HIDE DEF places
  <2> QED BY <1>2, FirstPlace
<1>4. CASE DOMAIN found = {}
  BY <1>2, <1>4 DEF Route
<1>5. CASE NeedsDeeperMatch(found)
  <2>1. Accepting(found, m) = places
    BY <1>1 DEF Accepting, Takes
  <2>2. DOMAIN found # {}
    BY <1>5 DEF NeedsDeeperMatch
  <2>3. places # {} => found[First(places)] = rs[First(places)]
    BY <1>1, <1>2, <1>3
  <2> HIDE DEF places, found
  <2>4. Route(rs, uri, md, m) = MatchMessage(found, m)
    BY <1>5, <2>2 DEF Route, found
  <2> QED BY <2>1, <2>3, <2>4 DEF MatchMessage, places
<1>6. CASE DOMAIN found # {} /\ ~NeedsDeeperMatch(found)
  <2>1. DOMAIN found = places
    BY <1>1, <1>6 DEF NeedsDeeperMatch, Takes
  <2>2. found[First(places)] = rs[First(places)]
    BY <1>1, <1>3, <1>6, <2>1
  <2> QED BY <1>6, <2>1, <2>2 DEF Route
<1> QED BY <1>4, <1>5, <1>6

(* What a request is routed to is a rule of the table (matchMiddleware).     *)
LEMMA RoutedRule ==
  ASSUME NEW S, NEW rs \in Seq(S), NEW uri, NEW md, NEW m
  PROVE  Route(rs, uri, md, m) \subseteq S
<1> DEFINE places == { i \in 1..Len(rs) : Takes(rs[i], uri, md, m) }
<1>1. Route(rs, uri, md, m) = IF places = {} THEN {} ELSE {rs[First(places)]}
  BY RouteIsFirst
<1>2. places \in SUBSET Nat /\ places \subseteq 1..Len(rs)
  OBVIOUS
<1> HIDE DEF places
<1>3. places # {} => First(places) \in 1..Len(rs)
  BY <1>2, FirstPlace
<1> QED BY <1>1, <1>3

-----------------------------------------------------------------------------
(* The loaded list is sorted, and an answer is what Route finds in it. *)
Sorted ==
  \A i, j \in 1..Len(rules) : i < j => ~Outranks(rules[j], rules[i])
Installed == stage # "load" => rules \in SortSlice(Collect(config))
Answer ==
  stage = "answered" =>
    chosen = Route(rules, request.uri, request.md, request.msg)
IInv == TypeOK /\ Sorted /\ Installed /\ Answer

(* The rules File.rules collects from a file are rules. *)
LEMMA CollectedRules ==
  ASSUME NEW c \in Config
  PROVE  Collect(c) \in Seq(Rule)
<1>1. c.rules \in Seq(Rule)
  BY ConfigAssumption
<1>2. NotMatched \in Rule
  <2>1. /\ Uri \in SUBSET Uri
        /\ {} \in SUBSET Pred
        /\ NoMatcher \in (SUBSET Msg) \union {NoMatcher}
        /\ Default \in Nat \union {Default}
    OBVIOUS
  <2> QED BY <2>1, Zenon DEF NotMatched, Rule
<1> QED BY <1>1, <1>2, AppendProperties DEF Collect

(* A short list is rearranged without a loss and without turning round two   *)
(* rules of equal rank: of two rules that the sort has put in this order,    *)
(* the first outranks the second, or is its equal and came first in the file *)
(* (sort.Slice, up to the length it sorts by insertion).                     *)
LEMMA ShortSort ==
  ASSUME NEW S, NEW rs \in Seq(S), NEW t \in SortSlice(rs), Len(rs) <= StableLen
  PROVE  \E p \in [1..Len(rs) -> 1..Len(rs)] :
           /\ Len(t) = Len(rs)
           /\ \A i \in 1..Len(rs) : t[i] = rs[p[i]]
           /\ \A k \in 1..Len(rs) : \E i \in 1..Len(rs) : p[i] = k
           /\ \A i, j \in 1..Len(rs) : i < j =>
                /\ ~Outranks(rs[p[j]], rs[p[i]])
                /\ p[j] < p[i] => Outranks(rs[p[i]], rs[p[j]])
<1> DEFINE n == Len(rs)
<1>1. PICK p \in Injection(1..n, 1..n) :
        /\ t = [k \in 1..n |-> rs[p[k]]]
        /\ \A i, j \in 1..n : i < j => ~Outranks(rs[p[j]], rs[p[i]])
        /\ n <= StableLen =>
             \A i, j \in 1..n : (i < j /\ p[j] < p[i]) => Outranks(rs[p[i]], rs[p[j]])
  BY DEF SortSlice
<1>2. p \in [1..n -> 1..n] /\ n \in Nat
  BY DEF Injection
<1>3. IsFiniteSet(1..n)
  BY <1>2, FS_Interval
<1>4. p \in Surjection(1..n, 1..n)
  <2> HIDE DEF n
  <2> QED BY <1>1, <1>3, FS_Injection
<1>5. \A k \in 1..n : \E i \in 1..n : p[i] = k
  BY <1>4 DEF Surjection
<1>6. Len(t) = n /\ \A i \in 1..n : t[i] = rs[p[i]]
  BY <1>1, <1>2
<1> QED BY <1>1, <1>2, <1>5, <1>6

(* A rule outranks another by mergeStates's `less` if, and only if, its rank *)
(* is higher: two for each header and one for a body.                        *)
LEMMA OutranksByRank ==
  ASSUME NEW r, NEW s, IsFiniteSet(r.md), IsFiniteSet(s.md)
  PROVE  /\ Rank(r) \in Nat /\ Rank(s) \in Nat
         /\ Outranks(r, s) <=> Rank(r) > Rank(s)
<1>1. Cardinality(r.md) \in Nat /\ Cardinality(s.md) \in Nat
  BY FS_CardinalityType
<1> QED BY <1>1 DEF Outranks, Rank

(* Their headers are finitely many. *)
LEMMA CollectedFinite ==
  ASSUME NEW c \in Config
  PROVE  \A k \in 1..Len(Collect(c)) : IsFiniteSet(Collect(c)[k].md)
<1>1. c.rules \in Seq(Rule) /\ \A i \in 1..Len(c.rules) : IsFiniteSet(c.rules[i].md)
  BY ConfigAssumption
<1>2. IsFiniteSet(NotMatched.md)
  BY FS_EmptySet DEF NotMatched
<1>3. CASE c.notMatched
  <2>1. /\ Len(Collect(c)) = Len(c.rules) + 1
        /\ \A k \in 1..Len(c.rules) : Collect(c)[k] = c.rules[k]
        /\ Collect(c)[Len(c.rules) + 1] = NotMatched
    BY <1>1, <1>3 DEF Collect
  <2>2. \A k \in 1..(Len(c.rules) + 1) : k \in 1..Len(c.rules) \/ k = Len(c.rules) + 1
    BY <1>1
  <2> QED BY <1>1, <1>2, <2>1, <2>2
<1> QED BY <1>1, <1>3 DEF Collect

(* Nothing is loaded or answered at first. *)
LEMMA InitIInv == Init => IInv
<1> SUFFICES ASSUME Init PROVE IInv
  OBVIOUS
<1>1. rules \in Seq(Rule) /\ Len(rules) = 0
  BY EmptySeq DEF Init
<1> QED BY <1>1 DEF Init, IInv, TypeOK, Sorted, Installed, Answer

(* Loading leaves a sorted list of rules, and asking does not touch it.      *)
LEMMA StepIInv == IInv /\ [Next]_vars => IInv'
<1> SUFFICES ASSUME IInv, [Next]_vars PROVE IInv'
  OBVIOUS
<1> USE DEF IInv
<1>1. CASE Load
  <2>1. Collect(config) \in Seq(Rule) /\ rules' \in SortSlice(Collect(config))
    BY <1>1, CollectedRules DEF Load, TypeOK
  <2>2. TypeOK'
    BY <1>1, <2>1, SortedRules DEF Load, TypeOK
  <2>3. Sorted'
    BY <2>1, SortedOrder DEF Sorted
  <2>4. Answer' /\ Installed'
    BY <1>1, <2>1 DEF Load, Answer, Installed
  <2> QED BY <2>2, <2>3, <2>4
<1>2. CASE Ask
  <2>1. Sorted' /\ Answer' /\ Installed'
    BY <1>2 DEF Ask, Sorted, Answer, Installed, Collect
  <2>2. chosen' \subseteq Rule
    BY <1>2, RoutedRule DEF Ask, TypeOK
  <2>3. TypeOK'
    BY <1>2, <2>2 DEF Ask, TypeOK
  <2> QED BY <2>1, <2>3
<1>3. CASE UNCHANGED vars
  BY <1>3 DEF vars, TypeOK, Sorted, Installed, Answer, Collect
<1> QED BY <1>1, <1>2, <1>3 DEF Next

(* In every reachable state the rules in use are rules and sorted.           *)
THEOREM RulesSorted == Spec => [](TypeOK /\ Sorted)
<1>1. IInv => TypeOK /\ Sorted
  BY DEF IInv
<1> QED BY InitIInv, StepIInv, <1>1, PTL DEF Spec

(* However many rules a file has, and however sort.Slice arranges equals:    *)
(* the rule a request is given accepts it and is outranked by no other rule  *)
(* that accepts it, and a request that some rule accepts is given one        *)
(* (service.go 86-114 and 152-174, proxy.go 134-157).                        *)
THEOREM BestRuleAnswers == Spec => []NeverOutranked
<1>1. IInv => NeverOutranked
  <2> SUFFICES ASSUME IInv, stage = "answered"
               PROVE  /\ \A r \in chosen : Accepts(r)
                      /\ \A i \in DOMAIN rules : Accepts(rules[i]) =>
                           \E r \in chosen : r = rules[i] \/ ~Outranks(rules[i], r)
    BY DEF NeverOutranked
  <2> DEFINE places == { i \in 1..Len(rules) :
                           Takes(rules[i], request.uri, request.md, request.msg) }
  <2>1. rules \in Seq(Rule) /\ DOMAIN rules = 1..Len(rules)
    BY DEF IInv, TypeOK
  <2>2. chosen = IF places = {} THEN {} ELSE {rules[First(places)]}
    BY <2>1, RouteIsFirst DEF IInv, Answer
  <2>3. \A r : Accepts(r) <=> Takes(r, request.uri, request.md, request.msg)
    BY DEF Accepts, Takes, Matches
  <2>4. places # {} => /\ First(places) \in places
                       /\ \A j \in places : First(places) <= j
    BY FirstPlace, places \in SUBSET Nat
  <2>5. \A r \in chosen : Accepts(r)
    BY <2>2, <2>3, <2>4
  <2>6. ASSUME NEW i \in DOMAIN rules, Accepts(rules[i])
        PROVE  \E r \in chosen : r = rules[i] \/ ~Outranks(rules[i], r)
    <3>1. i \in places
      BY <2>1, <2>3, <2>6
    <3>2. rules[First(places)] \in chosen /\ First(places) <= i /\ First(places) \in 1..Len(rules)
      BY <2>2, <2>4, <3>1
    <3>3. CASE First(places) < i
      BY <2>1, <2>6, <3>2, <3>3 DEF IInv, Sorted
    <3>4. CASE First(places) = i
      BY <3>2, <3>4
    <3> QED BY <2>1, <3>2, <3>3, <3>4
  <2> QED BY <2>5, <2>6
<1> QED BY InitIInv, StepIInv, <1>1, PTL DEF Spec
(* A file with no more rules than sort.Slice sorts by insertion: the rule    *)
(* that answers is the best of those that accept the request, by the order   *)
(* the comment in mergeStates announces, and by the place in the file among  *)
(* equals (service.go 86-114 and 152-174, file.go rules).                    *)
THEOREM ShortFilesRouteToBest ==
  Spec => []RoutesToBest
<1>1. IInv => RoutesToBest
  <2> SUFFICES ASSUME IInv, Len(Collect(config)) <= StableLen, stage = "answered"
               PROVE  chosen = { Collect(config)[i] : i \in
                        { j \in Candidates : \A k \in Candidates \ {j} : Precedes(j, k) } }
    BY DEF RoutesToBest
  <2> DEFINE rs == Collect(config)
             places == { i \in 1..Len(rules) :
                           Takes(rules[i], request.uri, request.md, request.msg) }
             best == { j \in Candidates : \A k \in Candidates \ {j} : Precedes(j, k) }
             f == First(places)
  <2>1. /\ rs \in Seq(Rule) /\ rules \in Seq(Rule)
        /\ rules \in SortSlice(rs) /\ Len(rs) <= StableLen
    BY CollectedRules DEF IInv, TypeOK, Installed
  <2>2. PICK p \in [1..Len(rs) -> 1..Len(rs)] :
          /\ Len(rules) = Len(rs)
          /\ \A i \in 1..Len(rs) : rules[i] = rs[p[i]]
          /\ \A k \in 1..Len(rs) : \E i \in 1..Len(rs) : p[i] = k
          /\ \A i, j \in 1..Len(rs) : i < j =>
               /\ ~Outranks(rs[p[j]], rs[p[i]])
               /\ p[j] < p[i] => Outranks(rs[p[i]], rs[p[j]])
    <3> HIDE DEF rs
    <3> QED BY <2>1, ShortSort
  <2>3. chosen = IF places = {} THEN {} ELSE {rules[f]}
    BY <2>1, RouteIsFirst DEF IInv, Answer
  <2>4. Candidates = { k \in 1..Len(rs) : Takes(rs[k], request.uri, request.md, request.msg) }
    BY <2>1 DEF Candidates, Accepts, Takes, Matches
  <2>5. /\ \A i \in places : i \in 1..Len(rs) /\ p[i] \in Candidates
        /\ \A k \in Candidates : k \in 1..Len(rs) /\ \E i \in places : p[i] = k
    BY <2>2, <2>4
  <2>6. places # {} => f \in places /\ \A i \in places : f <= i
    BY FirstPlace, places \in SUBSET Nat
  <2>7. \A k \in 1..Len(rs) : IsFiniteSet(rs[k].md)
    BY <2>1, CollectedFinite DEF IInv, TypeOK
  <2>8. CASE places = {}
    <3>1. Candidates = {}
      BY <2>5, <2>8
    <3> QED BY <2>3, <2>8, <3>1
  <2>9. CASE places # {}
    <3> DEFINE b == p[f]
    <3>1. f \in 1..Len(rs) /\ b \in Candidates /\ b \in 1..Len(rs)
      BY <2>5, <2>6, <2>9
    <3>2. ASSUME NEW k \in Candidates, k # b
          PROVE  Precedes(b, k) /\ ~Precedes(k, b)
      <4>1. PICK g \in places : p[g] = k
        BY <2>5, <3>2
      <4>2. g \in 1..Len(rs) /\ f < g
        BY <2>5, <2>6, <2>9, <3>1, <3>2, <4>1
      <4>3. ~Outranks(rs[k], rs[b]) /\ (k < b => Outranks(rs[b], rs[k]))
        BY <2>2, <3>1, <4>1, <4>2
      <4>4. k \in 1..Len(rs) /\ IsFiniteSet(rs[k].md) /\ IsFiniteSet(rs[b].md)
        BY <2>5, <2>7, <3>1, <3>2
      <4>5. /\ Rank(rs[b]) \in Nat /\ Rank(rs[k]) \in Nat
            /\ Rank(rs[b]) >= Rank(rs[k])
            /\ k < b => Rank(rs[b]) > Rank(rs[k])
        <5>1. Rank(rs[b]) \in Nat /\ Rank(rs[k]) \in Nat
          BY <4>4, OutranksByRank
        <5>2. Outranks(rs[b], rs[k]) <=> Rank(rs[b]) > Rank(rs[k])
          BY <4>4, OutranksByRank
        <5>3. Outranks(rs[k], rs[b]) <=> Rank(rs[k]) > Rank(rs[b])
          BY <4>4, OutranksByRank
        <5> QED BY <4>3, <5>1, <5>2, <5>3
      <4>6. b \in Int /\ k \in Int
        BY <3>1, <4>4
      <4> HIDE DEF b, rs
      <4> QED BY <3>2, <4>5, <4>6 DEF Precedes, rs
    <3>3. best = {b}
      <4> HIDE DEF b
      <4> QED BY <3>1, <3>2
    <3>4. rules[f] = rs[b]
      BY <2>2, <3>1
    <3> HIDE DEF b, best
    <3>5. { rs[i] : i \in best } = { rs[b] }
      BY <3>3
    <3> QED BY <2>3, <2>9, <3>4, <3>5 DEF best
  <2> QED BY <2>8, <2>9
<1> QED BY InitIInv, StepIInv, <1>1, PTL DEF Spec
=============================================================================
