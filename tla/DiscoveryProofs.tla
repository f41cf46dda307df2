--------------------------- MODULE DiscoveryProofs ---------------------------
(***************************************************************************)
(* Proofs about Discovery, for every set of providers, files, requests and *)
(* reflection streams and every bound on the merges that dial.             *)
(*                                                                         *)
(* The argument: a connection carries the number of the merge that dialed  *)
(* it, so what a merge dials is newer than all that was closed before; the *)
(* rules name connections of the merge that made them; and whatever the    *)
(* reflection streams do to the published list, it holds connections of    *)
(* one merge, which is an older one while the list is being closed.        *)
(***************************************************************************)
EXTENDS Discovery, TLAPS, SequenceTheorems, WellFoundedInduction

InstalledRule == RuleTo(Conn \union {Mock})

-----------------------------------------------------------------------------
(* What the proofs need of sorting and matching (Routing).                  *)

(* Sorting rearranges: every rule of the result is a rule of the argument    *)
(* (sort.Slice in mergeStates).                                              *)
LEMMA SortedRules ==
  ASSUME NEW S, NEW rs \in Seq(S), NEW t \in SortSlice(rs)
  PROVE  /\ t \in Seq(S)
         /\ Len(t) = Len(rs)
         /\ \A i \in 1..Len(t) : \E j \in 1..Len(rs) : t[i] = rs[j]
<1> DEFINE n == Len(rs)
<1>1. PICK p \in Injection(1..n, 1..n) : t = [i \in 1..n |-> rs[p[i]]]
  BY DEF SortSlice
<1>2. p \in [1..n -> 1..n]
  BY DEF Injection
<1>3. n \in Nat /\ \A i \in 1..n : p[i] \in 1..n /\ rs[p[i]] \in S
  BY <1>2
<1>4. t \in Seq(S) /\ Len(t) = n
  BY <1>1, <1>3
<1>5. \A i \in 1..n : t[i] = rs[p[i]]
  BY <1>1
<1> QED BY <1>3, <1>4, <1>5

(* The first place of a non-empty set of places is one of them, and no other *)
(* comes before it: the loops of MatchMessage and matchMiddleware stop there. *)
LEMMA FirstPlace ==
  ASSUME NEW P \in SUBSET Nat, P # {}
  PROVE  First(P) \in P /\ \A j \in P : First(P) <= j
<1>1. IsWellFoundedOn(OpToRel(<, Nat), Nat)
  BY NatLessThanWellFounded
<1>2. PICK x \in P : \A y \in P : ~(<<y, x>> \in OpToRel(<, Nat))
  BY <1>1, WFMin, Zenon
<1>3. \A y \in P : ~(y < x)
  BY <1>2 DEF OpToRel
<1>4. \A y \in P : x <= y
  BY <1>3
<1> QED BY <1>4 DEF First

(* What a request matches are rules of the table, at their places there      *)
(* (MatchMetadata).                                                          *)
LEMMA MatchedRules ==
  ASSUME NEW S, NEW rs \in Seq(S), NEW uri, NEW md
  PROVE  LET found == MatchMetadata(rs, uri, md)
         IN  /\ DOMAIN found \subseteq 1..Len(rs)
             /\ \A i \in DOMAIN found : found[i] = rs[i] /\ found[i] \in S
             /\ DOMAIN found # {} => First(DOMAIN found) \in DOMAIN found
<1> DEFINE found == MatchMetadata(rs, uri, md)
<1>1. /\ DOMAIN found \subseteq 1..Len(rs)
      /\ \A i \in DOMAIN found : found[i] = rs[i] /\ found[i] \in S
  BY DEF MatchMetadata
<1>2. DOMAIN found \in SUBSET Nat
  BY <1>1
<1>3. DOMAIN found # {} => First(DOMAIN found) \in DOMAIN found
  <2> HIDE DEF found
  <2> QED BY <1>2, FirstPlace
<1> QED BY <1>1, <1>3

(* The rule MatchMessage settles on is one of those it was given. *)
LEMMA ChosenRule ==
  ASSUME NEW ms, DOMAIN ms \subseteq Nat, NEW m,
         NEW rule \in MatchMessage(ms, m)
  PROVE  \E i \in DOMAIN ms : rule = ms[i]
<1> DEFINE places == Accepting(ms, m)
<1>1. places \in SUBSET Nat /\ places \subseteq DOMAIN ms
  BY DEF Accepting
<1>2. places # {} /\ rule = ms[First(places)]
  BY DEF MatchMessage
<1>3. First(places) \in places
  <2> HIDE DEF places
  <2> QED BY <1>1, <1>2, FirstPlace
<1> QED BY <1>1, <1>2, <1>3

-----------------------------------------------------------------------------
(* The inductive invariant, in parts.                                        *)

(* Where Run is decides whether it holds the lock and a merge. *)
ControlInv ==
  /\ locked <=> pc = "swap"
  /\ pc \notin {"merge", "swap"} => merged = Nothing

(* Connections belong to the merges begun so far that may dial; those that   *)
(* are closed during a merge belong to earlier ones.                         *)
AgeInv ==
  /\ closed \subseteq dialed
  /\ \A c \in dialed : c.gen <= gen /\ c.gen <= MaxMerges
  /\ pc \in {"merge", "swap"} => \A c \in closed : c.gen < gen

(* The merged connections are dialed by this merge, and its rules name them. *)
MergedInv ==
  /\ Range(merged.ups) \subseteq dialed
  /\ \A c \in Range(merged.ups) : c.gen = gen
  /\ Targets(merged.rules) \subseteq Range(merged.ups)

(* The published connections are older than what is being merged. *)
PublishedInv ==
  /\ Range(upstreams) \subseteq dialed
  /\ pc \in {"merge", "swap"} => \A c \in Range(upstreams) : c.gen < gen

(* The rules name open connections, which are new ones during the swap and   *)
(* of the same merge as the published ones otherwise.                        *)
TableInv ==
  /\ Running => Targets(rules) \subseteq Open
  /\ pc = "swap" => \A c \in Targets(rules) : c.gen = gen
  /\ pc # "swap" => \A c, d \in Targets(rules) \union Range(upstreams) : c.gen = d.gen

IInv == /\ TypeOK
        /\ ControlInv
        /\ AgeInv
        /\ MergedInv
        /\ PublishedInv
        /\ TableInv

-----------------------------------------------------------------------------
(* Lemmas about the operators the steps are built from.                      *)

(* A function on 1..n is a sequence of length n. *)
LEMMA FunctionIsSeq ==
  ASSUME NEW S, NEW n \in Nat, NEW f \in [1..n -> S]
  PROVE  f \in Seq(S) /\ Len(f) = n
OBVIOUS

(* The connections of one dial are a list of as many as the names, all of    *)
(* the same merge, which is one of those that may dial (File.upstreams).     *)
LEMMA DialedConns ==
  ASSUME gen \in Nat, NEW p \in Provider, NEW f \in File
  PROVE  /\ DialAll(p, f.ups) \in Seq(Conn)
         /\ Len(DialAll(p, f.ups)) = Len(f.ups)
         /\ Range(DialAll(p, f.ups)) \subseteq Conn
         /\ \A c \in Range(DialAll(p, f.ups)) : c.gen = gen /\ (Dials(f) => gen <= MaxMerges)
<1>1. f.ups \in Seq(Name)
  BY ConstantsAssumption DEF FileType
<1>2. Len(f.ups) \in Nat /\ \A i \in 1..Len(f.ups) : f.ups[i] \in Name
  BY <1>1
<1>3. \A i \in 1..Len(f.ups) : DialAll(p, f.ups)[i] = [gen |-> gen, prov |-> p, name |-> f.ups[i]]
  BY DEF DialAll
<1>4. /\ DialAll(p, f.ups) \in Seq(Conn)
      /\ Len(DialAll(p, f.ups)) = Len(f.ups)
  BY <1>2 DEF DialAll, Conn
<1>5. Range(DialAll(p, f.ups)) \subseteq Conn
  BY <1>4, RangeOfSeq
<1>6. ASSUME NEW c \in Range(DialAll(p, f.ups))
      PROVE  c.gen = gen /\ (Dials(f) => gen <= MaxMerges)
  <2>1. PICK i \in 1..Len(f.ups) : c = DialAll(p, f.ups)[i]
    BY <1>4, RangeEquality
  <2>2. c = [gen |-> gen, prov |-> p, name |-> f.ups[i]]
    BY <1>3, <2>1
  <2>3. f.ups # << >>
    BY <1>2, <2>1
  <2> QED BY <2>2, <2>3 DEF Dials
<1> QED BY <1>4, <1>5, <1>6

(* A rule whose target is one of the file's upstreams resolves to a          *)
(* connection of the same dial, any other field unchanged (parseRule).       *)
LEMMA ResolvedRules ==
  ASSUME gen \in Nat, NEW p \in Provider, NEW f \in File, ~Dangling(f),
         NEW i \in 1..Len(f.rules)
  PROVE  /\ Resolved(p, f.rules[i]) \in InstalledRule
         /\ Resolved(p, f.rules[i]).to # Mock =>
              Resolved(p, f.rules[i]).to \in Range(DialAll(p, f.ups))
<1> DEFINE rule == f.rules[i]
<1>1. f.rules \in Seq(RuleTo(Name \union {Mock})) /\ f.ups \in Seq(Name)
  BY ConstantsAssumption DEF FileType
<1>2. rule \in RuleTo(Name \union {Mock})
  BY <1>1
<1>3. CASE rule.to = Mock
  BY <1>2, <1>3 DEF Resolved, RuleTo, InstalledRule
<1>4. CASE rule.to # Mock
  <2>1. PICK j \in 1..Len(f.ups) : rule.to = f.ups[j]
    BY <1>1, <1>4 DEF Dangling, Range
  <2>2. Resolved(p, rule) = [rule EXCEPT !.to = DialAll(p, f.ups)[j]]
    BY <1>4, <2>1 DEF Resolved, DialAll
  <2>3. DialAll(p, f.ups)[j] \in Conn /\ DialAll(p, f.ups)[j] \in Range(DialAll(p, f.ups))
    BY DialedConns, <1>1, RangeEquality
  <2> QED BY <1>2, <2>2, <2>3 DEF RuleTo, InstalledRule
<1> QED BY <1>3, <1>4

(* The targets of a list of rules are those at its places (Rule.Forward). *)
LEMMA TargetsOf ==
  ASSUME NEW S, NEW rs \in Seq(S)
  PROVE  Targets(rs) = { rs[i].to : i \in 1..Len(rs) } \ {Mock}
BY DEF Targets

(* The rules of a file resolve to well-formed ones that name connections of  *)
(* the same dial (File.rules).                                               *)
LEMMA NewRules ==
  ASSUME gen \in Nat, NEW p \in Provider, NEW f \in File, ~Dangling(f)
  PROVE  LET new == [ i \in 1..Len(f.rules) |-> Resolved(p, f.rules[i]) ]
         IN  new \in Seq(InstalledRule) /\ Targets(new) \subseteq Range(DialAll(p, f.ups))
<1> DEFINE new == [ i \in 1..Len(f.rules) |-> Resolved(p, f.rules[i]) ]
<1>1. Len(f.rules) \in Nat
  <2>1. f.rules \in Seq(RuleTo(Name \union {Mock}))
    BY ConstantsAssumption DEF FileType
  <2> QED BY <2>1
<1>2. \A i \in 1..Len(f.rules) :
        /\ Resolved(p, f.rules[i]) \in InstalledRule
        /\ Resolved(p, f.rules[i]).to # Mock =>
             Resolved(p, f.rules[i]).to \in Range(DialAll(p, f.ups))
  BY ResolvedRules
<1> HIDE DEF InstalledRule
<1>3. new \in [1..Len(f.rules) -> InstalledRule]
  BY <1>2
<1>4. \A i \in 1..Len(f.rules) : new[i] = Resolved(p, f.rules[i])
  OBVIOUS
<1> HIDE DEF new
<1>5. new \in Seq(InstalledRule) /\ Len(new) = Len(f.rules)
  BY <1>1, <1>3, FunctionIsSeq
<1>6. Targets(new) \subseteq Range(DialAll(p, f.ups))
  BY <1>2, <1>4, <1>5, TargetsOf
<1> QED BY <1>5, <1>6 DEF new

(* Sorting names no new targets (service.go 90-96).                          *)
LEMMA SortedTargets ==
  ASSUME NEW S, NEW rs \in Seq(S), NEW t \in SortSlice(rs)
  PROVE  Targets(t) \subseteq Targets(rs)
<1>1. t \in Seq(S) /\ \A i \in 1..Len(t) : \E j \in 1..Len(rs) : t[i] = rs[j]
  BY SortedRules
<1> QED BY <1>1, TargetsOf

(* Appending the rules of a file adds no targets but theirs (service.go 82). *)
LEMMA JoinedTargets ==
  ASSUME NEW S, NEW rs \in Seq(S), NEW more \in Seq(S)
  PROVE  Targets(rs \o more) \subseteq Targets(rs) \union Targets(more)
<1>1. rs \o more \in Seq(S) /\ Len(rs \o more) = Len(rs) + Len(more)
  OBVIOUS
<1>2. \A i \in 1..(Len(rs) + Len(more)) :
        (rs \o more)[i] = IF i <= Len(rs) THEN rs[i] ELSE more[i - Len(rs)]
  OBVIOUS
<1>5. Targets(rs \o more)
        = { (rs \o more)[i].to : i \in 1..(Len(rs) + Len(more)) } \ {Mock}
  <2> DEFINE all == rs \o more
  <2>1. all \in Seq(S) /\ Len(all) = Len(rs) + Len(more)
    BY <1>1
  <2> HIDE DEF all
  <2>2. Targets(all) = { all[i].to : i \in 1..(Len(rs) + Len(more)) } \ {Mock}
    BY <2>1, TargetsOf
  <2> QED BY <2>2 DEF all
<1> SUFFICES ASSUME NEW i \in 1..(Len(rs) + Len(more)), (rs \o more)[i].to # Mock
             PROVE  (rs \o more)[i].to \in Targets(rs) \union Targets(more)
  BY <1>5
<1>3. CASE i <= Len(rs)
  <2>1. i \in 1..Len(rs) /\ (rs \o more)[i] = rs[i]
    BY <1>2, <1>3
  <2> QED BY <2>1, TargetsOf
<1>4. CASE ~(i <= Len(rs))
  <2>1. i - Len(rs) \in 1..Len(more) /\ (rs \o more)[i] = more[i - Len(rs)]
    BY <1>2, <1>4
  <2> QED BY <2>1, TargetsOf
<1> QED BY <1>3, <1>4

(* Appending in place leaves a list of the same length with no new elements  *)
(* (reflection.go 60).                                                       *)
LEMMA ShiftedList ==
  ASSUME NEW S, NEW ups \in Seq(S), NEW i \in Nat, NEW n \in 0..Len(ups)
  PROVE  /\ Shifted(ups, i, n) \in Seq(S)
         /\ Len(Shifted(ups, i, n)) = Len(ups)
         /\ Range(Shifted(ups, i, n)) \subseteq Range(ups)
<1>1. Len(ups) \in Nat
  OBVIOUS
<1>2. \A j \in 1..Len(ups) : \E k \in 1..Len(ups) : Shifted(ups, i, n)[j] = ups[k]
  <2> TAKE j \in 1..Len(ups)
  <2>1. CASE i <= j /\ j < n
    BY <1>1, <2>1 DEF Shifted
  <2>2. CASE ~(i <= j /\ j < n)
    BY <1>1, <2>2 DEF Shifted
  <2> QED BY <2>1, <2>2
<1>3. Shifted(ups, i, n) \in [1..Len(ups) -> S]
  BY <1>2 DEF Shifted
<1>4. Shifted(ups, i, n) \in Seq(S) /\ Len(Shifted(ups, i, n)) = Len(ups)
  BY <1>1, <1>3, FunctionIsSeq
<1>5. Range(Shifted(ups, i, n)) = { Shifted(ups, i, n)[j] : j \in 1..Len(ups) }
  <2> DEFINE t == Shifted(ups, i, n)
  <2>1. t \in Seq(S) /\ Len(t) = Len(ups)
    BY <1>4
  <2> HIDE DEF t
  <2>2. Range(t) = { t[j] : j \in 1..Len(ups) }
    BY <2>1, RangeEquality
  <2> QED BY <2>2 DEF t
<1>6. Range(ups) = { ups[k] : k \in 1..Len(ups) }
  BY RangeEquality
<1> QED BY <1>2, <1>4, <1>5, <1>6

-----------------------------------------------------------------------------
(* Type correctness.                                                         *)

(* The first states are typed: nothing is loaded, dialed or asked.           *)
LEMMA TypeInit == Init => TypeOK
<1> SUFFICES ASSUME Init PROVE TypeOK
  OBVIOUS
<1>1. merged \in [rules : Seq(RuleTo(Conn \union {Mock})), ups : Seq(Conn)]
  BY EmptySeq DEF Init, Nothing
<1>2. next \in 1..(NProviders + 1)
  BY ConstantsAssumption DEF Init
<1>3. /\ rules \in Seq(RuleTo(Conn \union {Mock}))
      /\ upstreams \in Seq(Conn)
      /\ filter \in [Stream -> [idx : 0..(Len(upstreams) + 1), len : 0..Len(upstreams)]]
  BY EmptySeq DEF Init, NoFilter
<1>4. /\ call \in [Request -> {"new", "recv", "routed", "stream", "nomatch", "noread",
                               "mock", "ok", "nostream", "aborted"}]
      /\ target \in [Request -> Conn \union {Mock}]
      /\ DOMAIN matches = Request
      /\ \A r \in Request : DOMAIN matches[r] = {}
  BY DEF Init
<1>5. /\ gen \in Nat /\ closing \in Nat \ {0}
      /\ pc \in {"select", "merge", "swap", "exit", "stopped"}
  BY DEF Init
<1> QED BY <1>1, <1>2, <1>3, <1>4, <1>5 DEF Init, TypeOK

(* Every step of Service.Run keeps the types (service.go 31-69).             *)
LEMMA TypeRun == TypeOK /\ Run => TypeOK'
<1> SUFFICES ASSUME TypeOK, Run PROVE TypeOK'
  OBVIOUS
<1> USE DEF TypeOK, InstalledRule, sourceVars, mergeVars, tableVars, connVars, callVars
<1>1. ASSUME BeginMerge, event' \subseteq event PROVE TypeOK'
  <2>1. merged' \in [rules : Seq(RuleTo(Conn \union {Mock})), ups : Seq(Conn)]
    BY <1>1, EmptySeq DEF BeginMerge, Nothing
  <2>2. next' \in 1..(NProviders + 1) /\ gen' \in Nat
    BY <1>1, ConstantsAssumption DEF BeginMerge, NextGen
  <2>3. pc' \in {"select", "merge", "swap", "exit", "stopped"} /\ failed' \in BOOLEAN
    BY <1>1 DEF BeginMerge
  <2>4. UNCHANGED << stopOnError, ctxDone, srcClosed, closing, tableVars, connVars, callVars >>
    BY <1>1 DEF BeginMerge
  <2> QED BY <1>1, <2>1, <2>2, <2>3, <2>4
<1>2. ASSUME NEW p \in Provider, TakeEvent(p) PROVE TypeOK'
  BY <1>1, <1>2 DEF TakeEvent
<1>3. CASE TakeZeroEvent
  BY <1>1, <1>3 DEF TakeZeroEvent
<1>4. CASE TakeDone
  <2>1. closing' \in Nat \ {0} /\ pc' \in {"select", "merge", "swap", "exit", "stopped"}
    BY <1>4 DEF TakeDone
  <2>2. UNCHANGED << sourceVars, mergeVars, tableVars, connVars, callVars >>
    BY <1>4 DEF TakeDone
  <2> QED BY <2>1, <2>2
<1>5. ASSUME NEW p \in Provider, NEW f \in File, StateOk(p, f) PROVE TypeOK'
  <2>1. gen \in Nat /\ next = p /\ next + 1 \in 1..(NProviders + 1)
    BY <1>5, ConstantsAssumption DEF StateOk, Provider
  <2>2. DialAll(p, f.ups) \in Seq(Conn) /\ Range(DialAll(p, f.ups)) \subseteq Conn
    BY <2>1, DialedConns
  <2> DEFINE new == [ i \in 1..Len(f.rules) |-> Resolved(p, f.rules[i]) ]
  <2>3. new \in Seq(InstalledRule)
    BY <1>5, <2>1, NewRules DEF StateOk
  <2>4. merged' = [rules |-> merged.rules \o new, ups |-> merged.ups \o DialAll(p, f.ups)]
    BY <1>5 DEF StateOk
  <2>5. merged'.rules \in Seq(InstalledRule) /\ merged'.ups \in Seq(Conn)
    <3>1. merged.rules \in Seq(InstalledRule) /\ merged.ups \in Seq(Conn)
      OBVIOUS
    <3> HIDE DEF InstalledRule, new
    <3> QED BY <2>2, <2>3, <2>4, <3>1
  <2>6. merged' \in [rules : Seq(RuleTo(Conn \union {Mock})), ups : Seq(Conn)]
    BY <2>4, <2>5
  <2>7. dialed' \subseteq Conn
    BY <1>5, <2>2 DEF StateOk
  <2> QED BY <1>5, <2>1, <2>6, <2>7 DEF StateOk, StateFrame
<1>6. ASSUME NEW p \in Provider, NEW f \in File,
             NEW D \in SUBSET Range(DialAll(p, f.ups)), StateFails(p, f, D)
      PROVE  TypeOK'
  <2>1. gen \in Nat /\ next = p /\ next + 1 \in 1..(NProviders + 1)
    BY <1>6, ConstantsAssumption DEF StateFails, Provider
  <2>2. D \subseteq Conn
    BY <2>1, DialedConns
  <2> QED BY <1>6, <2>1, <2>2 DEF StateFails, StateFrame
<1>7. CASE GiveUp
  <2>1. merged' = Nothing
    BY <1>7 DEF GiveUp
  <2>2. merged' \in [rules : Seq(RuleTo(Conn \union {Mock})), ups : Seq(Conn)]
    BY <2>1, EmptySeq DEF Nothing
  <2>3. closing' \in Nat \ {0} /\ pc' \in {"select", "merge", "swap", "exit", "stopped"}
    BY <1>7 DEF GiveUp
  <2>4. UNCHANGED << sourceVars, gen, next, failed, tableVars, connVars, callVars >>
    BY <1>7 DEF GiveUp
  <2> QED BY <2>2, <2>3, <2>4
<1>8. CASE InstallRules
  <2>1. rules' \in Seq(InstalledRule)
    BY <1>8, SortedRules DEF InstallRules
  <2>2. /\ closing' \in Nat \ {0} /\ locked' \in BOOLEAN
        /\ pc' \in {"select", "merge", "swap", "exit", "stopped"}
    BY <1>8 DEF InstallRules
  <2>3. UNCHANGED << sourceVars, mergeVars, upstreams, filter, connVars, callVars >>
    BY <1>8 DEF InstallRules
  <2> QED BY <2>1, <2>2, <2>3
<1>9. CASE CloseOne
  <2>1. upstreams[closing] \in Conn
    BY <1>9 DEF CloseOne
  <2>2. closing' \in Nat \ {0} /\ closed' \subseteq Conn
    BY <1>9, <2>1 DEF CloseOne
  <2>3. UNCHANGED << sourceVars, pc, mergeVars, tableVars, dialed, callVars >>
    BY <1>9 DEF CloseOne
  <2> QED BY <2>2, <2>3
<1>10. CASE PublishUpstreams
  <2>1. /\ upstreams' \in Seq(Conn) /\ merged' = Nothing
        /\ locked' \in BOOLEAN /\ pc' \in {"select", "merge", "swap", "exit", "stopped"}
    BY <1>10 DEF PublishUpstreams
  <2>2. filter' \in [Stream -> [idx : 0..(Len(upstreams') + 1), len : 0..Len(upstreams')]]
    BY <1>10, <2>1 DEF PublishUpstreams, NoFilter
  <2>3. merged' \in [rules : Seq(RuleTo(Conn \union {Mock})), ups : Seq(Conn)]
    BY <2>1, EmptySeq DEF Nothing
  <2>4. UNCHANGED << sourceVars, gen, next, failed, closing, rules, connVars, callVars >>
    BY <1>10 DEF PublishUpstreams
  <2> QED BY <2>1, <2>2, <2>3, <2>4
<1>11. CASE Return
  BY <1>11 DEF Return
<1> QED BY <1>2, <1>3, <1>4, <1>5, <1>6, <1>7, <1>8, <1>9, <1>10, <1>11 DEF Run

(* Every step of a request keeps the types (proxy.go 119-302).               *)
LEMMA TypeServing == TypeOK /\ Serving => TypeOK'
<1> SUFFICES ASSUME TypeOK, NEW r \in Request,
                    \/ Match(r)
                    \/ \E m \in Msg : ReadFirst(r, m)
                    \/ ReadFirstFails(r)
                    \/ Serve(r)
                    \/ Finish(r)
             PROVE  TypeOK'
  BY DEF Serving
<1>1. ASSUME NEW at, NEW found, NEW to, Move(r, at, found, to),
             at \in {"new", "recv", "routed", "stream", "nomatch", "noread",
                     "mock", "ok", "nostream", "aborted"},
             to \in Conn \union {Mock},
             DOMAIN found \subseteq Nat,
             \A i \in DOMAIN found : found[i] \in InstalledRule
      PROVE  TypeOK'
  <2>1. UNCHANGED svcVars
    BY <1>1 DEF Move
  <2>2. /\ call' \in [Request -> {"new", "recv", "routed", "stream", "nomatch",
                                  "noread", "mock", "ok", "nostream", "aborted"}]
        /\ target' \in [Request -> Conn \union {Mock}]
    BY <1>1 DEF Move, TypeOK
  <2>3. /\ DOMAIN matches' = Request
        /\ \A q \in Request :
             /\ DOMAIN matches'[q] \subseteq Nat
             /\ \A i \in DOMAIN matches'[q] : matches'[q][i] \in RuleTo(Conn \union {Mock})
    BY <1>1 DEF Move, TypeOK, InstalledRule
  <2> QED BY <2>1, <2>2, <2>3 DEF TypeOK, svcVars, sourceVars, mergeVars, tableVars, connVars
<1>2. DOMAIN << >> = {}
  OBVIOUS
<1>3. CASE Match(r)
  <2> DEFINE found == MatchMetadata(rules, UriOf[r], MdOf[r])
  <2>1. rules \in Seq(InstalledRule)
    BY DEF TypeOK, InstalledRule
  <2>2. /\ DOMAIN found \subseteq Nat
        /\ \A i \in DOMAIN found : found[i] \in InstalledRule
        /\ DOMAIN found # {} => First(DOMAIN found) \in DOMAIN found
    BY <2>1, MatchedRules
  <2>3. DOMAIN found # {} => found[First(DOMAIN found)].to \in Conn \union {Mock}
    BY <2>2 DEF InstalledRule, RuleTo
  <2>4. \/ Move(r, "nomatch", << >>, Mock)
        \/ Move(r, "recv", found, Mock)
        \/ /\ DOMAIN found # {}
           /\ Move(r, "routed", << >>, found[First(DOMAIN found)].to)
    BY <1>3 DEF Match
  <2> HIDE DEF found
  <2> QED BY <1>1, <1>2, <2>2, <2>3, <2>4
<1>4. ASSUME NEW m \in Msg, ReadFirst(r, m) PROVE TypeOK'
  <2>1. \A rule \in MatchMessage(matches[r], m) : rule.to \in Conn \union {Mock}
    <3>1. \A i \in DOMAIN matches[r] : matches[r][i] \in InstalledRule
      BY DEF TypeOK, InstalledRule
    <3>2. DOMAIN matches[r] \subseteq Nat
      BY DEF TypeOK
    <3>3. \A rule \in MatchMessage(matches[r], m) : rule \in InstalledRule
      BY <3>1, <3>2, ChosenRule
    <3> QED BY <3>3 DEF InstalledRule, RuleTo
  <2> QED BY <1>1, <1>2, <1>4, <2>1 DEF ReadFirst
<1>5. CASE ReadFirstFails(r)
  BY <1>1, <1>2, <1>5 DEF ReadFirstFails
<1>6. target[r] \in Conn \union {Mock}
  BY DEF TypeOK
<1>7. CASE Serve(r)
  BY <1>1, <1>2, <1>6, <1>7 DEF Serve
<1>8. CASE Finish(r)
  BY <1>1, <1>2, <1>6, <1>8 DEF Finish
<1> QED BY <1>3, <1>4, <1>5, <1>7, <1>8

(* Every step of a reflection stream keeps the types: the list it shifts     *)
(* keeps its length, and its own slice is never longer (reflection.go 57-62). *)
LEMMA TypeReflector == TypeOK /\ Reflector => TypeOK'
<1> SUFFICES ASSUME TypeOK, NEW s \in Stream,
                    TakeSlice(s) \/ KeepNext(s) \/ DropNext(s) \/ FilterEnds(s)
             PROVE  TypeOK'
  BY DEF Reflector
<1> DEFINE n == Len(upstreams)
           F  == [Stream -> [idx : 0..(n + 1), len : 0..n]]
<1>1. upstreams \in Seq(Conn) /\ n \in Nat /\ filter \in F
  BY DEF TypeOK
<1>2. ASSUME upstreams' \in Seq(Conn), Len(upstreams') = n, filter' \in F, FilterFrame
      PROVE  TypeOK'
  BY <1>2 DEF TypeOK, FilterFrame, sourceVars, mergeVars, connVars, callVars
<1>3. /\ filter[s] \in [idx : 0..(n + 1), len : 0..n]
      /\ filter[s].idx \in 0..(n + 1) /\ filter[s].len \in 0..n
  BY <1>1
<1>4. ASSUME NEW v \in [idx : 0..(n + 1), len : 0..n] PROVE [filter EXCEPT ![s] = v] \in F
  BY <1>1
<1>5. NoFilter \in [idx : 0..(n + 1), len : 0..n]
  BY <1>1 DEF NoFilter
<1>6. CASE TakeSlice(s)
  <2>1. [idx |-> 1, len |-> n] \in [idx : 0..(n + 1), len : 0..n]
    BY <1>1
  <2> QED BY <1>1, <1>2, <1>4, <1>6, <2>1 DEF TakeSlice
<1>7. CASE KeepNext(s)
  <2>1. filter' = [filter EXCEPT ![s] = [idx |-> filter[s].idx + 1, len |-> filter[s].len]]
    <3>1. filter' = [filter EXCEPT ![s] = [filter[s] EXCEPT !.idx = filter[s].idx + 1]]
      BY <1>7 DEF KeepNext
    <3>2. [filter[s] EXCEPT !.idx = filter[s].idx + 1]
            = [idx |-> filter[s].idx + 1, len |-> filter[s].len]
      BY <1>3
    <3> QED BY <3>1, <3>2
  <2>2. [idx |-> filter[s].idx + 1, len |-> filter[s].len] \in [idx : 0..(n + 1), len : 0..n]
    BY <1>1, <1>3, <1>7 DEF KeepNext, Filtering
  <2> QED BY <1>1, <1>2, <1>4, <1>7, <2>1, <2>2 DEF KeepNext
<1>8. CASE DropNext(s)
  <2>1. CASE filter[s].idx <= filter[s].len
    <3>1. /\ upstreams' = Shifted(upstreams, filter[s].idx, filter[s].len)
          /\ filter' = [filter EXCEPT ![s] = [idx |-> filter[s].idx + 1, len |-> filter[s].len - 1]]
          /\ FilterFrame
      BY <1>1, <1>3, <1>8, <2>1 DEF DropNext
    <3>2. [idx |-> filter[s].idx + 1, len |-> filter[s].len - 1]
            \in [idx : 0..(n + 1), len : 0..n]
      BY <1>1, <1>3, <1>8, <2>1 DEF DropNext, Filtering
    <3>3. upstreams' \in Seq(Conn) /\ Len(upstreams') = n
      BY <1>1, <1>3, <3>1, ShiftedList
    <3> QED BY <1>2, <1>4, <3>1, <3>2, <3>3
  <2>2. CASE ~(filter[s].idx <= filter[s].len)
    BY <1>1, <1>2, <1>3, <1>4, <1>5, <1>8, <2>2 DEF DropNext
  <2> QED BY <2>1, <2>2
<1>9. CASE FilterEnds(s)
  BY <1>1, <1>2, <1>4, <1>5, <1>9 DEF FilterEnds
<1> QED BY <1>6, <1>7, <1>8, <1>9

(* Every step of the service and of its environment keeps the types.         *)
LEMMA TypeStep == TypeOK /\ [Next]_vars => TypeOK'
<1> SUFFICES ASSUME TypeOK, [Next]_vars PROVE TypeOK'
  OBVIOUS
<1> USE DEF sourceVars, mergeVars, tableVars, connVars, callVars
<1>1. ASSUME NEW p \in Provider, Report(p) \/ CloseSource(p) PROVE TypeOK'
  BY <1>1 DEF TypeOK, Report, CloseSource
<1>2. CASE Cancel
  BY <1>2 DEF TypeOK, Cancel
<1>3. CASE UNCHANGED vars
  BY <1>3 DEF TypeOK, vars, svcVars
<1> QED BY <1>1, <1>2, <1>3, TypeRun, TypeServing, TypeReflector DEF Next

(* Every variable keeps its type in every behaviour of the service. *)
THEOREM TypeCorrect == Spec => []TypeOK
BY TypeInit, TypeStep, PTL DEF Spec

-----------------------------------------------------------------------------
(* The invariant is inductive.                                               *)

coreVars == << pc, mergeVars, closing, rules, upstreams, locked, connVars >>

(* Connections have the number of a merge, and lists of them no others.      *)
LEMMA Numbers ==
  ASSUME TypeOK
  PROVE  /\ gen \in Nat /\ MaxMerges \in Nat
         /\ \A c \in Conn : c.gen \in Nat
         /\ dialed \subseteq Conn
         /\ upstreams \in Seq(Conn)
         /\ merged.ups \in Seq(Conn)
         /\ rules \in Seq(InstalledRule)
         /\ merged.rules \in Seq(InstalledRule)
BY ConstantsAssumption DEF TypeOK, Conn, InstalledRule

(* An empty list names nothing. *)
LEMMA NothingNamed == Targets(<< >>) = {} /\ Range(<< >>) = {}
BY DEF Targets, Range

(* The inductive invariant holds before the first event.                     *)
LEMMA IInvInit == Init => IInv
<1> SUFFICES ASSUME Init PROVE IInv
  OBVIOUS
<1>1. TypeOK
  BY TypeInit
<1>2. ControlInv /\ AgeInv
  BY DEF Init, ControlInv, AgeInv
<1>3. /\ merged.ups = << >> /\ merged.rules = << >>
      /\ upstreams = << >> /\ rules = << >> /\ pc = "select"
  BY DEF Init, Nothing
<1>4. MergedInv /\ PublishedInv /\ TableInv
  BY <1>3, NothingNamed DEF MergedInv, PublishedInv, TableInv
<1> QED BY <1>1, <1>2, <1>4 DEF IInv

(* Steps of providers and requests leave the invariant's variables alone. *)
LEMMA IInvFrame == IInv /\ TypeOK' /\ UNCHANGED coreVars => IInv'
BY DEF IInv, ControlInv, AgeInv, MergedInv, PublishedInv, TableInv, coreVars,
       mergeVars, connVars, Running, Open, Targets

(* An event starts a merge with nothing merged yet (service.go 48-51): its   *)
(* number is above that of every connection there is.                        *)
LEMMA IInvBeginMerge == IInv /\ TypeOK' /\ BeginMerge => IInv'
<1> SUFFICES ASSUME IInv, TypeOK', BeginMerge PROVE IInv'
  OBVIOUS
<1>1. /\ pc = "select" /\ pc' = "merge" /\ gen' = NextGen
      /\ UNCHANGED << rules, upstreams, locked, dialed, closed >>
  BY DEF BeginMerge, tableVars, connVars
<1>2. merged = Nothing /\ merged' = Nothing
  BY <1>1 DEF BeginMerge, IInv, ControlInv
<1>3. gen <= gen' /\ \A c \in dialed : c.gen < gen'
  <2>1. gen \in Nat /\ MaxMerges \in Nat /\ \A c \in dialed : c.gen \in Nat
    BY Numbers DEF IInv
  <2> QED BY <1>1, <2>1 DEF IInv, AgeInv, NextGen
<1>4. ControlInv'
  BY <1>1, <1>2 DEF IInv, ControlInv
<1>5. AgeInv'
  <2>1. gen \in Nat /\ gen' \in Nat /\ \A c \in dialed : c.gen \in Nat
    BY Numbers DEF IInv, TypeOK
  <2> QED BY <1>1, <1>3, <2>1 DEF IInv, AgeInv
<1>6. MergedInv'
  <2>1. merged'.ups = << >> /\ merged'.rules = << >>
    BY <1>2 DEF Nothing
  <2> QED BY <2>1, NothingNamed DEF MergedInv, Targets
<1>7. PublishedInv'
  BY <1>1, <1>3 DEF IInv, PublishedInv
<1>8. TableInv'
  BY <1>1 DEF IInv, TableInv, Running, Open, Targets
<1> QED BY <1>4, <1>5, <1>6, <1>7, <1>8 DEF IInv

(* A done context leaves the table and its connections to be closed in turn  *)
(* (service.go 45-47).                                                       *)
LEMMA IInvTakeDone == IInv /\ TypeOK' /\ TakeDone => IInv'
<1> SUFFICES ASSUME IInv, TypeOK', TakeDone PROVE IInv'
  OBVIOUS
<1>1. /\ pc = "select" /\ pc' = "exit"
      /\ UNCHANGED << gen, merged, rules, upstreams, locked, dialed, closed >>
  BY DEF TakeDone, mergeVars, tableVars, connVars
<1> QED BY <1>1 DEF IInv, ControlInv, AgeInv, MergedInv, PublishedInv, TableInv,
                    Running, Open, Targets

(* A provider that fails only adds connections nobody holds (file.go         *)
(* 97-130).                                                                  *)
LEMMA IInvStateFails ==
  ASSUME IInv, TypeOK', NEW p \in Provider, NEW f \in File,
         NEW D \in SUBSET Range(DialAll(p, f.ups)), StateFails(p, f, D)
  PROVE  IInv'
<1>1. /\ pc = "merge" /\ dialed' = dialed \union D
      /\ UNCHANGED << pc, gen, merged, rules, upstreams, locked, closed >>
      /\ Dials(f)
  BY DEF StateFails, StateFrame, tableVars
<1>2. \A c \in D : c.gen = gen /\ gen <= MaxMerges
  BY <1>1, Numbers, DialedConns DEF IInv
<1>3. gen \in Nat
  BY Numbers DEF IInv
<1>4. AgeInv'
  BY <1>1, <1>2, <1>3 DEF IInv, AgeInv
<1>5. ControlInv' /\ MergedInv' /\ PublishedInv' /\ TableInv'
  BY <1>1 DEF IInv, ControlInv, MergedInv, PublishedInv, TableInv, Running, Open, Targets
<1> QED BY <1>4, <1>5 DEF IInv

(* A provider that succeeds adds rules that name connections it has just     *)
(* dialed (file.go 97-130, service.go 76-84).                                *)
LEMMA IInvStateOk ==
  ASSUME IInv, TypeOK', NEW p \in Provider, NEW f \in File, StateOk(p, f)
  PROVE  IInv'
<1> DEFINE new == DialAll(p, f.ups)
           some == [ i \in 1..Len(f.rules) |-> Resolved(p, f.rules[i]) ]
<1>1. /\ pc = "merge" /\ dialed' = dialed \union Range(new)
      /\ merged' = [rules |-> merged.rules \o some, ups |-> merged.ups \o new]
      /\ UNCHANGED << pc, gen, rules, upstreams, locked, closed >>
      /\ Dials(f) /\ ~Dangling(f)
  BY DEF StateOk, StateFrame, tableVars
<1>2. /\ gen \in Nat
      /\ merged.ups \in Seq(Conn) /\ merged.rules \in Seq(InstalledRule)
  BY Numbers DEF IInv
<1>3. /\ new \in Seq(Conn)
      /\ \A c \in Range(new) : c.gen = gen /\ gen <= MaxMerges
  BY <1>1, <1>2, DialedConns
<1>4. some \in Seq(InstalledRule) /\ Targets(some) \subseteq Range(new)
  BY <1>1, <1>2, NewRules
<1> HIDE DEF new, some
<1>5. merged'.ups = merged.ups \o new /\ merged'.rules = merged.rules \o some
  BY <1>1
<1>6. Range(merged'.ups) = Range(merged.ups) \union Range(new)
  BY <1>2, <1>3, <1>5, RangeConcatenation
<1>7. Targets(merged.rules \o some) \subseteq Targets(merged.rules) \union Targets(some)
  BY <1>2, <1>4, JoinedTargets
<1>8. Targets(merged.rules)' = Targets(merged.rules \o some)
  BY <1>5 DEF Targets
<1>9. ControlInv'
  BY <1>1 DEF IInv, ControlInv
<1>10. AgeInv'
  BY <1>1, <1>2, <1>3 DEF IInv, AgeInv
<1>11. MergedInv'
  BY <1>1, <1>3, <1>4, <1>6, <1>7, <1>8 DEF IInv, MergedInv
<1>12. PublishedInv' /\ TableInv'
  BY <1>1 DEF IInv, PublishedInv, TableInv, Running, Open, Targets
<1> QED BY <1>9, <1>10, <1>11, <1>12 DEF IInv

(* With StopOnError a failed merge drops what it has dialed (service.go      *)
(* 52-55).                                                                   *)
LEMMA IInvGiveUp == IInv /\ TypeOK' /\ GiveUp => IInv'
<1> SUFFICES ASSUME IInv, TypeOK', GiveUp PROVE IInv'
  OBVIOUS
<1>1. /\ pc = "merge" /\ pc' = "exit" /\ merged' = Nothing
      /\ UNCHANGED << gen, rules, upstreams, locked, dialed, closed >>
  BY DEF GiveUp, MergeDone, tableVars, connVars
<1>2. ControlInv' /\ AgeInv' /\ PublishedInv' /\ TableInv'
  BY <1>1 DEF IInv, ControlInv, AgeInv, PublishedInv, TableInv, Running, Open, Targets
<1>3. MergedInv'
  <2>1. merged'.ups = << >> /\ merged'.rules = << >>
    BY <1>1 DEF Nothing
  <2> QED BY <2>1, NothingNamed DEF MergedInv, Targets
<1> QED BY <1>2, <1>3 DEF IInv

(* Installing the merged rules takes the lock and names open connections     *)
(* (service.go 58-60).                                                       *)
LEMMA IInvInstallRules == IInv /\ TypeOK' /\ InstallRules => IInv'
<1> SUFFICES ASSUME IInv, TypeOK', InstallRules PROVE IInv'
  OBVIOUS
<1>1. /\ pc = "merge" /\ pc' = "swap" /\ locked' = TRUE
      /\ rules' \in SortSlice(merged.rules)
      /\ UNCHANGED << gen, merged, upstreams, dialed, closed >>
  BY DEF InstallRules, MergeDone, mergeVars, connVars
<1>2. ControlInv' /\ AgeInv' /\ MergedInv' /\ PublishedInv'
  BY <1>1 DEF IInv, ControlInv, AgeInv, MergedInv, PublishedInv, Targets
<1>3. gen \in Nat /\ merged.rules \in Seq(InstalledRule)
  BY Numbers DEF IInv
<1>4. Targets(rules') \subseteq Range(merged.ups)
  BY <1>1, <1>3, SortedTargets DEF IInv, MergedInv
<1>5. \A c \in Targets(rules') : c \in dialed /\ c \notin closed /\ c.gen = gen
  BY <1>1, <1>3, <1>4 DEF IInv, MergedInv, AgeInv
<1>6. Targets(rules)' = Targets(rules')
  BY DEF Targets
<1>7. TableInv'
  BY <1>1, <1>5, <1>6 DEF TableInv, Running, Open
<1> QED BY <1>2, <1>7 DEF IInv

(* closeUpstreams closes a connection the new table does not name            *)
(* (service.go 124-134).                                                     *)
LEMMA ClosingOld ==
  ASSUME IInv, pc \in {"swap", "exit"}, closing <= Len(upstreams)
  PROVE  /\ upstreams[closing] \in dialed
         /\ Running => upstreams[closing].gen < gen /\ upstreams[closing] \notin Targets(rules)
<1>1. closing \in 1..Len(upstreams) /\ gen \in Nat /\ upstreams \in Seq(Conn)
  BY Numbers DEF IInv, TypeOK
<1>2. upstreams[closing] \in Range(upstreams)
  BY <1>1, RangeEquality
<1>3. ASSUME Running
      PROVE  upstreams[closing].gen < gen /\ upstreams[closing] \notin Targets(rules)
  <2>1. pc = "swap"
    BY <1>3 DEF Running
  <2> QED BY <1>1, <1>2, <2>1 DEF IInv, PublishedInv, TableInv
<1> QED BY <1>2, <1>3 DEF IInv, PublishedInv

(* Closing an upstream keeps the invariant (service.go 124-134).             *)
LEMMA IInvCloseOne == IInv /\ TypeOK' /\ CloseOne => IInv'
<1> SUFFICES ASSUME IInv, TypeOK', CloseOne PROVE IInv'
  OBVIOUS
<1>1. /\ pc \in {"swap", "exit"} /\ closing <= Len(upstreams)
      /\ closed' = closed \union {upstreams[closing]}
      /\ UNCHANGED << pc, gen, merged, rules, upstreams, locked, dialed >>
  BY DEF CloseOne, mergeVars, tableVars
<1>2. /\ upstreams[closing] \in dialed
      /\ Running => upstreams[closing].gen < gen /\ upstreams[closing] \notin Targets(rules)
  BY <1>1, ClosingOld
<1>3. ControlInv' /\ MergedInv' /\ PublishedInv'
  BY <1>1 DEF IInv, ControlInv, MergedInv, PublishedInv, Targets
<1>4. AgeInv'
  BY <1>1, <1>2 DEF IInv, AgeInv, Running
<1>5. TableInv'
  BY <1>1, <1>2 DEF IInv, TableInv, Running, Open, Targets
<1> QED BY <1>3, <1>4, <1>5 DEF IInv

(* Publishing the merged upstreams releases the lock (service.go 61-62).     *)
LEMMA IInvPublish == IInv /\ TypeOK' /\ PublishUpstreams => IInv'
<1> SUFFICES ASSUME IInv, TypeOK', PublishUpstreams PROVE IInv'
  OBVIOUS
<1>1. /\ pc = "swap" /\ pc' = "select"
      /\ upstreams' = merged.ups /\ merged' = Nothing /\ locked' = FALSE
      /\ UNCHANGED << gen, rules, dialed, closed >>
  BY DEF PublishUpstreams, connVars
<1>2. ControlInv' /\ AgeInv'
  BY <1>1 DEF IInv, ControlInv, AgeInv
<1>3. MergedInv'
  <2>1. merged'.ups = << >> /\ merged'.rules = << >>
    BY <1>1 DEF Nothing
  <2> QED BY <2>1, NothingNamed DEF MergedInv, Targets
<1>4. PublishedInv'
  BY <1>1 DEF IInv, MergedInv, PublishedInv
<1>5. TableInv'
  <2>1. Targets(rules)' = Targets(rules) /\ Range(upstreams') = Range(merged.ups)
    BY <1>1 DEF Targets
  <2>2. \A c \in Targets(rules) \union Range(merged.ups) : c.gen = gen
    BY <1>1 DEF IInv, TableInv, MergedInv
  <2> QED BY <1>1, <2>1, <2>2 DEF IInv, TableInv, Running, Open
<1> QED BY <1>2, <1>3, <1>4, <1>5 DEF IInv

(* Returning changes nothing but where Run is.                               *)
LEMMA IInvReturn == IInv /\ TypeOK' /\ Return => IInv'
<1> SUFFICES ASSUME IInv, TypeOK', Return PROVE IInv'
  OBVIOUS
<1>1. /\ pc = "exit" /\ pc' = "stopped"
      /\ UNCHANGED << gen, merged, rules, upstreams, locked, dialed, closed >>
  BY DEF Return, mergeVars, tableVars, connVars
<1> QED BY <1>1 DEF IInv, ControlInv, AgeInv, MergedInv, PublishedInv, TableInv,
                    Running, Open, Targets

(* A reflection stream shifts the published list, at any time: it brings no  *)
(* new connection into it (reflection.go 57-62).                             *)
LEMMA IInvReflector == IInv /\ TypeOK' /\ Reflector => IInv'
<1> SUFFICES ASSUME IInv, TypeOK', NEW s \in Stream,
                    TakeSlice(s) \/ KeepNext(s) \/ DropNext(s) \/ FilterEnds(s)
             PROVE  IInv'
  BY DEF Reflector
<1>1. UNCHANGED << pc, gen, merged, rules, locked, dialed, closed >>
  BY DEF TakeSlice, KeepNext, DropNext, FilterEnds, FilterFrame, mergeVars, connVars
<1>2. Range(upstreams') \subseteq Range(upstreams)
  <2>1. CASE upstreams' = upstreams
    BY <2>1
  <2>2. CASE upstreams' = Shifted(upstreams, filter[s].idx, filter[s].len)
    <3>1. /\ upstreams \in Seq(Conn)
          /\ filter[s] \in [idx : 0..(Len(upstreams) + 1), len : 0..Len(upstreams)]
      BY DEF IInv, TypeOK
    <3>2. filter[s].idx \in Nat /\ filter[s].len \in 0..Len(upstreams)
      BY <3>1
    <3> QED BY <2>2, <3>1, <3>2, ShiftedList
  <2> QED BY <2>1, <2>2 DEF TakeSlice, KeepNext, DropNext, FilterEnds
<1>3. ControlInv' /\ AgeInv' /\ MergedInv'
  BY <1>1 DEF IInv, ControlInv, AgeInv, MergedInv, Targets
<1>4. PublishedInv'
  BY <1>1, <1>2 DEF IInv, PublishedInv
<1>5. TableInv'
  <2>1. Targets(rules)' = Targets(rules) /\ Open' = Open /\ (Running' <=> Running)
    BY <1>1 DEF Targets, Open, Running
  <2> QED BY <1>1, <1>2, <2>1 DEF IInv, TableInv
<1> QED BY <1>3, <1>4, <1>5 DEF IInv

(* Every step keeps the inductive invariant, one case for each action.       *)
LEMMA IInvStep == IInv /\ [Next]_vars => IInv'
<1> SUFFICES ASSUME IInv, [Next]_vars PROVE IInv'
  OBVIOUS
<1> USE DEF mergeVars, tableVars, connVars
<1>1. TypeOK'
  BY TypeStep DEF IInv
<1>2. ASSUME NEW p \in Provider, Report(p) \/ CloseSource(p) PROVE IInv'
  BY <1>1, <1>2, IInvFrame DEF Report, CloseSource, coreVars
<1>3. CASE Cancel
  BY <1>1, <1>3, IInvFrame DEF Cancel, coreVars
<1>4. CASE Run
  <2>1. ASSUME NEW p \in Provider, TakeEvent(p) PROVE IInv'
    BY <1>1, <2>1, IInvBeginMerge DEF TakeEvent
  <2>2. CASE TakeZeroEvent
    BY <1>1, <2>2, IInvBeginMerge DEF TakeZeroEvent
  <2>3. ASSUME NEW p \in Provider, NEW f \in File, StateOk(p, f) PROVE IInv'
    BY <1>1, <2>3, IInvStateOk
  <2>4. ASSUME NEW p \in Provider, NEW f \in File,
               NEW D \in SUBSET Range(DialAll(p, f.ups)), StateFails(p, f, D)
        PROVE  IInv'
    BY <1>1, <2>4, IInvStateFails
  <2> QED BY <1>1, <1>4, <2>1, <2>2, <2>3, <2>4, IInvTakeDone, IInvGiveUp,
             IInvInstallRules, IInvCloseOne, IInvPublish, IInvReturn DEF Run
<1>5. CASE Serving
  <2>1. UNCHANGED svcVars
    BY <1>5 DEF Serving, Match, ReadFirst, ReadFirstFails, Serve, Finish, Move
  <2> QED BY <1>1, <2>1, IInvFrame DEF svcVars, coreVars
<1>6. CASE Reflector
  BY <1>1, <1>6, IInvReflector
<1>7. CASE UNCHANGED vars
  BY <1>1, <1>7, IInvFrame DEF vars, svcVars, coreVars
<1> QED BY <1>2, <1>3, <1>4, <1>5, <1>6, <1>7 DEF Next

(* In every reachable state the table, what is merged, what is published and *)
(* what is closed fit together, although the reflection streams write the    *)
(* published list without the lock (service.go 31-69, reflection.go 57-62).  *)
THEOREM InductiveInvariant == Spec => []IInv
BY IInvInit, IInvStep, PTL DEF Spec

-----------------------------------------------------------------------------
(* What follows from the invariant.                                          *)

(* The targets of the table are open while Run is running; they are of one   *)
(* merge with the published connections when the lock is free.               *)
LEMMA InvTable == IInv => TableIsServable
BY DEF IInv, ControlInv, TableInv, TableIsServable

(* The table always names open connections, and readers never see the rules  *)
(* and upstreams of different reloads (service.go 58-62).                    *)
THEOREM TableAlwaysServable == Spec => []TableIsServable
BY InductiveInvariant, InvTable, PTL

(* A call fails on its connection only when the table no longer names it, or *)
(* Run is returning.                                                         *)
THEOREM CallsLostOnlyAcrossReload == Spec => LostOnlyAcrossReload
<1> DEFINE A == \A r \in Request :
                  (call'[r] \in {"nostream", "aborted"} /\ call'[r] # call[r])
                    => (Running => target[r] \notin Targets(rules))
<1>1. IInv /\ [Next]_vars => A
  <2> SUFFICES ASSUME IInv, [Next]_vars, NEW r \in Request,
                      call'[r] \in {"nostream", "aborted"}, call'[r] # call[r], Running
               PROVE  target[r] \notin Targets(rules)
    OBVIOUS
  <2>1. call \in [Request -> {"new", "recv", "routed", "stream", "nomatch", "noread",
                              "mock", "ok", "nostream", "aborted"}]
    BY DEF IInv, TypeOK
  <2>2. Serving
    <3>1. ~ UNCHANGED callVars
      BY DEF callVars
    <3>2. ASSUME NEW p \in Provider, Report(p) \/ CloseSource(p) PROVE UNCHANGED callVars
      BY <3>2 DEF Report, CloseSource
    <3>3. Cancel => UNCHANGED callVars
      BY DEF Cancel
    <3>4. Run => UNCHANGED callVars
      BY DEF Run, TakeEvent, TakeZeroEvent, BeginMerge, TakeDone, StateOk, StateFails,
             StateFrame, GiveUp, InstallRules, CloseOne, PublishUpstreams, Return
    <3>5. Reflector => UNCHANGED callVars
      BY DEF Reflector, TakeSlice, KeepNext, DropNext, FilterEnds, FilterFrame
    <3>6. UNCHANGED vars => UNCHANGED callVars
      BY DEF vars
    <3> QED BY <3>1, <3>2, <3>3, <3>4, <3>5, <3>6 DEF Next
  <2>3. PICK q \in Request : \/ Match(q)
                             \/ \E m \in Msg : ReadFirst(q, m)
                             \/ ReadFirstFails(q)
                             \/ Serve(q)
                             \/ Finish(q)
    BY <2>2 DEF Serving
  <2>4. target[r] \in closed
    BY <2>1, <2>3 DEF Match, ReadFirst, ReadFirstFails, Serve, Finish, Move
  <2> QED BY <2>4, InvTable DEF TableIsServable, Open
<1>2. IInv /\ [Next]_vars => [A]_vars
  BY <1>1
<1> QED BY <1>2, InductiveInvariant, PTL DEF Spec, LostOnlyAcrossReload

-----------------------------------------------------------------------------
(* Refinement.                                                               *)

(* The service implements the routing table of RouteTable: it is replaced as *)
(* a whole, and a connection is retired only when the table has let it go;   *)
(* to close one a second time is a stutter.                                  *)
THEOREM ImplementsRouteTable == Spec => RouteTableSpec
<1> USE DEF mergeVars, tableVars, connVars
<1>1. Init => Promise!Init
  BY DEF Init, Promise!Init, Open, Running
<1>2. IInv /\ [Next]_vars => [Promise!Next]_(Promise!vars)
  <2> SUFFICES ASSUME IInv, [Next]_vars
               PROVE  Promise!Next \/ UNCHANGED << rules, Open, closed, Running >>
    BY DEF Promise!vars
  <2>1. ASSUME NEW p \in Provider, Report(p) \/ CloseSource(p)
        PROVE  UNCHANGED << rules, Open, closed, Running >>
    BY <2>1 DEF Report, CloseSource, Open, Running
  <2>2. CASE Cancel
    BY <2>2 DEF Cancel, Open, Running
  <2>3. ASSUME BeginMerge PROVE UNCHANGED << rules, Open, closed, Running >>
    BY <2>3 DEF BeginMerge, Open, Running
  <2>4. CASE TakeDone
    BY <2>4 DEF TakeDone, Promise!Next, Promise!Shutdown, Open, Running
  <2>5. ASSUME NEW p \in Provider, NEW f \in File, NEW D, StateOk(p, f) \/ StateFails(p, f, D),
               D \subseteq Range(DialAll(p, f.ups))
        PROVE  Promise!Dial
    <3>1. gen \in Nat
      BY DEF IInv, TypeOK
    <3>2. PICK C : C \subseteq Range(DialAll(p, f.ups)) /\ dialed' = dialed \union C
      BY <2>5 DEF StateOk, StateFails
    <3>3. UNCHANGED << rules, closed, pc >> /\ pc = "merge"
      BY <2>5 DEF StateOk, StateFails, StateFrame
    <3>4. \A c \in C : c.gen = gen
      BY <3>1, <3>2, DialedConns
    <3>5. \A c \in closed : c.gen < gen
      BY <3>3 DEF IInv, AgeInv
    <3>6. C \intersect closed = {}
      BY <3>1, <3>4, <3>5
    <3> QED BY <3>2, <3>3, <3>6 DEF Promise!Dial, Open, Running
  <2>6. CASE GiveUp
    BY <2>6 DEF GiveUp, MergeDone, Promise!Next, Promise!Shutdown, Open, Running
  <2>7. CASE InstallRules
    <3>1. /\ rules' \in SortSlice(merged.rules) /\ pc = "merge" /\ pc' = "swap"
          /\ UNCHANGED << dialed, closed, merged >>
      BY <2>7 DEF InstallRules, MergeDone
    <3>2. merged.rules \in Seq(InstalledRule) /\ gen \in Nat
      BY Numbers DEF IInv
    <3>3. rules' \in Seq(InstalledRule) /\ Targets(rules') \subseteq Targets(merged.rules)
      BY <3>1, <3>2, SortedRules, SortedTargets
    <3>4. Targets(rules') \subseteq Open
      BY <3>1, <3>2, <3>3 DEF IInv, MergedInv, AgeInv, Open
    <3> QED BY <3>1, <3>3, <3>4 DEF Promise!Next, Promise!Replace, Open, Running, InstalledRule
  <2>8. CASE CloseOne
    <3> DEFINE c == upstreams[closing]
    <3>1. /\ closed' = closed \union {c}
          /\ UNCHANGED << rules, dialed, pc >>
          /\ pc \in {"swap", "exit"} /\ closing <= Len(upstreams)
      BY <2>8 DEF CloseOne
    <3>2. c \in dialed /\ (Running => c \notin Targets(rules))
      BY <3>1, ClosingOld
    <3>3. CASE c \in closed
      BY <3>1, <3>3 DEF Open, Running
    <3>4. CASE c \notin closed
      <4>1. c \in Open /\ Promise!Retire(c)
        BY <3>1, <3>2, <3>4 DEF Promise!Retire, Open, Running
      <4> QED BY <4>1 DEF Promise!Next
    <3> QED BY <3>3, <3>4
  <2>9. CASE PublishUpstreams
    BY <2>9 DEF PublishUpstreams, Open, Running
  <2>10. CASE Return
    BY <2>10 DEF Return, Open, Running
  <2>11. CASE Run
    <3>1. (\E p \in Provider : TakeEvent(p)) \/ TakeZeroEvent => BeginMerge
      BY DEF TakeEvent, TakeZeroEvent
    <3>2. ASSUME NEW p \in Provider, NEW f \in File,
                 StateOk(p, f) \/ \E D \in SUBSET Range(DialAll(p, f.ups)) : StateFails(p, f, D)
          PROVE  Promise!Next
      BY <2>5, <3>2 DEF Promise!Next
    <3> QED BY <2>3, <2>4, <2>6, <2>7, <2>8, <2>9, <2>10, <2>11, <3>1, <3>2 DEF Run
  <2>12. CASE Serving
    <3>1. UNCHANGED svcVars
      BY <2>12 DEF Serving, Match, ReadFirst, ReadFirstFails, Serve, Finish, Move
    <3> QED BY <3>1 DEF svcVars, Open, Running
  <2>13. CASE Reflector
    BY <2>13 DEF Reflector, TakeSlice, KeepNext, DropNext, FilterEnds, FilterFrame, Open, Running
  <2>14. CASE UNCHANGED vars
    BY <2>14 DEF vars, svcVars, Open, Running
  <2> QED BY <2>1, <2>2, <2>11, <2>12, <2>13, <2>14 DEF Next
<1> QED BY <1>1, <1>2, InductiveInvariant, PTL DEF Spec, RouteTableSpec, Promise!Spec
=============================================================================
