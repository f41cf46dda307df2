----------------------------- MODULE MCRuleOrder -----------------------------
(* Small instances of RuleOrder: every file of up to three rules of five     *)
(* kinds, with and without a not-matched section.                            *)
EXTENDS RuleOrder

CONSTANTS u1, u2, h1, h2, m1, m2

Kind(uri, md, msg) == [uri |-> uri, md |-> md, msg |-> msg]
Kinds == { Kind({u1, u2}, {}, NoMatcher), Kind({u1}, {}, {m1}),
           Kind({u1}, {h1}, NoMatcher), Kind({u1}, {h1}, {m1, m2}),
           Kind({u1}, {h1, h2}, {m2}) }

At(k, i) == [uri |-> k.uri, md |-> k.md, msg |-> k.msg, to |-> i]
FilesOf(kinds, n) ==
  { [rules |-> [i \in 1..Len(ks) |-> At(ks[i], i)], notMatched |-> nm] :
      ks \in UNION { [1..l -> kinds] : l \in 0..n }, nm \in BOOLEAN }

MCUri == {u1, u2}
MCPred == {h1, h2}
MCMsg == {m1, m2}

AllFiles == FilesOf(Kinds, 3)
=============================================================================
