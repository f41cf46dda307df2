----------------------------- MODULE MCDiscovery -----------------------------
(* Small instances of Discovery.                                             *)
EXTENDS Discovery

CONSTANTS a, b, r1, r2, m1, m2, u1, h1, s1

MCName == {a, b}
MCMsg == {m1, m2}
MCUri == {u1}
MCPred == {h1}

Rule(md, msg, to) == [uri |-> {u1}, md |-> md, msg |-> msg, to |-> to]
Content(ups, bad, rs) == [readable |-> TRUE, ups |-> ups, bad |-> bad, rules |-> rs]

(* A forward that is overtaken by another for one header; a forward for one  *)
(* first message; a mock, without upstreams; a file whose second address     *)
(* does not dial; one whose rule names no upstream; an unreadable one.       *)
Overtaken == Content(<<a, b>>, {}, << Rule({}, NoMatcher, a), Rule({h1}, NoMatcher, b) >>)
ByMessage == Content(<<a>>, {}, << Rule({}, {m1}, a) >>)
MockOnly  == Content(<< >>, {}, << Rule({}, NoMatcher, Mock) >>)
NotDialed == Content(<<a, b>>, {b}, << Rule({}, NoMatcher, a) >>)
NoTarget  == Content(<<a>>, {}, << Rule({}, NoMatcher, b) >>)
Garbage   == [readable |-> FALSE, ups |-> << >>, bad |-> {}, rules |-> << >>]

AllFiles == {Overtaken, ByMessage, MockOnly, NotDialed, NoTarget, Garbage}

(* One call without and one with the header. *)
MCUriOf == [r \in Request |-> u1]
MCMdOf  == [r \in Request |-> IF r = r1 THEN {} ELSE {h1}]
=============================================================================
