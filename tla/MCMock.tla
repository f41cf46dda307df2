-------------------------------- MODULE MCMock --------------------------------
(* Small instances of Mock: request and response snippets of one or two       *)
(* fields of every sort the definer tells apart.                              *)
EXTENDS Mock

Empty == [form |-> "empty"]
Plain(t) == [form |-> "plain", text |-> t]
Number(n) == [form |-> "number", num |-> n]
List(s) == [form |-> "list", items |-> s]
Obj(k, v) == [form |-> "object", items |-> [x \in {k} |-> v]]
Tmpl(of) == [form |-> "template", text |-> "{{}}", of |-> of, shape |-> "alone",
             key |-> "", quoted |-> FALSE]
TmplList(of) == [Tmpl(of) EXCEPT !.shape = "list"]
TmplObj(of, k) == [Tmpl(of) EXCEPT !.shape = "object", !.key = k]
Quoted(template) == [template EXCEPT !.quoted = TRUE]
BrokenTmpl == [form |-> "broken"]

None == [form |-> "none"]
Expr(S) == [form |-> "expr", accepts |-> S]

Field(name, kind, value) ==
  [name |-> name, label |-> "one", kind |-> kind, type |-> "", key |-> "text",
   oneof |-> 0, value |-> value, matcher |-> None]
Many(label, f) == [f EXCEPT !.label = label]
Of(type, f) == [f EXCEPT !.type = type]
With(matcher, f) == [f EXCEPT !.matcher = matcher]
In(oneof, f) == [f EXCEPT !.oneof = oneof]

Sub == << Field("x", "text", Plain("b")), Field("y", "number", Empty) >>
Types(target) ==
  IF \A i \in DOMAIN target : target[i].type \in {"", "Sub"}
  THEN [T |-> target, Sub |-> Sub]
  ELSE
  [T |-> target, Sub |-> Sub,
   Loop |-> << Field("x", "text", Empty), Of("Loop", Field("next", "message", Empty)) >>,
   Chain |-> << Of("Back", Many("repeated", Field("all", "message", Empty))),
                Of("Back", Field("back", "message", Obj("x", Plain("a")))) >>,
   Back |-> << Field("x", "text", Empty), Of("Chain", Field("chain", "message", Empty)) >>]
Snippet(target) ==
  [backticks |-> 2, parses |-> TRUE, types |-> Types(target),
   toplevel |-> {"T", "Sub"}, targets |-> {"T"}]

MCNumeral == [t \in {"0", "1", "2", "9"} |->
                CASE t = "0" -> 0 [] t = "1" -> 1 [] t = "2" -> 2 [] OTHER -> 9]
MCEnumNumber == [t \in {"ZERO", "ONE"} |-> IF t = "ZERO" THEN 0 ELSE 1]

Msg(fields) == [fields |-> fields, decodes |-> TRUE, canonical |-> TRUE]
Messages ==
  { Msg([id |-> "a", n |-> 1]), Msg([id |-> "b"]), Msg([id |-> "a"]),
    Msg([id |-> "a", extra |-> "b"]), Msg([id |-> "a", sub |-> [x |-> "b"]]),
    Msg([id |-> "a", n |-> 0]),
    [Msg([id |-> "a"]) EXCEPT !.canonical = FALSE],
    [Msg(NoFields) EXCEPT !.decodes = FALSE] }

Rule1(match, respond) ==
  [patterns |-> "good", match |-> match, forward |-> "none", respond |-> respond]
Body(s) == [wait |-> "none", status |-> {}, body |-> {s}, md |-> "none"]

(* Matchers, answered by a body that repeats what was matched. *)
Requests ==
  << << Field("id", "text", Plain("a")) >>,
    << Field("id", "text", Plain("a")), Field("n", "number", Empty) >>,
    << Field("id", "text", Plain("a")), With(Expr({0, 1}), Field("n", "number", Plain("2"))) >>,
    << Field("id", "text", Tmpl("id")), Field("n", "number", Plain("1")) >>,
    << With(Expr({"a"}), Field("id", "text", Tmpl("id"))), Field("n", "number", Empty) >>,
    << Field("id", "text", Plain("a")), Of("Sub", Field("sub", "message", Empty)) >>,
    << Field("id", "text", Plain("a")), With(Expr({[x |-> "b"]}), Of("Loop", Field("sub", "message", Empty))) >>,
    << In(1, Field("id", "text", Plain("a"))), In(1, Field("n", "number", Empty)) >>,
    << Field("id", "text", Plain("a")), Field("n", "number", Plain("9")) >>,
    << Field("id", "text", Plain("a")), With(Expr({0}), Field("n", "number", Empty)) >> >>
Echo == << Field("out", "text", Tmpl("id")), Field("num", "number", Plain("1")) >>
EchoNumber == << Field("num", "number", Tmpl("n")), Field("out", "text", Empty) >>
Echoes == << Echo, EchoNumber >>

(* Bodies, of rules that match the first message or read none. *)
Bodies ==
  << << Field("out", "text", Plain("b")), Field("num", "number", Plain("9")) >>,
    Echo,
    << Field("out", "text", Plain("b")), Many("repeated", Field("tags", "text", TmplList("id"))) >>,
    << Many("repeated", Field("tags", "text", Quoted(TmplList("id")))) >>,
    << Many("repeated", Field("nums", "number", TmplList("id"))) >>,
    << Many("repeated", Field("nums", "number", Quoted(TmplList("id")))) >>,
    << Of("Sub", Field("sub", "message", TmplObj("id", "x"))) >>,
    << Of("Sub", Field("sub", "message", Quoted(TmplObj("id", "x")))) >>,
    << Of("Sub", Field("sub", "message", TmplObj("id", "y"))) >>,
    << Of("Sub", Field("sub", "message", Quoted(TmplObj("id", "y")))) >>,
    << Many("map", Field("map", "text", TmplObj("id", "x"))) >>,
    << Many("map", Field("map", "number", TmplObj("id", "x"))) >>,
    << Many("map", Field("map", "text", Quoted(TmplObj("id", "x")))) >>,
    << Of("Sub", Many("map", Field("map", "message", TmplObj("id", "x")))) >>,
    << In(1, Field("out", "text", Tmpl("id"))), In(1, Field("num", "number", Empty)) >>,
    << Field("out", "text", Tmpl("n")), Of("Chain", Field("sub", "message", Obj("all", List(<<>>)))) >> >>

(* Templates of a message that print nothing when the client leaves out a    *)
(* field.                                                                    *)
Blank(type) ==
  Rule1({Snippet(<< Field("id", "text", Tmpl("id")) >>)},
        {Body(Snippet(<< Of(type, Field("sub", "message", Tmpl("id"))) >>))})
Blanks == { Msg([id |-> "a"]), Msg(NoFields) }

(* Bodies the loading accepts or refuses, or that end the process. *)
ScalarValues == << Empty, Plain("1"), Plain("ONE"), Plain("9"), BrokenTmpl >>
Lists == << Empty, Plain("1"), List(<<Number(1), Number(9)>>), List(<<Plain("1")>>),
            List(<<Obj("x", Plain("a"))>>) >>
Objects == << Empty, Plain("1"), Obj("x", Plain("a")), Obj("x", Number(1)), Obj("1", Number(9)),
              Obj("y", Number(1)), Obj("y", Number(9)), Obj("1", Obj("x", Plain("a"))),
              Obj("z", Plain("a")) >>
Kind == Scalar \union {"message"}
Damaged ==
  << [Snippet(Echo) EXCEPT !.backticks = 3], [Snippet(Echo) EXCEPT !.parses = FALSE],
     [Snippet(Echo) EXCEPT !.targets = {}], [Snippet(Echo) EXCEPT !.targets = {"T", "Sub"}],
     [Snippet(Echo) EXCEPT !.targets = {"T", "Loop"}],
     Snippet(<< With([form |-> "broken"], Field("f", "text", Empty)) >>) >>

(* The names of the rules, and the rules. *)
Ix(s) == 1..Len(s)
Name ==
  ({"body"} \X BOOLEAN \X Ix(Bodies))
  \union ({"match"} \X Ix(Requests) \X Ix(Echoes))
  \union ({"scalar"} \X Scalar \X Ix(ScalarValues))
  \union ({"list"} \X Kind \X Ix(Lists))
  \union ({"map"} \X {"text", "number"} \X Kind \X Ix(Objects))
  \union ({"message"} \X {"Sub", "Loop", "Chain", "Back"} \X Ix(Objects))
  \union ({"damaged"} \X Ix(Damaged))
  \union ({"blank"} \X {"Sub", "Loop", "Back"})
  \union ({"parts"} \X {"good", "bad"} \X {"none", "known", "unknown"}
           \X {"nothing", "none", "some", "bad"} \X {"", "NotFound", "ok", "bad"} \X BOOLEAN
           \X {"good", "refused"})

Single(f) == Rule1({}, {Body(Snippet(<< f >>))})
RuleNamed(n) ==
  CASE n[1] = "body" ->
         Rule1(IF n[2] THEN {Snippet(<< Field("id", "text", Tmpl("id")) >>)} ELSE {},
               {Body(Snippet(Bodies[n[3]]))})
    [] n[1] = "match" -> Rule1({Snippet(Requests[n[2]])}, {Body(Snippet(Echoes[n[3]]))})
    [] n[1] = "scalar" -> Single(Field("f", n[2], ScalarValues[n[3]]))
    [] n[1] = "list" -> Single(Of("Sub", Many("repeated", Field("f", n[2], Lists[n[3]]))))
    [] n[1] = "map" ->
         Single([Of("Sub", Many("map", Field("f", n[3], Objects[n[4]]))) EXCEPT !.key = n[2]])
    [] n[1] = "message" -> Single(Of(n[2], Field("f", "message", Objects[n[3]])))
    [] n[1] = "blank" -> Blank(n[2])
    [] n[1] = "damaged" -> Rule1({}, {Body(Damaged[n[2]])})
    [] OTHER ->   \* the parts of a rule
         [patterns |-> n[2], match |-> {}, forward |-> n[3],
          respond |-> IF n[4] = "nothing" THEN {}
                      ELSE {[wait |-> n[4], status |-> IF n[5] = "" THEN {} ELSE {n[5]},
                             body |-> IF n[6] THEN {Snippet(Echo)} ELSE {}, md |-> n[7]]}]
MCConfig == [n \in Name |-> RuleNamed(n)]

(* Two calls where they could meet: in the message of a body template.  A    *)
(* first message has a word, a numeral or nothing in the field that is       *)
(* printed.                                                                  *)
Meet(n) == n[1] = "body" /\ n[2] /\ n[3] <= 2
MCCalls == [n \in Name |-> IF Meet(n) THEN Call ELSE {CHOOSE d \in Call : TRUE}]
MCIncoming == [n \in Name |-> IF Meet(n) THEN { Msg([id |-> t]) : t \in {"a", "b"} }
                              ELSE CASE n[1] = "blank" -> Blanks
                                     [] n[1] = "body" -> {Msg([id |-> "1"])} \union Blanks
                                     [] OTHER -> Messages]
=============================================================================
