------------------------------ MODULE Protodef ------------------------------
(***************************************************************************)
(* Protobuf snippets (pkg/protodef): from a snippet in the configuration   *)
(* to the template of a message, and what the template matches and         *)
(* generates.  Operators only.                                             *)
(*                                                                         *)
(* A snippet is the outcome of protoparse, as data: the number of its      *)
(* backticks, whether it parses, its top-level message types, and which of *)
(* them carry the target option.  A message type is a sequence of fields   *)
(*   name, label ("one", "repeated", "map"), kind, type (of a message),    *)
(*   key (kind of a map's keys), oneof (0, or the number of its oneof),    *)
(*   value (the value option), matcher (the matcher option).               *)
(* The value option is a text the code reads as a scalar, as YAML or as    *)
(* JSON; it is given by what it reads as: form "empty", "plain" (text),    *)
(* "list" (items), "object" (a function from keys to items), "template" or *)
(* "broken" (text/template refuses it).  A template prints the value of    *)
(* key `of` alone, as the item of a list, or at a key of an object, and    *)
(* there between quotes or not.  Texts are words, which YAML reads as      *)
(* themselves, numerals, or "".  An item is "plain", a "number", an        *)
(* "object", or of a text without quotes in an object "bare" (a word, no   *)
(* JSON) or "blank" (nothing, which YAML reads as null).                   *)
(* A matcher has form "none", "broken" (expr.Compile refuses it) or "expr" *)
(* with the set of values it accepts.  Of the scalar types three are told  *)
(* apart: text (string), number (int32, in the place of all that parse and *)
(* are cast) and enum.                                                     *)
(*                                                                         *)
(* A message is a function from the names of the fields that are present   *)
(* to their values, as dynamic.Message.values.                             *)
(***************************************************************************)
EXTENDS Integers, Sequences, FiniteSets

CONSTANTS
  Half,        \* numbers are -Half .. Half-1 (Half is 2^31 in the code)
  Numeral,     \* the texts strconv.ParseInt accepts, with what they read as
  EnumNumber,  \* the names of enum values, with their numbers
  NoValue,     \* what a template prints for a key it is not given
  Garbled      \* the text reflect makes of a number: the character of that code

ASSUME ProtodefAssumption ==
  /\ Half \in Nat \ {0}
  /\ \A t \in DOMAIN Numeral : Numeral[t] \in Int
  /\ \A t \in DOMAIN EnumNumber : EnumNumber[t] \in Int
  /\ NoValue \notin DOMAIN Numeral \union DOMAIN EnumNumber \union {""}

(* A snippet that parses is well-formed: its fields have different names,    *)
(* the types of its fields are there, maps have keys of scalar type, lists   *)
(* and maps are in no oneof.  The value of a singular scalar field reads as  *)
(* a scalar.                                                                 *)
Scalar == {"text", "number", "enum"}
FieldType(types, f) ==
  /\ f.label \in {"one", "repeated", "map"}
  /\ f.kind \in Scalar \union {"message"}
  /\ f.kind = "message" => f.type \in DOMAIN types
  /\ f.key \in {"text", "number"}
  /\ f.matcher.form \in {"none", "broken", "expr"}
  /\ f.label # "one" => f.oneof = 0
  /\ f.label = "one" /\ f.kind # "message" =>
       \/ f.value.form \in {"empty", "broken"}
       \/ f.value.form = "plain" /\ f.value.text # ""
       \/ f.value.form = "template" /\ f.value.shape = "alone"
TypesType(types) ==
  /\ IsFiniteSet(DOMAIN types)
  /\ \A t \in DOMAIN types :
       /\ types[t] \in Seq({ types[t][i] : i \in DOMAIN types[t] })
       /\ \A i \in DOMAIN types[t] : FieldType(types, types[t][i])
       /\ \A i, j \in DOMAIN types[t] : types[t][i].name = types[t][j].name => i = j
SnippetType(s) == s.toplevel \subseteq DOMAIN s.types /\ TypesType(s.types)

Ok(v) == [res |-> "ok", val |-> v]
Fail(how) == [res |-> how]   \* "error", "panic", or "endless" recursion

(* What comes after a call that may fail. *)
Then(outcome, Go(_)) == IF outcome.res = "ok" THEN Go(outcome.val) ELSE outcome

(* Several independent calls: all their values, or a failure of one.         *)
All(outcomes) ==
  LET SomeIs(how) == \E k \in DOMAIN outcomes : outcomes[k].res = how
  IN  IF SomeIs("panic") THEN Fail("panic")
      ELSE IF SomeIs("error") THEN Fail("error")
      ELSE Ok([k \in DOMAIN outcomes |-> outcomes[k].val])

(* A loop over a sequence that ends at the first failure. *)
Each(seq, init, Step(_, _)) ==
  LET after[i \in 0..Len(seq)] ==
        IF i = 0 THEN Ok(init) ELSE Then(after[i-1], LAMBDA v : Step(v, seq[i]))
  IN  after[Len(seq)]

-----------------------------------------------------------------------------
(* Values.                                                                   *)

NoFields == << >>   \* the message with no field present
Zero(kind) == CASE kind = "text" -> "" [] kind = "message" -> NoFields [] OTHER -> 0

(* reflect.Convert of a number to int32 keeps the low bits. *)
Wrap(n) == ((n + Half) % (2 * Half)) - Half

(* The parsers of scalar types, for the text of a value option. *)
ParseScalar(kind, text) ==
  CASE kind = "text" -> Ok(text)
    [] kind = "number" -> IF text \in DOMAIN Numeral
                          THEN Ok(Wrap(Numeral[text])) ELSE Fail("error")
    [] kind = "enum" -> IF text \in DOMAIN EnumNumber
                        THEN Ok(EnumNumber[text]) ELSE Fail("error")

(* cast, of an item of a YAML list or object: whether it converts, and to what. *)
IsText(item) == item.form \in {"plain", "bare"}
Casts(kind, item) == item.form = "number" \/ (IsText(item) /\ kind = "text")
Cast(kind, item) ==
  IF IsText(item) THEN item.text
  ELSE IF kind = "text" THEN Garbled
  ELSE Wrap(item.num)

(* A field of a JSON object of scalars; a number may be quoted, and one out  *)
(* of range is refused.                                                      *)
FromJSON(f, item) ==
  IF f.label # "one" THEN Fail("error")
  ELSE CASE f.kind = "text" /\ item.form = "plain" -> Ok(item.text)
         [] f.kind = "enum" /\ item.form = "plain" -> ParseScalar("enum", item.text)
         [] f.kind = "number" /\ item.form = "plain" ->
              IF item.text \in DOMAIN Numeral /\ Wrap(Numeral[item.text]) = Numeral[item.text]
              THEN Ok(Numeral[item.text]) ELSE Fail("error")
         [] f.kind \notin {"text", "message"} /\ item.form = "number" ->
              IF Wrap(item.num) = item.num THEN Ok(item.num) ELSE Fail("error")
         [] OTHER -> Fail("error")

FieldNamed(fs, name) == CHOOSE i \in DOMAIN fs : fs[i].name = name

(* dynamic.Message.UnmarshalJSON; the value options of the type do not matter. *)
Decode(fs, v) ==
  IF v.form # "object" \/ \E k \in DOMAIN v.items : \A i \in DOMAIN fs : fs[i].name # k
  THEN Fail("error")
  ELSE LET Field(k) == fs[FieldNamed(fs, k)]
       IN  Then(All([k \in DOMAIN v.items |-> FromJSON(Field(k), v.items[k])]),
                LAMBDA read : Ok([k \in { j \in DOMAIN read : read[j] # Zero(Field(j).kind) }
                                    |-> read[k]]))

(* A message read as YAML and handed on as JSON; null has no fields. *)
DecodeItem(fs, item) == IF item.form = "blank" THEN Ok(NoFields) ELSE Decode(fs, item)

(* buildRepeated: an item that does not convert makes reflect panic. *)
BuildRepeated(types, f, v) ==
  IF v.form # "list" THEN Fail("error")
  ELSE All([i \in DOMAIN v.items |->
             IF f.kind = "message" THEN DecodeItem(types[f.type], v.items[i])
             ELSE IF Casts(f.kind, v.items[i]) THEN Ok(Cast(f.kind, v.items[i]))
             ELSE Fail("panic")])

(* One value of a map of scalars: cast, and parsed if that left a text.  The *)
(* parser of enums looks in the type of the map field, which has no enum.    *)
MapValue(kind, item) ==
  IF item.form # "number" /\ ~IsText(item) THEN Fail("panic")
  ELSE IF Casts(kind, item) THEN Ok(Cast(kind, item))
  ELSE IF kind = "enum" THEN Fail("panic")
  ELSE ParseScalar(kind, item.text)

(* A key and its value.  The keys of a map of messages stay texts, which the *)
(* setter refuses for other keys.                                            *)
MapEntry(types, f, k, item) ==
  Then(ParseScalar(f.key, k), LAMBDA key :
    IF f.kind = "message" /\ f.key # "text" THEN Fail("error")
    ELSE Then(IF f.kind = "message" THEN DecodeItem(types[f.type], item) ELSE MapValue(f.kind, item),
              LAMBDA val : Ok([key |-> key, val |-> val])))

(* buildMap.  Keys are visited in any order: a map with an error and a panic *)
(* would meet either.                                                        *)
BuildMap(types, f, v) ==
  IF v.form # "object" THEN Fail("error")
  ELSE Then(All([k \in DOMAIN v.items |-> MapEntry(types, f, k, v.items[k])]),
            LAMBDA es : Ok([x \in { es[k].key : k \in DOMAIN es } |->
                              es[CHOOSE k \in DOMAIN es : es[k].key = x].val]))

(* buildValue, for a field with value option v; nested holds the message that *)
(* each type is built as from its own options.                                *)
BuildValue(types, f, v, nested) ==
  IF v.form = "empty"
  THEN IF f.label # "one" THEN Ok(<< >>)
       ELSE IF f.kind = "message" THEN nested[f.type] ELSE Ok(Zero(f.kind))
  ELSE CASE f.label = "map"      -> BuildMap(types, f, v)
         [] f.label = "repeated" -> BuildRepeated(types, f, v)
         [] f.label = "one" /\ f.kind = "message" -> Decode(types[f.type], v)
         [] f.label = "one" /\ f.kind # "message" -> ParseScalar(f.kind, v.text)

(* Whether the setter keeps no value: for an empty list or map, and for a    *)
(* scalar at its zero, except in a oneof.                                    *)
Unset(f, val) ==
  IF f.label # "one" THEN DOMAIN val = {}
  ELSE f.kind # "message" /\ f.oneof = 0 /\ val = Zero(f.kind)

(* dynamic.Message.TrySetField; the other members of a oneof go. *)
Put(fs, msg, f, val) ==
  LET rivals == { fs[i].name : i \in { j \in DOMAIN fs : f.oneof # 0 /\ fs[j].oneof = f.oneof } }
  IN  IF Unset(f, val) THEN [n \in DOMAIN msg \ {f.name} |-> msg[n]]
      ELSE [n \in (DOMAIN msg \ rivals) \union {f.name} |-> IF n = f.name THEN val ELSE msg[n]]

(* setField *)
SetField(types, fs, msg, f, v, nested) ==
  Then(BuildValue(types, f, v, nested), LAMBDA val : Ok(Put(fs, msg, f, val)))

\* Mutant: lists and maps without a value are built from the type, too.
BuildMessageOfAll(types) ==
  LET asOne(f) == IF f.value.form = "empty" THEN [f EXCEPT !.label = "one"] ELSE f
      build[levels \in 0..Cardinality(DOMAIN types) + 1] ==
        IF levels = 0 THEN [t \in DOMAIN types |-> Fail("endless")]
        ELSE LET nested == build[levels - 1]
             IN  [t \in DOMAIN types |->
                    Each(types[t], NoFields,
                      LAMBDA msg, f : SetField(types, types[t], msg, asOne(f), f.value, nested))]
  IN  build[Cardinality(DOMAIN types) + 1]

(* buildMessage, for each type: every field by its option, fields of message *)
(* type without a value from their own types, and so on.  A nesting deeper   *)
(* than there are types has no end: the stack overflows, which ends the      *)
(* process.                                                                  *)
BuildMessage(types) ==
  LET build[levels \in 0..Cardinality(DOMAIN types) + 1] ==
        IF levels = 0 THEN [t \in DOMAIN types |-> Fail("endless")]
        ELSE LET nested == build[levels - 1]
             IN  [t \in DOMAIN types |->
                    Each(types[t], NoFields,
                      LAMBDA msg, f : SetField(types, types[t], msg, f, f.value, nested))]
  IN  build[Cardinality(DOMAIN types) + 1]

-----------------------------------------------------------------------------
(* Templates: the fields of the target, its static part, and the fields that *)
(* are templated or have a matcher.                                          *)

(* What parseTemplate makes of a field: a templated value is looked at first *)
(* (isTemplated is its form), then the matcher, then the value.              *)
Role(f) ==
  IF f.value.form = "broken" THEN "broken"
  ELSE IF f.value.form = "template" THEN "dynamic"
  ELSE CASE f.matcher.form = "broken" -> "broken"
         [] f.matcher.form = "expr" -> "matcher"
         [] OTHER -> "static"

(* Definer.parseTemplate *)
ParseTemplate(types, target) ==
  Each(types[target],
       [types |-> types, fields |-> types[target], static |-> NoFields,
        dynamic |-> << >>, matchers |-> << >>],
       LAMBDA t, f :
         CASE Role(f) = "broken"  -> Fail("error")
           [] Role(f) = "dynamic" -> Ok([t EXCEPT !.dynamic = Append(@, f)])
           [] Role(f) = "matcher" -> Ok([t EXCEPT !.matchers = Append(@, f)])
           [] OTHER ->
                Then(SetField(types, t.fields, t.static, f, f.value, BuildMessage(types)),
                     LAMBDA msg : Ok([t EXCEPT !.static = msg])))

(* joinMultilineStrings: a last backtick that is not closed is an error. *)
Unclosed(snippet) == snippet.backticks % 2 = 1

(* findTarget: the top-level messages with the target option. *)
FindTarget(snippet) == { t \in snippet.toplevel : t \in snippet.targets }

(* Definer.BuildTarget *)
BuildTarget(snippet) ==
  IF Unclosed(snippet) \/ ~snippet.parses \/ Cardinality(FindTarget(snippet)) # 1
  THEN Fail("error")
  ELSE ParseTemplate(snippet.types, CHOOSE t \in FindTarget(snippet) : TRUE)

-----------------------------------------------------------------------------
(* Messages on the wire: their fields by the sender's type, whether they     *)
(* decode, and whether they are encoded as proto.Marshal would.  Decoding    *)
(* keeps no value at its zero, as TrySetField does.                          *)

IsStatic(t) == t.dynamic = << >> /\ t.matchers = << >>
Names(fs) == { fs[i].name : i \in DOMAIN fs }
Known(t, m) ==
  [n \in { k \in DOMAIN m.fields \intersect Names(t.fields) :
             ~Unset(t.fields[FieldNamed(t.fields, k)], m.fields[k]) } |-> m.fields[n]]

(* GetField: the value, or the zero of a field that is not present. *)
Get(f, m) == IF f.name \in DOMAIN m.fields THEN m.fields[f.name]
             ELSE IF f.label = "one" THEN Zero(f.kind) ELSE << >>

\* Mutant: the templated fields are left in.
StaticPartWhole(t, m) == [n \in DOMAIN Known(t, m) \ Names(t.matchers) |-> m.fields[n]]

(* combined.getStaticPart: without what the template does not know, and the  *)
(* fields that are templated or have a matcher.                              *)
StaticPart(t, m) ==
  [n \in DOMAIN Known(t, m) \ (Names(t.dynamic) \union Names(t.matchers)) |-> m.fields[n]]

(* Template.Matches of both kinds; an error counts as no match in            *)
(* MatchMessage.  A static template compares the encodings.                  *)
TemplateMatches(t, m) ==
  /\ m.decodes
  /\ IF IsStatic(t) THEN m.canonical /\ m.fields = t.static
     ELSE /\ StaticPart(t, m) = t.static
          /\ \A i \in DOMAIN t.matchers : Get(t.matchers[i], m) \in t.matchers[i].matcher.accepts

(* What a template prints of a value. *)
Printed(f, val) ==
  CASE f.kind = "text" /\ f.label = "one" -> val
    [] f.kind \in {"number", "enum"} /\ f.label = "one" /\ (\E t \in DOMAIN Numeral : Numeral[t] = val) ->
         CHOOSE t \in DOMAIN Numeral : Numeral[t] = val
    [] OTHER -> Garbled

(* Template.DataMap of both kinds: all fields of the template's type, by     *)
(* what they print as, those that are not present at their zero.             *)
DataMap(t, m) ==
  LET Field(n) == t.fields[FieldNamed(t.fields, n)]
  IN  IF ~m.decodes THEN Fail("error")
      ELSE Ok([n \in Names(t.fields) |-> Printed(Field(n), Get(Field(n), m))])

(* Template.Execute, and what its text reads as: buildRepeated and buildMap  *)
(* read it as YAML, a message's parser as JSON.  Without quotes a numeral is *)
(* a number, and no text leaves an empty list, or nothing at the key.        *)
Printing(v, data) == IF v.of \in DOMAIN data THEN data[v.of] ELSE NoValue
Item(quoted, text, word) ==
  IF ~quoted /\ text \in DOMAIN Numeral THEN [form |-> "number", num |-> Numeral[text]]
  ELSE [form |-> IF quoted THEN "plain" ELSE word, text |-> text]
Render(v, data) ==
  LET text == Printing(v, data)
      Nothing == text = "" /\ ~v.quoted
  IN  CASE v.shape = "list" ->
             [form |-> "list", items |-> IF Nothing THEN << >> ELSE << Item(v.quoted, text, "plain") >>]
        [] v.shape = "object" ->
             [form |-> "object",
              items |-> [k \in {v.key} |-> IF Nothing THEN [form |-> "blank"]
                                           ELSE Item(v.quoted, text, "bare")]]
        [] OTHER -> IF text = "" THEN [form |-> "empty"] ELSE [form |-> "plain", text |-> text]

(* The loop of combined.Generate: the templated fields, set in message msg. *)
Fill(t, msg, data) ==
  Each(t.dynamic, msg,
       LAMBDA m, f : SetField(t.types, t.fields, m, f, Render(f.value, data),
                              BuildMessage(t.types)))
=============================================================================
