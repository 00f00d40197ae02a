---------------------------- MODULE TermConversion ----------------------------
(***************************************************************************)
(* The conversion between Erlang terms and JavaScript values               *)
(* (src/src/duk_erlang.c).  Texts are sequences of bytes.  Left out are    *)
(* NUL bytes in atoms, binaries and strings, improper lists, integers of   *)
(* more than one word, and pairs named like an element of an array.        *)
(***************************************************************************)
EXTENDS Recursion, SequencesExt

CONSTANTS
  Bytes,   \* the bytes of texts, of which the code has 1..255
  Word,    \* the number of values of an int, 2^32 in the code
  Spelled, \* the texts of the four words JavaScript and Erlang share
  ElementNames \* "length", and those that spell an index of an array

ASSUME ConversionAssumption ==
  /\ Word \in Nat /\ Word % 2 = 0
  /\ Bytes \subseteq 1..Word \div 2 - 1
  /\ Spelled \in [{"undefined", "null", "true", "false"} -> Seq(Bytes)]
  /\ IsInjective(Spelled)
  /\ ElementNames \subseteq Seq(Bytes)

(* The bytes of an iolist.                                                 *)
Octets == {0} \cup Bytes

-----------------------------------------------------------------------------
(* Erlang terms.                                                           *)
Integer(n)  == [term |-> IF n < Word \div 2 THEN "integer" ELSE "unsigned", int |-> n]
Float(n)    == [term |-> "float", float |-> n]
Atom(s)     == [term |-> "atom", text |-> s]
Binary(s)   == [term |-> "binary", text |-> s]
Tuple(s)    == [term |-> "tuple", elements |-> s]
List(s)     == [term |-> "list", elements |-> s]
Pid         == [term |-> "pid"]
ErlangString(s) == List([i \in DOMAIN s |-> Integer(s[i])])

(* JavaScript values.  `named' are the properties of an array other than   *)
(* its elements.                                                           *)
Undefined   == [type |-> "undefined"]
Null        == [type |-> "null"]
Boolean(b)  == [type |-> "boolean", boolean |-> b]
Number(n)   == [type |-> "number", number |-> n]
String(s)   == [type |-> "string", text |-> s]
Array(s)    == [type |-> "array", elements |-> s, named |-> <<>>]
NamedArray(f) == [type |-> "array", elements |-> <<>>, named |-> f]
(* Properties are pairs <<name, value>> in the order of their creation.    *)
Object(s)   == [type |-> "object", properties |-> s]

-----------------------------------------------------------------------------
(* What terms and values are made of.  The operators below are recursive   *)
(* functions: each is defined from the function for the parts.             *)
TermParts(t) == IF t.term \in {"tuple", "list"} THEN Range(t.elements) ELSE {}

ValueParts(v) ==
  CASE v.type = "array"  -> Range(v.elements) \cup Range(v.named)
    [] v.type = "object" -> {p[2] : p \in Range(v.properties)}
    [] OTHER             -> {}

WellFormed(t) ==
  CASE t.term \in {"integer", "unsigned"} -> t = Integer(t.int)
    [] t.term = "float"                   -> t = Float(t.float)
    [] t.term \in {"atom", "binary"}      -> t.text \in Seq(Bytes)
    [] t.term \in {"tuple", "list"}       -> t.elements \in Seq(Range(t.elements))
    [] OTHER                              -> t = Pid

duk_erlang_is_object_alike(t) ==
  /\ t.term = "list"
  /\ \A i \in DOMAIN t.elements :
       LET e == t.elements[i]
       IN e.term = "tuple" /\ DOMAIN e.elements = 1..2 /\ e.elements[1].term = "atom"

(* Only then is a property made of each pair, and no element.              *)
NamesNoElement(t) ==
  duk_erlang_is_object_alike(t) =>
    \A i \in DOMAIN t.elements : t.elements[i].elements[1].text \notin ElementNames

IsTerm(t) ==
  /\ Nested(TermParts, t)
  /\ \A u \in Within(TermParts, t) : WellFormed(u) /\ NamesNoElement(u)

WellFormedValue(v) ==
  CASE v.type \in {"undefined", "null"} -> v = [type |-> v.type]
    [] v.type = "boolean" -> v = Boolean(v.boolean)
    [] v.type = "number"  -> v = Number(v.number)
    [] v.type = "string"  -> v = String(v.text) /\ v.text \in Seq(Bytes)
    [] v.type = "array"   ->
         /\ v = [type |-> "array", elements |-> v.elements, named |-> v.named]
         /\ v.elements \in Seq(Range(v.elements))
    [] v.type = "object"  ->
         /\ v.properties \in Seq(Range(v.properties))
         /\ \A p \in Range(v.properties) : p[1] \in Seq(Bytes)
    [] OTHER -> FALSE

IsValue(v) ==
  Nested(ValueParts, v) /\ \A w \in Within(ValueParts, v) : WellFormedValue(w)

-----------------------------------------------------------------------------
(* erl_iolist_length(t) >= 0 for a list, and the bytes of an iolist.       *)
IsIolist(is, t) ==
  /\ t.term = "list"
  /\ \A i \in DOMAIN t.elements :
       LET e == t.elements[i]
       IN \/ e.term = "integer" /\ e.int \in Octets
          \/ e.term = "binary"
          \/ is[e]

erl_is_iolist(t) == Recursively(IsIolist, TermParts, t)

TextOf(text, t) ==
  CASE t.term = "integer" -> <<t.int>>
    [] t.term = "list"    -> FlattenSeq([i \in DOMAIN t.elements |-> text[t.elements[i]]])
    [] OTHER              -> t.text

IolistBytes(t) == Recursively(TextOf, TermParts, t)

(* What is pushed: erl_iolist_to_string(t) is NULL if there is a byte 0,   *)
(* and duk_push_string makes null of it.                                   *)
PushIolist(t) ==
  IF 0 \in Range(IolistBytes(t)) THEN Null ELSE String(IolistBytes(t))

(* duk_erlang_push_term calls abort() for any other term, at any depth.    *)
IsSupported(is, t) == t.term # "pid" /\ \A u \in TermParts(t) : is[u]

Supported(t) == Recursively(IsSupported, TermParts, t)

(* The fields of a list of pairs become properties; a later pair with the  *)
(* same name takes the place of an earlier one.                            *)
NamedBy(pairs, values) ==
  [name \in {pairs[i].elements[1].text : i \in DOMAIN pairs} |->
     values[Max({i \in DOMAIN pairs : pairs[i].elements[1].text = name})]]

PushPairs(push, t) ==
  NamedArray(NamedBy(t.elements, [i \in DOMAIN t.elements |-> push[t.elements[i].elements[2]]]))

PushElements(push, t) == Array([i \in DOMAIN t.elements |-> push[t.elements[i]]])

(* Mutant: the test for a list of pairs comes before the one for an iolist.*)
PairsBeforeIolist(push, t) ==
  CASE t.term = "integer"  -> Number(t.int)
    [] t.term = "unsigned" -> Number(t.int - Word)
    [] t.term = "float"    -> Number(t.float)
    [] t.term \in {"atom", "binary"} -> String(t.text)
    [] t.term = "tuple" -> PushElements(push, t)
    [] t.term = "list" ->
         IF duk_erlang_is_object_alike(t) THEN PushPairs(push, t)
         ELSE IF erl_is_iolist(t) THEN PushIolist(t)
         ELSE PushElements(push, t)

(* The value pushed for a supported term.  An unsigned integer is read     *)
(* with ERL_INT_VALUE, as a signed one.                                    *)
PushOf(push, t) ==
  CASE t.term = "integer"  -> Number(t.int)
    [] t.term = "unsigned" -> Number(t.int - Word)
    [] t.term = "float"    -> Number(t.float)
    [] t.term \in {"atom", "binary"} -> String(t.text)
    [] t.term = "tuple" -> PushElements(push, t)
    [] t.term = "list" ->
         IF erl_is_iolist(t) THEN PushIolist(t)
         ELSE IF duk_erlang_is_object_alike(t) THEN PushPairs(push, t)
         ELSE PushElements(push, t)

duk_erlang_push_term(t) == Recursively(PushOf, TermParts, t)

(* The list erl_cons makes of the properties of an object is in reverse.   *)
(* Mutant: the one of the elements of an array is, too.                    *)
ConsReverses(term, v) ==
  CASE v.type = "undefined" -> Atom(Spelled["undefined"])
    [] v.type = "null"      -> Atom(Spelled["null"])
    [] v.type = "boolean"   -> Atom(Spelled[IF v.boolean THEN "true" ELSE "false"])
    [] v.type = "number"    -> Float(v.number)
    [] v.type = "string"    -> ErlangString(v.text)
    [] v.type = "array"     ->
         List(Reverse([i \in DOMAIN v.elements |-> term[v.elements[i]]]))
    [] v.type = "object"    ->
         List(Reverse([i \in DOMAIN v.properties |->
           Tuple(<<ErlangString(v.properties[i][1]), term[v.properties[i][2]]>>)]))

(* The term of a value.  Numbers become floats, strings lists of bytes, an *)
(* object the list of its properties.                                      *)
TermOf(term, v) ==
  CASE v.type = "undefined" -> Atom(Spelled["undefined"])
    [] v.type = "null"      -> Atom(Spelled["null"])
    [] v.type = "boolean"   -> Atom(Spelled[IF v.boolean THEN "true" ELSE "false"])
    [] v.type = "number"    -> Float(v.number)
    [] v.type = "string"    -> ErlangString(v.text)
    [] v.type = "array"     ->
         List([i \in DOMAIN v.elements |-> term[v.elements[i]]])
    [] v.type = "object"    ->
         List(Reverse([i \in DOMAIN v.properties |->
           Tuple(<<ErlangString(v.properties[i][1]), term[v.properties[i][2]]>>)]))

duk_erlang_get_term(v) == Recursively(TermOf, ValueParts, v)

-----------------------------------------------------------------------------
(* What Erlang gets for a term the program echoes.                         *)
EchoIolist(t) ==
  IF 0 \in Range(IolistBytes(t))
  THEN Atom(Spelled["null"]) ELSE ErlangString(IolistBytes(t))

EchoOf(echoed, t) ==
  CASE t.term = "integer"           -> Float(t.int)
    [] t.term = "unsigned"          -> Float(t.int - Word)
    [] t.term = "float"             -> t
    [] t.term \in {"atom", "binary"} -> ErlangString(t.text)
    [] t.term \in {"tuple", "list"} ->
         IF erl_is_iolist(t) THEN EchoIolist(t)
         ELSE IF duk_erlang_is_object_alike(t) THEN List(<<>>)
         ELSE List([i \in DOMAIN t.elements |-> echoed[t.elements[i]]])

Echoed(t) == Recursively(EchoOf, TermParts, t)

(* Arrays of texts, at any depth, come back as one text.                   *)
TextOrTexts(is, v) ==
  \/ v.type = "string"
  \/ v.type = "array" /\ v.named = <<>> /\ \A i \in DOMAIN v.elements : is[v.elements[i]]

IsText(v) == Recursively(TextOrTexts, ValueParts, v)

StableOf(stable, v) ==
  \/ v.type \in {"number", "string"}
  \/ /\ v.type = "array" /\ v.named = <<>> /\ ~IsText(v)
     /\ \A i \in DOMAIN v.elements : stable[v.elements[i]]

Stable(v) == Recursively(StableOf, ValueParts, v)
=============================================================================
