------------------------------ MODULE ValueStack ------------------------------
(***************************************************************************)
(* The part of the Duktape API that erlm uses, by what it does to the      *)
(* value stack (src/lib/duktape/duktape.c).  A machine is a stack and      *)
(* whether an exception was thrown; after that, a call changes nothing.    *)
(* Indices are negative, from the top, unless a comment says otherwise.    *)
(***************************************************************************)
EXTENDS TermConversion

CONSTANT Reserve \* the values the stack has room for, 64 in Duktape

ASSUME ReserveAssumption == Reserve \in Nat /\ Reserve >= 5

(* Values besides those of TermConversion.  An enumerator knows the        *)
(* properties it has not yet given out.                                    *)
Function(name)   == [type |-> "function", name |-> name]
Enumerator(left) == [type |-> "enumerator", left |-> left]
Name(s)          == [type |-> "name", name |-> s]
Error            == [type |-> "error"]

IsObject(v) == v.type \in {"object", "array", "function", "enumerator", "error"}

(* The properties an enumeration of v finds, as pairs <<name, value>>.     *)
Properties(v) == IF v.type = "object" THEN v.properties ELSE <<>>

Property(v, name) ==
  LET found == {i \in DOMAIN Properties(v) : Properties(v)[i][1] = name}
  IN IF found = {} THEN Undefined ELSE Properties(v)[Max(found)][2]

-----------------------------------------------------------------------------
Machine(values) == [stack |-> values, thrown |-> FALSE]
Height(m) == Len(m.stack)
Position(m, i) == Height(m) + 1 + i
At(m, i) == m.stack[Position(m, i)]
Throw(m) == [stack |-> m.stack, thrown |-> TRUE]

(* Room is not made by a push: it is an error to go beyond the reserve.    *)
duk_push(m, v) ==
  IF m.thrown \/ Height(m) >= Reserve
  THEN Throw(m) ELSE Machine(Append(m.stack, v))

duk_pop_n(m, n) ==
  IF m.thrown \/ Height(m) < n
  THEN Throw(m) ELSE Machine(SubSeq(m.stack, 1, Height(m) - n))

duk_insert(m, i) ==
  IF m.thrown \/ Position(m, i) < 1 THEN Throw(m)
  ELSE Machine(InsertAt(Front(m.stack), Position(m, i), At(m, -1)))

(* The index is a position from the bottom.                                *)
duk_remove(m, position) ==
  IF m.thrown \/ position \notin DOMAIN m.stack
  THEN Throw(m) ELSE Machine(RemoveAt(m.stack, position))

(* duk_get_prop_string(ctx, -1, name).                                     *)
duk_get_prop_string(m, name) ==
  IF m.thrown \/ At(m, -1).type \in {"undefined", "null"}
  THEN Throw(m) ELSE duk_push(m, Property(At(m, -1), name))

(* The name on the top is replaced by the property of the object at i.     *)
duk_get_prop(m, i) ==
  IF m.thrown \/ Position(m, i) < 1 THEN Throw(m)
  ELSE duk_push(duk_pop_n(m, 1), Property(At(m, i), At(m, -1).name))

(* duk_enum(ctx, -1, ...) over names, or over the elements of an array.    *)
duk_enum(m, pairs) ==
  IF m.thrown \/ ~IsObject(At(m, -1))
  THEN Throw(m) ELSE duk_push(m, Enumerator(pairs))

(* Whether duk_next finds something, and what it then pushes: a name, and  *)
(* its value when that is asked for.  The enumerator is at a position.     *)
HasNext(m, position) == ~m.thrown /\ m.stack[position].left # <<>>

duk_next(m, position, get_value) ==
  LET left == m.stack[position].left
      rest == Machine([m.stack EXCEPT ![position] = Enumerator(Tail(left))])
      key  == duk_push(rest, Name(Head(left)[1]))
  IN IF get_value THEN duk_push(key, Head(left)[2]) ELSE key

(* A function and n arguments are replaced by the result of the call.  An  *)
(* exception goes through duk_call and is the result of duk_pcall.         *)
duk_pcall(m, n, result) == duk_push(duk_pop_n(m, n + 1), result)

duk_call(m, n, result) ==
  IF result = Error THEN Throw(m) ELSE duk_pcall(m, n, result)

-----------------------------------------------------------------------------
(* duk_erlang_push_term pushes an array before its elements.               *)
DepthOf(depth, v) ==
  IF v.type = "array" /\ ValueParts(v) # {}
  THEN 1 + Max({depth[e] : e \in ValueParts(v)}) ELSE 1

Depth(v) == Recursively(DepthOf, ValueParts, v)

PushTerm(m, t) ==
  LET v == duk_erlang_push_term(t)
  IN IF Height(m) + Depth(v) > Reserve THEN Throw(m) ELSE duk_push(m, v)

(* duk_util_unroll_array: the elements take the place of the array.        *)
UnrollTurn(m, position) ==
  LET next == duk_next(m, position, TRUE)
  IN IF HasNext(m, position) THEN duk_remove(next, Height(next) - 1) ELSE m

UnrollTurns(m, position, turns) ==
  Iterate(LAMBDA turned, n : UnrollTurn(turned, position), m, turns)

(* Mutant: the enumerator is removed and the array is not.                 *)
UnrollKeepsArray(m, position) == duk_remove(m, position)

UnrollEnds(m, position) == duk_remove(duk_remove(m, position), position - 1)

duk_util_unroll_array(m) ==
  LET top      == At(m, -1)
      position == Height(m) + 1
      enum     == duk_enum(m, [i \in DOMAIN top.elements |-> <<"index", top.elements[i]>>])
  IN IF m.thrown \/ top.type # "array" THEN m
     ELSE UnrollEnds(UnrollTurns(enum, position, Len(top.elements)), position)

(* The number it returns.                                                  *)
ArgCount(v) == IF v.type = "array" THEN Len(v.elements) ELSE 0

(* The kind of the parameters of a message, as InputCall tells them apart. *)
(* They are pushed above four values, and are unrolled one by one above an *)
(* enumerator.                                                             *)
ArgsKind(t) ==
  LET v    == duk_erlang_push_term(t)
      long == \/ 4 + Depth(v) > Reserve
              \/ v.type = "array" /\ 4 + 2 > Reserve
              \/ v.type = "array" /\ v.elements # <<>> /\ 4 + 3 + ArgCount(v) > Reserve
  IN IF ~Supported(t) THEN "unsupported"
     ELSE IF long THEN "long"
     ELSE IF v.type = "array" THEN IF v.named # <<>> THEN "pairs" ELSE "array"
     ELSE IF t.term = "list" THEN "text" ELSE "scalar"

-----------------------------------------------------------------------------
(* What duk_util_peval_commonjs_file, duk_elm_peval_file and their parts   *)
(* do.  The name of the first property takes the place of its enumerator.  *)
duk_util_put_first_prop_name(m) ==
  LET enum == duk_enum(m, IF m.thrown THEN <<>> ELSE Properties(At(m, -1)))
      next == IF HasNext(enum, Height(enum))
              THEN duk_next(enum, Height(enum), FALSE) ELSE enum
  IN duk_pop_n(duk_insert(next, -2), 1)

(* The value of a completed evaluation is dropped for module.exports.      *)
duk_util_peval_commonjs_file(m, exports) ==
  LET evaluated == duk_pop_n(duk_push(m, Undefined), 1)
      module    == duk_push(evaluated, Object(<< <<"exports", exports>> >>))
  IN duk_pop_n(duk_insert(duk_get_prop_string(module, "exports"), -2), 1)

(* The worker function of the first export is called, its result is what   *)
(* remains.                                                                *)
duk_elm_peval_file(m, exports, app) ==
  LET found  == duk_util_put_first_prop_name(duk_util_peval_commonjs_file(m, exports))
      worker == duk_push(duk_get_prop(found, -2), Name("worker"))
  IN duk_pop_n(duk_insert(duk_pcall(worker, 0, app), -3), 2)
=============================================================================
