------------------------------ MODULE Recursion ------------------------------
(***************************************************************************)
(* Loops, and functions of values that are made of values, without         *)
(* recursive operators: both are recursive functions with a finite domain. *)
(***************************************************************************)
EXTENDS Integers

CONSTANT MaxNesting \* how deep values are nested in each other

ASSUME NestingAssumption == MaxNesting \in Nat

(* A loop of so many turns, counted from 1.                                *)
Iterate(Turn(_, _), first, turns) ==
  LET after[n \in 0..turns] == IF n = 0 THEN first ELSE Turn(after[n - 1], n)
  IN after[turns]

-----------------------------------------------------------------------------
(* x itself, its parts, the parts of those, and so on.                     *)
Layers(Parts(_), x) ==
  LET layer[n \in 0..MaxNesting] ==
        IF n = 0 THEN {x} ELSE UNION {Parts(y) : y \in layer[n - 1]}
  IN layer

Within(Parts(_), x) == UNION {Layers(Parts, x)[n] : n \in 0..MaxNesting}

(* The layers are all there are.                                           *)
Nested(Parts(_), x) == \A y \in Layers(Parts, x)[MaxNesting] : Parts(y) = {}

(* Def(f, y) is the function at y, where f is the function at its parts.   *)
Recursively(Def(_, _), Parts(_), x) ==
  LET f[y \in Within(Parts, x)] == Def(f, y) IN f[x]
=============================================================================
