------------------------------ MODULE InputCall ------------------------------
(***************************************************************************)
(* What erlm_handle_input_event (src/src/erlm.c) does to the Duktape value *)
(* stack for one message, in as much as it depends on the kind of the port *)
(* the message names, the kind of value its parameters are pushed as, and  *)
(* what an earlier message left on the stack.  The stack is a sequence of  *)
(* the names of its values; "app", the Elm worker, is at the bottom.       *)
(***************************************************************************)
EXTENDS Integers, Sequences

PortKinds == {"input", "output", "unknown"}

\* an array of the parameters, the array without elements made of a list of
\* pairs, the string (or null) made of an iolist, another value, an array with
\* more elements than the stack has room for, and what cannot be pushed
ArgsKinds == {"array", "pairs", "text", "scalar", "long", "unsupported"}

(* duk_get_prop_string(ctx, -1, "ports") finds the ports only on the app,  *)
(* and an unknown port has no send to look up.  Neither is protected.      *)
LookupFails(stack, port) == stack[Len(stack)] # "app" \/ port = "unknown"

(* What kills the process, in the order the calls are made, or "none".     *)
Failure(stack, port, args) ==
  IF LookupFails(stack, port) THEN "lookup"
  ELSE CASE args = "unsupported" -> "unsupported"
         [] args = "long"        -> "reserve"
         [] OTHER                -> "none"

(* duk_util_unroll_array: only an array is replaced by its elements.       *)
Unrolled(args) == args \in {"array", "pairs"}

(* The stack after duk_pcall(ctx, arg_count), which leaves one result.  A  *)
(* value that is not unrolled is called itself, above the send function it *)
(* should have been given to.                                              *)
Called(stack, args) ==
  stack \o <<"ports", "port">>
        \o (IF Unrolled(args) THEN <<>> ELSE <<"send">>) \o <<"result">>

(* Mutant: one value too few is popped.                                    *)
PopTwo(stack, args) ==
  SubSeq(Called(stack, args), 1, Len(Called(stack, args)) - 2)

(* What duk_pop_n(ctx, 3) leaves.                                          *)
StackAfter(stack, args) ==
  SubSeq(Called(stack, args), 1, Len(Called(stack, args)) - 3)

SendRuns(port, args) == port = "input" /\ Unrolled(args)
=============================================================================
