------------------------------ MODULE MCElmPorts ------------------------------
(* A model-checking instance of ElmPorts: bytes are 1 and 2, an int has  *)
(* 16 values, and the options are given in each of their forms.            *)
EXTENDS ElmPorts

Long(name) == [form |-> "long", name |-> name]
Short(letters) == [form |-> "short", letters |-> letters]

MCArguments ==
  {[form |-> "plain"], [form |-> "end"]}
  \cup {Short(l) : l \in {<<"v">>, <<"v", "n">>, <<"v", "x">>, <<"n", "h">>}}
  \cup {Long(n) : n \in {<<"verbose">>, <<"no", "verbose">>, <<"no", "run">>,
                         <<"no", "no", "run">>, <<"no", "help">>, <<"run">>}}

MCBytes == 1..2
MCSpelled ==
  [w \in {"undefined", "null", "true", "false"} |->
     CASE w = "undefined" -> <<1, 1>> [] w = "null" -> <<1, 2>>
       [] w = "true"      -> <<2, 1>> [] w = "false" -> <<2, 2>>]

MCElementNames == {<<1, 1, 1>>}

-----------------------------------------------------------------------------
(* Apps with up to three ports of two kinds, or with a property that is no  *)
(* port, and with none: compiled Elm gives an app an object of ports or    *)
(* leaves it out.                                                          *)
InPort  == Object(<< <<"send", Function("send")>> >>)
OutPort == Object(<< <<"subscribe", Function("subscribe")>>,
                     <<"unsubscribe", Function("unsubscribe")>> >>)

PortNames == <<"a", "b", "c">>

App(ports) ==
  Object(<< <<"ports", Object([i \in DOMAIN ports |-> <<PortNames[i], ports[i]>>])>> >>)

Apps ==
  {App(ports) : ports \in UNION {[1..n -> {InPort, OutPort}] : n \in 0..3}}
  \cup {App(<<InPort, Number(1), OutPort>>), Object(<<>>), Undefined, Error}

Exports == Object(<< <<"Main", Object(<< <<"worker", Function("worker")>> >>)>> >>)

MCPrograms ==
  {[file |-> "evaluates", exports |-> Exports, app |-> app] : app \in Apps}
  \cup {[file |-> f, exports |-> e, app |-> Error] :
          f \in {"evaluates", "throws", "unreadable"}, e \in {Undefined, Object(<<>>)}}

-----------------------------------------------------------------------------
Pair == Tuple(<<Atom(<<1>>), Integer(3)>>)

(* What a parameter may be: each case of the conversion, alone and within  *)
(* another.                                                                *)
Parameters ==
  {Integer(9), Atom(<<1, 2>>), Binary(<<2>>),
   List(<<>>), List(<<Binary(<<2>>), List(<<Integer(1)>>)>>),
   Tuple(<<Atom(<<1>>), Integer(9)>>), List(<<Pair>>), List(<<Pair, Integer(-1)>>),
   List(<<Float(1), List(<<Pair, Pair>>)>>),
   Tuple(<<Tuple(<<Tuple(<<>>)>>)>>),
   Tuple(<<List(<<Binary(<<1>>), List(<<Integer(0)>>)>>), Integer(0)>>)}

MCTerms ==
  {Tuple(<<t>>) : t \in Parameters}
  \cup {Tuple(<<>>), List(<<Float(1), Integer(2)>>), List(<<Integer(1), Integer(2)>>),
        List(<<>>), List(<<Integer(0), Integer(2)>>), Integer(2), List(<<Pair>>),
        Tuple(<<Pid>>), Tuple(<<Integer(2), Integer(-1), Integer(2)>>),
        Tuple([i \in 1..4 |-> Integer(i)])}

MCValues ==
  {Undefined, Null, Boolean(TRUE), String(<<>>), Array(<<>>), Array(<<Null, Number(1)>>),
   Array(<<String(<<1>>), Array(<<String(<<2>>)>>)>>),
   Array(<<Array(<<Number(1)>>), String(<<2>>)>>),
   Object(<< <<<<1>>, Number(1)>>, <<<<2>>, String(<<1>>)>> >>)}
=============================================================================
