------------------------- MODULE MCStateMachineModel -------------------------
(* Machines with two states.  A definite message has the fields A and B; in *)
(* an indefinite one, A decides which of B and C follows.                   *)
EXTENDS StateMachineModel

MCFields == {"A", "B", "C"}
MCLinks == [Message |-> {[source |-> Initial, target |-> "A", values |-> {}],
                         [source |-> "A", target |-> "B", values |-> {0, 1}]},
            Indefinite |-> {[source |-> Initial, target |-> "A", values |-> {}],
                            [source |-> "A", target |-> "B", values |-> {1}],
                            [source |-> "A", target |-> "C", values |-> {0}]}]

Num(n) == [NoExpr EXCEPT !.node = "Number", !.value = n]
Var(x) == [NoExpr EXCEPT !.node = "Variable", !.name = x]
Sel(m, f) == [node |-> "Selected", name |-> m, field |-> f, value |-> 0]
Op(n, x, v) == [node |-> n, name |-> x, field |-> None, value |-> v]
Attr(n, m) == Op(n, m, 0)
True == [NoExpr EXCEPT !.node = "True"]
Stmt(k, t, f, e) == [kind |-> k, target |-> t, field |-> f, expr |-> e]
Assign(t, e) == Stmt("Assign", t, None, e)
Field(m, f, e) == Stmt("FieldAssign", m, f, e)
Goto(t) == [target |-> t, condition |-> True]
If(t, c) == [target |-> t, condition |-> c]
Initialized(n, t, e) == [type |-> t, expr |-> e, position |-> n]
Declared(t) == Initialized(1, t, NoExpr)
Function(t) == [type |-> "Function", result |-> t, expr |-> NoExpr, position |-> 0]

State(n, ts, x, as, ds) ==
  [name |-> n, transitions |-> ts, exception |-> x, actions |-> as, declarations |-> ds]
Machine(ss, ds, ps) == [states |-> ss, declarations |-> ds, parameters |-> ps]

Channel == [Chan |-> [type |-> "Channel", position |-> 0]]

(* R receives M, S works on it *)
Receive(x) == State("R", <<If("S", Attr("Valid", "M")), Goto(Null)>>, x,
                    <<Stmt("Read", "Chan", None, Var("M"))>>, <<>>)
Work(as, ds, c, x) == State("S", <<If("R", c), Goto(Null)>>, x, as, ds)

GlobalDecls == [M |-> Declared("Indefinite"), N |-> Declared("Indefinite")]
TwoMessages(as, c) ==
  Machine(<<Receive(Null), Work(as, <<>>, c, Null)>>, GlobalDecls, Channel)

(* every sequence of up to three assignments to the fields of two messages *)
Menu == {Field("M", "A", Num(1)), Field("M", "A", Sel("N", "A")), Field("M", "B", Num(0)),
         Field("M", "B", Sel("M", "A")), Field("M", "C", Num(0)),
         Field("N", "A", Num(1)), Field("N", "B", Sel("M", "A")),
         Stmt("Reset", "M", None, NoExpr)}
GroupingMachines ==
  {TwoMessages(as, Attr("Valid", "N")) : as \in UNION {[1..n -> Menu] : n \in 1..3}}

(* targets of transitions, and states in either order *)
Targets3 == {"R", "S", "Unknown", Null}
TransitionMachines ==
  {Machine(ss, [M |-> Declared("Message")], Channel) : ss \in
     UNION {{<<Receive(x), s>>, <<s, Receive(x)>>} : x \in {None, Null, "S", "Unknown"},
              s \in {State("S", <<If(t1, [Sel("M", "A") EXCEPT !.node = "Relation"]), Goto(t2)>>, y, <<>>, <<>>) :
                       t1 \in Targets3, t2 \in Targets3, y \in {None, "R", "Unknown"}}}}

(* one action of every kind, with and without exception transition, local
   declarations, initial values and attributes *)
Actions1 == {<<>>,
  <<Stmt("Append", "Q", None, Num(1))>>, <<Stmt("Extend", "Q", None, Var("Q"))>>,
  <<Stmt("Reset", "Q", None, NoExpr)>>, <<Stmt("Reset", "M", None, Op("Add", "X", 1))>>,
  <<Stmt("Reset", "M", None, Num(1))>>, <<Stmt("Reset", "M", None, Op("Call", "F", 0))>>,
  <<Stmt("Append", "Q", None, Op("Call", "F", 0))>>, <<Field("M", "A", Op("Call", "F", 0))>>,
  <<Assign("M", Var("M"))>>,
  <<Assign("L", Op("Call", "G", 0)), Stmt("Reset", "M", None, Sel("L", "A"))>>,
  <<Assign("X", Op("Add", "X", 1))>>, <<Assign("X", Op("Sub", "X", 1))>>, <<Assign("X", Op("Div", "X", 0))>>, <<Assign("X", Num(1))>>,
  <<Assign("X", Op("Mul", "X", 2))>>, <<Assign("X", Op("Mod", "X", 1))>>,
  <<Assign("X", Op("Call", "F", 0))>>, <<Assign("X", Attr("Head", "Q"))>>,
  <<Assign("L", Op("Call", "G", 0))>>, <<Assign("L", Op("Call", "G", 0)), Assign("X", Attr("Size", "L"))>>,
  <<Assign("L", Op("Call", "G", 0)), Field("M", "A", Sel("L", "A"))>>,
  <<Assign("X", Sel("L", "B"))>>, <<Assign("L", Op("Call", "G", 0)), Assign("X", Sel("L", "B"))>>,
  <<Field("L", "A", Num(1)), Field("L", "B", Num(1))>>,
  <<Stmt("Write", "Chan", None, Var("M"))>>,
  <<Stmt("Write", "Chan", None, Var("M")), Stmt("Write", "Chan", None, Var("M"))>>}
Locals1 == {[L |-> Declared("Message")], <<>>, [L |-> Declared("Indefinite")],
            [L |-> Declared("Message"), Y |-> Initialized(2, "Scalar", Op("Add", "X", 1))],
            [Y |-> Initialized(1, "Scalar", Num(1)), Z |-> Initialized(2, "Scalar", Var("Y"))],
            [Y |-> Initialized(2, "Scalar", Num(1)), Z |-> Initialized(1, "Scalar", Var("Y"))],
            [Y |-> Initialized(1, "Scalar", Op("Call", "F", 0))],
            [L |-> Initialized(1, "Message", Op("Call", "G", 0))],
            [X |-> Declared("Scalar")], [L |-> Declared("Opaque")]}
Conditions1 == {Attr("Valid", "M"), [node |-> "Relation", name |-> "M", field |-> "A", value |-> 1],
                Attr("Has_Data", "L"), [Attr("Valid", "L") EXCEPT !.field = "A"],
                Op("Relation", "Y", 1), Op("Relation", "Z", 1), True}
Used(as, ds, c) ==
  UNION {{as[i].target, as[i].expr.name} : i \in DOMAIN as} \union {c.name}
  \union {ds[k].expr.name : k \in DOMAIN ds}
ActionMachines ==
  {Machine(<<Receive(Null), Work(as, ds, c, x)>>,
           [k \in {"M"} \union ({"X", "Q"} \intersect Used(as, ds, c)) |->
              Declared(CASE k = "M" -> "Indefinite" [] k = "X" -> "Scalar" [] OTHER -> "Sequence")],
           Channel @@ [k \in {"F", "G"} \intersect Used(as, ds, c) |->
                         Function(IF k = "F" THEN "Scalar" ELSE "Message")])
     : as \in Actions1, ds \in Locals1, c \in Conditions1, x \in {None, Null}}

MCMachines == GroupingMachines \union TransitionMachines \union ActionMachines
=============================================================================
