--------------------------- MODULE MCMessageModel ---------------------------
(***************************************************************************)
(* Declarations of messages: every subset of a few links that conflict,    *)
(* leave gaps, are misaligned, never taken or circular, and declarations   *)
(* with inner messages.                                                    *)
(***************************************************************************)
EXTENDS MessageModel

A == <<"A">>
B == <<"B">>
C == <<"C">>
D == <<"D">>
X == <<"X">>
Y == <<"Y">>
P == <<"P">>

Scalar(size, values) == [kind |-> "scalar", size |-> size, values |-> values]
OpaqueType == [kind |-> "opaque"]
SequenceType == [kind |-> "sequence"]
MessageType(name, args) == [kind |-> "message", name |-> name, arguments |-> args]
Number(n) == [kind |-> "number", value |-> n]
Variable(f) == [kind |-> "variable", of |-> f]

Is(f, values) == {[attr |-> "Value", field |-> f, values |-> values]}
HasSize(f, values) == {[attr |-> "Size", field |-> f, values |-> values]}
To(s, t) == Link(s, t, {}, Undefined, Undefined)
If(s, t, c) == Link(s, t, c, Undefined, Undefined)

Declaration(order, types, parameters, structure) ==
    [order |-> order, types |-> types, parameters |-> parameters, structure |-> structure]

Parameterless(order, types, structure) == Declaration(order, types, {}, structure)

\* A (8 bit), B (4 bit) and C (opaque), with the links that are chosen.
simpleTypes == A :> Scalar(8, 0 .. 2) @@ B :> Scalar(4, 0 .. 1) @@ C :> OpaqueType
Simple(structure) ==
    LET used == {l.source : l \in structure} \cup {l.target : l \in structure}
    IN  Parameterless(SelectSeq(<<A, B, C>>, LAMBDA f : f \in used),
                      [f \in used \cap {A, B, C} |-> simpleTypes[f]], structure)
choices ==
    {If(A, B, Is(A, {0})), If(A, FINAL, Is(A, {0, 1})), To(A, C),
     Link(A, C, Is(A, {1, 2}), Multiple(8, A, 0), Undefined),
     Link(A, C, Is(A, {2}), Multiple(4, A, 0), Undefined),
     To(B, C), To(C, FINAL), If(C, B, Is(A, {2})), To(B, A)}
chosen == UNION {kSubset(n, choices) : n \in 1 .. 3}
overlaid == {Link(A, B, Is(A, {2}), Undefined, First(A)), If(A, C, Is(A, {0, 1})),
             If(B, FINAL, Is(B, {0}))}
accepted == {If(A, FINAL, Is(A, {0})), Link(A, C, Is(A, {1, 2}), Multiple(8, A, 0), Undefined),
             If(C, FINAL, HasSize(C, {8})), If(C, A, HasSize(C, {16}))}
dead_end == {If(A, FINAL, Is(A, {0})), Link(A, C, Is(A, {1, 2}), Multiple(8, A, 0), Undefined),
             If(C, FINAL, Is(A, {0}))}
simple == {Simple({To(INITIAL, A)} \cup c) :
              c \in chosen \cup {overlaid, dead_end, accepted, accepted \ {If(C, A, HasSize(C, {16}))}}}

\* Inner messages: a value of variable length, the rest of the message, and a
\* message that depends on a parameter.
L == <<"L">>
V == <<"V">>
byte == Scalar(8, 0 .. 1)
MCInner ==
    [variable |-> Parameterless(<<L, V>>, L :> byte @@ V :> OpaqueType,
                      {To(INITIAL, L), If(L, FINAL, Is(L, {0})), To(V, FINAL),
                       Link(L, V, Is(L, {1}), Multiple(8, L, 0), Undefined)}),
     rest |-> Parameterless(<<L, V>>, L :> byte @@ V :> OpaqueType,
                  {To(INITIAL, L), Link(L, V, {}, Implicit, Undefined), To(V, FINAL)}),
     sized |-> Parameterless(<<L, V>>, L :> byte @@ V :> OpaqueType,
                   {To(INITIAL, L), If(L, FINAL, HasSize(Message, {8})), To(V, FINAL),
                    Link(L, V, HasSize(Message, {16}), Multiple(0, INITIAL, 8), Undefined)}),
     parameterized |->
         Declaration(<<L, V>>, P :> byte @@ L :> byte @@ V :> OpaqueType, {P},
             {To(INITIAL, L), If(L, FINAL, Is(P, {0})), To(V, FINAL),
              Link(L, V, Is(P, {1}), Multiple(8, P, 8), Undefined)}),
     guarded |->
         Declaration(<<L>>, P :> byte @@ L :> byte, {P}, {If(INITIAL, L, Is(P, {1})), To(L, FINAL)})]
XL == X \o L
nested ==
    {Parameterless(<<A, X>>, A :> byte @@ X :> MessageType("variable", <<>>),
         {To(INITIAL, A), If(A, X, Is(A, {1})), If(A, FINAL, Is(A, {0})), To(X, FINAL)}),
     Parameterless(<<X, A>>, A :> byte @@ X :> MessageType("variable", <<>>),
         {To(INITIAL, X), To(X, A), To(A, FINAL)}),
     Parameterless(<<X, Y>>, X :> MessageType("variable", <<>>) @@ Y :> MessageType("rest", <<>>),
         {To(INITIAL, X), To(X, Y), To(Y, FINAL)}),
     Parameterless(<<X, A>>, A :> byte @@ X :> MessageType("rest", <<>>),
         {To(INITIAL, X), To(X, A), To(A, FINAL)}),
     Parameterless(<<XL, X>>, XL :> byte @@ X :> MessageType("variable", <<>>),
         {To(INITIAL, XL), To(XL, X), To(X, FINAL)})}
    \cup {Parameterless(<<A, X>>, A :> byte @@ X :> MessageType("parameterized", P :> arg),
              {To(INITIAL, A), To(A, X), To(X, FINAL)}) :
              arg \in {Variable(A), Number(0), Number(1)}}
    \cup {Parameterless(<<X>>, X :> MessageType("variable", <<>>),
              {To(INITIAL, X), If(X, FINAL, Is(XL, {n}))}) : n \in 0 .. 2}
    \* Merging does not keep different arguments and a conditional start.
    \cup {Parameterless(<<X, Y>>, X :> MessageType("parameterized", P :> Number(n)) @@
                                 Y :> MessageType("parameterized", P :> Number(0)),
              {To(INITIAL, X), To(X, Y), To(Y, FINAL)}) : n \in 0 .. 1}
    \cup {Parameterless(<<A, X>>, A :> byte @@ X :> MessageType("guarded", P :> Variable(A)),
              {To(INITIAL, A), To(A, X), To(X, FINAL)})}
\* A sequence between scalars.
sequence == Parameterless(<<B, C, D>>, B :> byte @@ C :> SequenceType @@ D :> byte,
    {To(INITIAL, B), Link(B, C, {}, Multiple(0, INITIAL, 8), Undefined), To(C, D), To(D, FINAL)})

\* A path to C that does not go on, as the value of A excludes it.
bypassed == Parameterless(<<A, B, C, D>>, A :> byte @@ B :> byte @@ C :> byte @@ D :> byte,
    {To(INITIAL, A), If(A, B, Is(A, {0})), If(A, C, Is(A, {1})), To(B, C), If(C, D, Is(A, {1})), To(D, FINAL)})

\* Conditions and sizes that the proofs leave open: a field that never fits
\* where its condition holds, a sequence between the bytes, an overlay of a
\* field of variable size, a condition on the size of the last field, and an
\* inner message at the beginning with a condition on its size.
nibble == Scalar(4, 0 .. 1)
open ==
    {Parameterless(<<A, B>>, A :> byte @@ B :> byte,
         {To(INITIAL, A), If(A, B, HasSize(Message, {8})), To(B, FINAL)}),
     Parameterless(<<A, C, B>>, A :> nibble @@ B :> nibble @@ C :> SequenceType,
         {To(INITIAL, A), Link(A, C, {}, Multiple(0, INITIAL, 8), Undefined), To(C, B), To(B, FINAL)}),
     Parameterless(<<L, V, B>>, L :> Scalar(8, 1 .. 2) @@ V :> OpaqueType @@ B :> byte,
         {To(INITIAL, L), Link(L, V, {}, Multiple(8, L, 0), Undefined),
          Link(V, B, {}, Undefined, First(V)), To(B, FINAL)}),
     Parameterless(<<L, V>>, L :> byte @@ V :> OpaqueType,
         {To(INITIAL, L), Link(L, V, HasSize(Message, {16}), Implicit, Undefined),
          If(V, FINAL, HasSize(V, {16}))}),
     Parameterless(<<X>>, X :> MessageType("sized", <<>>), {To(INITIAL, X), To(X, FINAL)})}

MCMessages == simple \cup nested \cup open \cup {sequence, bypassed}
MCUnknowns == {0, 8, 16}
=============================================================================
