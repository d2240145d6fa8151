----------------------------- MODULE Integration -----------------------------
(***************************************************************************)
(* A state machine and its integration file, which gives sizes to the      *)
(* buffers of its variables and says who provides them (rflx/integration.py*)
(* and its uses in rflx/generator).  Both are data.                        *)
(***************************************************************************)
EXTENDS Integers, SequencesExt

CONSTANTS
    States,        \* names of the states, "Final" is the state null
    Machine,       \* [States -> [actions, transitions, exception]]
    InitialState,
    Globals,       \* global messages and sequences, in the order of declaration
    Composite,     \* all variables of a message or sequence type
    Kind,          \* [Composite -> {"Message", "Sequence"}]
    Fields,        \* [Composite -> sequence of fields], for a sequence those of its element
    integration    \* [size |-> [default, global, local], external |-> BOOLEAN]

\* The context of a variable.
Ctx(v) == <<"Ctx", v>>

\* Concatenation of Op(s[1]), Op(s[2]), ...
ConcatMap(Op(_), s) == FlattenSeq([k \in 1 .. Len(s) |-> Op(s[k])])

-----------------------------------------------------------------------------
(* Buffer sizes and slots. *)

\* st = "" asks for a global variable.
get_size(v, st) ==
    LET size == integration.size
    IN  CASE st # "" /\ <<st, v>> \in DOMAIN size.local -> size.local[<<st, v>>]
          [] v \in DOMAIN size.global -> size.global[v]
          [] OTHER -> size.default

\* The messages that are read or written on a channel, if the integration file
\* asks for external buffers.
external_io_buffers ==
    IF integration.external
    THEN {a.var : a \in {b \in UNION {ToSet(Machine[s].actions) : s \in States} :
                                                      b.kind \in {"Read", "Write"}}}
    ELSE {}

is_externally_managed(at) == at \in external_io_buffers

\* Declarations of the state and of the selectors and conditions in it.
declarations(s) ==
    ConcatMap(LAMBDA a : IF a.kind = "VarDecl" THEN <<a>> ELSE <<>>,
              Machine[s].actions
              \o ConcatMap(LAMBDA a : IF a.kind \in {"Comprehension", "Find"}
                                      THEN a.selector \o a.condition ELSE <<>>, Machine[s].actions))

-----------------------------------------------------------------------------
(* What the checks of the model and the generator leave of all machines. *)

IsSequence(s) == s \in Seq(ToSet(s))

\* Statements that need memory of their own.
Slotted == {"VarDecl", "Comprehension", "Find", "Head"}

\* Targets of transitions exist, elements are appended to sequences only, locations
\* of local declarations differ from those of global ones, the conditions of
\* transitions need no slot (the allocator looks at actions only), and messages on
\* channels are global: the package refers to them outside of the states' procedures.
StatementsAssumption(s) ==
    LET stmts == UNION {ToSet(t.stmts) : t \in ToSet(Machine[s].transitions)}
    IN  /\ IsSequence(Machine[s].actions) /\ IsSequence(Machine[s].transitions)
        /\ Machine[s].exception \in States
        /\ \A t \in ToSet(Machine[s].transitions) : t.target \in States /\ IsSequence(t.stmts)
        /\ \A a \in stmts : a.kind \notin Slotted
        /\ \A a \in ToSet(Machine[s].actions) \cup stmts :
               /\ a.kind \in {"MsgAgg", "DeltaMsgAgg", "Call", "Append"} => IsSequence(a.values)
               /\ a.kind \in {"Comprehension", "Find"} =>
                      /\ IsSequence(a.selector) /\ IsSequence(a.condition)
                      /\ {"kind", "selector", "condition", "target", "of", "field", "at", "iterator",
                          "elements", "conditional"} \subseteq DOMAIN a
               /\ a.kind \in Slotted => a.at \notin ToSet(Globals)
               /\ a.kind = "Append" => a.target \in Composite /\ Kind[a.target] = "Sequence"
               /\ a.kind \in {"Read", "Write"} =>
                      a.var \in ToSet(Globals) /\ Kind[a.var] = "Message"

\* No declaration shadows another one.
DeclarationsAssumption(s) ==
    /\ \A i, j \in DOMAIN declarations(s) : declarations(s)[i].var = declarations(s)[j].var => i = j
    /\ \A d \in ToSet(declarations(s)) : d.var \notin ToSet(Globals) /\ d.at \notin ToSet(Globals)

ASSUME MachineAssumption ==
    /\ IsFiniteSet(States) /\ {InitialState, "Final"} \subseteq States
    /\ IsSequence(Globals) /\ \A i, j \in DOMAIN Globals : Globals[i] = Globals[j] => i = j
    /\ \A s \in States : StatementsAssumption(s) /\ DeclarationsAssumption(s)
=============================================================================
