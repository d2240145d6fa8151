-------------------------- MODULE StateMachineModel --------------------------
(***************************************************************************)
(* The model of a state machine (rflx/model/state_machine.py, statement.py *)
(* and declaration.py): from the states the parser creates to the machine  *)
(* the code generator works on, and the run of that machine.               *)
(*                                                                         *)
(* A State normalises its actions when it is created: neighbouring         *)
(* assignments to fields of one message become one delta aggregate.        *)
(* StateMachine normalises identifiers, validates states, declarations,    *)
(* actions and transitions, rejects the machine if there was any error,    *)
(* and replaces local messages by structures.  The accepted machine is run *)
(* twice in lock step: as the generator translates the normalised actions, *)
(* and as the language reference describes the actions of the source.      *)
(*                                                                         *)
(* Expressions are abstracted to one operation on one operand: node is the *)
(* class of the expression, (name, field) the variable or message field it *)
(* reads, value a literal operand.                                         *)
(***************************************************************************)
EXTENDS Naturals, Sequences, FiniteSets, SequencesExt

CONSTANTS Machines,   \* the machines that are checked
          Fields,     \* the fields of the message types
          Links,      \* for a definite ("Message") and an indefinite message type
                      \* ("Indefinite"): links [source, target, values of source]
          MaxValue,   \* last value of the scalar type
          MaxLength   \* number of elements a sequence can hold

(* The parser creates states with lists of transitions and of actions. *)
ASSUME MachinesAssumption ==
  \A m \in Machines :
    /\ m.states \in Seq(ToSet(m.states))
    /\ \A s \in ToSet(m.states) :
         /\ {"name", "transitions", "exception", "actions", "declarations"} \subseteq DOMAIN s
         /\ s.transitions \in Seq(ToSet(s.transitions))
         /\ s.actions \in Seq(ToSet(s.actions))
         /\ \A a \in ToSet(s.actions) :
              a.kind \in {"Assign", "FieldAssign", "Append", "Extend", "Reset", "Read", "Write"}

Initial == "Initial"
Final == "Final"
Null == "null"
None == "none"
Values == 0..MaxValue
Unset == MaxValue + 1

MessageTypes == {"Message", "Indefinite"}

ASSUME LinksAssumption ==
  \A t \in MessageTypes : \A l \in Links[t] : l.source \in Fields \union {Initial} /\ l.target \in Fields

VARIABLES
  machine,     \* the machine as the parser created it
  states,      \* its states, with normalised actions and transitions
  phase,       \* what StateMachine.__init__ does next, or how it ended
  index,       \* the state it is done for
  errors,      \* the errors pushed so far
  referenced,  \* the declarations that are referenced
  structures,  \* <<state, name>>: local messages that became structures
  current,     \* the state that is executed
  pc,          \* the next of its actions, 0: its declarations
  env,         \* values of the variables in the generated code
  reference,   \* values of the variables by the language reference
  outcome      \* how the last action ended in either

vars == <<machine, states, phase, index, errors, referenced, structures,
          current, pc, env, reference, outcome>>
checking == <<machine, states, errors, referenced, structures>>
running == <<current, pc, env, reference, outcome>>

-----------------------------------------------------------------------------
(* Expressions and statements *)

NoExpr == [node |-> None, name |-> None, field |-> None, value |-> 0]
Attributes == {"Valid", "Has_Data", "Size", "Opaque"}
Arithmetic == {"Add", "Sub", "Mul", "Div", "Mod"}

(* the classes of expressions that findall meets in an expression; a variable
   itself has no field *)
Nodes(e) == {e.node} \union (IF e.field # None /\ e.node # "Variable" THEN {"Selected"} ELSE {})
            \union (IF e.name # None /\ e.node # "Call" THEN {"Variable"} ELSE {})

Expressions(a) ==
  CASE a.kind = "Delta" -> {a.delta[i].expr : i \in DOMAIN a.delta}
    [] OTHER -> {a.expr} \ {NoExpr}

(* Statement.variables: the target and every variable that is read *)
Variables(a) == {a.target} \union {e.name : e \in Expressions(a)}

(* DeltaMessageAggregate from field assignments.  The fields are the keys of
   a dictionary: a field that is assigned twice keeps its first position and
   its last expression. *)
CollectMessageFieldAssignments(group) ==
  LET first == SelectSeq([i \in DOMAIN group |-> i],
                         LAMBDA i : \A j \in 1..(i-1) : group[j].field # group[i].field)
      last(f) == CHOOSE i \in DOMAIN group :
                   /\ group[i].field = f
                   /\ \A j \in (i+1)..Len(group) : group[j].field # f
  IN [kind |-> "Delta", target |-> group[1].target, field |-> None,
      expr |-> NoExpr, span |-> Len(group),
      delta |-> [i \in DOMAIN first |->
                  LET f == group[first[i]].field
                  IN [field |-> f, expr |-> group[last(f)].expr]]]

Flush(acc) ==
  CASE Len(acc.group) = 0 -> acc.actions
    [] Len(acc.group) = 1 -> Append(acc.actions, acc.group[1])
    [] OTHER -> Append(acc.actions, CollectMessageFieldAssignments(acc.group))

(* Mutant: every neighbouring field assignment joins the group *)
SameGroupMutant(acc, a) == TRUE

(* a neighbouring assignment to the same message? *)
SameGroup(acc, a) == acc.group # <<>> => acc.group[1].target = a.target

Collect(acc, a) ==
  CASE a.kind = "FieldAssign" /\ SameGroup(acc, a) -> [acc EXCEPT !.group = Append(@, a)]
    [] a.kind = "FieldAssign" /\ ~SameGroup(acc, a) -> [group |-> <<a>>, actions |-> Flush(acc)]
    [] OTHER -> [group |-> <<>>, actions |-> Append(Flush(acc), a)]

NormalizeActions(actions) ==
  LET collected[n \in 0..Len(actions)] ==
        IF n = 0 THEN [group |-> <<>>, actions |-> <<>>]
        ELSE Collect(collected[n - 1], actions[n])
  IN Flush(collected[Len(actions)])

NormalizeTarget(t) == IF t = Null THEN Final ELSE t

NormalizeTransition(t) == [t EXCEPT !.target = NormalizeTarget(@)]

NormalizeTransitions(s) ==
  [s EXCEPT !.transitions = [i \in DOMAIN @ |-> NormalizeTransition(@[i])],
            !.exception = NormalizeTarget(@)]

-----------------------------------------------------------------------------
(* Where generated code raises an exception *)

ExceptionNodes == {"Variable", "Selected", "Head", "Comprehension", "MessageAggregate",
                   "DeltaMessageAggregate", "Conversion", "Opaque"} \union Arithmetic
                  \union {"Pow"}

HasExpressionExceptions(e) == Nodes(e) \intersect ExceptionNodes # {}

(* Mutant: appending to a sequence is not expected to fail *)
HasExceptionsMutant(s, decls) ==
  \/ \E i \in DOMAIN s.actions : LET a == s.actions[i] IN
       \/ a.kind = "FieldAssign"
       \/ /\ a.kind \in {"Assign", "Delta"}
          /\ \/ a.target \in DOMAIN decls /\ decls[a.target].type \in MessageTypes
             \/ \E e \in Expressions(a) : HasExpressionExceptions(e)
  \/ \E i \in DOMAIN s.transitions : HasExpressionExceptions(s.transitions[i].condition)

(* has_exceptions looks at the actions and the transitions, not at the
   arguments of a Reset nor at the declarations of the state. *)
HasExceptions(s, decls) ==
  \/ \E i \in DOMAIN s.actions : LET a == s.actions[i] IN
       \/ a.kind \in {"Append", "Extend", "FieldAssign"}
       \/ /\ a.kind \in {"Assign", "Delta"}
          /\ \/ a.target \in DOMAIN decls /\ decls[a.target].type \in MessageTypes
             \/ \E e \in Expressions(a) : HasExpressionExceptions(e)
  \/ \E i \in DOMAIN s.transitions : HasExpressionExceptions(s.transitions[i].condition)

-----------------------------------------------------------------------------
(* Construction *)

FinalState == [name |-> Final, transitions |-> <<>>, exception |-> None,
               actions |-> <<>>, declarations |-> <<>>]

Init ==
  /\ machine \in Machines
  /\ states = <<>>
  /\ phase = "create" /\ index = 1
  /\ errors = {} /\ referenced = {} /\ structures = {}
  /\ current = None /\ pc = 0
  /\ env = <<>> /\ reference = <<>> /\ outcome = [code |-> "ok", language |-> "ok"]

(* State.__init__ for the next state of the specification *)
CreateState ==
  /\ phase = "create" /\ index <= Len(machine.states)
  /\ LET s == NormalizeTransitions(machine.states[index])
     IN states' = Append(states, [s EXCEPT !.actions = NormalizeActions(@)])
  /\ index' = index + 1
  /\ UNCHANGED <<machine, phase, errors, referenced, structures, running>>

(* declarations of a state, or of the machine *)
Scoped(scope, names) == {<<scope, k>> : k \in names}

Globals == machine.parameters @@ machine.declarations
StateNames == {states[i].name : i \in DOMAIN states}

(* Mutant: the lookup is guarded by the exception target itself *)
LookupFailsMutant(s, names) == FALSE

(* StateMachine._normalize looks the exception target up when the target of
   the last transition is known; otherwise the lookup is skipped. *)
LookupFails(s, names) ==
  /\ s.exception # None
  /\ s.transitions # <<>> /\ s.transitions[Len(s.transitions)].target \in names
  /\ s.exception \notin names

(* StateMachine.__init__ up to _normalize *)
CreateMachine ==
  /\ phase = "create" /\ index > Len(machine.states)
  /\ states' = Append(states, FinalState)
  /\ phase' = IF \E i \in DOMAIN states :
                   LookupFails(states[i], StateNames \union {Final})
              THEN "KeyError" ELSE "states"
  /\ UNCHANGED <<machine, index, errors, referenced, structures, running>>

-----------------------------------------------------------------------------
(* Validation *)

ValidateStateExistence ==
  {<<"non-existent state", states[i].name>> : i \in
     {i \in DOMAIN states : \E j \in DOMAIN states[i].transitions :
                              states[i].transitions[j].target \notin StateNames}}

ValidateDuplicateStates ==
  {<<"duplicate state", states[i].name>> : i \in
     {i \in DOMAIN states : \E j \in 1..(i-1) : states[j].name = states[i].name}}

Targets(s) == {s.transitions[j].target : j \in DOMAIN s.transitions}
              \union ({s.exception} \ {None})

(* The inputs are collected in the order of the states, and a state is looked
   up right after its own transitions were added. *)
ValidateStateReachability ==
  {<<"unreachable state", states[i].name>> : i \in
     {i \in 2..Len(states) : /\ states[i].name # Final
                             /\ \A j \in 1..i : states[i].name \notin Targets(states[j])}}
  \union
  {<<"detached state", states[i].name>> : i \in
     {i \in DOMAIN states : states[i].name # Final /\ states[i].transitions = <<>>}}

ValidateStates ==
  /\ phase = "states"
  /\ errors' = errors
       \union (IF \A i \in DOMAIN states : states[i].name = Final
               THEN {<<"empty states", None>>} ELSE {})
       \union ValidateStateExistence
       \union ValidateDuplicateStates
       \union ValidateStateReachability
  /\ phase' = "declarations"
  /\ UNCHANGED <<machine, states, index, referenced, structures, running>>

Types == {"Scalar", "Message", "Indefinite", "Sequence", "Opaque", "Boolean"}

HasField(type, f) == \E l \in Links[type] : l.target = f

(* the type of an expression, Undefined if a check of a subexpression fails *)
TypeOf(e, decls) ==
  LET known == e.name \in DOMAIN decls
      message == known /\ decls[e.name].type \in MessageTypes
      operand == CASE e.name = None -> "Scalar"
                   [] e.field # None -> IF message /\ HasField(decls[e.name].type, e.field) THEN "Scalar" ELSE "Undefined"
                   [] known -> decls[e.name].type
                   [] OTHER -> "Undefined"
  IN CASE e.node = "Number" -> "Scalar"
       [] e.node = "True" -> "Boolean"
       [] e.node \in {"Variable", "Selected"} -> operand
       [] e.node \in Arithmetic -> IF operand = "Scalar" THEN "Scalar" ELSE "Undefined"
       [] e.node = "Relation" -> IF operand = "Scalar" THEN "Boolean" ELSE "Undefined"
       [] e.node \in {"Valid", "Has_Data"} -> IF operand # "Undefined" THEN "Boolean" ELSE "Undefined"
       [] e.node = "Size" -> IF operand # "Undefined" THEN "Scalar" ELSE "Undefined"
       [] e.node = "Opaque" -> IF message THEN "Opaque" ELSE "Undefined"
       [] e.node = "Head" -> IF operand = "Sequence" THEN "Scalar" ELSE "Undefined"
       [] e.node = "Call" -> IF known /\ "result" \in DOMAIN decls[e.name]
                             THEN decls[e.name].result ELSE "Undefined"
       [] OTHER -> "Undefined"

TypeErrors(e, expected, decls) ==
  IF TypeOf(e, decls) = expected THEN {} ELSE {<<"type", e.name>>}

(* a declaration sees the outer declarations and those before it *)
Before(d, k) == [j \in {j \in DOMAIN d : d[j].position < d[k].position} |-> d[j]]

(* _validate_declarations for the declarations d that see the declarations visible *)
DeclarationErrors(d, visible) ==
  UNION {(IF k \in DOMAIN visible THEN {<<"shadows", k>>} ELSE {})
         \union (IF d[k].type \notin Types \union {"Channel", "Function"}
                 THEN {<<"undefined type", k>>} ELSE {})
         \union (IF d[k].type = "Opaque" THEN {<<"invalid variable type", k>>} ELSE {})
         \union (IF d[k].type = "Function" /\ d[k].result \notin {"Scalar", "Boolean", "Message"}
                 THEN {<<"invalid return type", k>>} ELSE {})
         \union (IF d[k].type \notin {"Channel", "Function"} /\ d[k].expr # NoExpr
                 THEN TypeErrors(d[k].expr, d[k].type, Before(d, k) @@ visible) ELSE {})
         : k \in DOMAIN d}

Initializers(d) == {d[k].expr : k \in {k \in DOMAIN d : d[k].type \notin {"Channel", "Function"}}}
                   \ {NoExpr}

ValidateDeclarations ==
  /\ phase = "declarations"
  /\ errors' = errors \union DeclarationErrors(Globals, <<>>)
  /\ referenced' = referenced
                   \union Scoped(None, {e.name : e \in Initializers(Globals)} \intersect DOMAIN Globals)
  /\ phase' = "validate" /\ index' = 1
  /\ UNCHANGED <<machine, states, structures, running>>

(* the paths through a message, as sequences of fields *)
FieldPaths == [t \in MessageTypes |->
  {p \in UNION {[1..n -> Fields] : n \in 1..Cardinality(Fields)} :
     \A i \in DOMAIN p : \E l \in Links[t] :
        l.target = p[i] /\ l.source = (IF i = 1 THEN Initial ELSE p[i-1])}]

(* MessageAggregate checks of a delta aggregate: the fields follow one
   another in some combination of fields *)
Consecutive(type, delta) ==
  \E p \in FieldPaths[type] : \E k \in 0..(Len(p) - Len(delta)) :
     \A i \in DOMAIN delta : p[k + i] = delta[i].field

ActionErrors(a, decls) ==
  LET type == IF a.target \in DOMAIN decls THEN decls[a.target].type ELSE "Undefined"
      is(ts) == IF type \in ts THEN {} ELSE {<<"type", a.target>>}
  IN CASE a.kind = "Assign" -> (IF type = "Undefined" THEN {<<"type", a.target>>}
                                ELSE TypeErrors(a.expr, type, decls))
       [] a.kind = "FieldAssign" ->
            is(MessageTypes) \union TypeErrors(a.expr, "Scalar", decls)
            \union (IF type \in MessageTypes => HasField(type, a.field) THEN {} ELSE {<<"invalid field", a.field>>})
       [] a.kind = "Delta" ->
            is(MessageTypes) \union (UNION {TypeErrors(e, "Scalar", decls) : e \in Expressions(a)})
            \union (IF type \in MessageTypes => Consecutive(type, a.delta) THEN {} ELSE {<<"invalid position", a.target>>})
       [] a.kind = "Append" -> is({"Sequence"}) \union TypeErrors(a.expr, "Scalar", decls)
       [] a.kind = "Extend" -> is({"Sequence"}) \union TypeErrors(a.expr, "Sequence", decls)
       [] a.kind = "Reset" ->
            is(MessageTypes \union {"Sequence"})
            \union (IF a.expr = NoExpr THEN {}
                    ELSE IF type = "Sequence" THEN {<<"unexpected argument", a.target>>}
                    ELSE TypeErrors(a.expr, "Scalar", decls))
       [] OTHER -> is({"Channel"})
                   \union (IF TypeOf(a.expr, decls) \in MessageTypes THEN {} ELSE {<<"type", a.expr.name>>})

(* _validate_io_states *)
IOErrors(s) ==
  LET io == {i \in DOMAIN s.actions : s.actions[i].kind \in {"Read", "Write"}}
      pairs == {p \in io \X io : p[1] < p[2]}
  IN (IF io # {} /\ DOMAIN s.declarations # {} THEN {<<"IO declarations", s.name>>} ELSE {})
     \union (IF io # {} /\ io # DOMAIN s.actions THEN {<<"IO combined", s.name>>} ELSE {})
     \union {<<"channel parameter", s.name>> : i \in {i \in io : s.actions[i].expr.node # "Variable"}}
     \union {<<"channel twice", s.name>> : p \in
               {p \in pairs : s.actions[p[1]].target = s.actions[p[2]].target}}
     \union {<<"message twice", s.name>> : p \in
               {p \in pairs : s.actions[p[1]].expr = s.actions[p[2]].expr}}

TransitionErrors(s, decls) ==
  (UNION {TypeErrors(s.transitions[i].condition, "Boolean", decls) : i \in DOMAIN s.transitions})
  \union (IF s.exception = None /\ HasExceptions(s, decls)
          THEN {<<"missing exception transition", s.name>>} ELSE {})
  \union (IF s.exception # None /\ ~HasExceptions(s, decls)
          THEN {<<"unnecessary exception transition", s.name>>} ELSE {})

(* the validation of one state: declarations, actions, transitions *)
ValidateState ==
  /\ phase = "validate" /\ index <= Len(states)
  /\ LET s == states[index]
         decls == s.declarations @@ Globals
         read == {e.name : e \in Initializers(s.declarations)}
                 \union (UNION {Variables(s.actions[i]) : i \in DOMAIN s.actions})
                 \union {s.transitions[i].condition.name : i \in DOMAIN s.transitions}
     IN /\ errors' = errors
             \union DeclarationErrors(s.declarations, Globals)
             \union IOErrors(s)
             \union (UNION {ActionErrors(s.actions[i], decls) : i \in DOMAIN s.actions})
             \union TransitionErrors(s, decls)
        /\ referenced' = referenced
             \union Scoped(None, (read \ DOMAIN s.declarations) \intersect DOMAIN Globals)
             \union Scoped(s.name, read \intersect DOMAIN s.declarations)
  /\ index' = index + 1
  /\ UNCHANGED <<machine, states, phase, structures, running>>

Unused == (Scoped(None, DOMAIN Globals)
           \union UNION {Scoped(states[i].name, DOMAIN states[i].declarations) : i \in DOMAIN states})
          \ referenced

(* _validate_usage, and the propagation of errors *)
ValidateUsage ==
  /\ phase = "validate" /\ index > Len(states)
  /\ errors' = errors \union {<<"unused", k>> : k \in Unused}
  /\ phase' = IF errors' = {} THEN "optimize" ELSE "rejected"
  /\ index' = 1
  /\ UNCHANGED <<machine, states, referenced, structures, running>>

-----------------------------------------------------------------------------
(* Optimisation: local messages become structures *)

ContainsUnsupportedFeature(name, a) ==
  \/ a.kind = "Append" /\ a.expr.name = name
  \/ a.kind \in {"Append", "Extend", "Reset", "Read", "Write"} /\ a.target = name
  \/ a.kind = "FieldAssign" /\ a.target = name
  \/ a.kind = "Assign" /\ a.target = name /\ a.expr.node # "Call"
  \/ a.kind = "Delta" /\ a.target = name
  \/ /\ a.kind \in {"Assign", "FieldAssign", "Delta"}
     /\ \E e \in Expressions(a) : e.node \in Attributes /\ e.name = name

OptimizeStructures(s) ==
  Scoped(s.name, {k \in DOMAIN s.declarations :
     /\ s.declarations[k].type = "Message"
     /\ s.declarations[k].expr = NoExpr
     /\ \A i \in DOMAIN s.actions : ~ContainsUnsupportedFeature(k, s.actions[i])})

InitialValue(type) ==
  CASE type \in MessageTypes -> [f \in Fields |-> Unset]
    [] OTHER -> 0

(* StateMachine._optimize *)
Optimize ==
  /\ phase = "optimize"
  /\ structures' = UNION {OptimizeStructures(states[i]) : i \in DOMAIN states}
  /\ phase' = "generate"
  /\ UNCHANGED <<machine, states, index, errors, referenced, running>>

-----------------------------------------------------------------------------
(* Code generation, as far as it can fail *)

(* expressions for which a check is generated (preconditions in rflx/ir.py) *)
Checked(e) == Nodes(e) \intersect ({"Selected", "Head", "Opaque"} \union Arithmetic) # {}

(* The code of a state contains a check that raises: the generator asserts
   that the state has an exception transition. *)
ActionRaises(a, decls) ==
  \/ a.kind \in {"FieldAssign", "Delta", "Append", "Extend"}
  \/ a.kind = "Assign" /\ decls[a.target].type \in MessageTypes
  \/ \E e \in Expressions(a) : Checked(e)

StateRaises(s) ==
  \/ \E i \in DOMAIN s.actions : ActionRaises(s.actions[i], s.declarations @@ Globals)
  \/ \E i \in DOMAIN s.transitions : Checked(s.transitions[i].condition)

(* attributes of a structure, or of a field of it, that have no translation *)
UntranslatableAttribute(s, e) ==
  /\ <<s.name, e.name>> \in structures
  /\ \/ e.field = None /\ e.node \in {"Size", "Has_Data"}
     \/ e.field # None /\ e.node = "Valid"

(* Arguments of a Reset are translated as they are: a call has no translation,
   and a structure is taken for the message that it has replaced. *)
UntranslatableArgument(s, e) == e.node = "Call" \/ <<s.name, e.name>> \in structures

(* The generator stops with an internal error, or generates code that refers
   to objects that do not exist.  The condition of the last transition is not
   translated. *)
GenerationFails(s) ==
  \/ s.exception = None /\ StateRaises(s)
  \/ \E i \in DOMAIN s.actions : LET a == s.actions[i] IN
       IF a.kind = "Reset" THEN UntranslatableArgument(s, a.expr)
       ELSE \E e \in Expressions(a) : UntranslatableAttribute(s, e)
  \/ \E i \in 1..(Len(s.transitions) - 1) : UntranslatableAttribute(s, s.transitions[i].condition)

BasicNodes == {"Number", "Variable", "True"}

(* "... not yet supported": accepted by the model, refused by the generator *)
RefusedDeclaration(d) ==
  /\ d.type \notin {"Channel", "Function"} /\ d.expr # NoExpr
  /\ d.type \in MessageTypes \union {"Sequence"} \/ d.expr.node \notin BasicNodes

RefusedAction(a, decls) ==
  \/ a.kind = "Extend"
  \/ a.kind = "Append" /\ a.expr.node \notin BasicNodes
  \/ a.kind = "Reset" /\ a.expr.node = "Head"
  \/ a.kind \in {"FieldAssign", "Delta"} /\ \E e \in Expressions(a) : e.node \in {"Call", "Head"}
  \/ /\ a.kind = "Assign" /\ a.expr.node = "Variable"
     /\ decls[a.target].type \in MessageTypes \union {"Sequence"}

Refused(s) ==
  \/ \E k \in DOMAIN s.declarations : RefusedDeclaration(s.declarations[k])
  \/ \E i \in DOMAIN s.actions : RefusedAction(s.actions[i], s.declarations @@ Globals)

(* how generation can end: what is met first of several obstacles is left open *)
Obstacles ==
  (IF \E i \in DOMAIN states : GenerationFails(states[i]) THEN {"failed"} ELSE {})
  \union (IF \/ \E k \in DOMAIN Globals : RefusedDeclaration(Globals[k])
             \/ \E i \in DOMAIN states : Refused(states[i])
          THEN {"unsupported"} ELSE {})

(* values of the declarations d that are no parameters, where v has the values
   of the others that they refer to *)
DeclaredValues(d, v) ==
  LET value[k \in {k \in DOMAIN d : d[k].type \notin {"Channel", "Function"}}] ==
        CASE d[k].expr = NoExpr -> InitialValue(d[k].type)
          [] d[k].expr.node = "Variable" ->
               IF d[k].expr.name \in DOMAIN d THEN value[d[k].expr.name] ELSE v[d[k].expr.name]
          [] OTHER -> d[k].expr.value
  IN value

GlobalValues == DeclaredValues(Globals, <<>>)

(* the generated machine starts in the first state *)
Generate ==
  /\ phase = "generate"
  /\ phase' \in IF Obstacles = {} THEN {"run"} ELSE Obstacles
  /\ current' = states[1].name /\ pc' = 0
  /\ env' = IF Obstacles = {} THEN GlobalValues ELSE <<>>
  /\ reference' = env'
  /\ UNCHANGED <<checking, index, outcome>>

-----------------------------------------------------------------------------
(* Run *)

Current == CHOOSE s \in Range(states) : s.name = current
Source == CHOOSE s \in Range(machine.states) : s.name = current

Type(k) == (Current.declarations @@ Globals)[k].type

ValidNext(type, m, f) ==
  \E l \in Links[type] : l.target = f /\ (l.source = Initial \/ m[l.source] \in l.values)

After(type, f) == {g \in Fields : \E p \in FieldPaths[type] : \E i, j \in DOMAIN p :
                                    i < j /\ p[i] = f /\ p[j] = g}

SetField(type, m, f, v) ==
  [g \in Fields |-> IF g = f THEN v ELSE IF g \in After(type, f) THEN Unset ELSE m[g]]

WellFormed(type, m) == \E p \in FieldPaths[type] :
  /\ \A i \in DOMAIN p : ValidNext(type, m, p[i]) /\ m[p[i]] # Unset
  /\ \A f \in Fields \ Range(p) : ~ValidNext(type, m, f) /\ m[f] = Unset

(* preconditions of an expression (rflx/ir.py): a field must be valid, the
   result of an operation must be in range *)
Operand(e, v) == CASE e.name = None -> e.value
                   [] e.field # None -> v[e.name][e.field]
                   [] OTHER -> v[e.name]

Result(e, n) == CASE e.node = "Add" -> n + e.value
                  [] e.node = "Sub" -> n - e.value
                  [] e.node = "Mul" -> n * e.value
                  [] e.node = "Div" -> n \div e.value
                  [] e.node = "Mod" -> n % e.value
                  [] OTHER -> n

(* records: the messages that are structures, whose fields are not checked *)
Uninitialized(e, v, records) ==
  e.field # None /\ v[e.name][e.field] = Unset /\ e.name \in records

Raises(e, v, records) ==
  \/ e.field # None /\ v[e.name][e.field] = Unset /\ e.name \notin records
  \/ e.node = "Add" /\ Operand(e, v) + e.value > MaxValue
  \/ e.node = "Mul" /\ Operand(e, v) * e.value > MaxValue
  \/ e.node = "Sub" /\ Operand(e, v) < e.value
  \/ e.node \in {"Div", "Mod"} /\ e.value = 0
  \/ e.node = "Head" /\ v[e.name] = 0

ReturnedMessages == [t \in MessageTypes |->
  {m \in [Fields -> Values \union {Unset}] : WellFormed(t, m)}]

Evaluate(e, v, input) == CASE e.node \in {"Call", "Size", "Head"} -> input.value
                           [] OTHER -> Result(e, Operand(e, v))

Set(v, k, x) == [v EXCEPT ![k] = x]
Ok(v) == [env |-> v, outcome |-> "ok"]
Exception(v) == [env |-> v, outcome |-> "exception"]

(* the fields of a delta aggregate are set one after the other; only the
   first was checked to be a valid next field *)
SetDelta(v, a, values) ==
  FoldLeft(LAMBDA r, i :
             CASE r.outcome # "ok" -> r
               [] ~ValidNext(Type(a.target), r.env[a.target], a.delta[i].field) ->
                    [env |-> r.env, outcome |-> "precondition"]
               [] OTHER -> Ok(Set(r.env, a.target,
                                  SetField(Type(a.target), r.env[a.target],
                                           a.delta[i].field, values[i]))),
           Ok(v), [i \in DOMAIN a.delta |-> i])

(* the statements that are generated for an action *)
Execute(a, v, input, records) ==
  CASE \E e \in Expressions(a) : Raises(e, v, records) -> Exception(v)
    [] \E e \in Expressions(a) : Uninitialized(e, v, records) ->
         [env |-> v, outcome |-> "uninitialized"]
    [] a.kind = "FieldAssign" ->
         IF ValidNext(Type(a.target), v[a.target], a.field)
         THEN Ok(Set(v, a.target, SetField(Type(a.target), v[a.target], a.field,
                                           Evaluate(a.expr, v, input))))
         ELSE Exception(v)
    [] a.kind = "Delta" ->
         IF ValidNext(Type(a.target), v[a.target], a.delta[1].field)
         THEN SetDelta(v, a, [i \in DOMAIN a.delta |-> Evaluate(a.delta[i].expr, v, input)])
         ELSE Exception(v)
    [] a.kind = "Assign" ->
         CASE Type(a.target) \notin MessageTypes -> Ok(Set(v, a.target, Evaluate(a.expr, v, input)))
           [] input.valid -> Ok(Set(v, a.target, input.message))
           [] OTHER -> Exception(v)
    [] a.kind = "Append" ->
         IF v[a.target] < MaxLength THEN Ok(Set(v, a.target, v[a.target] + 1)) ELSE Exception(v)
    [] a.kind = "Reset" ->
         Ok(Set(v, a.target, InitialValue(Type(a.target))))
    [] a.kind = "Read" ->
         Ok(Set(v, a.expr.name, IF input.valid THEN input.message ELSE InitialValue("Message")))
    [] OTHER -> Ok(v)

(* what the environment provides: a received message or the result of a call *)
Inputs(type) == [message : ReturnedMessages[type], valid : BOOLEAN, value : Values]
NoInput == [message |-> InitialValue("Message"), valid |-> TRUE, value |-> 0]
InputsOf(a) ==
  CASE a.kind = "Read" -> Inputs(Type(a.expr.name))
    [] \E e \in Expressions(a) : e.node \in {"Call", "Size", "Head"} -> Inputs("Message")
    [] OTHER -> {NoInput}

(* the actions of the source that a normalised action stands for *)
Span(a) == IF a.kind = "Delta" THEN a.span ELSE 1
SourceIndex(n) == FoldLeft(LAMBDA i, a : i + Span(a), 1, SubSeq(Current.actions, 1, n - 1))

(* the initial values of a state's declarations *)
Declare ==
  /\ phase = "run" /\ pc = 0 /\ current # Final /\ current \in StateNames
  /\ env' = DeclaredValues(Current.declarations, env) @@ env
  /\ reference' = DeclaredValues(Current.declarations, reference) @@ reference
  /\ pc' = 1
  /\ UNCHANGED <<checking, phase, index, current, outcome>>

(* the local messages of the current state that are structures *)
Records == {k \in DOMAIN Current.declarations : <<current, k>> \in structures}

(* one action of the generated code, and the actions of the source it stands for *)
Act ==
  /\ phase = "run" /\ pc > 0 /\ pc <= Len(Current.actions) /\ outcome.code = "ok"
  /\ \E input \in InputsOf(Current.actions[pc]) :
       LET a == Current.actions[pc]
           from == SourceIndex(pc)
           code == Execute(a, env, input, Records)
           language == FoldLeft(LAMBDA r, b : IF r.outcome = "ok" THEN Execute(b, r.env, input, {}) ELSE r,
                                Ok(reference), SubSeq(Source.actions, from, from + Span(a) - 1))
       IN /\ env' = code.env /\ reference' = language.env
          /\ outcome' = [code |-> code.outcome, language |-> language.outcome]
  /\ pc' = pc + 1
  /\ UNCHANGED <<checking, phase, index, current>>

(* the state is left: local variables end, both runs continue with the values
   the generated code has left *)
Leave(target) ==
  LET globals == [k \in DOMAIN GlobalValues |-> env[k]]
  IN /\ current' = target /\ pc' = 0
     /\ env' = globals /\ reference' = globals
     /\ outcome' = [code |-> "ok", language |-> "ok"]
     /\ UNCHANGED <<checking, phase, index>>

Conditions == {Current.transitions[i].condition : i \in DOMAIN Current.transitions}
AtEnd == phase = "run" /\ pc > Len(Current.actions) /\ current # Final /\ outcome.code = "ok"

(* the statements of all conditions are executed before one is decided *)
ConditionRaises ==
  /\ AtEnd /\ \E c \in Conditions : Raises(c, env, {})
  /\ outcome' = [code |-> IF \E c \in Conditions : Raises(c, env, Records)
                         THEN "exception" ELSE "uninitialized",
                 language |-> "exception"]
  /\ UNCHANGED <<checking, phase, index, current, pc, env, reference>>

Transition ==
  /\ AtEnd /\ \A c \in Conditions : ~Raises(c, env, {})
  /\ \E i \in DOMAIN Current.transitions :
       /\ \A j \in 1..(i-1) : Current.transitions[j].condition.node # "True"
       /\ Leave(Current.transitions[i].target)

TakeException ==
  /\ phase = "run" /\ outcome.code = "exception" /\ Current.exception # None
  /\ Leave(Current.exception)

Ended ==
  /\ \/ phase \in {"KeyError", "rejected", "failed", "unsupported"}
     \/ phase = "run" /\ current = Final
     \/ phase = "run" /\ outcome.code \in {"precondition", "uninitialized"}
  /\ UNCHANGED vars

Next == \/ CreateState \/ CreateMachine
        \/ ValidateStates \/ ValidateDeclarations \/ ValidateState \/ ValidateUsage
        \/ Optimize \/ Generate
        \/ Declare \/ Act \/ ConditionRaises \/ Transition \/ TakeException
        \/ Ended

-----------------------------------------------------------------------------
(* Properties *)

(* what makes the generator fail on an accepted machine, although
   has_exceptions and _optimize_structures were to prevent it: an argument of
   a Reset that needs a check, calls a function or reads a structure, and an
   attribute of a structure in the condition of a transition *)
Overlooked(s) ==
  \/ \E i \in DOMAIN s.actions : LET a == s.actions[i] IN
       a.kind = "Reset" /\ (Checked(a.expr) \/ UntranslatableArgument(s, a.expr))
  \/ \E i \in DOMAIN s.transitions : UntranslatableAttribute(s, s.transitions[i].condition)

\* The generator does not fail on an accepted machine without an overlooked
\* construct: no check is generated in a state without exception transition
\* (the assertion of ExceptionHandler.execute), and no use of a message that
\* was replaced by a structure lacks a translation.  It generates code or
\* refuses the machine with an error for one of the constructs that it does
\* not support yet, which the model has accepted ("unsupported": Extend,
\* initial values and some assignments, see Refused).
GenerationSucceeds ==
  phase = "failed" => \E i \in DOMAIN states : Overlooked(states[i])

\* An accepted machine never goes to a state it does not have, although the
\* targets of exception transitions are not validated.
TargetsExist == phase = "run" => current \in StateNames

(* a group that neither reads its own message nor sets a field twice *)
Independent(a) ==
  a.kind = "Delta" => /\ \A e \in Expressions(a) : e.name # a.target
                      /\ Len(a.delta) = a.span

\* Grouping assignments to message fields into delta aggregates changes
\* neither whether an action completes nor the values it leaves, unless the
\* expressions of a group read the message or a field is assigned twice.
AssignmentsAgree ==
  phase = "run" /\ pc > 0 /\ (\A i \in 1..(pc-1) : Independent(Current.actions[i])) =>
    /\ outcome.code = "ok" <=> outcome.language = "ok"
    /\ outcome.code = "ok" => env = reference

\* "Trying to set a message field which is not a valid next field leads to an
\* exception transition" (doc/language_reference/language_reference.rst): the
\* generated code never sets such a field.
InvalidNextRaises == outcome.code # "precondition"

Spec == Init /\ [][Next]_vars
=============================================================================
