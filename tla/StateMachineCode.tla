-------------------------- MODULE StateMachineCode --------------------------
(***************************************************************************)
(* What the state machine generator emits for a state machine.  The        *)
(* definitions translate statements, as rflx/generator/state_machine.py    *)
(* does, to sequences of the calls, assignments, assertions and checks of  *)
(* the generated Ada procedure.  The module StateMachine executes them.    *)
(*                                                                         *)
(* A name <<kind, variable>> stands for an Ada object that belongs to a    *)
(* variable of the model: its context ("Ctx"), the context of a copy       *)
(* ("Copy") or of a field ("Field"), the element of a sequence ("Element"),*)
(* a moved context ("Tmp"), a structure ("Structure").  The pointer that   *)
(* goes with a context has the same name; "Target" is RFLX_Target_X_Buffer.*)
(*                                                                         *)
(* A condition is <<predicate, name, argument>>.                           *)
(***************************************************************************)
EXTENDS Allocator

CONSTANT slot_ptr  \* the slots of locations

\* The code refers to the slots that the allocator has assigned.
ASSUME SlotAssumption == slot_ptr = get_slot_ptr

Copy(v) == <<"Copy", v>>
FieldSequence(v) == <<"Field", v>>
Element(v) == <<"Element", v>>
Tmp(n) == <<"Tmp", n[2]>>
Structure(v) == <<"Structure", v>>
Target(v) == <<"Target", v>>

-----------------------------------------------------------------------------
(* Calls and checks.  An exception handler h is the code to execute before *)
(* the jump to the finalization of the state.                              *)

raise_exception_if_not(conditions, h) ==
    <<[op |-> "Raise", unless |-> conditions, handler |-> h]>>

allocate_buffer(n, at) ==
    IF is_externally_managed(at) THEN <<>>
    ELSE <<[op |-> "Allocate", ptr |-> n, slot |-> slot_ptr[at]]>>

free_buffer(n, at) == <<[op |-> "Free", ptr |-> n, slot |-> slot_ptr[at]]>>

take_buffer(n, ptr) == <<[op |-> "Take", ctx |-> n, ptr |-> ptr]>>

free_context_buffer(n, at) ==
    take_buffer(n, n) \o IF is_externally_managed(at) THEN <<>> ELSE free_buffer(n, at)

\* bounds: the whole "Buffer", the whole buffer with a "Message" of the size of
\* "of" written into it, the "Sequence" of the size of "of", or a "Field" of "of".
initialize_context(n, ptr, bounds, of) ==
    <<[op |-> "Initialize", ctx |-> n, ptr |-> ptr, bounds |-> bounds, of |-> of]>>

Reset(n) == <<[op |-> "Reset", ctx |-> n]>>

VerifyMessage(n) == <<[op |-> "Verify_Message", ctx |-> n]>>

Switch(seq, n) == <<[op |-> "Switch", seq |-> seq, ctx |-> n]>>

update_context(seq, n) == <<[op |-> "Update", seq |-> seq, ctx |-> n]>>

\* kind tells what has to hold for the call of Copy.
copy_to_buffer(kind, n, ptr, check_target_buffer_size, h) ==
    raise_exception_if_not({<<"Index", n, "">>}, h)
    \o (IF check_target_buffer_size THEN raise_exception_if_not({<<"Fits", n, ptr>>}, h) ELSE <<>>)
    \o <<[op |-> "Copy", kind |-> kind, ctx |-> n, ptr |-> ptr]>>

-----------------------------------------------------------------------------
(* Setting the fields of a message. *)

set_opaque_field(n, f, preconditions, h, post_statements) ==
    raise_exception_if_not({<<"Valid_Next", n, f>>, <<"Available_Space", n, f>>}, h)
    \o raise_exception_if_not({<<"Valid_Length", n, f>>}, h)
    \o <<[op |-> "Generic_Set", ctx |-> n, field |-> f, needs |-> preconditions]>>
    \o post_statements

move_context(n) == <<[op |-> "Move", from |-> n, to |-> Tmp(n)]>>
move_context_back(n) == <<[op |-> "Move", from |-> Tmp(n), to |-> n]>>

set_opaque_field_to_message_field(n, v, h) ==
    LET src == Ctx(v.of)
    IN  move_context(src)
        \o set_opaque_field(n, v.field, {<<"Valid", Tmp(src), v.from>>},
                            move_context_back(src) \o h, move_context_back(src))

set_opaque_field_to_message_field_from_structure(n, v, h) ==
    set_opaque_field(n, v.field, {<<"Valid_Structure", Structure(v.of), "">>}, h, <<>>)

set_opaque_field_to_message(n, v, h) ==
    LET src == Ctx(v.of)
    IN  move_context(src)
        \o set_opaque_field(n, v.field, {<<"Well_Formed_Message", Tmp(src), "">>},
                            move_context_back(src) \o h, move_context_back(src))

\* The call of Set_F with what its contract asks for beside Valid_Next.
SetField(n, f, needs) == <<[op |-> "Set", ctx |-> n, field |-> f, needs |-> needs]>>

set_message_field(n, v, h) ==
    LET f == v.field
        length == {<<"Valid_Length", n, f>>}
        space == {<<"Sufficient_Space", n, f>>}
        condition == {<<"Field_Condition", n, f>>}
        valid == {<<"Valid_Sequence", Ctx(v.of), "">>}
    IN  CASE v.value = "FieldAccess" -> set_opaque_field_to_message_field(n, v, h)
          [] v.value = "StructureField" ->
                 set_opaque_field_to_message_field_from_structure(n, v, h)
          [] v.value = "Opaque" -> set_opaque_field_to_message(n, v, h)
          [] v.value = "Empty" ->
                 raise_exception_if_not(length, h) \o SetField(n, f, length)
          [] v.value = "Aggregate" ->
                 raise_exception_if_not(length, h) \o raise_exception_if_not(space, h)
                 \o raise_exception_if_not(condition, h)
                 \o SetField(n, f, length \cup space \cup condition)
          [] v.value = "Sequence" ->
                 raise_exception_if_not(length, h) \o raise_exception_if_not(space, h)
                 \o raise_exception_if_not(condition, h) \o raise_exception_if_not(valid, h)
                 \o SetField(n, f, length \cup space \cup condition \cup valid)
          [] OTHER ->
                 raise_exception_if_not(space, h) \o raise_exception_if_not(condition, h)
                 \o SetField(n, f, space \cup condition)

set_message_fields(n, values, h) == ConcatMap(LAMBDA v : set_message_field(n, v, h), values)

-----------------------------------------------------------------------------
(* Copies of sequences.  statements is what is done with the copy.         *)

\* What ends the use of the copy n, regularly or in an exception handler.
free_copy(n, at) == take_buffer(n, n) \o free_buffer(n, at)

declare_sequence_copy(v, at, statements, h) ==
    raise_exception_if_not({<<"Valid_Sequence", Ctx(v), "">>}, h)
    \o allocate_buffer(Copy(v), at)
    \o copy_to_buffer("Sequence", Ctx(v), Copy(v), FALSE, free_buffer(Copy(v), at) \o h)
    \o initialize_context(Copy(v), Copy(v), "Sequence", Ctx(v))
    \o statements
    \o free_copy(Copy(v), at)

declare_message_field_sequence_copy(v, f, at, target_buffer_is_smaller, statements, h) ==
    LET n == FieldSequence(v)
        free == free_buffer(n, at)
    IN  allocate_buffer(n, at)
        \o copy_to_buffer("Message", Ctx(v), n, target_buffer_is_smaller, free \o h)
        \o raise_exception_if_not({<<"Valid", Ctx(v), f>>}, free \o h)
        \o initialize_context(n, n, "Field", Ctx(v))
        \o statements
        \o free_copy(n, at)

-----------------------------------------------------------------------------
(* The preconditions that ir.add_checks turns into checks. *)

ValuePreconditions(v) ==
    CASE v.value \in {"FieldAccess", "ScalarField"} -> {<<"Valid", Ctx(v.of), v.from>>}
      [] v.value = "Opaque" -> {<<"Well_Formed_Message", Ctx(v.of), "">>}
      [] v.value = "OpaqueSequence" -> {<<"Valid_Sequence", Ctx(v.of), "">>}
      [] OTHER -> {}

preconditions(a) ==
    CASE a.kind \in {"FieldAccess", "Conversion"} -> {<<"Valid", Ctx(a.of), a.field>>}
      [] a.kind \in {"Comprehension", "Find"} ->
             IF a.field = "" THEN {} ELSE {<<"Valid", Ctx(a.of), a.field>>}
      [] a.kind \in {"MsgAgg", "DeltaMsgAgg", "Call"} ->
             UNION {ValuePreconditions(v) : v \in ToSet(a.values)}
      [] a.kind = "FieldAssign" ->
             {<<"Valid_Next", Ctx(a.target), a.values[1].field>>,
              <<"Sufficient_Space", Ctx(a.target), a.values[1].field>>}
             \cup ValuePreconditions(a.values[1])
      [] a.kind = "Append" ->
             {<<"Valid_Sequence", Ctx(a.target), "">>, <<"Has_Element", Ctx(a.target), "">>}
             \cup UNION {ValuePreconditions(v) : v \in ToSet(a.values)}
      [] a.kind = "Add" -> {<<"In_Bounds", <<"Scalar", a.target>>, a.of>>}
      [] OTHER -> {}

Check(a) == IF preconditions(a) = {} THEN <<>>
            ELSE <<[kind |-> "Check", conditions |-> preconditions(a)]>>

\* Inside a comprehension the checks of all statements come before the first one.
add_nested_checks(stmts) == ConcatMap(Check, stmts) \o stmts

add_checks(stmts) ==
    ConcatMap(LAMBDA a : Check(a) \o
                  IF a.kind \in {"Comprehension", "Find"}
                  THEN <<[a EXCEPT !.selector = add_nested_checks(@),
                                   !.condition = add_nested_checks(@)]>>
                  ELSE <<a>>, stmts)

-----------------------------------------------------------------------------
(* Statements that may be part of the selector or the condition of a       *)
(* comprehension: declarations (hoisted to the state), checks and          *)
(* assignments of scalars.  e is the context of the iterator.              *)

Rebind(c, it, e) == IF c[2] = Ctx(it) THEN <<c[1], e, c[3]>> ELSE c

ScalarAction(a, it, e, h) ==
    CASE a.kind = "Check" ->
             raise_exception_if_not({Rebind(c, it, e) : c \in a.conditions}, h)
      [] a.kind = "FieldAccess" ->
             <<[op |-> "Assign", target |-> <<"Scalar", a.target>>,
                needs |-> {Rebind(c, it, e) : c \in preconditions(a)}]>>
      [] a.kind = "Add" ->
             <<[op |-> "Assign", target |-> <<"Scalar", a.target>>, needs |-> preconditions(a)]>>
      [] OTHER -> <<>>

\* The target of a message type gets a copy of the element n.
assign_message(target, n, check_target_buffer_size, h) ==
    take_buffer(Ctx(target), Target(target))
    \o copy_to_buffer("Message", n, Target(target), check_target_buffer_size,
                      initialize_context(Ctx(target), Target(target), "Buffer", n) \o h)
    \o initialize_context(Ctx(target), Target(target), "Message", n)
    \o VerifyMessage(Ctx(target))

comprehension_assign_element(a, e, update, h) ==
    ConcatMap(LAMBDA s : ScalarAction(s, a.iterator, e, h), a.selector)
    \o (IF a.target \in Composite
        THEN raise_exception_if_not({<<"Well_Formed_Message", e, "">>}, h)
             \o assign_message(a.target, e, TRUE, h)
        ELSE <<>>)
    \o <<[op |-> "Found"]>>
    \o update
    \o <<[op |-> "Exit"]>>

comprehension_append_element(a, e, h) ==
    LET seq == Ctx(a.target)
        fits == IF a.elements = "Message" THEN {<<"Fits_Sequence", seq, e>>} ELSE {}
        checked == IF a.elements = "Message"
                   THEN <<{<<"Well_Formed_Message", e, "">>}, {<<"Not_Empty", e, "">>}>>
                   ELSE <<>>
    IN  ConcatMap(LAMBDA s : ScalarAction(s, a.iterator, e, h), a.selector)
        \o raise_exception_if_not({<<"Has_Element", seq, "">>} \cup fits, h)
        \o ConcatMap(LAMBDA c : raise_exception_if_not(c, h), checked)
        \o <<[op |-> "Append_Element", seq |-> seq, ctx |-> e, kind |-> a.elements,
              needs |-> fits \cup UNION ToSet(checked)]>>

\* The loop over the elements of seq, whose buffer comes from the slot of at.
comprehension(seq, a, h) ==
    LET e == Element(a.iterator)
        update == update_context(seq, e)
        handle_element ==
            IF a.kind = "Find" THEN comprehension_assign_element(a, e, update, update \o h)
            ELSE comprehension_append_element(a, e, update \o h)
    IN  <<[op |-> "While", seq |-> seq, slot |-> slot_ptr[a.at],
           targets |-> {Ctx(a.target)} \cap {Ctx(v) : v \in Composite},
           body |-> Switch(seq, e)
                    \o VerifyMessage(e)
                    \o ConcatMap(LAMBDA s : ScalarAction(s, a.iterator, e, update \o h), a.condition)
                    \o (IF a.conditional THEN <<[op |-> "If", body |-> handle_element]>>
                        ELSE handle_element)
                    \o update]>>

-----------------------------------------------------------------------------
(* Assignments and the other actions of a state s. *)

\* Sizes are compared at generation time, except for external buffers.
(* Mutant: the sizes are swapped. *)
buffer_is_smallerMutant(s, target, source) ==
    \/ get_size(source, s) < get_size(target, s)
    \/ {target, source} \cap external_io_buffers # {}
buffer_is_smaller(s, target, source) ==
    \/ get_size(target, s) < get_size(source, s)
    \/ {target, source} \cap external_io_buffers # {}

assign_to_message_aggregate(a, h) ==
    Reset(Ctx(a.target)) \o set_message_fields(Ctx(a.target), a.values, h)

assign_to_delta_message_aggregate(a, h) ==
    raise_exception_if_not({<<"Valid_Next", Ctx(a.target), a.values[1].field>>}, h)
    \o set_message_fields(Ctx(a.target), a.values, h)

message_field_assign(a, h) ==
    LET n == Ctx(a.target)
        f == a.values[1].field
    IN  raise_exception_if_not({<<"Valid_Next", n, f>>}, h)
        \o raise_exception_if_not({<<"Sufficient_Space", n, f>>}, h)
        \o set_message_field(n, a.values[1], h)

assign_to_head(s, a, h) ==
    LET seq == Copy(a.of)
        e == Element("RFLX_Head")
        update == update_context(seq, e)
        g == free_copy(seq, a.at) \o h
        statements ==
            raise_exception_if_not({<<"Has_Element", seq, "">>}, g)
            \o Switch(seq, e)
            \o VerifyMessage(e)
            \o raise_exception_if_not({<<"Well_Formed_Message", e, "">>}, update \o g)
            \o assign_message(a.target, e, buffer_is_smaller(s, a.target, a.of), update \o g)
            \o update
        head == {<<"Valid_Sequence", Ctx(a.of), "">>, <<"Has_Element", Ctx(a.of), "">>,
                 <<"Holds_Element", Ctx(a.of), "">>}
    IN  IF a.elements = "Message" THEN declare_sequence_copy(a.of, a.at, statements, h)
        ELSE raise_exception_if_not(head, h)
             \o <<[op |-> "Assign", target |-> <<"Scalar", a.target>>, needs |-> head]>>

assign_to_comprehension(s, a, h) ==
    LET Loop(seq) == comprehension(seq, a, free_copy(seq, a.at) \o h)
    IN  IF a.field = ""
        THEN declare_sequence_copy(a.of, a.at, Reset(Ctx(a.target)) \o Loop(Copy(a.of)), h)
        ELSE Reset(Ctx(a.target))
             \o raise_exception_if_not({<<"Well_Formed_Message", Ctx(a.of), "">>}, h)
             \o declare_message_field_sequence_copy(
                    a.of, a.field, a.at, buffer_is_smaller(s, a.target, a.of),
                    Loop(FieldSequence(a.of)), h)

assign_to_find(s, a, h) ==
    LET Statements(seq) ==
            LET g == free_copy(seq, a.at) \o h
            IN  <<[op |-> "Not_Found"]>> \o comprehension(seq, a, g)
                \o raise_exception_if_not({<<"Found", seq, "">>}, g)
    IN  IF a.field = "" THEN declare_sequence_copy(a.of, a.at, Statements(Copy(a.of)), h)
        ELSE raise_exception_if_not({<<"Well_Formed_Message", Ctx(a.of), "">>}, h)
             \o declare_message_field_sequence_copy(
                    a.of, a.field, a.at, buffer_is_smaller(s, a.target, a.of),
                    Statements(FieldSequence(a.of)), h)

\* An argument of a message type is converted to a structure, opaque ones are
\* copied to an intermediate buffer.
CallArgument(v, h) ==
    CASE v.value = "Message" -> <<[op |-> "To_Structure", ctx |-> Ctx(v.of)]>>
      [] v.value = "FieldAccess" ->
             raise_exception_if_not({<<"Fits_Argument", Ctx(v.of), "">>}, h)
             \o <<[op |-> "Get", needs |-> {<<"Valid", Ctx(v.of), v.from>>}]>>
      [] v.value = "Opaque" ->
             raise_exception_if_not({<<"Fits_Argument", Ctx(v.of), "">>}, h)
             \o raise_exception_if_not({<<"Well_Formed_Message", Ctx(v.of), "">>}, h)
             \o <<[op |-> "Get", needs |-> {<<"Well_Formed_Message", Ctx(v.of), "">>}]>>
      [] v.value = "OpaqueSequence" ->
             raise_exception_if_not({<<"Fits_Argument", Ctx(v.of), "">>}, h)
             \o raise_exception_if_not({<<"Valid_Sequence", Ctx(v.of), "">>}, h)
             \o <<[op |-> "Get", needs |-> {<<"Valid_Sequence", Ctx(v.of), "">>}]>>
      [] OTHER -> <<>>

assign_to_call(a, h) ==
    LET valid == {<<"Valid_Structure", Structure(a.target), "">>}
        length == {<<"Sufficient_Buffer_Length", Structure(a.target), "">>}
    IN  ConcatMap(LAMBDA v : CallArgument(v, h), a.values)
        \o <<[op |-> "Call", target |-> Structure(a.target)]>>
        \o (IF a.returns \in {"Message", "Structure"} THEN raise_exception_if_not(valid, h) ELSE <<>>)
        \o (IF a.returns = "Message"
            THEN raise_exception_if_not(length, h)
                 \o <<[op |-> "To_Context", ctx |-> Ctx(a.target), needs |-> valid \cup length]>>
            ELSE <<>>)

assign_to_conversion(a, h) ==
    LET contains == {<<"Contains", Ctx(a.of), a.field>>}
        space == {<<"Sufficient_Space_For", Ctx(a.of), a.target>>}
        copy == <<[op |-> "Copy_Field", ctx |-> Ctx(a.target), of |-> Ctx(a.of),
                   needs |-> contains \cup space]>>
    IN  raise_exception_if_not(contains, h)
        \o raise_exception_if_not(space, h)
        \o copy \o VerifyMessage(Ctx(a.target))
        \o copy \o VerifyMessage(Ctx(a.target))

(* Mutant: an exception leaves the buffer in the element. *)
appendMutant(a, h) ==
    LET seq == Ctx(a.target)
        e == Element(a.target)
    IN  IF a.elements = "Message"
        THEN raise_exception_if_not({<<"Has_Element", seq, "">>}, h)
             \o Switch(seq, e)
             \o set_message_fields(e, a.values, h)
             \o update_context(seq, e)
        ELSE raise_exception_if_not({<<"Has_Element", seq, "">>}, h)
             \o <<[op |-> "Append_Element", seq |-> seq, ctx |-> e, kind |-> "Scalar", needs |-> {}]>>
append(a, h) ==
    LET seq == Ctx(a.target)
        e == Element(a.target)
        update == update_context(seq, e)
    IN  IF a.elements = "Message"
        THEN raise_exception_if_not({<<"Has_Element", seq, "">>}, h)
             \o Switch(seq, e)
             \o set_message_fields(e, a.values, update \o h)
             \o update
        ELSE raise_exception_if_not({<<"Has_Element", seq, "">>}, h)
             \o <<[op |-> "Append_Element", seq |-> seq, ctx |-> e, kind |-> "Scalar", needs |-> {}]>>

\* The state of the context is lost if the buffer is removed for reading.
write(a) == IF external_io_buffers # {} THEN VerifyMessage(Ctx(a.var)) ELSE <<>>

read(a) == <<[op |-> "Read", ctx |-> Ctx(a.var)]>>

assign(s, a, h) ==
    CASE a.kind = "MsgAgg" -> assign_to_message_aggregate(a, h)
      [] a.kind = "DeltaMsgAgg" -> assign_to_delta_message_aggregate(a, h)
      [] a.kind = "Head" -> assign_to_head(s, a, h)
      [] a.kind = "Comprehension" -> assign_to_comprehension(s, a, h)
      [] a.kind = "Find" -> assign_to_find(s, a, h)
      [] a.kind = "Call" -> assign_to_call(a, h)
      [] a.kind = "Conversion" -> assign_to_conversion(a, h)
      [] OTHER -> ScalarAction(a, "", Ctx(""), h)

state_action(s, a, h) ==
    CASE a.kind = "FieldAssign" -> message_field_assign(a, h)
      [] a.kind = "Append" -> append(a, h)
      [] a.kind = "Reset" -> Reset(Ctx(a.target))
      [] a.kind = "Read" -> read(a)
      [] a.kind = "Write" -> write(a)
      [] OTHER -> assign(s, a, h)

-----------------------------------------------------------------------------
(* The procedure of a state. *)

declare(n, at) == allocate_buffer(n, at) \o initialize_context(n, n, "Buffer", n)

initialization(s) == ConcatMap(LAMBDA d : declare(Ctx(d.var), d.at), declarations(s))

(* Mutant: the last declaration is forgotten. *)
finalizationMutant(s) ==
    ConcatMap(LAMBDA d : free_context_buffer(Ctx(d.var), d.at),
              IF declarations(s) = <<>> THEN <<>> ELSE Front(declarations(s)))
    \o <<[op |-> "Assert_Global_Initialized"]>>
finalization(s) ==
    ConcatMap(LAMBDA d : free_context_buffer(Ctx(d.var), d.at), declarations(s))
    \o <<[op |-> "Assert_Global_Initialized"]>>

Invariant(s) ==
    <<[op |-> "Assert_Invariant",
       local |-> {[var |-> d.var, slot |-> slot_ptr[d.at], size |-> get_size(d.var, s)] :
                      d \in ToSet(declarations(s))}]>>

\* The jump to the finalization is part of the handler.
(* Mutant: leaves the procedure. *)
exception_handlerMutant(s) == Invariant(s)
exception_handler(s) == Invariant(s) \o finalization(s)

determine_next_state(s) ==
    ConcatMap(LAMBDA t : ConcatMap(LAMBDA a : state_action(s, a, exception_handler(s)),
                                   add_checks(t.stmts)),
              Machine[s].transitions)
    \o <<[op |-> "Next_State", targets |-> {t.target : t \in ToSet(Machine[s].transitions)}]>>

state_body(s) ==
    initialization(s)
    \o Invariant(s)
    \o ConcatMap(LAMBDA a : state_action(s, a, exception_handler(s)), add_checks(Machine[s].actions))
    \o determine_next_state(s)
    \o Invariant(s)
    \o finalization(s)

\* The subprograms Initialize and Finalize.
initialize ==
    <<[op |-> "Allocator_Initialize"]>>
    \o ConcatMap(LAMBDA v : declare(Ctx(v), v), Globals)
    \o <<[op |-> "Next_State", targets |-> {InitialState}]>>

finalize ==
    ConcatMap(LAMBDA v : free_context_buffer(Ctx(v), v), Globals)
    \o <<[op |-> "Allocator_Finalize"], [op |-> "Next_State", targets |-> {"Final"}]>>

\* The subprograms of the package.
fsm == [initialize |-> initialize, finalize |-> finalize, states |-> [s \in States |-> state_body(s)]]
=============================================================================
