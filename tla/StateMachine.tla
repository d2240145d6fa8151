---------------------------- MODULE StateMachine ----------------------------
(***************************************************************************)
(* A generated state machine and the application that calls it:            *)
(* Initialize, Tick, Run, Write, Add_Buffer, Remove_Buffer and Finalize of *)
(* the package FSM, and every statement of the procedures of the states.   *)
(*                                                                         *)
(* Memory is modelled by who holds a buffer: a slot, a pointer variable, a *)
(* message or sequence context or the application.  Sizes are counted in   *)
(* units, and the bytes are abstracted to what is known about them: facts  *)
(* holds the conditions established since the context was last changed.    *)
(***************************************************************************)
EXTENDS StateMachineCode

CONSTANT ExternalLength  \* size of the buffers that the application provides

ASSUME ExternalLengthAssumption == ExternalLength \in Nat \ {0}

VARIABLES
    next_state,  \* Ctx.P.Next_State
    current,     \* the state whose procedure is executed, "" for none
    code,        \* what remains of the call that is executed
    running,     \* the call is Run
    slots,       \* Ctx.P.Slots
    pointers,    \* pointer variables that are not null
    contexts,    \* message and sequence contexts that were initialized
    facts,       \* conditions known to hold
    found,       \* the flag of a Find
    fresh,       \* units of messages that the application wrote, or skipped, since the last Tick
    outside      \* buffers held by the application

vars == <<next_state, current, code, running, slots, pointers, contexts,
          facts, found, fresh, outside>>

-----------------------------------------------------------------------------
(* Buffers and contexts. *)

Null == [id |-> 0, length |-> 0]

\* The memory of slot i and the buffers of the application.
Memory(i) == [id |-> i, length |-> SlotSize[i]]
ExternalBuffers == {[id |-> -k, length |-> ExternalLength] : k \in 1 .. Cardinality(external_io_buffers)}

HasBuffer(n) == n \in DOMAIN contexts /\ contexts[n].buffer # Null

\* The pointer that a call gets as argument.
Pointer(n) == IF n \in DOMAIN pointers THEN pointers[n] ELSE Null

Without(f, n) == [m \in DOMAIN f \ {n} |-> f[m]]

Put(f, n, v) == [m \in DOMAIN f \cup {n} |-> IF m = n THEN v ELSE f[m]]

Context(b, last, used, written) ==
    [buffer |-> b, last |-> last, used |-> used, written |-> written, valid |-> TRUE]

\* Units of messages that the application wrote, and units in front of an offset at which
\* it wrote that it had not written before.
Nothing == [written |-> {}, skipped |-> {}]
Units(v, range) == {v} \X range

\* What remains known when the context n changes.
Forget(n) == {c \in facts : c[2] # n}

Initial(n) == IF n[2] \in Composite /\ n[1] \in {"Ctx", "Element"} /\ Fields[n[2]] # <<>>
              THEN {<<"Valid_Next", n, Fields[n[2]][1]>>} ELSE {}

-----------------------------------------------------------------------------
(* Predicates of the generated package. *)

LocalSlots == Cardinality(DOMAIN GlobalSizes) + 1 .. Len(SlotSize)

Uninitialized ==
    /\ \A i \in DOMAIN slots : slots[i] = Null
    /\ \A v \in ToSet(Globals) : ~HasBuffer(Ctx(v))

Global_Allocated ==
    /\ \A i \in 1 .. Cardinality(DOMAIN GlobalSizes) : slots[i] = Null
    /\ \A i \in LocalSlots : slots[i] # Null

Global_Initialized ==
    \A v \in DOMAIN GlobalSizes : HasBuffer(Ctx(v)) /\ contexts[Ctx(v)].buffer.length = GlobalSizes[v]

Buffers_Initialized == \A v \in external_io_buffers : HasBuffer(Ctx(v))

Initialized == Global_Initialized /\ Global_Allocated /\ Buffers_Initialized

Active == next_state # "Final"

\* Accesses of a state to channels.
Accesses(s, kinds) == {a \in ToSet(Machine[s].actions) : a.kind \in kinds}

In_IO_State == Accesses(next_state, {"Read", "Write"}) # {}

Buffer_Accessible(v) == \E a \in Accesses(next_state, {"Read", "Write"}) : a.var = v

\* The variable that is read from channel c in the next state.
Needs_Data(c, v) == \E a \in Accesses(next_state, {"Read"}) : a.channel = c /\ a.var = v

\* The invariant of a state with the given declarations.
State_Invariant(local) ==
    LET used == {d.slot : d \in local}
    IN  /\ local # {} => Global_Initialized
        /\ \A d \in local : /\ HasBuffer(Ctx(d.var))
                            /\ contexts[Ctx(d.var)].buffer.length >= d.size
                            /\ slots[d.slot] = Null
        /\ \A i \in 1 .. Cardinality(DOMAIN GlobalSizes) : slots[i] = Null
        /\ \A i \in LocalSlots \ used : slots[i] # Null

-----------------------------------------------------------------------------
(* Conditions.  Some are decided by the state, the others may hold or not: *)
(* a check that passes makes them known.                                   *)

Decided == {"Valid_Sequence", "Has_Element", "Holds_Element", "Fits_Sequence", "Fits",
            "Not_Empty", "Found"}

Holds(c) ==
    LET n == c[2]
        x == contexts[n]
    IN  CASE c[1] = "Valid_Sequence" -> x.valid
          [] c[1] = "Has_Element" -> x.valid /\ x.used < x.last
          [] c[1] = "Holds_Element" -> x.used > 0
          [] c[1] = "Fits_Sequence" -> contexts[c[3]].used <= x.last - x.used
          [] c[1] = "Fits" -> x.used <= Pointer(c[3]).length
          [] c[1] = "Not_Empty" -> x.used > 0
          [] c[1] = "Found" -> found
          [] OTHER -> c \in facts

\* No message is empty, and nothing can be set in a context without space.
Possible(c) ==
    CASE c[1] \in Decided -> Holds(c)
      [] c[1] = "Well_Formed_Message" -> contexts[c[2]].used > 0
      [] c[1] = "Sufficient_Space" -> contexts[c[2]].last > 0
      [] OTHER -> TRUE

\* The message that is written to channel c in the next state is well-formed, which it
\* may be unless its size is zero.
Has_Data(c, v) ==
    /\ \E a \in Accesses(next_state, {"Write"}) : a.channel = c /\ a.var = v
    /\ Possible(<<"Well_Formed_Message", Ctx(v), "">>)

OnContext(c) == c[2][1] \notin {"Structure", "Scalar"}

-----------------------------------------------------------------------------
(* The contract of the statement i: the preconditions of the called        *)
(* subprograms, assertions and loop invariants.                            *)

Met(conditions) == \A c \in conditions : (OnContext(c) => HasBuffer(c[2])) /\ Holds(c)

Precondition(i) ==
    CASE i.op = "Free" -> slots[i.slot] = Null /\ Pointer(i.ptr) # Null
      [] i.op = "Initialize" -> Pointer(i.ptr) # Null
      [] i.op \in {"Take", "Reset", "Verify_Message", "Read"} -> HasBuffer(i.ctx)
      [] i.op = "Copy" ->
             HasBuffer(i.ctx) /\ (IF i.kind = "Message"
                                  THEN <<"Well_Formed_Message", i.ctx, "">> \in facts
                                  ELSE contexts[i.ctx].valid)
      [] i.op = "Switch" -> HasBuffer(i.seq) /\ Holds(<<"Has_Element", i.seq, "">>)
      [] i.op = "Update" -> /\ i.seq \in DOMAIN contexts /\ ~HasBuffer(i.seq)
                            /\ contexts[i.seq].valid /\ HasBuffer(i.ctx)
      [] i.op = "Append_Element" ->
             HasBuffer(i.seq) /\ Holds(<<"Has_Element", i.seq, "">>) /\ Met(i.needs)
      [] i.op = "Set" ->
             HasBuffer(i.ctx) /\ <<"Valid_Next", i.ctx, i.field>> \in facts /\ Met(i.needs)
      [] i.op = "Generic_Set" ->
             /\ HasBuffer(i.ctx)
             /\ {<<"Valid_Next", i.ctx, i.field>>, <<"Available_Space", i.ctx, i.field>>,
                 <<"Valid_Length", i.ctx, i.field>>} \subseteq facts
             /\ Met(i.needs)
      [] i.op = "Move" -> HasBuffer(i.from)
      [] i.op = "Raise" ->
             \A c \in i.unless : /\ OnContext(c) => HasBuffer(c[2])
                                 /\ c[1] = "Fits" => Pointer(c[3]) # Null
                                 /\ c[1] = "In_Bounds" => <<"Assigned", <<"Scalar", c[3]>>, "">> \in facts
      [] i.op = "While" ->
             /\ HasBuffer(i.seq)
             /\ Holds(<<"Has_Element", i.seq, "">>) =>
                    /\ slots[i.slot] = Null /\ Pointer(i.seq) = Null
                    /\ \A n \in i.targets : HasBuffer(n) /\ contexts[n].valid
      [] i.op = "To_Structure" -> Met({<<"Well_Formed_Message", i.ctx, "">>})
      [] i.op = "To_Context" -> HasBuffer(i.ctx) /\ Met(i.needs)
      [] i.op = "Copy_Field" -> HasBuffer(i.ctx) /\ HasBuffer(i.of) /\ Met(i.needs)
      [] i.op \in {"Get", "Assign"} -> Met(i.needs)
      [] i.op = "Assert_Invariant" -> State_Invariant(i.local)
      [] i.op = "Assert_Global_Initialized" -> Global_Initialized
      [] OTHER -> TRUE

-----------------------------------------------------------------------------
(* The statements.  Op(i) is enabled if i is the next one to execute. *)

Op(i, op) == code # <<>> /\ i = Head(code) /\ i.op = op /\ Precondition(i)

Done == code' = Tail(code)

Memories == <<slots, pointers, contexts>>
Control == <<next_state, current, running, fresh, outside>>

Allocate(i) ==
    /\ Op(i, "Allocate")
    /\ pointers' = IF slots[i.slot] = Null THEN Without(pointers, i.ptr)
                   ELSE Put(pointers, i.ptr, slots[i.slot])
    /\ slots' = [slots EXCEPT ![i.slot] = Null]
    /\ Done /\ UNCHANGED <<contexts, facts, found, Control>>

Free(i) ==
    /\ Op(i, "Free")
    /\ slots' = [slots EXCEPT ![i.slot] = pointers[i.ptr]]
    /\ pointers' = Without(pointers, i.ptr)
    /\ Done /\ UNCHANGED <<contexts, facts, found, Control>>

InitializeContext(i) ==
    /\ Op(i, "Initialize")
    /\ LET b == pointers[i.ptr]
           size == IF i.bounds = "Buffer" THEN 0 ELSE contexts[i.of].used
       IN  \E last \in CASE i.bounds = "Sequence" -> {size}
                         [] i.bounds = "Field" -> 0 .. size
                         [] OTHER -> {b.length} :
               contexts' = Put(contexts, i.ctx,
                               Context(b, last, 0, IF i.bounds = "Message" THEN size ELSE 0))
    /\ facts' = Forget(i.ctx) \cup Initial(i.ctx)
    /\ pointers' = Without(pointers, i.ptr)
    /\ Done /\ UNCHANGED <<slots, found, Control>>

Take(i) ==
    /\ Op(i, "Take")
    /\ pointers' = Put(pointers, i.ptr, contexts[i.ctx].buffer)
    /\ contexts' = Without(contexts, i.ctx)
    /\ facts' = Forget(i.ctx)
    /\ Done /\ UNCHANGED <<slots, found, Control>>

ResetContext(i) ==
    /\ Op(i, "Reset")
    /\ contexts' = [contexts EXCEPT ![i.ctx] = Context(@.buffer, @.buffer.length, 0, 0)]
    /\ facts' = Forget(i.ctx) \cup Initial(i.ctx)
    /\ Done /\ UNCHANGED <<slots, pointers, found, Control>>

\* Also the only effect of reading a message from a channel.
Verify(i) ==
    /\ Op(i, "Verify_Message") \/ Op(i, "Read")
    /\ \E size \in 0 .. contexts[i.ctx].written : contexts' = [contexts EXCEPT ![i.ctx].used = size]
    /\ facts' = Forget(i.ctx)
    /\ Done /\ UNCHANGED <<slots, pointers, found, Control>>

CopyData(i) ==
    /\ Op(i, "Copy")
    /\ Done /\ UNCHANGED <<Memories, facts, found, Control>>

(* Mutant: the element may extend to the size of the sequence. *)
SwitchToElementMutant(i) ==
    /\ Op(i, "Switch")
    /\ LET seq == contexts[i.seq]
       IN  contexts' = Put([contexts EXCEPT ![i.seq].buffer = Null], i.ctx,
                           Context(seq.buffer, seq.last, 0, seq.last))
    /\ facts' = Forget(i.ctx) \cup Initial(i.ctx)
    /\ Done /\ UNCHANGED <<slots, pointers, found, Control>>
SwitchToElement(i) ==
    /\ Op(i, "Switch")
    /\ LET seq == contexts[i.seq]
           space == seq.last - seq.used
       IN  contexts' = Put([contexts EXCEPT ![i.seq].buffer = Null], i.ctx,
                           Context(seq.buffer, space, 0, space))
    /\ facts' = Forget(i.ctx) \cup Initial(i.ctx)
    /\ Done /\ UNCHANGED <<slots, pointers, found, Control>>

(* Mutant: an incomplete element leaves the sequence valid. *)
UpdateMutant(i) ==
    /\ Op(i, "Update")
    /\ LET e == contexts[i.ctx]
           back == [contexts EXCEPT ![i.seq].buffer = e.buffer]
           complete == <<"Well_Formed_Message", i.ctx, "">>
       IN  \/ /\ Possible(complete)
              /\ contexts' = Without([back EXCEPT ![i.seq].used = @ + e.used], i.ctx)
           \/ /\ ~Holds(complete)
              /\ contexts' = Without(back, i.ctx)
    /\ facts' = Forget(i.ctx)
    /\ Done /\ UNCHANGED <<slots, pointers, found, Control>>
\* A complete element becomes part of the sequence, any other invalidates it.
Update(i) ==
    /\ Op(i, "Update")
    /\ LET e == contexts[i.ctx]
           back == [contexts EXCEPT ![i.seq].buffer = e.buffer]
           complete == <<"Well_Formed_Message", i.ctx, "">>
       IN  \/ /\ Possible(complete)
              /\ contexts' = Without([back EXCEPT ![i.seq].used = @ + e.used], i.ctx)
           \/ /\ ~Holds(complete)
              /\ contexts' = Without([back EXCEPT ![i.seq].valid = FALSE], i.ctx)
    /\ facts' = Forget(i.ctx)
    /\ Done /\ UNCHANGED <<slots, pointers, found, Control>>

AppendElement(i) ==
    /\ Op(i, "Append_Element")
    /\ LET size == IF i.kind = "Message" THEN contexts[i.ctx].used ELSE 1
       IN  contexts' = [contexts EXCEPT ![i.seq].used = @ + size]
    /\ Done /\ UNCHANGED <<slots, pointers, facts, found, Control>>

\* The fields before the one that is set stay valid, the next one can be set.
Set(i) ==
    /\ Op(i, "Set") \/ Op(i, "Generic_Set")
    /\ LET n == i.ctx
           order == Fields[n[2]]
           k == CHOOSE j \in 1 .. Len(order) : order[j] = i.field
       IN  /\ \E size \in 0 .. contexts[n].last :
                  /\ i.op = "Set" /\ <<"Sufficient_Space", n, i.field>> \in i.needs => size > 0
                  /\ contexts' = [contexts EXCEPT ![n].used = size, ![n].written = size]
           /\ facts' = Forget(n)
                       \cup {c \in facts : c[1] = "Valid" /\ c[2] = n /\ c[3] \in ToSet(SubSeq(order, 1, k - 1))}
                       \cup {<<"Valid", n, i.field>>}
                       \cup (IF k < Len(order) THEN {<<"Valid_Next", n, order[k + 1]>>}
                             ELSE IF contexts'[n].used > 0 THEN {<<"Well_Formed_Message", n, "">>} ELSE {})
    /\ Done /\ UNCHANGED <<slots, pointers, found, Control>>

Move(i) ==
    /\ Op(i, "Move")
    /\ contexts' = Put(Without(contexts, i.from), i.to, contexts[i.from])
    /\ facts' = (Forget(i.from) \ {c \in facts : c[2] = i.to})
                \cup {<<c[1], i.to, c[3]>> : c \in {d \in facts : d[2] = i.from}}
    /\ Done /\ UNCHANGED <<slots, pointers, found, Control>>

Assign(i) ==
    /\ Op(i, "Assign")
    /\ facts' = Forget(i.target) \cup {<<"Assigned", i.target, "">>}
    /\ Done /\ UNCHANGED <<Memories, found, Control>>

\* A function of the application returns any structure.
Call(i) ==
    /\ Op(i, "Call")
    /\ facts' = Forget(i.target)
    /\ Done /\ UNCHANGED <<Memories, found, Control>>

ToContext(i) ==
    /\ Op(i, "To_Context")
    /\ \E size \in 1 .. contexts[i.ctx].buffer.length :
           contexts' = [contexts EXCEPT ![i.ctx] = Context(@.buffer, @.buffer.length, size, size)]
    /\ facts' = Forget(i.ctx) \cup {<<"Well_Formed_Message", i.ctx, "">>}
                \cup {<<"Valid", i.ctx, f>> : f \in ToSet(Fields[i.ctx[2]])}
    /\ Done /\ UNCHANGED <<slots, pointers, found, Control>>

CopyField(i) ==
    /\ Op(i, "Copy_Field")
    /\ \E size \in 1 .. contexts[i.ctx].buffer.length :
           contexts' = [contexts EXCEPT ![i.ctx] = Context(@.buffer, @.buffer.length, 0, size)]
    /\ facts' = Forget(i.ctx)
    /\ Done /\ UNCHANGED <<slots, pointers, found, Control>>

\* Arguments of calls and assertions have no effect on what is modelled.
ToStructure(i) == Op(i, "To_Structure") /\ Done /\ UNCHANGED <<Memories, facts, found, Control>>

GetField(i) == Op(i, "Get") /\ Done /\ UNCHANGED <<Memories, facts, found, Control>>

AssertInvariant(i) ==
    /\ Op(i, "Assert_Invariant") \/ Op(i, "Assert_Global_Initialized")
    /\ Done /\ UNCHANGED <<Memories, facts, found, Control>>

SetFound(i) ==
    /\ Op(i, "Found") \/ Op(i, "Not_Found")
    /\ found' = (i.op = "Found")
    /\ Done /\ UNCHANGED <<Memories, facts, Control>>

-----------------------------------------------------------------------------
(* Control flow. *)

has_reads == \E s \in States : Accesses(s, {"Read"}) # {}

EndOfTick == <<[op |-> "End_Of_Tick"]>>

\* The check passes.
Pass(i) ==
    /\ Op(i, "Raise")
    /\ \A c \in i.unless : Possible(c)
    /\ facts' = facts \cup {c \in i.unless : c[1] \notin Decided}
    /\ Done /\ UNCHANGED <<Memories, found, Control>>

\* The check fails: the handler runs, then the finalization of the state.
Raise(i) ==
    /\ Op(i, "Raise")
    /\ \E c \in i.unless : ~Holds(c)
    /\ next_state' = Machine[current].exception
    /\ code' = i.handler \o EndOfTick
    /\ UNCHANGED <<Memories, facts, found, current, running, fresh, outside>>

While(i) ==
    /\ Op(i, "While")
    /\ code' = IF Holds(<<"Has_Element", i.seq, "">>) THEN i.body \o code ELSE Tail(code)
    /\ UNCHANGED <<Memories, facts, found, Control>>

If(i) ==
    /\ Op(i, "If")
    /\ code' \in {i.body \o Tail(code), Tail(code)}
    /\ UNCHANGED <<Memories, facts, found, Control>>

\* Leaves the innermost loop.
Exit(i) ==
    /\ Op(i, "Exit")
    /\ code' = SubSeq(code, SelectInSeq(code, LAMBDA j : j.op = "While") + 1, Len(code))
    /\ UNCHANGED <<Memories, facts, found, Control>>

SetNextState(i) ==
    /\ Op(i, "Next_State")
    /\ next_state' \in i.targets
    /\ Done /\ UNCHANGED <<Memories, facts, found, current, running, fresh, outside>>

(* Mutant: the messages keep what was read before. *)
ResetMessagesBeforeWriteMutant(i) ==
    /\ Op(i, "End_Of_Tick")
    /\ LET kept == DOMAIN contexts \cap {Ctx(v) : v \in ToSet(Globals)}
       IN  /\ contexts' = [n \in kept |-> contexts[n]]
           /\ facts' = {c \in facts : c[2] \in kept}
    /\ current' = ""
    /\ fresh' = Nothing
    /\ found' = FALSE
    /\ Done /\ UNCHANGED <<next_state, running, slots, pointers, outside>>
\* Reset_Messages_Before_Write: the messages that are read in the next state
\* are emptied.  The objects of the state go out of scope.
ResetMessagesBeforeWrite(i) ==
    /\ Op(i, "End_Of_Tick")
    /\ LET reads == IF has_reads THEN {Ctx(a.var) : a \in Accesses(next_state, {"Read"})} ELSE {}
           kept == DOMAIN contexts \cap {Ctx(v) : v \in ToSet(Globals)}
       IN  /\ contexts' = [n \in kept |->
                              IF n \in reads THEN Context(contexts[n].buffer, 0, 0, 0) ELSE contexts[n]]
           /\ facts' = {c \in facts : c[2] \in kept \ reads} \cup UNION {Initial(n) : n \in reads}
    /\ current' = ""
    /\ fresh' = Nothing
    /\ found' = FALSE
    /\ Done /\ UNCHANGED <<next_state, running, slots, pointers, outside>>

-----------------------------------------------------------------------------
(* The calls of the application. *)

Idle == code = <<>> /\ (running => ~Active \/ In_IO_State)

AllocatorInitialize(i) ==
    /\ Op(i, "Allocator_Initialize")
    /\ slots' = [k \in DOMAIN SlotSize |-> Memory(k)]
    /\ Done /\ UNCHANGED <<pointers, contexts, facts, found, Control>>

AllocatorFinalize(i) ==
    /\ Op(i, "Allocator_Finalize")
    /\ slots' = [k \in DOMAIN SlotSize |-> Null]
    /\ outside' = {pointers[n] : n \in DOMAIN pointers}
    /\ pointers' = <<>>
    /\ facts' = {}
    /\ Done /\ UNCHANGED <<contexts, found, next_state, current, running, fresh>>

Initialize ==
    /\ Idle /\ Uninitialized
    /\ \E f \in [external_io_buffers -> outside] :
           /\ \A v, w \in external_io_buffers : f[v] = f[w] => v = w
           /\ pointers' = [n \in {Ctx(v) : v \in external_io_buffers} |-> f[n[2]]]
           /\ outside' = outside \ {f[v] : v \in external_io_buffers}
    /\ code' = fsm.initialize
    /\ running' = FALSE
    /\ UNCHANGED <<next_state, current, slots, contexts, facts, found, fresh>>

Finalize ==
    /\ Idle /\ Initialized
    /\ code' = fsm.finalize
    /\ running' = FALSE
    /\ UNCHANGED <<next_state, current, Memories, facts, found, fresh, outside>>

ExecuteState ==
    /\ code' = (IF Active THEN fsm.states[next_state] ELSE <<>>) \o EndOfTick
    /\ current' = next_state
    /\ UNCHANGED <<next_state, Memories, facts, found, fresh, outside>>

Tick == Idle /\ Initialized /\ ExecuteState /\ running' = FALSE

Run == Idle /\ Initialized /\ ExecuteState /\ running' = TRUE

\* The loop of Run.
TickAgain == code = <<>> /\ running /\ Active /\ ~In_IO_State /\ ExecuteState /\ UNCHANGED running

\* The application writes size units behind offset of the message on channel c: the context
\* is reset, units behind the written ones are cleared, those in front of offset are kept.
Write(c, v, offset, size) ==
    /\ Idle /\ Initialized /\ Needs_Data(c, v)
    /\ offset + size <= contexts[Ctx(v)].buffer.length
    /\ contexts' = [contexts EXCEPT ![Ctx(v)] = Context(@.buffer, @.buffer.length, 0, offset + size)]
    /\ facts' = Forget(Ctx(v)) \cup Initial(Ctx(v))
    /\ LET kept == fresh.written \ Units(v, offset + 1 .. contexts[Ctx(v)].buffer.length)
       IN  fresh' = [written |-> kept \cup Units(v, offset + 1 .. offset + size),
                     skipped |-> fresh.skipped \cup (Units(v, 1 .. offset) \ kept)]
    /\ running' = FALSE
    /\ UNCHANGED <<next_state, current, code, slots, pointers, found, outside>>

\* The application gets size units behind offset of the message on channel c.
Read(c, v, offset, size) ==
    /\ Idle /\ Initialized /\ Has_Data(c, v)
    /\ offset + size <= contexts[Ctx(v)].used
    /\ UNCHANGED vars

(* Mutant: the application keeps the buffer. *)
AddBufferMutant(v, b, size) ==
    /\ Idle /\ Global_Initialized /\ Global_Allocated /\ Buffer_Accessible(v)
    /\ ~HasBuffer(Ctx(v)) /\ size <= b.length
    /\ contexts' = Put(contexts, Ctx(v), Context(b, b.length, 0, size))
    /\ facts' = Forget(Ctx(v)) \cup Initial(Ctx(v))
    /\ fresh' = [fresh EXCEPT !.written = @ \cup Units(v, 1 .. size)]
    /\ running' = FALSE
    /\ UNCHANGED <<next_state, current, code, slots, pointers, found, outside>>
AddBuffer(v, b, size) ==
    /\ Idle /\ Global_Initialized /\ Global_Allocated /\ Buffer_Accessible(v)
    /\ ~HasBuffer(Ctx(v)) /\ size <= b.length
    /\ contexts' = Put(contexts, Ctx(v), Context(b, b.length, 0, size))
    /\ facts' = Forget(Ctx(v)) \cup Initial(Ctx(v))
    /\ outside' = outside \ {b}
    /\ fresh' = [fresh EXCEPT !.written = @ \cup Units(v, 1 .. size)]
    /\ running' = FALSE
    /\ UNCHANGED <<next_state, current, code, slots, pointers, found>>

RemoveBuffer(v) ==
    /\ Idle /\ Global_Initialized /\ Global_Allocated /\ Buffer_Accessible(v)
    /\ HasBuffer(Ctx(v))
    /\ outside' = outside \cup {contexts[Ctx(v)].buffer}
    /\ contexts' = Without(contexts, Ctx(v))
    /\ facts' = Forget(Ctx(v))
    /\ running' = FALSE
    /\ UNCHANGED <<next_state, current, code, slots, pointers, found, fresh>>

-----------------------------------------------------------------------------
Init ==
    /\ next_state = InitialState
    /\ current = ""
    /\ code = <<>>
    /\ running = FALSE
    /\ slots = [i \in DOMAIN SlotSize |-> Null]
    /\ pointers = <<>>
    /\ contexts = <<>>
    /\ facts = {}
    /\ found = FALSE
    /\ fresh = Nothing
    /\ outside = ExternalBuffers

Statement(i) ==
    \/ Allocate(i) \/ Free(i) \/ InitializeContext(i) \/ Take(i)
    \/ ResetContext(i) \/ Verify(i) \/ CopyData(i)
    \/ SwitchToElement(i) \/ Update(i) \/ AppendElement(i)
    \/ Set(i) \/ Move(i) \/ Assign(i) \/ Call(i) \/ ToContext(i) \/ CopyField(i)
    \/ ToStructure(i) \/ GetField(i) \/ AssertInvariant(i) \/ SetFound(i)
    \/ Pass(i) \/ Raise(i) \/ While(i) \/ If(i) \/ Exit(i) \/ SetNextState(i)
    \/ ResetMessagesBeforeWrite(i) \/ AllocatorInitialize(i) \/ AllocatorFinalize(i)

Step == code # <<>> /\ Statement(Head(code))

Channels == {a.channel : a \in UNION {Accesses(s, {"Read", "Write"}) : s \in States}}

Longest == Max({ExternalLength} \cup {SlotSize[i] : i \in DOMAIN SlotSize})

Application ==
    \/ Initialize \/ Finalize \/ Tick \/ Run
    \/ \E v \in Composite :
           \/ \E c \in Channels, offset \in 0 .. Longest, size \in 1 .. Longest : Write(c, v, offset, size)
           \/ \E c \in Channels, offset \in 0 .. Longest, size \in 1 .. Longest : Read(c, v, offset, size)
           \/ \E b \in outside, size \in 0 .. ExternalLength :
                  v \in external_io_buffers /\ AddBuffer(v, b, size)
           \/ v \in external_io_buffers /\ RemoveBuffer(v)

Next == Step \/ TickAgain \/ Application

\* A call returns: the statements of a procedure are executed one after the other.
Spec == Init /\ [][Next]_vars /\ WF_vars(Step)

-----------------------------------------------------------------------------
(* Properties. *)

Buffers == [id : Int, length : Nat]

TypeOK ==
    /\ next_state \in States /\ current \in States \cup {""}
    /\ running \in BOOLEAN /\ found \in BOOLEAN
    /\ slots \in [DOMAIN SlotSize -> Buffers]
    /\ \A n \in DOMAIN pointers : pointers[n] \in Buffers \ {Null}
    /\ \A n \in DOMAIN contexts :
           /\ contexts[n].buffer \in Buffers
           /\ 0 <= contexts[n].used /\ contexts[n].used <= contexts[n].last
           /\ contexts[n].written \in Nat
    /\ outside \subseteq ExternalBuffers

\* Whatever a state executes and whichever check fails, the precondition of
\* every subprogram that the generated code calls and every assertion in it
\* hold when they are reached (state_machine.py, exception handlers and checks).
PreconditionsHold == code # <<>> => Precondition(Head(code))

\* Where the buffers are, one entry for each place that holds one.
Held == {<<"slot", i>> : i \in {j \in DOMAIN slots : slots[j] # Null}}
        \cup {<<"pointer", n>> : n \in DOMAIN pointers}
        \cup {<<"context", n>> : n \in {m \in DOMAIN contexts : contexts[m].buffer # Null}}
        \cup {<<"outside", b>> : b \in outside}

BufferOf(h) == CASE h[1] = "slot" -> slots[h[2]]
                 [] h[1] = "pointer" -> pointers[h[2]]
                 [] h[1] = "context" -> contexts[h[2]].buffer
                 [] OTHER -> h[2]

\* No buffer is lost or held by two owners: the memory of the state machine is
\* distributed over slots, pointers and contexts while it is initialized, and
\* external buffers are in a context, in transfer or with the application.
BuffersConserved ==
    /\ \A g, h \in Held : BufferOf(g) = BufferOf(h) => g = h
    /\ {BufferOf(h) : h \in Held} =
           ExternalBuffers \cup
           (IF \E h \in Held : BufferOf(h).id > 0 THEN {Memory(i) : i \in DOMAIN SlotSize} ELSE {})

\* Between two calls the state machine is either not initialized or keeps all
\* global messages and gives back all local memory, also after an exception.
InitializedBetweenCalls ==
    code = <<>> => \/ Uninitialized
                   \/ Global_Initialized /\ Global_Allocated

\* Copy is called with a slice of the target buffer that exists
\* (_copy_to_buffer, with or without a check of the size of the target).
CopyFits ==
    (code # <<>> /\ Head(code).op = "Copy") =>
        contexts[Head(code).ctx].used <= Pointer(Head(code).ptr).length

\* What a state reads from a channel is what the application wrote after the state was
\* entered (Reset_Messages_Before_Write), and nothing of earlier messages, except in front
\* of an Offset at which the application wrote although it had not written as far: Write
\* keeps the bytes that are there.
ReadFresh ==
    (code # <<>> /\ Head(code).op = "Read") =>
        LET n == Head(code).ctx
        IN  Units(n[2], 1 .. contexts[n].written) \subseteq fresh.written \cup fresh.skipped

-----------------------------------------------------------------------------
(* The call that is executed tells how far it is. *)

Pending == \E k \in DOMAIN code : code[k].op = "Next_State"

Phase ==
    CASE code = <<>> -> IF Uninitialized THEN "off" ELSE "on"
      [] code # <<>> /\ current # "" -> IF Pending THEN "busy" ELSE "done"
      [] code # <<>> /\ current = "" ->
             IF code[Len(code)].targets = {"Final"} THEN "stopping" ELSE "starting"

Interface == INSTANCE StateMachineInterface WITH phase <- Phase, state <- next_state

\* The generated code keeps the promise of the interface: whatever fails in a
\* state, a call of Tick takes exactly one transition of the state and returns,
\* so every loop over the elements of a sequence ends
\* (_determine_next_state, ExceptionHandler.execute, _comprehension).
ImplementsInterface == Interface!Spec
=============================================================================
