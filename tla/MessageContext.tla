--------------------------- MODULE MessageContext ---------------------------
(***************************************************************************)
(* The Context of a generated message package: the object through which a  *)
(* client parses (Verify, Verify_Message) and serialises (Set_F,           *)
(* Initialize_F, Switch_To_F/Update_F) one message in place in a byte      *)
(* buffer.  rflx/generator/{message,parser,serializer,common}.py emit the  *)
(* same code for every message; a message is a parameter here, given by    *)
(* its fields, its links and the expressions on the links.                 *)
(*                                                                         *)
(* Every subprogram carries a SPARK precondition that its callers are      *)
(* proved to respect, so the guard of an action is that precondition.      *)
(* Positions are bit positions counted from 1; the buffer is the function  *)
(* from positions to bits (byte I holds the bits 8*I-7 .. 8*I, highest     *)
(* bit first), the range of an access value with Buffer'First = 1.         *)
(***************************************************************************)
EXTENDS Integers

CONSTANTS
    NumFields,       \* the fields are 1 .. NumFields, in topological order
    Links,           \* the edges of the message graph, see LinkType
    Composite,       \* opaque and sequence fields; the others are scalars
    SequenceFields,  \* the sequences among them
    FieldValues,     \* for each scalar field the set of its valid values
    Parameters,      \* values of the message parameters
    Condition(_, _, _),  \* (link, values of earlier fields, parameters)
    LinkSize(_, _, _),   \* Size aspect of a link, or size of a scalar type
    BufferLength,    \* Buffer'Length in bytes
    Contents,        \* the bit patterns that users write into the buffer
    Windows,         \* the pairs <<First, Last>> that users pass
    BitLengthLast    \* RFLX_Types.Bit_Length'Last

INITIAL == 0
CONTEXT == 0   \* holder of the buffer: the context itself,
CALLER == -1   \* the user, or the field whose sequence context borrows it
FINAL == NumFields + 1
Fields == 1 .. NumFields
Scalars == Fields \ Composite
BufferBits == 1 .. 8 * BufferLength

(***************************************************************************)
(* A link has at most one of the aspects First => Source'First (overlay)   *)
(* and Size => Message'Last - Source'Last (implicit); "alt" tells links    *)
(* between the same fields apart.                                          *)
(***************************************************************************)
LinkType == [source : {INITIAL} \cup Fields, target : Fields \cup {FINAL},
             overlay : BOOLEAN, implicit : BOOLEAN, alt : Nat]

(* What an expression can refer to of field g: the value of a scalar, the size of an
   opaque field or a sequence.  Both are 0 for a field that has not been parsed or set. *)
Sizes == 0 .. 8 * BufferLength
ValueRange(g) == IF g \in Composite THEN Sizes ELSE {0} \cup FieldValues[g]
AllValues == UNION {ValueRange(g) : g \in Fields}

(* The expressions on a link out of field n refer to the fields up to n. *)
Valuations(n) == {v \in [1 .. n -> AllValues] : \A g \in 1 .. n : v[g] \in ValueRange(g)}

(***************************************************************************)
(* What the model of a message (rflx/model/message.py) guarantees to the   *)
(* generator.                                                              *)
(***************************************************************************)
ASSUME ConstantsAssumption ==
    /\ NumFields \in Nat \ {0}
    /\ BufferLength \in Nat \ {0}
    /\ BitLengthLast \in Nat
    /\ Composite \subseteq Fields
    /\ SequenceFields \subseteq Composite
    /\ FieldValues \in [Scalars -> SUBSET Nat]
    /\ Contents \subseteq [BufferBits -> {0, 1}]
    /\ Contents # {}
    /\ Windows \subseteq Nat \X Nat

ASSUME LinksAssumption ==
    /\ Links \subseteq LinkType
    /\ \A l \in Links : l.source < l.target
    /\ \A l \in Links : l.source = INITIAL => l.target # FINAL
    /\ \A l \in Links : l.overlay => l.source # INITIAL
    /\ \A l \in Links : l.implicit => l.target \in Composite

ASSUME ExpressionsAssumption ==
    \A l \in Links : \A v \in Valuations(l.source), p \in Parameters :
        Condition(l, v, p) \in BOOLEAN

VARIABLES
    holder,          \* who owns the buffer: CALLER, CONTEXT or a sequence field
    buffer,          \* the bits of the buffer
    parameters,      \* Ctx.<parameters>
    first, last,     \* Ctx.First and Ctx.Last
    verified_last,   \* Ctx.Verified_Last
    written_last,    \* Ctx.Written_Last
    cursors,         \* Ctx.Cursors
    todo             \* the loop variable of Verify_Message, 0 outside it

bounds == <<parameters, first, last>>
vars == <<holder, buffer, parameters, first, last, verified_last, written_last,
          cursors, todo>>

CursorState == {"S_Valid", "S_Well_Formed", "S_Invalid", "S_Incomplete"}
FieldCursor == [State : CursorState, First : Nat, Last : Nat, Value : Nat]
ResetCursor == [State |-> "S_Invalid", First |-> 1, Last |-> 0, Value |-> 0]
(* Mutant: missing bytes are not told apart from wrong ones. *)
IncompleteCursorMutant == ResetCursor
IncompleteCursor == [ResetCursor EXCEPT !.State = "S_Incomplete"]

(* The predicates on cursors. *)
Valid(f) == cursors[f].State = "S_Valid"
WellFormed(f) == cursors[f].State \in {"S_Valid", "S_Well_Formed"}
Invalid(f) == cursors[f].State \in {"S_Invalid", "S_Incomplete"}
Present(f) == WellFormed(f) /\ cursors[f].First < cursors[f].Last + 1
HasBuffer == holder = CONTEXT

Max(a, b) == IF a >= b THEN a ELSE b

(* The last bit of the byte that holds bit b. *)
ByteEnd(b) == ((b + 7) \div 8) * 8

-----------------------------------------------------------------------------
(* Expressions on links, evaluated on the values held by the cursors.      *)

Size(c) == c.Last - c.First + 1
Values(cs, n) == [g \in 1 .. n |-> IF g \in Composite THEN Size(cs[g]) ELSE cs[g].Value]
LinkCondition(l, cs) == Condition(l, Values(cs, l.source), parameters)
Incoming(f) == {l \in Links : l.target = f}
Outgoing(f) == {l \in Links : l.source = f}

(* The source of a link has been parsed or set. *)
SourceReady(l) == IF l.source \in Composite THEN WellFormed(l.source) ELSE Valid(l.source)

(* Valid_Next does not evaluate the condition of a link from the initial node. *)
(* Mutant: the condition is not evaluated at all. *)
FollowedMutant(l) == l.source # INITIAL => SourceReady(l)
Followed(l) == l.source # INITIAL => SourceReady(l) /\ LinkCondition(l, cursors)

ValidNext(f) == \E l \in Incoming(f) : Followed(l)

(* The link that Field_First and Field_Size select: links from proper fields come first. *)
FieldLink(f) ==
    CHOOSE l \in Incoming(f) :
        Followed(l) /\ \A k \in Incoming(f) : Followed(k) => k.source <= l.source

SourceLast(l) == IF l.source = INITIAL THEN first - 1 ELSE cursors[l.source].Last

(* Mutant: off by one. *)
TargetFirstMutant(l) ==
    IF l.source = INITIAL THEN first
    ELSE IF l.overlay THEN cursors[l.source].First
    ELSE cursors[l.source].Last

TargetFirst(l) ==
    IF l.source = INITIAL THEN first
    ELSE IF l.overlay THEN cursors[l.source].First
    ELSE cursors[l.source].Last + 1

TargetSize(l) ==
    IF l.implicit THEN written_last - SourceLast(l)
    ELSE LinkSize(l, Values(cursors, l.source), parameters)

FieldFirst(f) == TargetFirst(FieldLink(f))
FieldSize(f) == TargetSize(FieldLink(f))
FieldLast(f) == FieldFirst(f) + FieldSize(f) - 1

AvailableSpace(f) == last - FieldFirst(f) + 1
SufficientSpace(f) == AvailableSpace(f) >= FieldSize(f)

ValidSize(f, size) ==
    IF FieldLink(f).implicit THEN size <= AvailableSpace(f) ELSE size = FieldSize(f)

(* Field_Condition: some outgoing link can be taken once f has cursor c. *)
FieldCondition(f, c) ==
    \E l \in Outgoing(f) : LinkCondition(l, [cursors EXCEPT ![f] = c])

ValidValue(f, v) == f \in Scalars => v \in FieldValues[f]

(* Complete paths to FINAL. *)
(* Mutant: the condition on the link to FINAL is forgotten. *)
WellFormedMessageMutant == \E l \in Incoming(FINAL) : SourceReady(l)

WellFormedMessage ==
    \E l \in Incoming(FINAL) : SourceReady(l) /\ LinkCondition(l, cursors)
ValidMessage ==
    \E l \in Incoming(FINAL) :
        Valid(l.source) /\ Present(l.source) /\ LinkCondition(l, cursors)
IncompleteMessage == \E f \in Fields : cursors[f].State = "S_Incomplete"

(* RFLX_Types.Operations.Extract and Insert for a field in network byte order. *)
Extract(b, fst, lst) ==
    LET value[n \in 0 .. lst - fst + 1] == IF n = 0 THEN 0 ELSE 2 * value[n - 1] + b[fst + n - 1]
    IN  value[lst - fst + 1]
ShiftRight(v, n) ==
    LET shifted[k \in 0 .. n] == IF k = 0 THEN v ELSE shifted[k - 1] \div 2
    IN  shifted[n]
Bit(v, n) == IF ShiftRight(v, n) % 2 = 1 THEN 1 ELSE 0
Insert(b, fst, lst, v) == [i \in BufferBits |-> IF i \in fst .. lst THEN Bit(v, lst - i) ELSE b[i]]
(* Copies the bits fst .. lst of d into b. *)
(* Mutant: starts one bit early. *)
OverwriteMutant(b, fst, lst, d) ==
    [i \in BufferBits |-> IF i \in fst - 1 .. lst THEN d[i] ELSE b[i]]
Overwrite(b, fst, lst, d) == [i \in BufferBits |-> IF i \in fst .. lst THEN d[i] ELSE b[i]]

-----------------------------------------------------------------------------
(* Creation, reset and release of a context.                               *)

NoCursors == [f \in Fields |-> ResetCursor]

(* The default-initialised object and the user's buffer. *)
Init ==
    /\ holder = CALLER
    /\ buffer \in Contents
    /\ parameters \in Parameters
    /\ first = 1 /\ last = 0 /\ verified_last = 0 /\ written_last = 0
    /\ cursors = NoCursors
    /\ todo = 0

InBuffer(fst, lst) ==
    /\ fst % 8 = 1 /\ lst % 8 = 0
    /\ fst >= 1 /\ lst <= 8 * BufferLength /\ fst <= lst + 1

(* Written_Last = 0 stands for "nothing written". *)
Initialize(fst, lst, written, p, d) ==
    /\ holder = CALLER /\ todo = 0
    /\ InBuffer(fst, lst)
    /\ written = 0 \/ written \in fst - 1 .. lst
    /\ written % 8 = 0
    /\ holder' = CONTEXT
    /\ buffer' = d
    /\ parameters' = p
    /\ first' = fst /\ last' = lst
    /\ verified_last' = fst - 1
    /\ written_last' = IF written = 0 THEN fst - 1 ELSE written
    /\ cursors' = NoCursors
    /\ UNCHANGED todo

Reset(fst, lst, p) ==
    /\ HasBuffer /\ todo = 0
    /\ InBuffer(fst, lst)
    /\ parameters' = p
    /\ first' = fst /\ last' = lst
    /\ verified_last' = fst - 1
    /\ written_last' = fst - 1
    /\ cursors' = NoCursors
    /\ UNCHANGED <<holder, buffer, todo>>

TakeBuffer ==
    /\ HasBuffer /\ todo = 0
    /\ holder' = CALLER
    /\ UNCHANGED <<buffer, bounds, verified_last, written_last, cursors, todo>>

(* Generic_Write: the user's Write procedure fills length bytes from offset. *)
Write(offset, length, d) ==
    /\ HasBuffer /\ todo = 0
    /\ offset < BufferLength /\ offset + length <= BufferLength
    /\ first' = 1 /\ last' = 8 * BufferLength
    /\ verified_last' = 0
    /\ written_last' = 8 * (offset + length)
    /\ cursors' = NoCursors
    /\ buffer' = Overwrite(buffer, 8 * offset + 1, 8 * (offset + length), d)
    /\ UNCHANGED <<holder, parameters, todo>>

-----------------------------------------------------------------------------
(* Parsing.                                                                *)

SufficientBufferLength(f) ==
    /\ FieldFirst(f) + FieldSize(f) < BitLengthLast
    /\ first <= FieldFirst(f)
    /\ FieldLast(f) <= written_last

(* The cursor that Verify stores if it accepts the field. *)
ParsedCursor(f) ==
    IF f \in Composite
    THEN [State |-> "S_Well_Formed", First |-> FieldFirst(f), Last |-> FieldLast(f), Value |-> 0]
    ELSE [State |-> "S_Valid", First |-> FieldFirst(f), Last |-> FieldLast(f),
          Value |-> Extract(buffer, FieldFirst(f), FieldLast(f))]

Accepts(f) ==
    /\ ValidValue(f, ParsedCursor(f).Value)
    /\ FieldCondition(f, ParsedCursor(f))

(* Mutant: Verified_Last is not rounded up to a byte boundary. *)
VerifyFieldMutant(f) ==
    \/ /\ ~(Invalid(f) /\ ValidNext(f))
       /\ UNCHANGED <<cursors, verified_last>>
    \/ /\ Invalid(f) /\ ValidNext(f)
       /\ IF SufficientBufferLength(f) /\ Accepts(f)
          THEN /\ verified_last' = FieldLast(f)
               /\ cursors' = [cursors EXCEPT ![f] = ParsedCursor(f)]
          ELSE /\ cursors' = [cursors EXCEPT ![f] = ResetCursor]
               /\ UNCHANGED verified_last

VerifyField(f) ==
    \/ /\ ~(Invalid(f) /\ ValidNext(f))
       /\ UNCHANGED <<cursors, verified_last>>
    \/ /\ Invalid(f) /\ ValidNext(f)
       /\ \/ /\ SufficientBufferLength(f) /\ Accepts(f)
             /\ verified_last' = ByteEnd(FieldLast(f))
             /\ cursors' = [cursors EXCEPT ![f] = ParsedCursor(f)]
          \/ /\ SufficientBufferLength(f) /\ ~Accepts(f)
             /\ cursors' = [cursors EXCEPT ![f] = ResetCursor]
             /\ UNCHANGED verified_last
          \/ /\ ~SufficientBufferLength(f)
             /\ cursors' = [cursors EXCEPT ![f] = IncompleteCursor]
             /\ UNCHANGED verified_last

Verify(f) ==
    /\ HasBuffer /\ todo = 0
    /\ VerifyField(f)
    /\ UNCHANGED <<holder, buffer, bounds, written_last, todo>>

(* Verify_Message is a loop over all fields. *)
VerifyMessage ==
    /\ HasBuffer /\ todo = 0
    /\ todo' = 1
    /\ UNCHANGED <<holder, buffer, bounds, verified_last, written_last, cursors>>

(* Mutant: the loop runs past the last field. *)
VerifyMessageLoopMutant ==
    /\ todo # 0
    /\ VerifyField(todo)
    /\ todo' = IF todo > NumFields THEN 0 ELSE todo + 1
    /\ UNCHANGED <<holder, buffer, bounds, written_last>>

VerifyMessageLoop ==
    /\ todo # 0
    /\ VerifyField(todo)
    /\ todo' = IF todo = NumFields THEN 0 ELSE todo + 1
    /\ UNCHANGED <<holder, buffer, bounds, written_last>>

-----------------------------------------------------------------------------
(* Serialisation.                                                          *)

(* Reset_Dependent_Fields (Fld), then the assignment of the cursor of Fld. *)
(* Mutant: the fields that follow keep their cursors. *)
ResetDependentFieldsMutant(f, c) == cursors' = [cursors EXCEPT ![f] = c]

ResetDependentFields(f, c) ==
    cursors' = [g \in Fields |-> IF g < f THEN cursors[g] ELSE IF g = f THEN c ELSE ResetCursor]

SetPossible(f) ==
    /\ HasBuffer /\ todo = 0
    /\ ValidNext(f)
    /\ SufficientSpace(f)

(* The private procedure Set. *)
(* Mutant: the message can only grow. *)
SetMutant(f, c) ==
    /\ ResetDependentFields(f, c)
    /\ verified_last' = Max(verified_last, ByteEnd(c.Last))
    /\ written_last' = Max(written_last, ByteEnd(c.Last))

Set(f, c) ==
    /\ ResetDependentFields(f, c)
    /\ verified_last' = ByteEnd(c.Last)
    /\ written_last' = ByteEnd(c.Last)

SetCursor(f, state, size, value) ==
    [State |-> state, First |-> FieldFirst(f), Last |-> FieldFirst(f) + size - 1, Value |-> value]

SetScalar(f, v) ==
    LET c == SetCursor(f, "S_Valid", FieldSize(f), v)
    IN  /\ f \in Scalars
        /\ SetPossible(f)
        /\ ValidValue(f, v) /\ FieldCondition(f, c)
        /\ Set(f, c)
        /\ buffer' = Insert(buffer, c.First, c.Last, v)
        /\ UNCHANGED <<holder, bounds, todo>>

(* Mutant: the conditions of the outgoing links are not required. *)
SetEmptyMutant(f) ==
    LET c == SetCursor(f, "S_Valid", 0, 0)
    IN  /\ f \in Composite
        /\ SetPossible(f)
        /\ FieldSize(f) = 0
        /\ Set(f, c)
        /\ UNCHANGED <<holder, buffer, bounds, todo>>

SetEmpty(f) ==
    LET c == SetCursor(f, "S_Valid", 0, 0)
    IN  /\ f \in Composite
        /\ SetPossible(f)
        /\ FieldSize(f) = 0 /\ FieldCondition(f, c)
        /\ Set(f, c)
        /\ UNCHANGED <<holder, buffer, bounds, todo>>

(* Set_F (Ctx, Seq_Ctx) copies the bytes of a separate, valid sequence context.  The
   condition is checked for the current Field_Size, not for the size of the sequence.
   The precondition of Copy asks for as many bytes as the field covers, which a field
   that starts within a byte exceeds.                                                 *)
SetSequence(f, length, d) ==
    LET c == SetCursor(f, "S_Valid", 8 * length, 0)
    IN  /\ f \in SequenceFields
        /\ SetPossible(f)
        /\ FieldCondition(f, SetCursor(f, "S_Valid", FieldSize(f), 0))
        /\ ValidSize(f, 8 * length)
        /\ FieldFirst(f) % 8 = 1
        /\ Set(f, c)
        /\ buffer' = Overwrite(buffer, c.First, c.Last, d)
        /\ UNCHANGED <<holder, bounds, todo>>

(* The declaration Last : constant RFLX_Types.Bit_Index in Initialize_F_Private raises
   Constraint_Error for 0, and the assertion that follows demands a byte boundary.    *)
InitializePossible(f, length) ==
    /\ SetPossible(f)
    /\ ValidSize(f, 8 * length)
    /\ AvailableSpace(f) >= 8 * length
PrivateLast(f, length) == FieldFirst(f) + 8 * length - 1
PrivateLastOK(f, length) == PrivateLast(f, length) >= 1 /\ PrivateLast(f, length) % 8 = 0

InitializePrivate(f, length) ==
    LET c == SetCursor(f, "S_Well_Formed", 8 * length, 0)
    IN  /\ PrivateLastOK(f, length)
        /\ ResetDependentFields(f, c)
        /\ verified_last' = c.Last
        /\ written_last' = c.Last

(* Initialize_F leaves the content of the field as it is. *)
InitializeField(f, length) ==
    /\ f \in Composite
    /\ InitializePossible(f, length)
    /\ InitializePrivate(f, length)
    /\ UNCHANGED <<holder, buffer, bounds, todo>>

SetOpaque(f, length, d) ==
    /\ f \in Composite \ SequenceFields
    /\ InitializePossible(f, length)
    /\ FieldCondition(f, SetCursor(f, "S_Well_Formed", 8 * length, 0))
    /\ InitializePrivate(f, length)
    /\ buffer' = Overwrite(buffer, FieldFirst(f), PrivateLast(f, length), d)
    /\ UNCHANGED <<holder, bounds, todo>>

(* Generic_Set_F: the user's Process_F fills the field before the cursor is set;
   no condition on the outgoing links is required.                             *)
GenericSetOpaque(f, length, d) ==
    /\ f \in Composite \ SequenceFields
    /\ InitializePossible(f, length)
    /\ InitializePrivate(f, length)
    /\ buffer' = Overwrite(buffer, FieldFirst(f), PrivateLast(f, length), d)
    /\ UNCHANGED <<holder, bounds, todo>>

-----------------------------------------------------------------------------
(* Access to a sequence field through a sequence context that borrows the  *)
(* buffer.  Ctx'Update in Switch_To_F is checked against the predicate of  *)
(* the context type, which wants Verified_Last at the end of a byte.       *)

SwitchTo(f) ==
    LET c == SetCursor(f, "S_Well_Formed", FieldSize(f), 0)
    IN  /\ f \in SequenceFields
        /\ SetPossible(f)
        /\ FieldSize(f) > 0
        /\ FieldFirst(f) % 8 = 1
        /\ FieldCondition(f, c)
        /\ \/ /\ Invalid(f)
              /\ c.Last % 8 = 0
              /\ ResetDependentFields(f, c)
              /\ verified_last' = c.Last
              /\ written_last' = Max(written_last, c.Last)
           \/ /\ ~Invalid(f)
              /\ UNCHANGED <<cursors, verified_last, written_last>>
        /\ holder' = f
        /\ UNCHANGED <<buffer, bounds, todo>>

(* Update_F: complete tells whether the sequence context is valid and fills the field. *)
Update(f, complete, d) ==
    /\ holder = f
    /\ holder' = CONTEXT
    /\ buffer' = Overwrite(buffer, cursors[f].First, cursors[f].Last, d)
    /\ IF complete
       THEN cursors' = [cursors EXCEPT ![f].State = "S_Valid"]
       ELSE ResetDependentFields(f, ResetCursor)
    /\ UNCHANGED <<bounds, verified_last, written_last, todo>>

-----------------------------------------------------------------------------
Lengths == 0 .. BufferLength

ContextNext ==
    \/ \E w \in Windows, n \in Lengths, p \in Parameters, d \in Contents :
          Initialize(w[1], w[2], 8 * n, p, d)
    \/ \E w \in Windows, p \in Parameters : Reset(w[1], w[2], p)
    \/ TakeBuffer
    \/ \E offset \in Lengths, length \in Lengths, d \in Contents : Write(offset, length, d)

ParserNext ==
    \/ \E f \in Fields : Verify(f)
    \/ VerifyMessage
    \/ VerifyMessageLoop

SerializerNext ==
    \E f \in Fields :
        \/ f \in Scalars /\ \E v \in FieldValues[f] : SetScalar(f, v)
        \/ SetEmpty(f)
        \/ \E length \in Lengths : InitializeField(f, length)
        \/ \E length \in Lengths, d \in Contents :
              \/ SetSequence(f, length, d)
              \/ SetOpaque(f, length, d)
              \/ GenericSetOpaque(f, length, d)

SequenceNext ==
    \E f \in Fields :
        \/ SwitchTo(f)
        \/ \E complete \in BOOLEAN, d \in Contents : Update(f, complete, d)

Next == ContextNext \/ ParserNext \/ SerializerNext \/ SequenceNext

Spec == Init /\ [][Next]_vars

-----------------------------------------------------------------------------
TypeOK ==
    /\ holder \in {CALLER, CONTEXT} \cup SequenceFields
    /\ buffer \in [BufferBits -> {0, 1}]
    /\ parameters \in Parameters
    /\ first \in Nat /\ last \in Nat /\ verified_last \in Nat /\ written_last \in Nat
    /\ cursors \in [Fields -> FieldCursor]
    /\ todo \in 0 .. NumFields

(* The parts of the dynamic predicate Valid_Context of the type Context.   *)

BoundsInvariant ==
    /\ first <= last + 1 /\ last <= 8 * BufferLength
    /\ first - 1 <= verified_last /\ verified_last <= written_last /\ written_last <= last
    /\ first % 8 = 1 /\ last % 8 = 0 /\ verified_last % 8 = 0 /\ written_last % 8 = 0

CursorsInvariant ==
    \A f \in Fields : WellFormed(f) =>
        /\ first <= cursors[f].First
        /\ cursors[f].Last <= verified_last
        /\ cursors[f].First <= cursors[f].Last + 1
        /\ ValidValue(f, cursors[f].Value)

(* Each well-formed field is reached by a link from a well-formed predecessor whose
   condition holds (message.py, docstring of Valid_Predecessors_Invariant).       *)
ValidPredecessorsInvariant ==
    \A f \in Fields : WellFormed(f) =>
        \E l \in Incoming(f) :
            (l.source = INITIAL \/ SourceReady(l)) /\ LinkCondition(l, cursors)

LinkApplies(l) ==
    \/ l.source = INITIAL
    \/ Incoming(l.target) = {l}
    \/ WellFormed(l.source) /\ LinkCondition(l, cursors)

MessageStructureInvariant ==
    \A l \in Links : l.target # FINAL /\ WellFormed(l.target) /\ LinkApplies(l) =>
        /\ Size(cursors[l.target]) = TargetSize(l)
        /\ cursors[l.target].First = TargetFirst(l)

(* Whatever sequence of calls a client makes, the dynamic predicate of the context
   type holds after each of them: location, size, value and predecessor of every
   well-formed field agree with the message specification.                       *)
ValidContext ==
    /\ BoundsInvariant
    /\ CursorsInvariant
    /\ ValidPredecessorsInvariant
    /\ MessageStructureInvariant

(* The well-formed fields lie on one path of the message: a well-formed field with a
   later one has a taken link that leads, no further than that one, to a well-formed
   field.  Valid_Message checks the last field only and relies on it.              *)
SinglePath ==
    \A f, g \in Fields : f < g /\ WellFormed(f) /\ WellFormed(g) =>
        \E l \in Outgoing(f) :
            l.target <= g /\ WellFormed(l.target) /\ LinkCondition(l, cursors)

(* Copy, Data, Read and Generic_Read return the bytes First .. Verified_Last of a
   well-formed message: these end with the byte that holds the last field of the
   path, also if an attempt to parse or fill a later field was made and failed.   *)
MessageEnd ==
    \A l \in Incoming(FINAL) : SourceReady(l) /\ LinkCondition(l, cursors) =>
        verified_last = ByteEnd(cursors[l.source].Last)

Continuable(f) == \E l \in Outgoing(f) : LinkCondition(l, cursors)

(* No call makes a field valid behind which the message cannot go on: the conditions on
   the outgoing links are checked for the value or size that is stored.  The one exception
   is Set_F of a sequence whose size extends to the end of the message: the conditions are
   checked for the size before the call, so they may fail if the call changes the size.   *)
ValidFieldContinues ==
    [][\A f \in Fields : Valid(f)' /\ ~Continuable(f)' =>
          \/ cursors'[f] = cursors[f] /\ ~Continuable(f)
          \/ /\ f \in SequenceFields /\ FieldLink(f).implicit
             /\ Size(cursors'[f]) # FieldSize(f)]_vars
=============================================================================
