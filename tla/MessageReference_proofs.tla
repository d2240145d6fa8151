---------------------- MODULE MessageReference_proofs ----------------------
(***************************************************************************)
(* What a context says about the bytes of its message, for every message   *)
(* that meets the assumptions of MessageContextInv, every buffer and every *)
(* order of calls: valid fields can be continued, positions agree with the *)
(* sums of sizes, values are those in the buffer, and a well-formed        *)
(* message parses to the values that the context holds.                    *)
(***************************************************************************)
EXTENDS MessageReference, MessageContext_proofs, Induction

USE ConstantsAssumption

-----------------------------------------------------------------------------
(* A valid field can be continued.                                         *)

(* A field that a sequence context fills can be continued when it is updated. *)
HolderContinues == \A f \in Fields : holder = f => Continuable(f)

(* What ValidFieldContinues says of a field. *)
KeepsContinuable(f) ==
    Valid(f)' /\ ~Continuable(f)' =>
        \/ cursors'[f] = cursors[f] /\ ~Continuable(f)
        \/ /\ f \in SequenceFields /\ FieldLink(f).implicit
           /\ Size(cursors'[f]) # FieldSize(f)

StepContinues == (\A f \in Fields : KeepsContinuable(f)) /\ HolderContinues'

(* A step changes nothing in front of the field it is about. *)
LEMMA CutContinues ==
    ASSUME InductiveInvariant, NEW f \in Fields, CutAt(f), UNCHANGED bounds,
           NEW g \in Fields, g < f
    PROVE  cursors'[g] = cursors[g] /\ (Continuable(g) => Continuable(g)')
<1>1. cursors'[g] = cursors[g]
  BY DEF CutAt
<1>2. \A l \in Outgoing(g) : l \in Links /\ l.source = g
  BY DEF Outgoing
<1>3. \A l \in Outgoing(g) : LinkCondition(l, cursors) => LinkCondition(l, cursors)'
  BY <1>2, CutKeeps
<1> QED BY <1>1, <1>3 DEF Continuable, Outgoing

(* Field_Condition, evaluated for the size or the value that the field gets. *)
LEMMA ConditionContinues ==
    ASSUME InductiveInvariant, NEW f \in Fields, CutAt(f), UNCHANGED bounds,
           NEW c, FieldCondition(f, c),
           f \in Composite => Size(cursors'[f]) = Size(c),
           f \notin Composite => cursors'[f].Value = c.Value
    PROVE  Continuable(f)'
<1>1. PICK l \in Outgoing(f) : LinkCondition(l, [cursors EXCEPT ![f] = c])
  BY DEF FieldCondition
<1>2. l \in Links /\ l.source = f
  BY DEF Outgoing
<1> DEFINE cs == [cursors EXCEPT ![f] = c]
<1>3. cs[f] = c /\ \A g \in Fields : g # f => cs[g] = cursors[g]
  BY DEF InductiveInvariant, TypeOK
<1>4. \A g \in 1 .. f : g # f => cursors'[g] = cs[g]
  BY <1>3 DEF CutAt, Fields
<1> HIDE DEF cs
<1>5. \A g \in 1 .. f : (IF g \in Composite THEN Size(cursors'[g]) ELSE cursors'[g].Value)
                        = (IF g \in Composite THEN Size(cs[g]) ELSE cs[g].Value)
  BY <1>3, <1>4
<1>6. Values(cursors', f) = Values(cs, f)
  BY <1>5 DEF Values
<1>7. LinkCondition(l, cursors)'
  BY <1>1, <1>2, <1>6 DEF LinkCondition, bounds, cs
<1> QED BY <1>2, <1>7 DEF Continuable, Outgoing

(* Every step that changes the cursor of f and makes it valid checks the conditions. *)
LEMMA ContinueStep ==
    ASSUME InductiveInvariant, NEW f \in Fields, CutAt(f), UNCHANGED bounds,
           holder' \in {CALLER, CONTEXT, f},
           KeepsContinuable(f), holder' = f => Continuable(f)'
    PROVE  StepContinues
<1>1. ASSUME NEW g \in Fields PROVE KeepsContinuable(g)
  <2>1. CASE g = f
    BY <2>1
  <2>2. CASE g < f
    BY <2>2, CutContinues DEF KeepsContinuable
  <2>3. CASE g > f
    BY <2>3 DEF KeepsContinuable, CutAt, Invalid, Valid
  <2> QED BY <2>1, <2>2, <2>3 DEF Fields
<1>2. HolderContinues'
  BY DEF HolderContinues, Continuable, CALLER, CONTEXT, Fields
<1> QED BY <1>1, <1>2 DEF StepContinues

(* Storing a cursor and resetting the fields after it. *)
LEMMA ResetCuts ==
    ASSUME InductiveInvariant, NEW f \in Fields, NEW c, ResetDependentFields(f, c)
    PROVE  CutAt(f) /\ cursors'[f] = c
BY DEF ResetDependentFields, CutAt, ResetCursor, Invalid, Size, Fields

(* A new context and one that has not changed. *)
LEMMA FreshContinues ==
    ASSUME cursors' = NoCursors, holder' \in {CALLER, CONTEXT}
    PROVE  StepContinues
BY DEF StepContinues, KeepsContinuable, HolderContinues, NoCursors, ResetCursor, Valid, CALLER, CONTEXT, Fields

LEMMA SameContinues ==
    ASSUME HolderContinues, UNCHANGED <<bounds, cursors>>,
           \A f \in Fields : holder' = f => holder = f
    PROVE  StepContinues
<1>1. \A f \in Fields : Continuable(f)' = Continuable(f)
  BY DEF Continuable, LinkCondition, Outgoing, bounds
<1> QED BY <1>1 DEF StepContinues, KeepsContinuable, HolderContinues

(* Verify makes a scalar valid if some outgoing link accepts its value. *)
LEMMA VerifyContinues ==
    ASSUME InductiveInvariant, HolderContinues, NEW f \in Fields, VerifyField(f),
           UNCHANGED <<holder, bounds>>, holder \in {CALLER, CONTEXT}
    PROVE  StepContinues
<1>0. cursors \in [Fields -> FieldCursor] /\ holder' # f
  BY DEF InductiveInvariant, TypeOK, CALLER, CONTEXT, Fields
<1>1. CASE UNCHANGED cursors
  BY <1>1, SameContinues
<1>2. ASSUME Invalid(f), ValidNext(f), NEW c, cursors' = [cursors EXCEPT ![f] = c]
      PROVE  CutAt(f) /\ cursors'[f] = c
  <2>1. cursors'[f] = c /\ \A g \in Fields : g # f => cursors'[g] = cursors[g]
    BY <1>0, <1>2
  <2>2. \A g \in Fields : g > f => Invalid(g) /\ cursors[g].Value = 0 /\ Size(cursors[g]) = 0
    BY <1>2, InvalidNext DEF Fields
  <2>3. \A g \in Fields : g > f \/ g < f => cursors'[g] = cursors[g]
    BY <2>1 DEF Fields
  <2> QED BY <2>1, <2>2, <2>3 DEF CutAt, Invalid
<1>3. CASE /\ Invalid(f) /\ ValidNext(f) /\ Accepts(f)
           /\ cursors' = [cursors EXCEPT ![f] = ParsedCursor(f)]
  <2>1. CutAt(f) /\ cursors'[f] = ParsedCursor(f)
    BY <1>2, <1>3
  <2>2. Continuable(f)'
    BY <1>3, <2>1, ConditionContinues DEF Accepts
  <2>3. KeepsContinuable(f)
    BY <2>2 DEF KeepsContinuable
  <2> QED BY <1>0, <2>1, <2>3, ContinueStep
<1>4. ASSUME Invalid(f), ValidNext(f), NEW c \in {ResetCursor, IncompleteCursor},
             cursors' = [cursors EXCEPT ![f] = c]
      PROVE  StepContinues
  <2>1. CutAt(f) /\ cursors'[f] = c
    BY <1>2, <1>4
  <2>2. KeepsContinuable(f)
    BY <2>1 DEF KeepsContinuable, ResetCursor, IncompleteCursor, Valid
  <2> QED BY <1>0, <2>1, <2>2, ContinueStep
<1> QED BY <1>1, <1>3, <1>4 DEF VerifyField

(* The procedures that set a field: unless they leave it merely well-formed, some outgoing
   link accepts it.                                                                       *)
LEMMA SetContinues ==
    ASSUME InductiveInvariant, NEW f \in Fields, NEW c,
           ResetDependentFields(f, c), UNCHANGED <<holder, bounds>>, holder = CONTEXT,
           c.State = "S_Well_Formed" \/ FieldCondition(f, c)
    PROVE  StepContinues
<1>1. CutAt(f) /\ cursors'[f] = c /\ holder' # f /\ holder' = CONTEXT
  BY ResetCuts DEF CONTEXT, Fields
<1>2. CASE c.State = "S_Well_Formed"
  <2>1. KeepsContinuable(f)
    BY <1>1, <1>2 DEF KeepsContinuable, Valid
  <2> QED BY <1>1, <2>1, ContinueStep
<1>3. CASE FieldCondition(f, c)
  <2>1. Continuable(f)'
    BY <1>1, <1>3, ConditionContinues
  <2>2. KeepsContinuable(f)
    BY <2>1 DEF KeepsContinuable
  <2> QED BY <1>1, <2>2, ContinueStep
<1> QED BY <1>2, <1>3

(* Set_F of a sequence checks the conditions for the size it stores, or stores another
   one in a field of implicit size.                                                   *)
LEMMA SequenceContinues ==
    ASSUME InductiveInvariant,
           NEW f \in Fields, NEW length \in Lengths, NEW d \in Contents, SetSequence(f, length, d)
    PROVE  StepContinues
<1> DEFINE n == 8 * length
           c == SetCursor(f, "S_Valid", n, 0)
           b == SetCursor(f, "S_Valid", FieldSize(f), 0)
<1>1. /\ f \in SequenceFields /\ f \in Composite /\ ValidNext(f) /\ holder = CONTEXT
      /\ FieldCondition(f, b) /\ ResetDependentFields(f, c)
      /\ UNCHANGED <<holder, bounds>> /\ ValidSize(f, n)
  BY DEF SetSequence, SetPossible, HasBuffer, Set
<1>2. CASE n = FieldSize(f)
  <2>1. c = b
    BY <1>2
  <2> QED BY <1>1, <2>1, SetContinues
<1>3. CASE n # FieldSize(f)
  <2>1. FieldLink(f).implicit
    BY <1>1, <1>3 DEF ValidSize
  <2>2. CutAt(f) /\ cursors'[f] = c
    BY <1>1, ResetCuts
  <2>3. Size(c) = n
    <3>1. FieldFirst(f) \in Nat /\ n \in Nat
      BY <1>1, FieldPosition DEF Lengths
    <3>2. c.First = FieldFirst(f) /\ c.Last = FieldFirst(f) + n - 1
      BY DEF SetCursor
    <3> HIDE DEF c, n
    <3> QED BY <3>1, <3>2 DEF Size
  <2>4. KeepsContinuable(f)
    BY <1>1, <1>3, <2>1, <2>2, <2>3 DEF KeepsContinuable
  <2>5. holder' = CONTEXT /\ holder' # f
    BY <1>1 DEF CONTEXT, Fields
  <2> QED BY <1>1, <2>2, <2>4, <2>5, ContinueStep
<1> QED BY <1>2, <1>3

(* Switch_To_F checks the conditions for the size of the field; one that is well-formed
   already has that size.                                                              *)
LEMMA SwitchContinues ==
    ASSUME InductiveInvariant, HolderContinues, NEW f \in Fields, SwitchTo(f)
    PROVE  StepContinues
<1> DEFINE c == SetCursor(f, "S_Well_Formed", FieldSize(f), 0)
<1>1. /\ f \in Composite /\ ValidNext(f) /\ FieldCondition(f, c)
      /\ holder' = f /\ UNCHANGED bounds
  BY DEF SwitchTo, SetPossible
<1>2. FieldFirst(f) \in Nat /\ FieldSize(f) \in Nat
  BY <1>1, FieldPosition
<1>3. Size(c) = FieldSize(f)
  BY <1>2 DEF SetCursor, Size
<1>4. CASE ResetDependentFields(f, c)
  <2>1. CutAt(f) /\ cursors'[f] = c
    BY <1>4, ResetCuts
  <2>2. Continuable(f)'
    BY <1>1, <2>1, ConditionContinues
  <2>3. KeepsContinuable(f)
    BY <2>2 DEF KeepsContinuable
  <2> QED BY <1>1, <2>1, <2>2, <2>3, ContinueStep
<1>5. CASE ~Invalid(f) /\ UNCHANGED cursors
  <2>1. Size(cursors[f]) = FieldSize(f)
    <3>1. WellFormed(f)
      BY <1>5 DEF Invalid, WellFormed, InductiveInvariant, TypeOK, FieldCursor, CursorState
    <3>2. FieldLink(f) \in Links /\ FieldLink(f).target = f /\ Followed(FieldLink(f))
      BY <1>1, FieldLinkFollowed
    <3>3. LinkApplies(FieldLink(f))
      BY <3>2 DEF LinkApplies, Followed, SourceReady, WellFormed, Valid
    <3>4. f # FINAL
      BY DEF Fields, FINAL
    <3> QED BY <3>1, <3>2, <3>3, <3>4
            DEF FieldSize, InductiveInvariant, ValidContext, MessageStructureInvariant
  <2>2. PICK l \in Outgoing(f) : LinkCondition(l, [cursors EXCEPT ![f] = c])
    BY <1>1 DEF FieldCondition
  <2> DEFINE cs == [cursors EXCEPT ![f] = c]
  <2>3. cs[f] = c /\ \A g \in Fields : g # f => cs[g] = cursors[g]
    BY DEF InductiveInvariant, TypeOK
  <2> HIDE DEF cs, c
  <2>4. \A g \in 1 .. f : (IF g \in Composite THEN Size(cs[g]) ELSE cs[g].Value)
                          = (IF g \in Composite THEN Size(cursors[g]) ELSE cursors[g].Value)
    BY <1>1, <1>3, <2>1, <2>3 DEF Fields
  <2>5. Values(cs, f) = Values(cursors, f)
    BY <2>4 DEF Values
  <2>6. LinkCondition(l, cursors)
    BY <2>2, <2>5 DEF LinkCondition, Outgoing, cs
  <2>7. Continuable(f)
    BY <2>6 DEF Continuable
  <2>8. \A g \in Fields : Continuable(g)' = Continuable(g)
    BY <1>1, <1>5 DEF Continuable, LinkCondition, bounds, Outgoing
  <2> QED BY <1>1, <1>5, <2>7, <2>8 DEF StepContinues, KeepsContinuable, HolderContinues
<1> QED BY <1>4, <1>5 DEF SwitchTo

(* Update_F makes a field valid that Switch_To_F has checked, or resets it. *)
LEMMA UpdateContinues ==
    ASSUME InductiveInvariant, HolderContinues, NEW f \in Fields,
           NEW complete \in BOOLEAN, NEW d \in Contents, Update(f, complete, d)
    PROVE  StepContinues
<1>1. holder = f /\ holder' = CONTEXT /\ UNCHANGED bounds
  BY DEF Update
<1>2. CASE ResetDependentFields(f, ResetCursor)
  <2>1. CutAt(f) /\ cursors'[f] = ResetCursor
    BY <1>2, ResetCuts
  <2>2. holder' # f /\ KeepsContinuable(f)
    BY <1>1, <2>1 DEF KeepsContinuable, Valid, ResetCursor, CONTEXT, Fields
  <2> QED BY <1>1, <2>1, <2>2, ContinueStep
<1>3. CASE cursors' = [cursors EXCEPT ![f].State = "S_Valid"]
  <2>1. cursors \in [Fields -> FieldCursor]
    BY DEF InductiveInvariant, TypeOK
  <2>2. \A g \in Fields : /\ cursors'[g].First = cursors[g].First /\ cursors'[g].Last = cursors[g].Last
                          /\ cursors'[g].Value = cursors[g].Value
                          /\ g # f => cursors'[g].State = cursors[g].State
    BY <1>3, <2>1 DEF FieldCursor
  <2>3. \A l \in Links : LinkCondition(l, cursors)' = LinkCondition(l, cursors)
    <3> SUFFICES ASSUME NEW l \in Links PROVE LinkCondition(l, cursors)' = LinkCondition(l, cursors)
      OBVIOUS
    <3>1. \A g \in 1 .. l.source : g \in Fields
      BY LinksAssumption DEF LinkType, INITIAL, Fields
    <3>2. \A g \in 1 .. l.source :
            (IF g \in Composite THEN Size(cursors'[g]) ELSE cursors'[g].Value)
            = (IF g \in Composite THEN Size(cursors[g]) ELSE cursors[g].Value)
      BY <2>2, <3>1 DEF Size
    <3>3. Values(cursors', l.source) = Values(cursors, l.source)
      BY <3>2 DEF Values
    <3> QED BY <1>1, <3>3 DEF LinkCondition, bounds
  <2>4. \A g \in Fields : g # f => cursors'[g] = cursors[g]
    BY <1>3, <2>1
  <2>5. \A g \in Fields : holder' # g
    BY <1>1 DEF CONTEXT, Fields
  <2>6. \A g \in Fields : Continuable(g) => Continuable(g)'
    BY <2>3 DEF Continuable, Outgoing
  <2>7. Continuable(f)
    BY <1>1 DEF HolderContinues
  <2> QED BY <2>4, <2>5, <2>6, <2>7 DEF StepContinues, KeepsContinuable, HolderContinues
<1> QED BY <1>2, <1>3 DEF Update

(* Every call stores only what the message can go on behind. *)
LEMMA ContinuesStep ==
    ASSUME InductiveInvariant, HolderContinues, [Next]_vars
    PROVE  StepContinues
<1>1. CASE ContextNext
  <2>1. \/ cursors' = NoCursors /\ holder' \in {CALLER, CONTEXT}
        \/ UNCHANGED <<bounds, cursors>> /\ holder' = CALLER
    BY <1>1 DEF ContextNext, Initialize, Reset, TakeBuffer, Write, HasBuffer
  <2>2. \A f \in Fields : f # CALLER
    BY DEF Fields, CALLER
  <2> QED BY <2>1, <2>2, FreshContinues, SameContinues
<1>2. CASE ParserNext
  <2>1. ASSUME NEW f \in Fields, Verify(f) PROVE StepContinues
    BY <2>1, VerifyContinues DEF Verify, HasBuffer
  <2>2. CASE VerifyMessage
    BY <2>2, SameContinues DEF VerifyMessage
  <2>3. CASE VerifyMessageLoop
    <3>1. todo \in Fields
      BY <2>3 DEF VerifyMessageLoop, InductiveInvariant, TypeOK, Fields
    <3>2. holder \in {CALLER, CONTEXT}
      BY <2>3 DEF VerifyMessageLoop, InductiveInvariant, TypeOK, HolderInvariant
    <3> QED BY <2>3, <3>1, <3>2, VerifyContinues DEF VerifyMessageLoop
  <2> QED BY <1>2, <2>1, <2>2, <2>3 DEF ParserNext
<1>3. CASE SerializerNext
  <2>1. PICK f \in Fields :
           \/ f \in Scalars /\ \E v \in FieldValues[f] : SetScalar(f, v)
           \/ SetEmpty(f)
           \/ \E length \in Lengths : InitializeField(f, length)
           \/ \E length \in Lengths, d \in Contents :
                 \/ SetSequence(f, length, d)
                 \/ SetOpaque(f, length, d)
                 \/ GenericSetOpaque(f, length, d)
    BY <1>3 DEF SerializerNext
  <2>2. ASSUME NEW v, SetScalar(f, v) PROVE StepContinues
    BY <2>2, SetContinues DEF SetScalar, Set, SetPossible, HasBuffer
  <2>3. CASE SetEmpty(f)
    BY <2>3, SetContinues DEF SetEmpty, Set, SetPossible, HasBuffer
  <2>4. ASSUME NEW length, InitializePrivate(f, length), InitializePossible(f, length),
               UNCHANGED <<holder, bounds>>
        PROVE  StepContinues
    <3>1. SetCursor(f, "S_Well_Formed", 8 * length, 0).State = "S_Well_Formed"
      BY DEF SetCursor
    <3> QED BY <2>4, <3>1, SetContinues DEF InitializePrivate, InitializePossible, SetPossible, HasBuffer
  <2> QED BY <2>1, <2>2, <2>3, <2>4, SequenceContinues DEF InitializeField, SetOpaque, GenericSetOpaque
<1>4. CASE SequenceNext
  BY <1>4, SwitchContinues, UpdateContinues DEF SequenceNext
<1>5. CASE UNCHANGED vars
  BY <1>5, SameContinues DEF vars, bounds
<1> QED BY <1>1, <1>2, <1>3, <1>4, <1>5 DEF Next

(* A field never becomes valid, by parsing, setting or updating it, unless the message can
   go on behind it; the exception is a sequence that Set_F gives another size than the
   field of implicit size had.                                                           *)
THEOREM ContextContinues == Spec => ValidFieldContinues
<1>1. Init => HolderContinues
  BY DEF Init, HolderContinues, CALLER, Fields
<1>2. InductiveInvariant /\ HolderContinues /\ [Next]_vars => HolderContinues'
  BY ContinuesStep DEF StepContinues
<1>3. InductiveInvariant /\ HolderContinues /\ [Next]_vars =>
         [\A f \in Fields : Valid(f)' /\ ~Continuable(f)' =>
             \/ cursors'[f] = cursors[f] /\ ~Continuable(f)
             \/ /\ f \in SequenceFields /\ FieldLink(f).implicit
                /\ Size(cursors'[f]) # FieldSize(f)]_vars
  BY ContinuesStep DEF StepContinues, KeepsContinuable
<1>4. Spec => []HolderContinues
  BY <1>1, <1>2, ContextInductive, PTL DEF Spec
<1> QED BY <1>3, <1>4, ContextInductive, PTL DEF Spec, ValidFieldContinues

-----------------------------------------------------------------------------
(* Positions.                                                              *)

(* A well-formed field lies where Field_First and Field_Size say. *)
LEMMA WellFormedPosition ==
    ASSUME InductiveInvariant, NEW f \in Fields, WellFormed(f)
    PROVE  /\ ValidNext(f)
           /\ FieldFirst(f) = cursors[f].First
           /\ FieldSize(f) = Size(cursors[f])
<1>1. PICK k \in Incoming(f) : (k.source = INITIAL \/ SourceReady(k)) /\ LinkCondition(k, cursors)
  BY DEF InductiveInvariant, ValidContext, ValidPredecessorsInvariant
<1>2. ValidNext(f)
  BY <1>1 DEF ValidNext, Followed
<1>3. FieldLink(f) \in Links /\ FieldLink(f).target = f /\ Followed(FieldLink(f))
  BY <1>2, FieldLinkFollowed
<1>4. LinkApplies(FieldLink(f))
  BY <1>3 DEF LinkApplies, Followed, SourceReady, WellFormed, Valid
<1>5. f # FINAL
  BY DEF Fields, FINAL
<1> QED BY <1>2, <1>3, <1>4, <1>5
        DEF FieldFirst, FieldSize, InductiveInvariant, ValidContext, MessageStructureInvariant

(* A field starts behind its predecessor, or with it. *)
LEMMA NextPosition ==
    ASSUME InductiveInvariant, NEW f \in Fields, ValidNext(f), FieldLink(f).source # INITIAL
    PROVE  LET s == FieldLink(f).source
           IN  /\ s \in Fields /\ s < f /\ ValidNext(s)
               /\ FieldFirst(f) = FieldFirst(s) + IF FieldLink(f).overlay THEN 0 ELSE FieldSize(s)
<1> DEFINE L == FieldLink(f)
           s == L.source
<1>1. L \in Links /\ L.target = f /\ Followed(L)
  BY FieldLinkFollowed
<1>2. s \in Fields /\ WellFormed(s) /\ s < f
  BY <1>1, FollowedTaken, LinksAssumption
<1>3. ValidNext(s) /\ FieldFirst(s) = cursors[s].First /\ FieldSize(s) = Size(cursors[s])
  BY <1>2, WellFormedPosition
<1>4. cursors[s].First \in Nat /\ cursors[s].Last \in Nat
  BY <1>2 DEF InductiveInvariant, TypeOK, FieldCursor
<1>5. FieldFirst(f) = IF L.overlay THEN cursors[s].First ELSE cursors[s].Last + 1
  BY DEF FieldFirst, TargetFirst
<1> QED BY <1>2, <1>3, <1>4, <1>5 DEF Size

(* Adding up sizes gives the position in the cursors. *)
LEMMA InternalPosition ==
    ASSUME InductiveInvariant, NEW f \in Fields, ValidNext(f)
    PROVE  FieldFirstInternal(f) = FieldFirst(f)
<1> DEFINE D == {h \in Fields : ValidNext(h)}
           Eq(p) == p = [g \in D |->
                           IF FieldLink(g).source = INITIAL THEN first
                           ELSE p[FieldLink(g).source]
                                + IF FieldLink(g).overlay THEN 0 ELSE FieldSize(FieldLink(g).source)]
           position == CHOOSE p : Eq(p)
           w == [g \in D |-> FieldFirst(g)]
<1>1. \A g \in D : FieldLink(g).source = INITIAL => FieldFirst(g) = first
  BY DEF FieldFirst, TargetFirst
<1>2. \A g \in D : FieldLink(g).source # INITIAL =>
        /\ FieldLink(g).source \in D /\ FieldLink(g).source < g
        /\ FieldFirst(g) = FieldFirst(FieldLink(g).source)
                           + IF FieldLink(g).overlay THEN 0 ELSE FieldSize(FieldLink(g).source)
  BY NextPosition
<1>3. Eq(w)
  BY <1>1, <1>2
<1>4. Eq(position)
  <2> HIDE DEF Eq, w
  <2> QED BY <1>3
<1>5. FieldFirstInternal(f) = position[f]
  BY DEF FieldFirstInternal
<1> HIDE DEF position
<1> DEFINE T == {g \in D : position[g] # FieldFirst(g)}
<1>6. T = {}
  <2> SUFFICES ASSUME T # {} PROVE FALSE
    OBVIOUS
  <2>1. T \subseteq Nat
    BY DEF Fields
  <2>2. PICK m \in T : \A g \in T : m <= g
    <3> HIDE DEF T
    <3> QED BY <2>1, LeastNatural
  <2>3. m \in D /\ m \in Nat /\ position[m] # FieldFirst(m)
    BY <2>1
  <2>4. CASE FieldLink(m).source = INITIAL
    BY <1>1, <1>4, <2>3, <2>4
  <2>5. CASE FieldLink(m).source # INITIAL
    <3>1. FieldLink(m).source \in D /\ FieldLink(m).source < m
      BY <1>2, <2>3, <2>5
    <3>2. position[FieldLink(m).source] = FieldFirst(FieldLink(m).source)
      BY <2>2, <2>3, <3>1 DEF Fields
    <3> QED BY <1>2, <1>4, <2>3, <2>5, <3>2
  <2> QED BY <2>4, <2>5
<1> QED BY <1>5, <1>6

(* For every message and in every state of a context, the position that the generated
   Field_First computes from the sizes of the fields on the path is the one that the
   cursors hold.                                                                      *)
THEOREM PositionsAgree == Spec => []FieldFirstAgrees
<1>1. InductiveInvariant => FieldFirstAgrees
  BY InternalPosition DEF FieldFirstAgrees
<1> QED BY <1>1, ContextInductive, PTL

-----------------------------------------------------------------------------
(* Bits.                                                                   *)

(* f holds the values of v shifted by 0 to n bits. *)
Shifted(f, v, n) ==
    /\ f \in [0 .. n -> Nat]
    /\ f[0] = v /\ \A k \in 1 .. n : f[k] = f[k - 1] \div 2
    /\ ShiftRight(v, n) = f[n]

(* Shifting by one more bit halves the value. *)
LEMMA Shifts == ASSUME NEW v \in Nat, NEW n \in Nat PROVE \E f : Shifted(f, v, n)
<1> DEFINE step == [k \in 1 .. n |-> [x \in Nat |-> x \div 2]]
<1>1. step \in [1 .. n -> [Nat -> Nat]]
  OBVIOUS
<1>2. PICK f \in [0 .. n -> Nat] : f[0] = v /\ \A k \in 1 .. n : f[k] = step[k][f[k - 1]]
  <2> HIDE DEF step
  <2>1. \E f : Recursion(f, n, Nat, v, step)
    BY <1>1, RecursiveFunction
  <2> QED BY <2>1 DEF Recursion
<1>3. \A k \in 1 .. n : f[k] = f[k - 1] \div 2
  <2>1. \A k \in 1 .. n : f[k - 1] \in Nat
    OBVIOUS
  <2> QED BY <1>2, <2>1
<1>4. f = [k \in 0 .. n |-> IF k = 0 THEN v ELSE f[k - 1] \div 2]
  BY <1>2, <1>3
<1> DEFINE h == CHOOSE g : g = [k \in 0 .. n |-> IF k = 0 THEN v ELSE g[k - 1] \div 2]
<1>5. h = [k \in 0 .. n |-> IF k = 0 THEN v ELSE h[k - 1] \div 2]
  BY <1>4, Zenon
<1>6. ShiftRight(v, n) = h[n]
  BY DEF ShiftRight
<1> HIDE DEF h
<1> DEFINE T == {k \in Nat : k <= n => h[k] = f[k]}
<1>7. \A k \in Nat : k \in T
  <2>1. 0 \in T
    BY <1>2, <1>5
  <2>2. ASSUME NEW k \in Nat, k \in T PROVE k + 1 \in T
    BY <1>3, <1>5, <2>2
  <2> HIDE DEF T
  <2> QED BY <2>1, <2>2, InductiveSet
<1>8. h[n] = f[n]
  BY <1>7
<1> QED BY <1>2, <1>3, <1>6, <1>8 DEF Shifted

(* ShiftRight as a recursion. *)
LEMMA ShiftNext ==
    ASSUME NEW v \in Nat, NEW n \in Nat
    PROVE  /\ ShiftRight(v, 0) = v
           /\ ShiftRight(v, n) \in Nat
           /\ ShiftRight(v, n + 1) = ShiftRight(v, n) \div 2
<1>1. PICK f : Shifted(f, v, n)
  BY Shifts
<1>2. PICK g : Shifted(g, v, n + 1)
  <2>1. n + 1 \in Nat
    OBVIOUS
  <2> QED BY <2>1, Shifts
<1>3. ShiftRight(v, 0) = v
  <2>1. PICK h : Shifted(h, v, 0)
    BY Shifts
  <2> QED BY <2>1 DEF Shifted
<1> DEFINE T == {k \in Nat : k <= n => g[k] = f[k]}
<1>4. \A k \in Nat : k \in T
  <2>1. 0 \in T
    BY <1>1, <1>2 DEF Shifted
  <2>2. ASSUME NEW k \in Nat, k \in T PROVE k + 1 \in T
    BY <1>1, <1>2, <2>2 DEF Shifted
  <2> HIDE DEF T
  <2> QED BY <2>1, <2>2, InductiveSet
<1>5. g[n] = f[n] /\ f[n] \in Nat
  BY <1>1, <1>4 DEF Shifted
<1>6. g[n + 1] = g[n] \div 2
  BY <1>2 DEF Shifted
<1> QED BY <1>1, <1>2, <1>3, <1>5, <1>6 DEF Shifted

(* f holds the values of the first 0 to n bits from fst on. *)
Extracted(f, b, fst, n) ==
    /\ f \in [0 .. n -> Nat]
    /\ f[0] = 0 /\ \A k \in 1 .. n : f[k] = 2 * f[k - 1] + b[fst + k - 1]
    /\ Extract(b, fst, fst + n - 1) = f[n]

(* Extract takes in the bits one after the other. *)
LEMMA Extracts ==
    ASSUME NEW fst \in Nat, NEW n \in Nat, NEW b, \A i \in 1 .. n : b[fst + i - 1] \in Nat
    PROVE  \E f : Extracted(f, b, fst, n)
<1> DEFINE step == [k \in 1 .. n |-> [x \in Nat |-> 2 * x + b[fst + k - 1]]]
<1>1. step \in [1 .. n -> [Nat -> Nat]]
  <2>1. \A k \in 1 .. n : [x \in Nat |-> 2 * x + b[fst + k - 1]] \in [Nat -> Nat]
    <3> SUFFICES ASSUME NEW k \in 1 .. n PROVE [x \in Nat |-> 2 * x + b[fst + k - 1]] \in [Nat -> Nat]
      OBVIOUS
    <3>1. b[fst + k - 1] \in Nat
      OBVIOUS
    <3> QED BY <3>1
  <2> QED BY <2>1
<1>2. PICK f \in [0 .. n -> Nat] : f[0] = 0 /\ \A k \in 1 .. n : f[k] = step[k][f[k - 1]]
  <2> HIDE DEF step
  <2>1. \E f : Recursion(f, n, Nat, 0, step)
    BY <1>1, RecursiveFunction
  <2> QED BY <2>1 DEF Recursion
<1>3. \A k \in 1 .. n : f[k] = 2 * f[k - 1] + b[fst + k - 1]
  <2>1. \A k \in 1 .. n : f[k - 1] \in Nat
    OBVIOUS
  <2> QED BY <1>2, <2>1
<1>4. f = [k \in 0 .. n |-> IF k = 0 THEN 0 ELSE 2 * f[k - 1] + b[fst + k - 1]]
  BY <1>2, <1>3
<1> DEFINE h == CHOOSE g : g = [k \in 0 .. n |-> IF k = 0 THEN 0 ELSE 2 * g[k - 1] + b[fst + k - 1]]
<1>5. h = [k \in 0 .. n |-> IF k = 0 THEN 0 ELSE 2 * h[k - 1] + b[fst + k - 1]]
  BY <1>4, Zenon
<1>6. Extract(b, fst, fst + n - 1) = h[n]
  <2>1. (fst + n - 1) - fst + 1 = n
    OBVIOUS
  <2> QED BY <2>1 DEF Extract
<1> HIDE DEF h
<1> DEFINE T == {k \in Nat : k <= n => h[k] = f[k]}
<1>7. \A k \in Nat : k \in T
  <2>1. 0 \in T
    BY <1>2, <1>5
  <2>2. ASSUME NEW k \in Nat, k \in T PROVE k + 1 \in T
    BY <1>3, <1>5, <2>2
  <2> HIDE DEF T
  <2> QED BY <2>1, <2>2, InductiveSet
<1>8. h[n] = f[n]
  BY <1>7
<1> QED BY <1>2, <1>3, <1>6, <1>8 DEF Extracted

(* A value depends on the bits of its field only. *)
LEMMA ExtractSame ==
    ASSUME NEW fst \in Nat, NEW n \in Nat, NEW b, NEW c,
           \A i \in fst .. fst + n - 1 : b[i] \in Nat /\ c[i] = b[i]
    PROVE  Extract(c, fst, fst + n - 1) = Extract(b, fst, fst + n - 1)
<1>1. \A i \in 1 .. n : b[fst + i - 1] \in Nat /\ c[fst + i - 1] = b[fst + i - 1]
  OBVIOUS
<1>2. PICK f : Extracted(f, b, fst, n)
  BY <1>1, Extracts
<1>3. PICK g : Extracted(g, c, fst, n)
  BY <1>1, Extracts
<1> DEFINE T == {k \in Nat : k <= n => g[k] = f[k]}
<1>4. \A k \in Nat : k \in T
  <2>1. 0 \in T
    BY <1>2, <1>3 DEF Extracted
  <2>2. ASSUME NEW k \in Nat, k \in T PROVE k + 1 \in T
    BY <1>1, <1>2, <1>3, <2>2 DEF Extracted
  <2> HIDE DEF T
  <2> QED BY <2>1, <2>2, InductiveSet
<1>5. g[n] = f[n]
  BY <1>4
<1> QED BY <1>2, <1>3, <1>5 DEF Extracted

(* Extract reads what Insert has written, if the value fits into the field. *)
LEMMA ExtractInserted ==
    ASSUME NEW fst \in Nat, NEW n \in Nat, NEW v \in Nat, ShiftRight(v, n) = 0, NEW b,
           \A i \in fst .. fst + n - 1 : b[i] = Bit(v, fst + n - 1 - i)
    PROVE  Extract(b, fst, fst + n - 1) = v
<1>1. \A i \in 1 .. n : b[fst + i - 1] = Bit(v, n - i)
  <2> SUFFICES ASSUME NEW i \in 1 .. n PROVE b[fst + i - 1] = Bit(v, n - i)
    OBVIOUS
  <2>1. fst + i - 1 \in fst .. fst + n - 1 /\ fst + n - 1 - (fst + i - 1) = n - i
    OBVIOUS
  <2> QED BY <2>1
<1>2. \A i \in 1 .. n : b[fst + i - 1] \in Nat
  BY <1>1 DEF Bit
<1>3. PICK f : Extracted(f, b, fst, n)
  BY <1>2, Extracts
<1> DEFINE T == {k \in Nat : k <= n => f[k] = ShiftRight(v, n - k)}
<1>4. \A k \in Nat : k \in T
  <2>1. 0 \in T
    BY <1>3 DEF Extracted
  <2>2. ASSUME NEW k \in Nat, k \in T PROVE k + 1 \in T
    <3> SUFFICES ASSUME k + 1 <= n PROVE f[k + 1] = ShiftRight(v, n - (k + 1))
      OBVIOUS
    <3> DEFINE m == n - (k + 1)
               s == ShiftRight(v, m)
    <3>1. m \in Nat /\ n - k = m + 1
      OBVIOUS
    <3>2. s \in Nat /\ ShiftRight(v, m + 1) = s \div 2
      BY <3>1, ShiftNext
    <3>6. f[k] = s \div 2
      BY <2>2, <3>1, <3>2
    <3>3. f[k + 1] = 2 * f[k] + Bit(v, m)
      <4>1. k + 1 \in 1 .. n /\ (k + 1) - 1 = k
        OBVIOUS
      <4> QED BY <1>1, <1>3, <4>1 DEF Extracted
    <3>4. Bit(v, m) = IF s % 2 = 1 THEN 1 ELSE 0
      BY DEF Bit
    <3> HIDE DEF s
    <3>5. s = 2 * (s \div 2) + (s % 2) /\ s % 2 \in {0, 1}
      BY <3>2
    <3> QED BY <3>2, <3>3, <3>4, <3>5, <3>6 DEF s
  <2> HIDE DEF T
  <2> QED BY <2>1, <2>2, InductiveSet
<1>5. f[n] = ShiftRight(v, n - n)
  BY <1>4
<1>6. n - n = 0
  OBVIOUS
<1> QED BY <1>3, <1>5, <1>6, ShiftNext DEF Extracted

-----------------------------------------------------------------------------
(* Values.                                                                 *)

(* No field of the path reaches into a later one, unless that one overlays it. *)
Disjoint ==
    \A g, h \in Fields : g < h /\ g \in NotOverlaid /\ WellFormed(g) /\ WellFormed(h) =>
        cursors[g].Last < cursors[h].First

BufferInvariant == Disjoint /\ ValuesInBuffer

(* A sequence may be switched to again when later fields are set already; Update_F writes
   all of it, so these must not overlay it.                                             *)
SequencesNotOverlaid == SequenceFields \subseteq NotOverlaid

(* The fields before f that f does not overlay end before it. *)
LEMMA EndsBefore ==
    ASSUME InductiveInvariant, Disjoint, NEW f \in Fields, ValidNext(f),
           NEW g \in Fields, g < f, g \in NotOverlaid, WellFormed(g)
    PROVE  cursors[g].Last < FieldFirst(f)
<1> DEFINE L == FieldLink(f)
           s == L.source
<1>1. L \in Links /\ L.target = f /\ Followed(L)
  BY FieldLinkFollowed
<1>2. s \in {INITIAL} \cup Fields /\ s \in Int
  BY <1>1, LinksAssumption DEF LinkType, INITIAL, Fields
<1>3. g <= s
  BY <1>1, <1>2, NoneBetween DEF Fields
<1>4. s \in Fields /\ s # INITIAL /\ WellFormed(s)
  BY <1>1, <1>2, <1>3, FollowedTaken DEF INITIAL, Fields
<1>5. /\ cursors[g].Last \in Nat /\ cursors[s].First \in Nat /\ cursors[s].Last \in Nat
  BY <1>4 DEF InductiveInvariant, TypeOK, FieldCursor
<1>6. CASE ~L.overlay
  <2>1. FieldFirst(f) = cursors[s].Last + 1
    BY <1>4, <1>6 DEF FieldFirst, TargetFirst
  <2>2. cursors[g].Last <= cursors[s].Last
    BY <1>2, <1>3, <1>4, <1>5 DEF InductiveInvariant, LastMonotone, Fields
  <2> QED BY <1>5, <2>1, <2>2
<1>7. CASE L.overlay
  <2>1. FieldFirst(f) = cursors[s].First
    BY <1>4, <1>7 DEF FieldFirst, TargetFirst
  <2>2. g # s
    BY <1>1, <1>7 DEF NotOverlaid
  <2>3. g < s
    BY <1>2, <1>3, <2>2 DEF Fields
  <2> QED BY <1>4, <2>1, <2>3 DEF Disjoint
<1> QED BY <1>6, <1>7

(* The bits of a well-formed field are bits of the buffer. *)
LEMMA FieldInBuffer ==
    ASSUME InductiveInvariant, NEW g \in Fields, WellFormed(g)
    PROVE  /\ cursors[g].First \in Nat /\ cursors[g].Last \in Nat /\ Size(cursors[g]) \in Nat
           /\ cursors[g].Last = cursors[g].First + Size(cursors[g]) - 1
           /\ \A i \in cursors[g].First .. cursors[g].Last : i \in BufferBits /\ buffer[i] \in Nat
<1>1. /\ cursors[g].First \in Nat /\ cursors[g].Last \in Nat
      /\ first \in Nat /\ last \in Nat /\ verified_last \in Nat /\ written_last \in Nat
      /\ buffer \in [BufferBits -> {0, 1}]
  BY DEF InductiveInvariant, TypeOK, FieldCursor
<1>2. /\ first >= 1 /\ first <= cursors[g].First /\ cursors[g].First <= cursors[g].Last + 1
      /\ cursors[g].Last <= 8 * BufferLength
  BY <1>1 DEF InductiveInvariant, ValidContext, BoundsInvariant, CursorsInvariant
<1>3. \A i \in cursors[g].First .. cursors[g].Last : i \in BufferBits
  BY <1>1, <1>2 DEF BufferBits
<1>4. \A i \in cursors[g].First .. cursors[g].Last : buffer[i] \in Nat
  BY <1>1, <1>3
<1> QED BY <1>1, <1>2, <1>3, <1>4 DEF Size

(* A field whose bits do not change keeps its value. *)
LEMMA ValueKept ==
    ASSUME InductiveInvariant, ValuesInBuffer, NEW g \in Scalars \cap NotOverlaid, Valid(g),
           cursors'[g] = cursors[g],
           \A i \in cursors[g].First .. cursors[g].Last : buffer'[i] = buffer[i]
    PROVE  cursors'[g].Value = Extract(buffer', cursors'[g].First, cursors'[g].Last)
<1> DEFINE fst == cursors[g].First
           n == Size(cursors[g])
<1>1. g \in Fields /\ WellFormed(g)
  BY DEF Scalars, Valid, WellFormed
<1>2. /\ fst \in Nat /\ n \in Nat /\ cursors[g].Last = fst + n - 1
      /\ \A i \in fst .. fst + n - 1 : buffer[i] \in Nat /\ buffer'[i] = buffer[i]
  BY <1>1, FieldInBuffer
<1>3. Extract(buffer', fst, fst + n - 1) = Extract(buffer, fst, fst + n - 1)
  <2> HIDE DEF fst, n
  <2> QED BY <1>2, ExtractSame
<1> QED BY <1>2, <1>3 DEF ValuesInBuffer

(* A step that changes field f, resets what follows and writes no bit before the field. *)
LEMMA BufferStep ==
    ASSUME InductiveInvariant, BufferInvariant, NEW f \in Fields, CutAt(f), ValidNext(f),
           WellFormed(f)' => cursors'[f].First = FieldFirst(f),
           \A i \in BufferBits : i < FieldFirst(f) => buffer'[i] = buffer[i],
           f \in Scalars /\ Valid(f)' =>
               cursors'[f].Value = Extract(buffer', cursors'[f].First, cursors'[f].Last)
    PROVE  BufferInvariant'
<1>1. ASSUME NEW g \in Fields, g > f PROVE ~WellFormed(g)' /\ ~Valid(g)'
  BY <1>1 DEF CutAt, Invalid, WellFormed, Valid
<1>2. ASSUME NEW g \in Fields, g < f
      PROVE  cursors'[g] = cursors[g] /\ WellFormed(g)' = WellFormed(g) /\ Valid(g)' = Valid(g)
  BY <1>2 DEF CutAt, WellFormed, Valid
<1>3. Disjoint'
  <2> SUFFICES ASSUME NEW g \in Fields, NEW h \in Fields, g < h, g \in NotOverlaid,
                      WellFormed(g)', WellFormed(h)'
               PROVE  cursors'[g].Last < cursors'[h].First
    BY DEF Disjoint
  <2>1. h <= f /\ g < f
    BY <1>1 DEF Fields
  <2>2. cursors'[g] = cursors[g] /\ WellFormed(g)
    BY <1>2, <2>1
  <2>3. CASE h = f
    BY <2>1, <2>2, <2>3, EndsBefore DEF BufferInvariant
  <2>4. CASE h # f
    <3>1. cursors'[h] = cursors[h] /\ WellFormed(h)
      BY <1>2, <2>1, <2>4 DEF Fields
    <3> QED BY <2>2, <3>1 DEF BufferInvariant, Disjoint
  <2> QED BY <2>3, <2>4
<1>4. ValuesInBuffer'
  <2> SUFFICES ASSUME NEW g \in Scalars \cap NotOverlaid, Valid(g)'
               PROVE  cursors'[g].Value = Extract(buffer', cursors'[g].First, cursors'[g].Last)
    BY DEF ValuesInBuffer
  <2>1. g \in Fields /\ g <= f
    BY <1>1 DEF Scalars, Fields
  <2>2. CASE g = f
    BY <2>2
  <2>3. CASE g # f
    <3>1. g < f
      BY <2>1, <2>3 DEF Fields
    <3>2. cursors'[g] = cursors[g] /\ Valid(g) /\ WellFormed(g)
      BY <1>2, <2>1, <3>1 DEF Valid, WellFormed
    <3>3. cursors[g].Last < FieldFirst(f) /\ FieldFirst(f) \in Nat
      BY <2>1, <3>1, <3>2, EndsBefore, FieldPosition DEF BufferInvariant
    <3>4. \A i \in cursors[g].First .. cursors[g].Last : i \in BufferBits /\ i < FieldFirst(f)
      BY <2>1, <3>2, <3>3, FieldInBuffer
    <3>5. \A i \in cursors[g].First .. cursors[g].Last : buffer'[i] = buffer[i]
      BY <3>4
    <3> QED BY <3>2, <3>5, ValueKept DEF BufferInvariant
  <2> QED BY <2>2, <2>3
<1> QED BY <1>3, <1>4 DEF BufferInvariant

(* An empty context has no values. *)
LEMMA FreshBuffer == ASSUME cursors' = NoCursors PROVE BufferInvariant'
<1>1. \A g \in Fields : ~WellFormed(g)' /\ ~Valid(g)'
  BY DEF NoCursors, ResetCursor, WellFormed, Valid
<1> QED BY <1>1 DEF BufferInvariant, Disjoint, ValuesInBuffer, Scalars

(* A step that changes neither cursors nor bits. *)
LEMMA SameBuffer == ASSUME BufferInvariant, UNCHANGED <<cursors, buffer>> PROVE BufferInvariant'
BY DEF BufferInvariant, Disjoint, ValuesInBuffer, WellFormed, Valid

(* Verify takes the value from the buffer. *)
LEMMA VerifyBuffer ==
    ASSUME InductiveInvariant, BufferInvariant, NEW f \in Fields, VerifyField(f), UNCHANGED buffer
    PROVE  BufferInvariant'
<1>0. cursors \in [Fields -> FieldCursor]
  BY DEF InductiveInvariant, TypeOK
<1>1. CASE UNCHANGED cursors
  BY <1>1, SameBuffer
<1>2. CASE /\ Invalid(f) /\ ValidNext(f)
           /\ \E c \in {ParsedCursor(f), ResetCursor, IncompleteCursor} : cursors' = [cursors EXCEPT ![f] = c]
  <2>1. PICK c \in {ParsedCursor(f), ResetCursor, IncompleteCursor} : cursors' = [cursors EXCEPT ![f] = c]
    BY <1>2
  <2>2. cursors'[f] = c /\ \A g \in Fields : g # f => cursors'[g] = cursors[g]
    BY <1>0, <2>1
  <2>3. CutAt(f)
    <3>1. \A g \in Fields : g > f => Invalid(g) /\ cursors[g].Value = 0 /\ Size(cursors[g]) = 0
      BY <1>2, InvalidNext DEF Fields
    <3>2. \A g \in Fields : g > f \/ g < f => cursors'[g] = cursors[g]
      BY <2>2 DEF Fields
    <3> QED BY <3>1, <3>2 DEF CutAt, Invalid
  <2>4. CASE c = ParsedCursor(f)
    <3>1. /\ c.First = FieldFirst(f)
          /\ f \in Scalars => c.Value = Extract(buffer, c.First, c.Last)
      BY <2>4 DEF ParsedCursor, Scalars
    <3> QED BY <1>2, <2>2, <2>3, <3>1, BufferStep
  <2>5. CASE c # ParsedCursor(f)
    <3>1. ~WellFormed(f)' /\ ~Valid(f)'
      BY <2>2, <2>5 DEF ResetCursor, IncompleteCursor, WellFormed, Valid
    <3> QED BY <1>2, <2>3, <3>1, BufferStep
  <2> QED BY <2>4, <2>5
<1> QED BY <1>1, <1>2 DEF VerifyField

(* The setters write from the first bit of the field on. *)
LEMMA SetBuffer ==
    ASSUME InductiveInvariant, BufferInvariant, NEW f \in Fields, ValidNext(f),
           NEW state, NEW size, NEW value, ResetDependentFields(f, SetCursor(f, state, size, value)),
           \A i \in BufferBits : i < FieldFirst(f) => buffer'[i] = buffer[i],
           f \in Scalars => value = Extract(buffer', FieldFirst(f), FieldFirst(f) + size - 1)
    PROVE  BufferInvariant'
<1> DEFINE c == SetCursor(f, state, size, value)
<1>1. CutAt(f) /\ cursors'[f] = c
  BY ResetCuts
<1>2. c.First = FieldFirst(f) /\ c.Last = FieldFirst(f) + size - 1 /\ c.Value = value
  BY DEF SetCursor
<1> HIDE DEF c
<1> QED BY <1>1, <1>2, BufferStep

(* A scalar is extracted with the value it was set to. *)
LEMMA ScalarBuffer ==
    ASSUME InductiveInvariant, BufferInvariant, NEW f \in Fields,
           f \in Scalars, NEW v \in FieldValues[f], SetScalar(f, v)
    PROVE  BufferInvariant'
<1> DEFINE fst == FieldFirst(f)
           n == FieldSize(f)
           lst == fst + n - 1
<1>1. /\ ValidNext(f) /\ SufficientSpace(f) /\ v \in Nat /\ f \notin Composite
      /\ ResetDependentFields(f, SetCursor(f, "S_Valid", n, v))
      /\ buffer' = Insert(buffer, fst, lst, v)
  BY DEF SetScalar, SetPossible, Set, SetCursor, Scalars
<1>2. /\ fst \in Nat /\ n \in Nat /\ fst >= 1 /\ last \in Nat /\ last <= 8 * BufferLength
  BY <1>1, FieldPosition DEF InductiveInvariant, ValidContext, BoundsInvariant, TypeOK
<1>3. lst <= 8 * BufferLength
  BY <1>1, <1>2 DEF SufficientSpace, AvailableSpace
<1>4. ShiftRight(v, n) = 0
  <2>1. FieldLink(f) \in Links /\ FieldLink(f).target = f
    BY <1>1, FieldLinkFollowed
  <2>2. ~FieldLink(f).implicit
    BY <1>1, <2>1, LinksAssumption
  <2>3. FieldLink(f).source \in 0 .. NumFields
    BY <2>1, LinksAssumption DEF LinkType, INITIAL, Fields
  <2>4. Values(cursors, FieldLink(f).source) \in Valuations(FieldLink(f).source)
        /\ parameters \in Parameters
    BY <2>3, LegalValues, LegalCursors DEF InductiveInvariant, ValidContext, TypeOK
  <2>5. n = LinkSize(FieldLink(f), Values(cursors, FieldLink(f).source), parameters)
    BY <2>2 DEF FieldSize, TargetSize
  <2> QED BY <2>1, <2>4, <2>5, ScalarsAssumption
<1> HIDE DEF fst, n
<1>5. \A i \in fst .. fst + n - 1 : buffer'[i] = Bit(v, fst + n - 1 - i)
  BY <1>1, <1>2, <1>3 DEF Insert, BufferBits
<1>6. Extract(buffer', fst, fst + n - 1) = v
  BY <1>1, <1>2, <1>4, <1>5, ExtractInserted
<1>7. \A i \in BufferBits : i < fst => buffer'[i] = buffer[i]
  BY <1>1, <1>2 DEF Insert, BufferBits
<1> QED BY <1>1, <1>6, <1>7, SetBuffer DEF fst, n

(* Copying the bits from fst on does not touch earlier ones. *)
LEMMA OverwriteAfter ==
    ASSUME NEW fst \in Int, NEW lst \in Int, NEW d, buffer' = Overwrite(buffer, fst, lst, d)
    PROVE  \A i \in BufferBits : i < fst \/ i > lst => buffer'[i] = buffer[i]
BY DEF Overwrite, BufferBits

(* The setters of opaque fields and sequences, and Initialize_F. *)
LEMMA CompositeBuffer ==
    ASSUME InductiveInvariant, BufferInvariant, NEW f \in Fields, f \in Composite, ValidNext(f),
           NEW state, NEW size \in Nat, ResetDependentFields(f, SetCursor(f, state, size, 0)),
           \/ buffer' = buffer
           \/ \E d \in Contents : buffer' = Overwrite(buffer, FieldFirst(f), FieldFirst(f) + size - 1, d)
    PROVE  BufferInvariant'
<1>1. FieldFirst(f) \in Nat /\ FieldFirst(f) + size - 1 \in Int
  BY FieldPosition
<1>2. \A i \in BufferBits : i < FieldFirst(f) => buffer'[i] = buffer[i]
  BY <1>1, OverwriteAfter
<1>3. f \notin Scalars
  BY DEF Scalars
<1> QED BY <1>2, <1>3, SetBuffer

(* Update_F writes the field only, whether it keeps or resets it. *)
LEMMA UpdateBuffer ==
    ASSUME SequencesNotOverlaid, InductiveInvariant, BufferInvariant, NEW f \in Fields,
           NEW complete \in BOOLEAN, NEW d \in Contents, Update(f, complete, d)
    PROVE  BufferInvariant'
<1>1. /\ WellFormed(f) /\ f \in SequenceFields /\ f \in Composite /\ f \in NotOverlaid
  BY DEF Update, InductiveInvariant, HolderInvariant, TypeOK, CALLER, CONTEXT, Fields, SequencesNotOverlaid
<1>2. /\ cursors[f].First \in Nat /\ cursors[f].Last \in Nat
      /\ buffer' = Overwrite(buffer, cursors[f].First, cursors[f].Last, d)
  BY <1>1, FieldInBuffer DEF Update
<1>3. \A i \in BufferBits : i < cursors[f].First \/ i > cursors[f].Last => buffer'[i] = buffer[i]
  BY <1>2, OverwriteAfter
<1>4. CASE ResetDependentFields(f, ResetCursor)
  <2>1. CutAt(f) /\ cursors'[f] = ResetCursor
    BY <1>4, ResetCuts
  <2>2. ~WellFormed(f)' /\ ~Valid(f)'
    BY <2>1 DEF ResetCursor, WellFormed, Valid
  <2>3. ValidNext(f) /\ FieldFirst(f) = cursors[f].First
    BY <1>1, WellFormedPosition
  <2> QED BY <1>3, <2>1, <2>2, <2>3, BufferStep
<1>5. CASE cursors' = [cursors EXCEPT ![f].State = "S_Valid"]
  <2>1. cursors \in [Fields -> FieldCursor]
    BY DEF InductiveInvariant, TypeOK
  <2>2. /\ \A g \in Fields : g # f => cursors'[g] = cursors[g]
        /\ cursors'[f].First = cursors[f].First /\ cursors'[f].Last = cursors[f].Last
    BY <1>5, <2>1 DEF FieldCursor
  <2>3. \A g \in Fields : WellFormed(g)' => WellFormed(g)
    BY <1>1, <2>2 DEF WellFormed
  <2>4. Disjoint'
    BY <2>2, <2>3 DEF BufferInvariant, Disjoint
  <2>5. ValuesInBuffer'
    <3> SUFFICES ASSUME NEW g \in Scalars \cap NotOverlaid, Valid(g)'
                 PROVE  cursors'[g].Value = Extract(buffer', cursors'[g].First, cursors'[g].Last)
      BY DEF ValuesInBuffer
    <3>1. g \in Fields /\ g # f
      BY <1>1 DEF Scalars
    <3>2. cursors'[g] = cursors[g] /\ Valid(g) /\ WellFormed(g)
      BY <2>2, <3>1 DEF Valid, WellFormed
    <3>3. cursors[g].First \in Nat /\ cursors[g].Last \in Nat
          /\ \A i \in cursors[g].First .. cursors[g].Last : i \in BufferBits
      BY <3>1, <3>2, FieldInBuffer
    <3>4. g < f => cursors[g].Last < cursors[f].First
      BY <1>1, <3>1, <3>2 DEF BufferInvariant, Disjoint
    <3>5. f < g => cursors[f].Last < cursors[g].First
      BY <1>1, <3>1, <3>2 DEF BufferInvariant, Disjoint
    <3>6. g < f \/ f < g
      BY <3>1 DEF Fields
    <3>7. \A i \in cursors[g].First .. cursors[g].Last : i < cursors[f].First \/ i > cursors[f].Last
      BY <1>2, <3>3, <3>4, <3>5, <3>6
    <3>8. \A i \in cursors[g].First .. cursors[g].Last : buffer'[i] = buffer[i]
      BY <1>3, <3>3, <3>7
    <3> QED BY <3>2, <3>8, ValueKept DEF BufferInvariant
  <2> QED BY <2>4, <2>5 DEF BufferInvariant
<1> QED BY <1>4, <1>5 DEF Update

(* Every call keeps the invariant. *)
LEMMA BuffersStep ==
    ASSUME SequencesNotOverlaid, InductiveInvariant, BufferInvariant, [Next]_vars
    PROVE  BufferInvariant'
<1>1. CASE ContextNext
  <2>1. cursors' = NoCursors \/ UNCHANGED <<cursors, buffer>>
    BY <1>1 DEF ContextNext, Initialize, Reset, TakeBuffer, Write
  <2> QED BY <2>1, FreshBuffer, SameBuffer
<1>2. CASE ParserNext
  <2>1. ASSUME NEW f \in Fields, Verify(f) PROVE BufferInvariant'
    BY <2>1, VerifyBuffer DEF Verify
  <2>2. CASE VerifyMessage
    BY <2>2, SameBuffer DEF VerifyMessage
  <2>3. CASE VerifyMessageLoop
    <3>1. todo \in Fields
      BY <2>3 DEF VerifyMessageLoop, InductiveInvariant, TypeOK, Fields
    <3> QED BY <2>3, <3>1, VerifyBuffer DEF VerifyMessageLoop
  <2> QED BY <1>2, <2>1, <2>2, <2>3 DEF ParserNext
<1>3. CASE SerializerNext
  <2>1. PICK f \in Fields :
           \/ f \in Scalars /\ \E v \in FieldValues[f] : SetScalar(f, v)
           \/ SetEmpty(f)
           \/ \E length \in Lengths : InitializeField(f, length)
           \/ \E length \in Lengths, d \in Contents :
                 \/ SetSequence(f, length, d)
                 \/ SetOpaque(f, length, d)
                 \/ GenericSetOpaque(f, length, d)
    BY <1>3 DEF SerializerNext
  <2>2. ASSUME f \in Scalars, NEW v \in FieldValues[f], SetScalar(f, v) PROVE BufferInvariant'
    BY <2>2, ScalarBuffer
  <2>3. CASE SetEmpty(f)
    BY <2>3, CompositeBuffer DEF SetEmpty, Set, SetPossible
  <2>4. ASSUME NEW length \in Lengths, f \in Composite,
               InitializePrivate(f, length), InitializePossible(f, length),
               \/ buffer' = buffer
               \/ \E d \in Contents : buffer' = Overwrite(buffer, FieldFirst(f), PrivateLast(f, length), d)
        PROVE  BufferInvariant'
    <3>1. 8 * length \in Nat
      BY DEF Lengths
    <3> QED BY <2>4, <3>1, CompositeBuffer
            DEF InitializePrivate, InitializePossible, SetPossible, PrivateLast
  <2>5. ASSUME NEW length \in Lengths, NEW d \in Contents, SetSequence(f, length, d)
        PROVE  BufferInvariant'
    <3>1. 8 * length \in Nat /\ f \in Composite
      BY <2>5 DEF Lengths, SetSequence
    <3>2. /\ ValidNext(f) /\ ResetDependentFields(f, SetCursor(f, "S_Valid", 8 * length, 0))
          /\ buffer' = Overwrite(buffer, FieldFirst(f), FieldFirst(f) + 8 * length - 1, d)
      BY <2>5 DEF SetSequence, Set, SetPossible, SetCursor
    <3> QED BY <3>1, <3>2, CompositeBuffer
  <2> QED BY <2>1, <2>2, <2>3, <2>4, <2>5 DEF InitializeField, SetOpaque, GenericSetOpaque
<1>4. CASE SequenceNext
  <2>1. ASSUME NEW f \in Fields, SwitchTo(f) PROVE BufferInvariant'
    <3>1. /\ f \in Composite /\ ValidNext(f) /\ buffer' = buffer
          /\ \/ UNCHANGED cursors
             \/ ResetDependentFields(f, SetCursor(f, "S_Well_Formed", FieldSize(f), 0))
      BY <2>1 DEF SwitchTo, SetPossible
    <3>2. FieldSize(f) \in Nat
      BY <3>1, FieldPosition
    <3> QED BY <3>1, <3>2, CompositeBuffer, SameBuffer
  <2> QED BY <1>4, <2>1, UpdateBuffer DEF SequenceNext
<1>5. CASE UNCHANGED vars
  BY <1>5, SameBuffer DEF vars
<1> QED BY <1>1, <1>2, <1>3, <1>4, <1>5 DEF Next

(* Fields stay apart and keep their bits. *)
LEMMA BufferInductive == SequencesNotOverlaid => (Spec => []BufferInvariant)
<1> SUFFICES ASSUME SequencesNotOverlaid PROVE Spec => []BufferInvariant
  OBVIOUS
<1>1. Init => BufferInvariant
  <2>1. Init => \A g \in Fields : ~WellFormed(g) /\ ~Valid(g)
    BY DEF Init, NoCursors, ResetCursor, WellFormed, Valid
  <2> QED BY <2>1 DEF BufferInvariant, Disjoint, ValuesInBuffer, Scalars
<1>2. InductiveInvariant /\ BufferInvariant /\ [Next]_vars => BufferInvariant'
  BY BuffersStep
<1> QED BY <1>1, <1>2, ContextInductive, PTL DEF Spec

(* For every message in which no sequence is overlaid: the value that a getter returns is
   the one that the bits of the field encode, whatever was set, initialised, switched to or
   parsed before and since.                                                               *)
THEOREM ValuesStored == SequencesNotOverlaid => (Spec => []ValuesInBuffer)
<1>1. BufferInvariant => ValuesInBuffer
  BY DEF BufferInvariant
<1> QED BY <1>1, BufferInductive, PTL

-----------------------------------------------------------------------------
(* Parsing again.                                                          *)

NoOverlays == \A l \in Links : ~l.overlay

(* The value or size of a field that expressions refer to. *)
FieldValue(g) == IF g \in Composite THEN Size(cursors[g]) ELSE cursors[g].Value

RefState == [verdict : {"parsing", "accepted", "rejected", "incomplete"}, field : Int,
             first : Int, last : Int, values : [Fields -> Int]]

(* The reference parser has come to a field of the path and has found what the cursors say. *)
Follows(r) ==
    /\ r \in RefState
    /\ r.verdict = "parsing"
    /\ r.field \in {INITIAL} \cup Fields
    /\ r.field = INITIAL => r.first = first /\ r.last = first - 1
    /\ r.field # INITIAL =>
        WellFormed(r.field) /\ r.first = cursors[r.field].First /\ r.last = cursors[r.field].Last
    /\ \A g \in Fields : r.values[g] = IF g <= r.field THEN FieldValue(g) ELSE 0

(* It has found the end of the message where the context ends. *)
Accepted(r) ==
    /\ r.verdict = "accepted" /\ r.last = verified_last
    /\ \A f \in Scalars : Valid(f) => r.values[f] = cursors[f].Value

(* The parser follows exactly the links whose conditions hold on the cursors. *)
LEMMA FollowsLinks ==
    ASSUME InductiveInvariant, NEW r, Follows(r)
    PROVE  /\ Prefix(r.values, r.field) = Values(cursors, r.field)
           /\ Taken(r.field, r.values) = {l \in Outgoing(r.field) : LinkCondition(l, cursors)}
<1> DEFINE n == r.field
<1>1. \A g \in 1 .. n : g \in Fields /\ g <= n
  BY DEF Follows, INITIAL, Fields
<1>2. \A g \in 1 .. n : r.values[g] = FieldValue(g)
  BY <1>1 DEF Follows
<1>3. Prefix(r.values, n) = Values(cursors, n)
  BY <1>2 DEF Prefix, Values, FieldValue
<1> QED BY <1>3 DEF Taken, LinkCondition, Outgoing

(* The path of a well-formed message ends with the field whose link leads to FINAL. *)
LEMMA PathLast ==
    ASSUME InductiveInvariant, NEW l \in Incoming(FINAL), SourceReady(l), LinkCondition(l, cursors)
    PROVE  /\ l \in Links /\ l.source \in Fields /\ WellFormed(l.source)
           /\ \A g \in Fields : WellFormed(g) => g <= l.source
<1> DEFINE e == l.source
<1>1. l \in Links /\ e \in Fields /\ l.target = FINAL
  BY LinksAssumption DEF Incoming, LinkType
<1>2. WellFormed(e)
  BY DEF SourceReady, WellFormed, Valid
<1>3. ASSUME NEW g \in Fields, WellFormed(g), g > e PROVE FALSE
  <2>1. PICK k \in Outgoing(e) : k.target <= g /\ LinkCondition(k, cursors)
    BY <1>1, <1>2, <1>3 DEF InductiveInvariant, SinglePath
  <2>2. k = l
    BY <1>1, <1>2, <2>1, TakenOnce DEF Outgoing, Reached
  <2> QED BY <1>1, <2>1, <2>2 DEF FINAL, Fields
<1>4. \A g \in Fields : WellFormed(g) => g <= e
  BY <1>1, <1>3 DEF Fields
<1> QED BY <1>1, <1>2, <1>4

(* If sequences have sizes in bytes, that field ends with the verified part. *)
LEMMA PathEnd ==
    ASSUME SequencesInBytes,
           InductiveInvariant, NEW l \in Incoming(FINAL), SourceReady(l), LinkCondition(l, cursors)
    PROVE  verified_last = cursors[l.source].Last
<1> DEFINE e == l.source
<1>1. l \in Links /\ e \in Fields /\ WellFormed(e) /\ l \in Outgoing(e) /\ l.target = FINAL
  BY PathLast DEF Incoming, Outgoing
<1>2. ValidNext(e) /\ FieldFirst(e) = cursors[e].First /\ FieldSize(e) = Size(cursors[e])
  BY <1>1, WellFormedPosition
<1>3. FieldLast(e) % 8 = 0
  BY <1>1, <1>2, FieldAligned
<1>4. cursors[e].First \in Nat /\ cursors[e].Last \in Nat
  BY <1>1 DEF InductiveInvariant, TypeOK, FieldCursor
<1>5. FieldLast(e) = cursors[e].Last
  BY <1>2, <1>4 DEF FieldLast, Size
<1> QED BY <1>3, <1>4, <1>5, ByteEndBounds DEF InductiveInvariant, MessageEnd

(* The first field of the path is the target of the link out of the initial node. *)
LEMMA PathStart ==
    ASSUME InductiveInvariant, NEW f \in Fields, WellFormed(f)
    PROVE  \E l \in Outgoing(INITIAL) :
             l.target \in Fields /\ WellFormed(l.target) /\ LinkCondition(l, cursors)
<1> DEFINE T == {g \in Fields : WellFormed(g)}
<1>1. T \subseteq Nat /\ T # {}
  BY DEF Fields
<1>2. PICK m \in T : \A g \in T : m <= g
  <2> HIDE DEF T
  <2> QED BY <1>1, LeastNatural
<1>3. m \in Fields /\ WellFormed(m)
  OBVIOUS
<1>4. PICK l \in Incoming(m) : (l.source = INITIAL \/ SourceReady(l)) /\ LinkCondition(l, cursors)
  BY <1>3 DEF InductiveInvariant, ValidContext, ValidPredecessorsInvariant
<1>5. l \in Links /\ l.target = m /\ l.source < m /\ l.source \in {INITIAL} \cup Fields
  BY LinksAssumption DEF Incoming, LinkType
<1>6. l.source = INITIAL
  <2> SUFFICES ASSUME l.source # INITIAL PROVE FALSE
    OBVIOUS
  <2>1. WellFormed(l.source)
    BY <1>4 DEF SourceReady, WellFormed, Valid
  <2> QED BY <1>2, <1>5, <2>1 DEF Fields
<1> QED BY <1>3, <1>4, <1>5, <1>6 DEF Outgoing

(* The next field of the path. *)
LEMMA PathNext ==
    ASSUME InductiveInvariant, NEW n \in {INITIAL} \cup Fields, n # INITIAL => WellFormed(n),
           NEW e \in Fields, WellFormed(e), n < e
    PROVE  \E l \in Outgoing(n) :
             l.target \in Fields /\ WellFormed(l.target) /\ LinkCondition(l, cursors)
<1>1. CASE n = INITIAL
  BY <1>1, PathStart
<1>2. CASE n # INITIAL
  <2>1. PICK l \in Outgoing(n) : l.target <= e /\ WellFormed(l.target) /\ LinkCondition(l, cursors)
    BY <1>2 DEF InductiveInvariant, SinglePath
  <2>2. l.target \in Fields
    BY <2>1, LinksAssumption DEF Outgoing, LinkType, FINAL, Fields
  <2> QED BY <2>1, <2>2
<1> QED BY <1>1, <1>2

(* A field of implicit size ends with the message. *)
LEMMA ImplicitEnd ==
    ASSUME NoOverlays, SequencesInBytes, InductiveInvariant,
           NEW k \in Incoming(FINAL), SourceReady(k), LinkCondition(k, cursors),
           NEW l \in Links, l.implicit, l.target \in Fields, WellFormed(l.target),
           l.source # INITIAL => WellFormed(l.source), LinkCondition(l, cursors)
    PROVE  verified_last = written_last
<1> DEFINE f == l.target
<1>1. k \in Links /\ k.source \in Fields /\ WellFormed(k.source) /\ f <= k.source
      /\ verified_last = cursors[k.source].Last
  BY PathLast, PathEnd
<1>2. f = k.source
  <2> SUFFICES ASSUME f < k.source PROVE FALSE
    BY <1>1 DEF Fields
  <2>1. PICK j \in Outgoing(f) : j.target <= k.source
    BY <1>1 DEF InductiveInvariant, SinglePath
  <2>2. j.target = FINAL
    BY <2>1, ImplicitAssumption DEF Outgoing
  <2> QED BY <1>1, <2>1, <2>2 DEF FINAL, Fields
<1>3. f # FINAL /\ LinkApplies(l)
  BY DEF LinkApplies, FINAL, Fields
<1>4. Size(cursors[f]) = TargetSize(l) /\ cursors[f].First = TargetFirst(l)
  BY <1>3 DEF InductiveInvariant, ValidContext, MessageStructureInvariant
<1>5. l.source \in {INITIAL} \cup Fields
  BY LinksAssumption DEF LinkType
<1>6. TargetFirst(l) = SourceLast(l) + 1 /\ SourceLast(l) \in Int
  BY <1>5 DEF TargetFirst, SourceLast, NoOverlays, InductiveInvariant, TypeOK, FieldCursor
<1>7. TargetSize(l) = written_last - SourceLast(l)
  BY DEF TargetSize
<1>8. /\ cursors[f].First \in Nat /\ cursors[f].Last \in Nat /\ written_last \in Nat
      /\ Size(cursors[f]) = cursors[f].Last - cursors[f].First + 1
  BY DEF InductiveInvariant, TypeOK, FieldCursor, Size
<1> QED BY <1>1, <1>2, <1>4, <1>6, <1>7, <1>8

(* The parser looks for the next field where Field_First and Field_Size do. *)
LEMMA SamePlace ==
    ASSUME NoOverlays, InductiveInvariant, NEW r, Follows(r), NEW l \in Outgoing(r.field),
           NEW end, l.implicit => end = written_last
    PROVE  /\ RefStart(l, r.first, r.last) = TargetFirst(l)
           /\ RefSize(l, r.values, r.last, end) = TargetSize(l)
<1>1. l \in Links /\ l.source = r.field /\ ~l.overlay
  BY DEF Outgoing, NoOverlays
<1>2. r.last = SourceLast(l) /\ TargetFirst(l) = RefStart(l, r.first, r.last)
  BY <1>1 DEF Follows, SourceLast, TargetFirst, RefStart
<1>3. CASE ~l.implicit
  BY <1>1, <1>2, <1>3, FollowsLinks DEF RefSize, TargetSize
<1>4. CASE l.implicit
  BY <1>2, <1>4 DEF RefSize, TargetSize
<1> QED BY <1>2, <1>3, <1>4

(* It has the values of all fields before the next one. *)
LEMMA SameValues ==
    ASSUME InductiveInvariant, NEW r, Follows(r), NEW l \in Outgoing(r.field),
           l.target \in Fields, LinkCondition(l, cursors), NEW g \in Fields, g < l.target
    PROVE  r.values[g] = FieldValue(g)
<1> DEFINE n == r.field
<1>1. l \in Links /\ l.source = n
  BY DEF Outgoing
<1>2. n \in {INITIAL} \cup Fields /\ (n # INITIAL => WellFormed(n)) /\ n \in Int /\ g \in Int
  BY DEF Follows, INITIAL, Fields
<1>3. r.values[g] = IF g <= n THEN FieldValue(g) ELSE 0
  BY DEF Follows
<1>4. ASSUME n < g PROVE FieldValue(g) = 0
  <2>1. Followed(l)
    BY <1>1, <1>2, TakenFollowed DEF InductiveInvariant
  <2>2. ~WellFormed(g)
    BY <1>1, <1>2, <1>4, <2>1, NoneBetween DEF Fields
  <2>3. Invalid(g)
    BY <2>2 DEF InductiveInvariant, TypeOK, FieldCursor, CursorState, WellFormed, Invalid
  <2> QED BY <2>3 DEF InductiveInvariant, StateInvariant, FieldValue
<1> QED BY <1>2, <1>3, <1>4

(* At most one link can be taken: the parser takes it. *)
LEMMA TakenLink ==
    ASSUME InductiveInvariant, NEW r, Follows(r), NEW l \in Outgoing(r.field), LinkCondition(l, cursors)
    PROVE  /\ Taken(r.field, r.values) = {l}
           /\ (CHOOSE k \in Taken(r.field, r.values) : TRUE) = l
<1>1. Taken(r.field, r.values) = {k \in Outgoing(r.field) : LinkCondition(k, cursors)}
  BY FollowsLinks
<1>2. Taken(r.field, r.values) = {l}
  BY <1>1, TakenOnce DEF Outgoing, Follows, Reached
<1> QED BY <1>2

(* The parser takes the next field that the context has. *)
LEMMA NextFollows ==
    ASSUME NoOverlays, InductiveInvariant, BufferInvariant, NEW r, Follows(r),
           NEW l \in Outgoing(r.field), l.target \in Fields, WellFormed(l.target), LinkCondition(l, cursors),
           NEW end \in Nat, l.implicit => end = written_last, cursors[l.target].Last <= end
    PROVE  LET q == RefStep(buffer, end, r) IN Follows(q) /\ q.field > r.field
<1> DEFINE n == r.field
           f == l.target
           c == cursors[f]
<1>1. l \in Links /\ l.source = n /\ n < f /\ f \in Fields /\ f # FINAL
  BY LinksAssumption DEF Outgoing, FINAL, Fields
<1>2. n \in {INITIAL} \cup Fields /\ (n # INITIAL => WellFormed(n))
  BY DEF Follows
<1>3. Taken(n, r.values) # {} /\ (CHOOSE i \in Taken(n, r.values) : TRUE) = l
  BY TakenLink
<1>4. LinkApplies(l)
  BY <1>1, <1>2 DEF LinkApplies
<1>5. RefStart(l, r.first, r.last) = c.First /\ RefSize(l, r.values, r.last, end) = Size(c)
  BY <1>1, <1>4, SamePlace DEF InductiveInvariant, ValidContext, MessageStructureInvariant
<1>6. /\ c.First \in Nat /\ c.Last \in Nat /\ c.Value \in Nat
      /\ Size(c) = c.Last - c.First + 1 /\ c.First + Size(c) - 1 = c.Last
  BY <1>1 DEF InductiveInvariant, TypeOK, FieldCursor, Size
<1>7. ValidValue(f, c.Value)
  BY <1>1 DEF InductiveInvariant, ValidContext, CursorsInvariant
<1>8. f \notin Composite => Extract(buffer, c.First, c.Last) = c.Value
  <2> SUFFICES ASSUME f \notin Composite PROVE Extract(buffer, c.First, c.Last) = c.Value
    OBVIOUS
  <2>1. f \in Scalars \cap NotOverlaid
    BY <1>1 DEF Scalars, NotOverlaid, NoOverlays
  <2>2. Valid(f)
    BY <2>1 DEF InductiveInvariant, StateInvariant, WellFormed, Valid
  <2> QED BY <2>1, <2>2 DEF BufferInvariant, ValuesInBuffer
<1> DEFINE q == [verdict |-> "parsing", field |-> f, first |-> c.First, last |-> c.Last,
                 values |-> [r.values EXCEPT ![f] = FieldValue(f)]]
<1>9. r.verdict = "parsing" /\ r \in RefState
  BY DEF Follows
<1>10. RefStep(buffer, end, r) = q
  <2> DEFINE x == IF f \in Composite THEN 0 ELSE Extract(buffer, c.First, c.Last)
  <2>1. ValidValue(f, x)
    BY <1>7, <1>8 DEF ValidValue, Scalars
  <2>2. (IF f \in Composite THEN c.Last - c.First + 1 ELSE x) = FieldValue(f)
    BY <1>6, <1>8 DEF FieldValue
  <2>3. ~(c.Last > end)
    BY <1>6
  <2>4. RefStart(l, r.first, r.last) + RefSize(l, r.values, r.last, end) - 1 = c.Last
    BY <1>5, <1>6
  <2> QED BY <1>1, <1>3, <1>5, <1>9, <2>1, <2>2, <2>3, <2>4 DEF RefStep
<1>11. FieldValue(f) \in Int
  BY <1>6 DEF FieldValue
<1>12. q \in RefState
  BY <1>1, <1>6, <1>9, <1>11 DEF RefState, Fields
<1>13. ASSUME NEW g \in Fields
       PROVE  q.values[g] = IF g <= f THEN FieldValue(g) ELSE 0
  <2>1. q.values[g] = IF g = f THEN FieldValue(f) ELSE r.values[g]
    BY <1>1, <1>9 DEF RefState
  <2>2. g < f => r.values[g] = FieldValue(g)
    BY <1>1, SameValues
  <2>3. g > f => r.values[g] = 0
    BY <1>1, <1>2 DEF Follows, INITIAL, Fields
  <2> QED BY <1>1, <2>1, <2>2, <2>3 DEF Fields
<1>14. Follows(q)
  <2>1. q.field # INITIAL
    BY <1>1 DEF INITIAL, Fields
  <2> QED BY <1>1, <1>12, <1>13, <2>1 DEF Follows
<1> QED BY <1>1, <1>10, <1>14

(* The parser goes on in S, field after field, until it comes to a verdict. *)
Advances(S, b, end) ==
    /\ \A r \in S : r.verdict = "parsing" => r.field \in 0 .. NumFields
    /\ \A r \in S : r.verdict = "parsing" =>
          /\ RefStep(b, end, r) \in S
          /\ RefStep(b, end, r).verdict = "parsing" => RefStep(b, end, r).field > r.field

LEMMA ReferenceEnds ==
    ASSUME NEW S, NEW b, NEW fst, NEW end, RefInitial(fst) \in S, Advances(S, b, end)
    PROVE  Reference(b, fst, end) \in S /\ Reference(b, fst, end).verdict # "parsing"
<1> DEFINE Step(r) == RefStep(b, end, r)
           step == [n \in 1 .. FINAL |-> [r \in S |-> Step(r)]]
           Eq(q) == q = [n \in 0 .. FINAL |-> IF n = 0 THEN RefInitial(fst) ELSE Step(q[n - 1])]
           h == CHOOSE q : Eq(q)
<1>1. FINAL \in Nat /\ NumFields \in Nat /\ FINAL = NumFields + 1
  BY ConstantsAssumption DEF FINAL
<1>2. \A r \in S : r.verdict # "parsing" => Step(r) = r
  BY DEF RefStep
<1>3. \A r \in S : Step(r) \in S
  <2>1. \A r \in S : r.verdict = "parsing" => Step(r) \in S
    BY DEF Advances
  <2> HIDE DEF Step
  <2> QED BY <1>2, <2>1
<1>4. step \in [1 .. FINAL -> [S -> S]]
  <2> HIDE DEF Step
  <2> QED BY <1>3
<1>5. PICK p : Recursion(p, FINAL, S, RefInitial(fst), step)
  <2> HIDE DEF step
  <2> QED BY <1>1, <1>4, RecursiveFunction
<1>6. /\ p \in [0 .. FINAL -> S] /\ p[0] = RefInitial(fst)
      /\ \A n \in 1 .. FINAL : p[n] = Step(p[n - 1])
  <2>1. p \in [0 .. FINAL -> S] /\ p[0] = RefInitial(fst) /\ \A n \in 1 .. FINAL : p[n] = step[n][p[n - 1]]
    <3> HIDE DEF step
    <3> QED BY <1>5 DEF Recursion
  <2>2. \A n \in 1 .. FINAL : n - 1 \in 0 .. FINAL
    BY <1>1
  <2> HIDE DEF Step
  <2> QED BY <2>1, <2>2
<1>7. Eq(p)
  <2> HIDE DEF Step
  <2> QED BY <1>1, <1>6
<1>8. Eq(h)
  <2> HIDE DEF Eq
  <2> QED BY <1>7
<1>9. Reference(b, fst, end) = h[FINAL]
  BY DEF Reference
<1> HIDE DEF h
<1> DEFINE D == {n \in Nat : n <= FINAL => /\ h[n] = p[n]
                                           /\ p[n].verdict = "parsing" => p[n].field >= n}
<1>10. 0 \in D
  <2>1. h[0] = p[0]
    <3> HIDE DEF Step
    <3> QED BY <1>1, <1>6, <1>8
  <2>2. p[0].field = 0
    BY <1>6 DEF RefInitial, INITIAL
  <2> QED BY <2>1, <2>2
<1>11. ASSUME NEW n \in Nat, n \in D PROVE n + 1 \in D
  <2> SUFFICES ASSUME n + 1 <= FINAL
               PROVE  h[n + 1] = p[n + 1] /\ (p[n + 1].verdict = "parsing" => p[n + 1].field >= n + 1)
    OBVIOUS
  <2>1. n + 1 \in 1 .. FINAL /\ n \in 0 .. FINAL /\ (n + 1) - 1 = n /\ n + 1 \in 0 .. FINAL /\ n + 1 # 0
    BY <1>1
  <2>2. h[n] = p[n] /\ (p[n].verdict = "parsing" => p[n].field >= n)
    BY <1>1, <1>11
  <2>3. h[n + 1] = Step(h[n]) /\ p[n + 1] = Step(p[n]) /\ p[n] \in S /\ p[n + 1] \in S
    <3> HIDE DEF Step
    <3> QED BY <1>6, <1>8, <2>1
  <2>4. CASE p[n].verdict # "parsing"
    BY <1>2, <2>2, <2>3, <2>4
  <2>5. CASE p[n].verdict = "parsing"
    <3>1. /\ p[n].field \in 0 .. NumFields
          /\ p[n + 1].verdict = "parsing" => p[n + 1].field \in 0 .. NumFields /\ p[n + 1].field > p[n].field
      BY <2>3, <2>5 DEF Advances
    <3> QED BY <2>2, <2>3, <2>5, <3>1
  <2> QED BY <2>4, <2>5
<1>12. FINAL \in D
  <2> HIDE DEF D
  <2> QED BY <1>1, <1>10, <1>11, InductiveSet
<1>13. h[FINAL] = p[FINAL] /\ (p[FINAL].verdict = "parsing" => p[FINAL].field >= FINAL) /\ p[FINAL] \in S
  BY <1>1, <1>6, <1>12
<1>14. p[FINAL].verdict # "parsing"
  BY <1>1, <1>13 DEF Advances
<1> QED BY <1>9, <1>13, <1>14

(* The parser starts at the beginning of the path. *)
LEMMA InitialFollows == ASSUME InductiveInvariant PROVE Follows(RefInitial(first))
<1>1. first \in Int
  BY DEF InductiveInvariant, TypeOK
<1>2. RefInitial(first) \in RefState
  BY <1>1 DEF RefInitial, RefState, INITIAL
<1>3. \A g \in Fields : ~(g <= INITIAL)
  BY DEF Fields, INITIAL
<1> QED BY <1>2, <1>3 DEF Follows, RefInitial

(* At the end of the path the parser accepts. *)
LEMMA ReparseEnd ==
    ASSUME SequencesInBytes, InductiveInvariant, NEW r, Follows(r),
           NEW k \in Incoming(FINAL), SourceReady(k), LinkCondition(k, cursors), r.field = k.source
    PROVE  LET q == RefStep(buffer, verified_last, r) IN q \in RefState /\ Accepted(q)
<1> DEFINE n == r.field
<1>1. /\ n \in Fields /\ verified_last = cursors[n].Last
      /\ \A g \in Fields : WellFormed(g) => g <= n
  BY PathLast, PathEnd
<1>2. k.target = FINAL /\ k \in Outgoing(n)
  BY DEF Incoming, Outgoing
<1>3. Taken(n, r.values) # {} /\ (CHOOSE i \in Taken(n, r.values) : TRUE) = k
  BY <1>2, TakenLink
<1>4. r.verdict = "parsing" /\ r \in RefState
  BY DEF Follows
<1>5. RefStep(buffer, verified_last, r) = [r EXCEPT !.verdict = "accepted"]
  BY <1>2, <1>3, <1>4 DEF RefStep
<1>6. r.last = verified_last
  BY <1>1 DEF Follows, INITIAL, Fields
<1>7. \A f \in Scalars : Valid(f) => r.values[f] = cursors[f].Value
  BY <1>1 DEF Follows, FieldValue, Scalars, Valid, WellFormed
<1> QED BY <1>4, <1>5, <1>6, <1>7 DEF RefState, Accepted

(* The reference parser finds the message that the context holds. *)
LEMMA ReparseAccepts ==
    ASSUME NoOverlays, SequencesInBytes, InductiveInvariant, BufferInvariant
    PROVE  ReparseAgrees
<1> SUFFICES ASSUME WellFormedMessage PROVE Accepted(Reference(buffer, first, verified_last))
  BY DEF ReparseAgrees, Accepted
<1>1. PICK k \in Incoming(FINAL) : SourceReady(k) /\ LinkCondition(k, cursors)
  BY DEF WellFormedMessage
<1> DEFINE S == {r \in RefState : Follows(r) \/ Accepted(r)}
           Step(r) == RefStep(buffer, verified_last, r)
<1>2. RefInitial(first) \in S
  BY InitialFollows DEF Follows
<1>3. ASSUME NEW r \in S, r.verdict = "parsing"
      PROVE  r.field \in 0 .. NumFields /\ Step(r) \in S /\ (Step(r).verdict = "parsing" => Step(r).field > r.field)
  <2>1. Follows(r)
    BY <1>3 DEF Accepted
  <2>2. r.field \in {INITIAL} \cup Fields /\ (r.field # INITIAL => WellFormed(r.field)) /\ r.field \in 0 .. NumFields
    BY <2>1, ConstantsAssumption DEF Follows, INITIAL, Fields
  <2>3. CASE r.field = k.source
    <3>1. Step(r) \in RefState /\ Accepted(Step(r))
      BY <1>1, <2>1, <2>3, ReparseEnd
    <3> HIDE DEF Step
    <3> QED BY <2>2, <3>1 DEF Accepted
  <2>4. CASE r.field # k.source
    <3>1. k.source \in Fields /\ WellFormed(k.source) /\ r.field < k.source
      BY <1>1, <2>2, <2>4, PathLast DEF INITIAL, Fields
    <3>2. PICK l \in Outgoing(r.field) : l.target \in Fields /\ WellFormed(l.target) /\ LinkCondition(l, cursors)
      BY <2>2, <3>1, PathNext
    <3>3. l.implicit => verified_last = written_last
      BY <1>1, <2>2, <3>2, ImplicitEnd DEF Outgoing
    <3>4. verified_last \in Nat /\ cursors[l.target].Last <= verified_last
      BY <3>2 DEF InductiveInvariant, TypeOK, ValidContext, CursorsInvariant
    <3>5. Follows(Step(r)) /\ Step(r).field > r.field
      BY <2>1, <3>2, <3>3, <3>4, NextFollows
    <3> HIDE DEF Step
    <3> QED BY <2>2, <3>5 DEF Follows
  <2> QED BY <2>3, <2>4
<1>4. Advances(S, buffer, verified_last)
  BY <1>3 DEF Advances
<1>5. Reference(buffer, first, verified_last) \in S /\ Reference(buffer, first, verified_last).verdict # "parsing"
  <2> HIDE DEF S
  <2> QED BY <1>2, <1>4, ReferenceEnds
<1> QED BY <1>5 DEF Follows

(* For every message without overlays whose sequences have sizes in bytes: the bytes that a
   context reports as a well-formed message, whatever mixture of parsing, setting and switching
   has made it, are accepted by a parser that knows only the message specification, which finds
   the same end and the same values.                                                          *)
THEOREM MessagesReparse == NoOverlays /\ SequencesInBytes => (Spec => []ReparseAgrees)
<1> SUFFICES ASSUME NoOverlays, SequencesInBytes PROVE Spec => []ReparseAgrees
  OBVIOUS
<1>1. SequencesNotOverlaid
  BY ConstantsAssumption DEF SequencesNotOverlaid, NoOverlays, NotOverlaid
<1>2. Spec => []BufferInvariant
  BY <1>1, BufferInductive
<1>3. InductiveInvariant /\ BufferInvariant => ReparseAgrees
  BY ReparseAccepts
<1> QED BY <1>2, <1>3, ContextInductive, PTL

-----------------------------------------------------------------------------
(* Verify_Message.                                                         *)

(* The bit after the buffer has an index. *)
IndicesFit == 8 * BufferLength + 1 < BitLengthLast

Incomplete(f) == cursors[f].State = "S_Incomplete"

(* A field is marked as incomplete only as long as it is the next one and bytes are missing. *)
IncompleteInvariant == \A f \in Fields : Incomplete(f) => ValidNext(f) /\ ~SufficientBufferLength(f)

(* Verify has looked at the next field f and has not accepted it. *)
Refused(f) == IF SufficientBufferLength(f) THEN ~Accepts(f) ELSE Incomplete(f)

(* What Verify_Message has achieved for the fields before n. *)
VerifiedBefore(n) == \A f \in Fields : f < n /\ ValidNext(f) /\ Invalid(f) => Refused(f)

VerifyInvariant == IncompleteInvariant /\ VerifiedBefore(todo)

(* There is one field that can be parsed next. *)
LEMMA OnlyNext ==
    ASSUME InductiveInvariant, NEW f \in Fields, ValidNext(f), Invalid(f),
           NEW g \in Fields, ValidNext(g), ~WellFormed(g)
    PROVE  f = g
<1> DEFINE k == FieldLink(f)
           l == FieldLink(g)
<1>1. k \in Links /\ k.target = f /\ Followed(k) /\ l \in Links /\ l.target = g /\ Followed(l)
  BY FieldLinkFollowed
<1>2. k.source \in {INITIAL} \cup Fields /\ l.source \in {INITIAL} \cup Fields
  BY <1>1, LinksAssumption DEF LinkType
<1>3. /\ LinkCondition(k, cursors) /\ (k.source # INITIAL => WellFormed(k.source))
      /\ LinkCondition(l, cursors) /\ (l.source # INITIAL => WellFormed(l.source))
  BY <1>1, FollowedTaken
<1>4. ~WellFormed(f)
  BY DEF WellFormed, Invalid
<1> HIDE DEF k, l
<1>5. ~(k.source < l.source)
  BY <1>1, <1>2, <1>3, <1>4, NoneBetween DEF INITIAL, Fields
<1>6. ~(l.source < k.source)
  BY <1>1, <1>2, <1>3, NoneBetween DEF INITIAL, Fields
<1>7. k.source = l.source
  BY <1>2, <1>5, <1>6 DEF INITIAL, Fields
<1> QED BY <1>1, <1>3, <1>7, TakenOnce DEF Reached

(* FieldLinkFollowed in the next state. *)
LEMMA NextLinkFollowed ==
    ASSUME NEW g \in Fields
    PROVE  (InductiveInvariant /\ ValidNext(g) =>
               FieldLink(g) \in Links /\ FieldLink(g).target = g /\ Followed(FieldLink(g)))'
<1>1. InductiveInvariant /\ ValidNext(g) =>
          FieldLink(g) \in Links /\ FieldLink(g).target = g /\ Followed(FieldLink(g))
  BY FieldLinkFollowed
<1> QED BY <1>1, PTL

(* The place of the next field depends on the links to it. *)
LEMMA SameNext ==
    ASSUME InductiveInvariant, InductiveInvariant', NEW g \in Fields, ValidNext(g),
           \A l \in Incoming(g) : /\ Followed(l)' <=> Followed(l)
                                  /\ TargetFirst(l)' = TargetFirst(l)
                                  /\ TargetSize(l)' = TargetSize(l),
           UNCHANGED <<first, written_last>>
    PROVE  /\ ValidNext(g)'
           /\ FieldFirst(g)' = FieldFirst(g) /\ FieldSize(g)' = FieldSize(g)
           /\ SufficientBufferLength(g)' <=> SufficientBufferLength(g)
<1>1. ValidNext(g)'
  BY DEF ValidNext, Incoming
<1>2. FieldLink(g) \in Links /\ FieldLink(g).target = g /\ Followed(FieldLink(g))
  BY FieldLinkFollowed
<1>3. FieldLink(g)' \in Links /\ FieldLink(g)'.target = g /\ Followed(FieldLink(g))'
  BY <1>1, NextLinkFollowed
<1>4. FieldLink(g)' \in Incoming(g) /\ Followed(FieldLink(g)') /\ FieldLink(g) \in Incoming(g)
  BY <1>1, <1>2, <1>3 DEF Incoming
<1>5. FieldLink(g)' = FieldLink(g)
  BY <1>2, <1>4, FollowedOnce DEF Incoming
<1>6. FieldFirst(g)' = FieldFirst(g) /\ FieldSize(g)' = FieldSize(g)
  BY <1>4, <1>5 DEF FieldFirst, FieldSize
<1> QED BY <1>1, <1>6 DEF SufficientBufferLength, FieldLast

(* Up to f the links lead where they led. *)
LEMMA CutNext ==
    ASSUME InductiveInvariant, InductiveInvariant', NEW f \in Fields, CutAt(f),
           UNCHANGED <<bounds, written_last>>, NEW g \in Fields, g <= f
    PROVE  /\ ValidNext(g)' <=> ValidNext(g)
           /\ ValidNext(g) => /\ FieldFirst(g)' = FieldFirst(g) /\ FieldSize(g)' = FieldSize(g)
                              /\ SufficientBufferLength(g)' <=> SufficientBufferLength(g)
<1>1. ASSUME NEW l \in Incoming(g)
      PROVE  /\ Followed(l)' <=> Followed(l)
             /\ TargetFirst(l)' = TargetFirst(l) /\ TargetSize(l)' = TargetSize(l)
  <2>1. l \in Links /\ l.source < f
    BY LinksAssumption DEF Incoming, LinkType, INITIAL, Fields
  <2>2. /\ Values(cursors', l.source) = Values(cursors, l.source)
        /\ LinkCondition(l, cursors)' = LinkCondition(l, cursors)
        /\ l.source # INITIAL => cursors'[l.source] = cursors[l.source]
        /\ SourceLast(l)' = SourceLast(l) /\ TargetFirst(l)' = TargetFirst(l)
    BY <2>1, CutKeeps
  <2>3. Followed(l)' <=> Followed(l)
    BY <2>2 DEF Followed, SourceReady, WellFormed, Valid
  <2>4. TargetSize(l)' = TargetSize(l)
    BY <2>2 DEF TargetSize, bounds
  <2> QED BY <2>2, <2>3, <2>4
<1>2. ValidNext(g)' <=> ValidNext(g)
  BY <1>1 DEF ValidNext, Incoming
<1>3. first' = first
  BY DEF bounds
<1>4. ValidNext(g) => /\ FieldFirst(g)' = FieldFirst(g) /\ FieldSize(g)' = FieldSize(g)
                      /\ SufficientBufferLength(g)' <=> SufficientBufferLength(g)
  BY <1>1, <1>3, SameNext
<1> QED BY <1>2, <1>4

(* Verify changes the next field only. *)
LEMMA VerifyCut ==
    ASSUME InductiveInvariant, NEW f \in Fields, Invalid(f), ValidNext(f),
           NEW c, cursors' = [cursors EXCEPT ![f] = c]
    PROVE  /\ CutAt(f) /\ cursors'[f] = c
           /\ \A g \in Fields : g # f => cursors'[g] = cursors[g]
<1>1. cursors'[f] = c /\ \A g \in Fields : g # f => cursors'[g] = cursors[g]
  BY DEF InductiveInvariant, TypeOK
<1>2. \A g \in Fields : g > f => Invalid(g) /\ cursors[g].Value = 0 /\ Size(cursors[g]) = 0
  BY InvalidNext DEF Fields
<1>3. \A g \in Fields : g > f \/ g < f => cursors'[g] = cursors[g]
  BY <1>1 DEF Fields
<1> QED BY <1>1, <1>2, <1>3 DEF CutAt, Invalid

LEMMA SameIncomplete ==
    ASSUME InductiveInvariant, InductiveInvariant', IncompleteInvariant,
           UNCHANGED <<bounds, written_last, cursors>>
    PROVE  IncompleteInvariant'
<1>1. ASSUME NEW g \in Fields, Incomplete(g)' PROVE ValidNext(g)' /\ ~SufficientBufferLength(g)'
  <2>1. ValidNext(g) /\ ~SufficientBufferLength(g)
    BY <1>1 DEF IncompleteInvariant, Incomplete
  <2>2. first' = first /\ written_last' = written_last
    BY DEF bounds
  <2>3. \A l \in Incoming(g) : /\ Followed(l)' <=> Followed(l)
                               /\ TargetFirst(l)' = TargetFirst(l) /\ TargetSize(l)' = TargetSize(l)
    BY DEF Followed, SourceReady, WellFormed, Valid, LinkCondition, TargetFirst, TargetSize, SourceLast, bounds
  <2> QED BY <2>1, <2>2, <2>3, SameNext
<1> QED BY <1>1 DEF IncompleteInvariant

(* Verify marks a field as incomplete if and only if bytes of it are missing. *)
LEMMA VerifyIncomplete ==
    ASSUME InductiveInvariant, InductiveInvariant', IncompleteInvariant, NEW f \in Fields,
           VerifyField(f), UNCHANGED <<bounds, written_last>>
    PROVE  IncompleteInvariant'
<1>1. CASE UNCHANGED cursors
  BY <1>1, SameIncomplete
<1>2. ASSUME Invalid(f), ValidNext(f), NEW c, cursors' = [cursors EXCEPT ![f] = c],
             c.State = "S_Incomplete" => ~SufficientBufferLength(f)
      PROVE  IncompleteInvariant'
  <2>1. CutAt(f) /\ cursors'[f] = c /\ \A g \in Fields : g # f => cursors'[g] = cursors[g]
    BY <1>2, VerifyCut
  <2>2. ASSUME NEW g \in Fields, Incomplete(g)' PROVE ValidNext(g)' /\ ~SufficientBufferLength(g)'
    <3>1. g = f
      <4> SUFFICES ASSUME g # f PROVE FALSE
        OBVIOUS
      <4>1. Incomplete(g)
        BY <2>1, <2>2 DEF Incomplete
      <4>2. ValidNext(g) /\ ~WellFormed(g)
        BY <4>1 DEF IncompleteInvariant, Incomplete, WellFormed
      <4> QED BY <1>2, <4>2, OnlyNext
    <3>2. ~SufficientBufferLength(f)
      BY <1>2, <2>1, <2>2, <3>1 DEF Incomplete
    <3>3. f <= f
      BY DEF Fields
    <3> QED BY <1>2, <2>1, <3>1, <3>2, <3>3, CutNext
  <2> QED BY <2>2 DEF IncompleteInvariant
<1>3. ResetCursor.State # "S_Incomplete" /\ ParsedCursor(f).State # "S_Incomplete"
  BY DEF ResetCursor, ParsedCursor
<1> QED BY <1>1, <1>2, <1>3 DEF VerifyField

(* A step that leaves the context alone leaves the refused fields refused. *)
LEMMA SameRefused ==
    ASSUME InductiveInvariant, InductiveInvariant', NEW CONSTANT n, VerifiedBefore(n),
           UNCHANGED <<buffer, bounds, written_last, cursors>>
    PROVE  VerifiedBefore(n)'
<1> SUFFICES ASSUME NEW g \in Fields, g < n, ValidNext(g)', Invalid(g)' PROVE Refused(g)'
  BY DEF VerifiedBefore
<1>1. first' = first
  BY DEF bounds
<1>2. \A l \in Incoming(g) : /\ Followed(l)' <=> Followed(l)
                             /\ TargetFirst(l)' = TargetFirst(l) /\ TargetSize(l)' = TargetSize(l)
  BY DEF Followed, SourceReady, WellFormed, Valid, LinkCondition, TargetFirst, TargetSize, SourceLast, bounds
<1>3. ValidNext(g) /\ Invalid(g)
  BY <1>2 DEF ValidNext, Invalid, Incoming
<1>4. Refused(g)
  BY <1>3 DEF VerifiedBefore
<1>5. /\ FieldFirst(g)' = FieldFirst(g) /\ FieldSize(g)' = FieldSize(g)
      /\ SufficientBufferLength(g)' <=> SufficientBufferLength(g)
  BY <1>1, <1>2, <1>3, SameNext
<1>6. ParsedCursor(g)' = ParsedCursor(g)
  BY <1>5 DEF ParsedCursor, FieldLast
<1>7. Accepts(g)' <=> Accepts(g)
  BY <1>6 DEF Accepts, FieldCondition, LinkCondition, ValidValue, Outgoing, bounds
<1> QED BY <1>4, <1>5, <1>7 DEF Refused, Incomplete

(* It has then accepted or refused the field. *)
LEMMA VerifyRefuses ==
    ASSUME InductiveInvariant, InductiveInvariant', NEW f \in Fields, VerifiedBefore(f),
           VerifyField(f), UNCHANGED <<buffer, bounds, written_last>>
    PROVE  VerifiedBefore(f + 1)'
<1> SUFFICES ASSUME NEW g \in Fields, g <= f, ValidNext(g)', Invalid(g)' PROVE Refused(g)'
  BY DEF VerifiedBefore, Fields
<1>0. f <= f /\ first' = first /\ (g < f \/ g = f)
  BY DEF Fields, bounds
<1>1. CASE UNCHANGED cursors /\ ~(Invalid(f) /\ ValidNext(f))
  <2>1. VerifiedBefore(f)'
    BY <1>1, SameRefused
  <2>2. g # f
    <3>1. \A l \in Incoming(f) : Followed(l)' <=> Followed(l)
      BY <1>1 DEF Followed, SourceReady, WellFormed, Valid, LinkCondition, bounds
    <3> QED BY <1>1, <3>1 DEF ValidNext, Invalid, Incoming
  <2> QED BY <1>0, <2>1, <2>2 DEF VerifiedBefore
<1>2. ASSUME Invalid(f), ValidNext(f), NEW c, cursors' = [cursors EXCEPT ![f] = c],
             \/ c.State \in {"S_Valid", "S_Well_Formed"}
             \/ SufficientBufferLength(f) /\ ~Accepts(f)
             \/ ~SufficientBufferLength(f) /\ c.State = "S_Incomplete"
      PROVE  Refused(g)'
  <2>1. CutAt(f) /\ cursors'[f] = c /\ \A h \in Fields : h # f => cursors'[h] = cursors[h]
    BY <1>2, VerifyCut
  <2>2. ValidNext(g)
    BY <2>1, CutNext
  <2>3. g = f
    <3> SUFFICES ASSUME g # f PROVE FALSE
      OBVIOUS
    <3>1. ~WellFormed(g)
      BY <2>1 DEF Invalid, WellFormed
    <3> QED BY <1>2, <2>2, <3>1, OnlyNext
  <2>4. /\ FieldFirst(f)' = FieldFirst(f) /\ FieldSize(f)' = FieldSize(f)
        /\ SufficientBufferLength(f)' <=> SufficientBufferLength(f)
    BY <1>0, <1>2, <2>1, CutNext
  <2>5. ParsedCursor(f)' = ParsedCursor(f)
    BY <2>4 DEF ParsedCursor, FieldLast
  <2>6. \A d : [cursors' EXCEPT ![f] = d] = [cursors EXCEPT ![f] = d]
    BY <1>2 DEF InductiveInvariant, TypeOK
  <2>7. Accepts(f)' <=> Accepts(f)
    BY <2>5, <2>6 DEF Accepts, FieldCondition, LinkCondition, ValidValue, Outgoing, bounds
  <2>8. c.State \notin {"S_Valid", "S_Well_Formed"}
    BY <2>1, <2>3 DEF Invalid
  <2> QED BY <1>2, <2>1, <2>3, <2>4, <2>7, <2>8 DEF Refused, Incomplete
<1>3. ParsedCursor(f).State \in {"S_Valid", "S_Well_Formed"} /\ IncompleteCursor.State = "S_Incomplete"
  BY DEF ParsedCursor, IncompleteCursor, ResetCursor
<1> QED BY <1>1, <1>2, <1>3 DEF VerifyField

(* The procedures that set a field leave no field marked as incomplete. *)
LEMMA SetIncomplete ==
    ASSUME InductiveInvariant, IncompleteInvariant, NEW f \in Fields, ValidNext(f) \/ WellFormed(f),
           NEW c, c.State # "S_Incomplete", ResetDependentFields(f, c)
    PROVE  IncompleteInvariant'
<1>1. \A g \in Fields : cursors'[g] = IF g < f THEN cursors[g] ELSE IF g = f THEN c ELSE ResetCursor
  BY DEF ResetDependentFields
<1>2. ASSUME NEW g \in Fields, Incomplete(g)' PROVE FALSE
  <2>1. g < f /\ Incomplete(g)
    BY <1>1, <1>2 DEF Incomplete, ResetCursor
  <2>2. ValidNext(g) /\ Invalid(g) /\ f >= g
    BY <2>1 DEF IncompleteInvariant, Incomplete, Invalid, Fields
  <2>3. ~WellFormed(f)
    BY <2>2, InvalidNext
  <2>4. f = g
    BY <2>2, <2>3, OnlyNext
  <2> QED BY <2>1, <2>4 DEF Fields
<1> QED BY <1>2 DEF IncompleteInvariant

(* Update_F with a complete sequence changes nothing that the links refer to. *)
LEMMA UpdateIncomplete ==
    ASSUME InductiveInvariant, InductiveInvariant', IncompleteInvariant, NEW f \in Fields,
           NEW complete, NEW d, Update(f, complete, d)
    PROVE  IncompleteInvariant'
<1>1. WellFormed(f) /\ f \in Composite /\ cursors \in [Fields -> FieldCursor]
  BY ConstantsAssumption
     DEF Update, InductiveInvariant, HolderInvariant, TypeOK, CALLER, CONTEXT, Fields
<1>2. CASE ResetDependentFields(f, ResetCursor)
  <2>1. ResetCursor.State # "S_Incomplete"
    BY DEF ResetCursor
  <2> QED BY <1>1, <1>2, <2>1, SetIncomplete
<1>3. CASE cursors' = [cursors EXCEPT ![f].State = "S_Valid"]
  <2>1. \A g \in Fields : /\ g # f => cursors'[g] = cursors[g]
                          /\ cursors'[g].First = cursors[g].First /\ cursors'[g].Last = cursors[g].Last
                          /\ cursors'[g].Value = cursors[g].Value
    BY <1>1, <1>3 DEF FieldCursor
  <2>2. WellFormed(f)'
    BY <1>1, <1>3 DEF WellFormed, FieldCursor
  <2>3. ASSUME NEW l \in Links
        PROVE  /\ Followed(l)' <=> Followed(l)
               /\ TargetFirst(l)' = TargetFirst(l) /\ TargetSize(l)' = TargetSize(l)
    <3>1. l.source \in {INITIAL} \cup Fields
      BY LinksAssumption DEF LinkType
    <3>2. \A g \in 1 .. l.source : g \in Fields
      BY <3>1 DEF INITIAL, Fields
    <3>3. Values(cursors', l.source) = Values(cursors, l.source)
      BY <2>1, <3>2 DEF Values, Size
    <3>4. parameters' = parameters /\ first' = first /\ written_last' = written_last
      BY DEF Update, bounds
    <3>5. l.source # INITIAL => (SourceReady(l)' <=> SourceReady(l))
      BY <1>1, <2>1, <2>2, <3>1 DEF SourceReady, WellFormed, Valid
    <3>6. LinkCondition(l, cursors)' = LinkCondition(l, cursors)
      BY <3>3, <3>4 DEF LinkCondition
    <3>7. SourceLast(l)' = SourceLast(l) /\ TargetFirst(l)' = TargetFirst(l)
      BY <2>1, <3>1, <3>4 DEF SourceLast, TargetFirst
    <3>8. TargetSize(l)' = TargetSize(l)
      BY <3>3, <3>4, <3>7 DEF TargetSize
    <3> QED BY <3>5, <3>6, <3>7, <3>8 DEF Followed
  <2>4. ASSUME NEW g \in Fields, Incomplete(g)' PROVE ValidNext(g)' /\ ~SufficientBufferLength(g)'
    <3>1. g # f
      BY <2>2, <2>4 DEF WellFormed, Incomplete
    <3>2. ValidNext(g) /\ ~SufficientBufferLength(g)
      BY <2>1, <2>4, <3>1 DEF IncompleteInvariant, Incomplete
    <3>3. first' = first /\ written_last' = written_last
      BY DEF Update, bounds
    <3> QED BY <2>3, <3>2, <3>3, SameNext DEF Incoming
  <2> QED BY <2>4 DEF IncompleteInvariant
<1> QED BY <1>2, <1>3 DEF Update

(* Every call keeps the marks of incomplete fields right. *)
LEMMA IncompleteStep ==
    ASSUME InductiveInvariant, InductiveInvariant', IncompleteInvariant, [Next]_vars
    PROVE  IncompleteInvariant'
<1>1. CASE ContextNext
  <2>1. CASE cursors' = NoCursors
    BY <2>1 DEF IncompleteInvariant, Incomplete, NoCursors, ResetCursor
  <2>2. CASE UNCHANGED <<bounds, written_last, cursors>>
    BY <2>2, SameIncomplete
  <2> QED BY <1>1, <2>1, <2>2 DEF ContextNext, Initialize, Reset, TakeBuffer, Write
<1>2. CASE ParserNext
  <2>1. ASSUME NEW f \in Fields, Verify(f) PROVE IncompleteInvariant'
    BY <2>1, VerifyIncomplete DEF Verify
  <2>2. CASE VerifyMessage
    BY <2>2, SameIncomplete DEF VerifyMessage
  <2>3. CASE VerifyMessageLoop
    <3>1. todo \in Fields
      BY <2>3 DEF VerifyMessageLoop, InductiveInvariant, TypeOK, Fields
    <3> QED BY <2>3, <3>1, VerifyIncomplete DEF VerifyMessageLoop
  <2> QED BY <1>2, <2>1, <2>2, <2>3 DEF ParserNext
<1>3. CASE SerializerNext
  <2>1. PICK f \in Fields :
           \/ f \in Scalars /\ \E v \in FieldValues[f] : SetScalar(f, v)
           \/ SetEmpty(f)
           \/ \E length \in Lengths : InitializeField(f, length)
           \/ \E length \in Lengths, d \in Contents :
                 \/ SetSequence(f, length, d)
                 \/ SetOpaque(f, length, d)
                 \/ GenericSetOpaque(f, length, d)
    BY <1>3 DEF SerializerNext
  <2>2. ValidNext(f)
    BY <2>1 DEF SetScalar, SetEmpty, InitializeField, SetSequence, SetOpaque, GenericSetOpaque,
                InitializePossible, SetPossible
  <2>3. \E state \in {"S_Valid", "S_Well_Formed"} : \E size, value :
            ResetDependentFields(f, SetCursor(f, state, size, value))
    <3>1. ASSUME NEW v, SetScalar(f, v)
          PROVE  ResetDependentFields(f, SetCursor(f, "S_Valid", FieldSize(f), v))
      BY <3>1 DEF SetScalar, Set
    <3>2. ASSUME SetEmpty(f) PROVE ResetDependentFields(f, SetCursor(f, "S_Valid", 0, 0))
      BY <3>2 DEF SetEmpty, Set
    <3>3. ASSUME NEW length, InitializePrivate(f, length)
          PROVE  ResetDependentFields(f, SetCursor(f, "S_Well_Formed", 8 * length, 0))
      BY <3>3 DEF InitializePrivate
    <3>4. ASSUME NEW length, NEW d, SetSequence(f, length, d)
          PROVE  ResetDependentFields(f, SetCursor(f, "S_Valid", 8 * length, 0))
      BY <3>4 DEF SetSequence, Set
    <3> QED BY <2>1, <3>1, <3>2, <3>3, <3>4 DEF InitializeField, SetOpaque, GenericSetOpaque
  <2>4. PICK state \in {"S_Valid", "S_Well_Formed"} :
            \E size, value : ResetDependentFields(f, SetCursor(f, state, size, value))
    BY <2>3
  <2>5. PICK size, value : ResetDependentFields(f, SetCursor(f, state, size, value))
    BY <2>4
  <2>6. SetCursor(f, state, size, value).State # "S_Incomplete"
    BY DEF SetCursor
  <2> QED BY <2>2, <2>5, <2>6, SetIncomplete
<1>4. CASE SequenceNext
  <2>1. ASSUME NEW f \in Fields, SwitchTo(f) PROVE IncompleteInvariant'
    <3>1. CASE UNCHANGED <<cursors, written_last>>
      BY <2>1, <3>1, SameIncomplete DEF SwitchTo
    <3>2. CASE ResetDependentFields(f, SetCursor(f, "S_Well_Formed", FieldSize(f), 0))
      <4>1. SetCursor(f, "S_Well_Formed", FieldSize(f), 0).State # "S_Incomplete" /\ ValidNext(f)
        BY <2>1 DEF SetCursor, SwitchTo, SetPossible
      <4> QED BY <3>2, <4>1, SetIncomplete
    <3> QED BY <2>1, <3>1, <3>2 DEF SwitchTo
  <2> QED BY <1>4, <2>1, UpdateIncomplete DEF SequenceNext
<1>5. CASE UNCHANGED vars
  BY <1>5, SameIncomplete DEF vars, bounds
<1> QED BY <1>1, <1>2, <1>3, <1>4, <1>5 DEF Next

(* Outside of Verify_Message there is no loop variable. *)
LEMMA LoopStep ==
    ASSUME InductiveInvariant, InductiveInvariant', VerifiedBefore(todo), Next
    PROVE  /\ VerifiedBefore(todo)'
           /\ todo = NumFields /\ todo' = 0 => VerifiedBefore(FINAL)' /\ UNCHANGED <<buffer, bounds, written_last>>
<1>0. NumFields \in Nat \ {0} /\ todo \in 0 .. NumFields
  BY ConstantsAssumption DEF InductiveInvariant, TypeOK
<1>1. CASE VerifyMessageLoop
  <2>1. PICK n \in Fields : n = todo
    BY <1>0, <1>1 DEF VerifyMessageLoop, Fields
  <2>2. VerifiedBefore(n + 1)'
    BY <1>1, <2>1, VerifyRefuses DEF VerifyMessageLoop
  <2>3. CASE todo = NumFields
    <3>1. todo' = 0 /\ UNCHANGED <<buffer, bounds, written_last>>
      BY <1>1, <2>3 DEF VerifyMessageLoop
    <3>2. VerifiedBefore(todo)'
      BY <3>1 DEF VerifiedBefore, Fields
    <3>3. FINAL = n + 1
      BY <2>1, <2>3 DEF FINAL
    <3> QED BY <2>2, <3>1, <3>2, <3>3
  <2>4. CASE todo # NumFields
    <3>1. todo' = n + 1 /\ todo' # 0
      BY <1>1, <2>1, <2>4 DEF VerifyMessageLoop, Fields
    <3> QED BY <2>2, <3>1 DEF VerifiedBefore
  <2> QED BY <2>3, <2>4
<1>2. CASE VerifyMessage
  <2>1. todo = 0 /\ todo' = 1
    BY <1>2 DEF VerifyMessage
  <2>2. \A f \in Fields : ~(f < 1)
    BY DEF Fields
  <2> QED BY <1>0, <2>1, <2>2 DEF VerifiedBefore
<1>3. CASE todo = 0 /\ todo' = 0
  <2>1. \A f \in Fields : ~(f < 0)
    BY DEF Fields
  <2> QED BY <1>0, <1>3, <2>1 DEF VerifiedBefore
<1>4. ContextNext \/ SerializerNext \/ SequenceNext \/ (\E f \in Fields : Verify(f)) => todo = 0 /\ todo' = 0
  <2>1. ContextNext \/ (\E f \in Fields : Verify(f)) => todo = 0 /\ todo' = 0
    BY DEF ContextNext, Initialize, Reset, TakeBuffer, Write, Verify
  <2>2. SerializerNext => todo = 0 /\ todo' = 0
    BY DEF SerializerNext, SetScalar, SetEmpty, InitializeField, SetSequence, SetOpaque,
           GenericSetOpaque, InitializePossible, SetPossible
  <2>3. SequenceNext => todo = 0 /\ todo' = 0
    BY DEF SequenceNext, SwitchTo, SetPossible, Update, InductiveInvariant, HolderInvariant
  <2> QED BY <2>1, <2>2, <2>3
<1> QED BY <1>1, <1>2, <1>3, <1>4 DEF Next, ParserNext

(* The verdict is what the context reports. *)
Judged(r) ==
    /\ r.verdict # "parsing"
    /\ r.verdict = "accepted" <=> WellFormedMessage
    /\ r.verdict = "incomplete" <=> IncompleteMessage

(* The parser has taken a field that Verify refuses, as no link can be taken after it. *)
Beyond(r) ==
    /\ r.verdict = "parsing" /\ r.field \in Fields /\ Taken(r.field, r.values) = {}
    /\ ~WellFormedMessage /\ ~IncompleteMessage

(* A link that can be followed to FINAL or to an invalid field comes from the end of the path. *)
LEMMA PathFrontier ==
    ASSUME InductiveInvariant, NEW r, Follows(r),
           ~\E l \in Outgoing(r.field) : l.target \in Fields /\ WellFormed(l.target) /\ LinkCondition(l, cursors),
           NEW k \in Links, Followed(k), k.target = FINAL \/ (k.target \in Fields /\ ~WellFormed(k.target))
    PROVE  k \in Outgoing(r.field) /\ LinkCondition(k, cursors)
<1> DEFINE n == r.field
<1>1. n \in {INITIAL} \cup Fields /\ (n # INITIAL => WellFormed(n)) /\ n \in Int
  BY DEF Follows, INITIAL, Fields
<1>2. LinkCondition(k, cursors) /\ (k.source # INITIAL => k.source \in Fields /\ WellFormed(k.source))
  BY FollowedTaken
<1>3. k.source \in Int /\ (k.target = FINAL => k.source # INITIAL)
  BY LinksAssumption DEF LinkType, INITIAL, Fields
<1>4. ~(n < k.source)
  BY <1>1, <1>2, PathNext DEF INITIAL, Fields
<1>5. ~(k.source < n)
  <2> SUFFICES ASSUME k.source < n PROVE FALSE
    OBVIOUS
  <2>1. n \in Fields /\ WellFormed(n)
    BY <1>1, <1>2 DEF INITIAL, Fields
  <2>2. CASE k.target = FINAL
    <3>1. k \in Incoming(FINAL) /\ SourceReady(k)
      BY <1>3, <2>2 DEF Incoming, Followed
    <3>2. n <= k.source
      BY <1>2, <2>1, <3>1, PathLast
    <3> QED BY <1>1, <1>3, <3>2
  <2>3. CASE k.target \in Fields /\ ~WellFormed(k.target)
    BY <2>1, <2>3, NoneBetween
  <2> QED BY <2>2, <2>3
<1> QED BY <1>1, <1>2, <1>3, <1>4, <1>5 DEF Outgoing

(* What the context reports when the parser has come to the end of the path. *)
LEMMA FrontierReports ==
    ASSUME InductiveInvariant, IncompleteInvariant, NEW r, Follows(r),
           ~\E l \in Outgoing(r.field) : l.target \in Fields /\ WellFormed(l.target) /\ LinkCondition(l, cursors)
    PROVE  /\ WellFormedMessage => \E k \in Outgoing(r.field) : LinkCondition(k, cursors) /\ k.target = FINAL
           /\ IncompleteMessage => \E k \in Outgoing(r.field) :
                 /\ LinkCondition(k, cursors) /\ k.target \in Fields
                 /\ Incomplete(k.target) /\ ~SufficientBufferLength(k.target)
<1>1. ASSUME WellFormedMessage
      PROVE  \E k \in Outgoing(r.field) : LinkCondition(k, cursors) /\ k.target = FINAL
  <2>1. PICK k \in Incoming(FINAL) : SourceReady(k) /\ LinkCondition(k, cursors)
    BY <1>1 DEF WellFormedMessage
  <2>2. k \in Links /\ k.target = FINAL /\ Followed(k)
    BY <2>1 DEF Incoming, Followed
  <2> QED BY <2>2, PathFrontier
<1>2. ASSUME IncompleteMessage
      PROVE  \E k \in Outgoing(r.field) :
                 /\ LinkCondition(k, cursors) /\ k.target \in Fields
                 /\ Incomplete(k.target) /\ ~SufficientBufferLength(k.target)
  <2>1. PICK f \in Fields : Incomplete(f)
    BY <1>2 DEF IncompleteMessage, Incomplete
  <2>2. ValidNext(f) /\ ~SufficientBufferLength(f) /\ ~WellFormed(f)
    BY <2>1 DEF IncompleteInvariant, Incomplete, WellFormed
  <2>3. FieldLink(f) \in Links /\ FieldLink(f).target = f /\ Followed(FieldLink(f))
    BY <2>2, FieldLinkFollowed
  <2>4. FieldLink(f) \in Outgoing(r.field) /\ LinkCondition(FieldLink(f), cursors)
    BY <2>2, <2>3, PathFrontier
  <2> QED BY <2>1, <2>2, <2>3, <2>4
<1> QED BY <1>1, <1>2

(* The parser comes to the field that Verify has refused. *)
LEMMA RefusedStep ==
    ASSUME NoOverlays, IndicesFit, InductiveInvariant, IncompleteInvariant, NEW r, Follows(r),
           NEW l \in Outgoing(r.field), LinkCondition(l, cursors), l.target \in Fields,
           ~WellFormed(l.target), ValidNext(l.target), Refused(l.target)
    PROVE  LET q == RefStep(buffer, written_last, r)
           IN  q \in RefState /\ (Judged(q) \/ (Beyond(q) /\ q.field > r.field))
<1> DEFINE n == r.field
           f == l.target
           c == ParsedCursor(f)
           x == IF f \in Composite THEN 0 ELSE Extract(buffer, FieldFirst(f), FieldLast(f))
           q == RefStep(buffer, written_last, r)
<1> SUFFICES q \in RefState /\ (Judged(q) \/ (Beyond(q) /\ q.field > r.field))
  OBVIOUS
<1>1. l \in Links /\ l.source = n /\ n < f /\ f \in Fields /\ f # FINAL
  BY LinksAssumption DEF Outgoing, FINAL, Fields
<1>2. r.verdict = "parsing" /\ r \in RefState /\ n \in {INITIAL} \cup Fields /\ (n # INITIAL => WellFormed(n))
  BY DEF Follows
<1>3. Taken(n, r.values) = {l} /\ (CHOOSE i \in Taken(n, r.values) : TRUE) = l
  BY TakenLink
<1>4. \A k \in Outgoing(n) : LinkCondition(k, cursors) => k = l
  BY <1>1, <1>2, TakenOnce DEF Outgoing, Reached
<1>5. FieldLink(f) = l
  <2>1. Followed(l)
    BY <1>1, <1>2, TakenFollowed DEF InductiveInvariant
  <2>2. FieldLink(f) \in Links /\ FieldLink(f).target = f /\ Followed(FieldLink(f))
    BY FieldLinkFollowed
  <2> QED BY <1>1, <2>1, <2>2, FollowedOnce
<1>6. /\ RefStart(l, r.first, r.last) = FieldFirst(f)
      /\ RefSize(l, r.values, r.last, written_last) = FieldSize(f)
  BY <1>5, SamePlace DEF FieldFirst, FieldSize
<1>7. /\ FieldFirst(f) \in Nat /\ FieldSize(f) \in Nat /\ first <= FieldFirst(f)
      /\ FieldLast(f) = FieldFirst(f) + FieldSize(f) - 1
      /\ written_last \in Nat /\ written_last <= 8 * BufferLength /\ BufferLength \in Nat
      /\ BitLengthLast \in Nat /\ last \in Nat
  BY FieldPosition, ConstantsAssumption
     DEF FieldLast, InductiveInvariant, TypeOK, ValidContext, BoundsInvariant
<1>8. SufficientBufferLength(f) <=> FieldLast(f) <= written_last
  BY <1>7 DEF SufficientBufferLength, IndicesFit
<1>9. ~\E k \in Outgoing(n) : k.target \in Fields /\ WellFormed(k.target) /\ LinkCondition(k, cursors)
  BY <1>4
<1>10. ~WellFormedMessage
  BY <1>1, <1>4, <1>9, FrontierReports
<1>11. IncompleteMessage => ~SufficientBufferLength(f)
  BY <1>4, <1>9, FrontierReports
<1>12. RefStart(l, r.first, r.last) + RefSize(l, r.values, r.last, written_last) - 1 = FieldLast(f)
  BY <1>6, <1>7
<1>13. CASE ~SufficientBufferLength(f)
  <2>1. FieldLast(f) > written_last
    BY <1>7, <1>8, <1>13
  <2>2. q = [r EXCEPT !.verdict = "incomplete"]
    BY <1>1, <1>2, <1>3, <1>12, <2>1 DEF RefStep
  <2>3. IncompleteMessage
    BY <1>13 DEF Refused, IncompleteMessage, Incomplete
  <2>4. q \in RefState /\ q.verdict = "incomplete"
    BY <1>2, <2>2 DEF RefState
  <2> HIDE DEF q
  <2> QED BY <1>10, <2>3, <2>4 DEF Judged
<1>14. CASE SufficientBufferLength(f)
  <2>1. ~(FieldLast(f) > written_last) /\ ~Accepts(f) /\ ~IncompleteMessage
    BY <1>7, <1>8, <1>11, <1>14 DEF Refused
  <2>2. c.Value = x /\ c.First = FieldFirst(f) /\ c.Last = FieldLast(f)
    BY DEF ParsedCursor
  <2>3. CASE ~ValidValue(f, x)
    <3>1. q = [r EXCEPT !.verdict = "rejected"]
      BY <1>1, <1>2, <1>3, <1>6, <1>12, <2>1, <2>3 DEF RefStep
    <3>2. q \in RefState /\ q.verdict = "rejected"
      BY <1>2, <3>1 DEF RefState
    <3> HIDE DEF q
    <3> QED BY <1>10, <2>1, <3>2 DEF Judged
  <2>4. CASE ValidValue(f, x)
    <3> DEFINE y == IF f \in Composite THEN FieldLast(f) - FieldFirst(f) + 1 ELSE x
               s == [verdict |-> "parsing", field |-> f, first |-> FieldFirst(f),
                     last |-> FieldLast(f), values |-> [r.values EXCEPT ![f] = y]]
               cs == [cursors EXCEPT ![f] = c]
    <3>1. q = s
      BY <1>1, <1>2, <1>3, <1>6, <1>12, <2>1, <2>4 DEF RefStep
    <3>2. y \in Int
      BY <1>1, <1>7, <2>4, ConstantsAssumption DEF ValidValue, Scalars
    <3>3. s \in RefState
      BY <1>1, <1>2, <1>7, <3>2 DEF RefState, Fields
    <3>4. ~FieldCondition(f, c)
      BY <2>1, <2>2, <2>4 DEF Accepts
    <3>5. ASSUME NEW g \in 1 .. f
          PROVE  s.values[g] = IF g \in Composite THEN Size(cs[g]) ELSE cs[g].Value
      <4>1. g \in Fields /\ (g < f \/ g = f)
        BY <1>1 DEF Fields
      <4>2. CASE g = f
        <5>1. cs[f] = c /\ s.values[f] = y
          BY <1>1, <1>2 DEF InductiveInvariant, TypeOK, RefState
        <5> HIDE DEF c, cs
        <5> QED BY <2>2, <4>2, <5>1 DEF Size
      <4>3. CASE g < f
        <5>1. g # f /\ cs[g] = cursors[g] /\ s.values[g] = r.values[g]
          BY <1>1, <1>2, <4>1, <4>3 DEF InductiveInvariant, TypeOK, RefState, Fields
        <5>2. r.values[g] = FieldValue(g)
          BY <1>1, <4>1, <4>3, SameValues
        <5> QED BY <5>1, <5>2 DEF FieldValue
      <4> QED BY <4>1, <4>2, <4>3
    <3> HIDE DEF s, cs, c
    <3>6. Prefix(s.values, f) = Values(cs, f)
      BY <3>5 DEF Prefix, Values
    <3>7. Taken(f, s.values) = {}
      BY <3>4, <3>6 DEF Taken, FieldCondition, LinkCondition, Outgoing, cs
    <3>8. s.verdict = "parsing" /\ s.field = f
      BY DEF s
    <3> HIDE DEF q
    <3> QED BY <1>1, <1>10, <2>1, <3>1, <3>3, <3>7, <3>8 DEF Beyond
  <2> QED BY <2>3, <2>4
<1> QED BY <1>13, <1>14

(* A step of the parser when Verify_Message has looked at all fields. *)
LEMMA VerdictStep ==
    ASSUME NoOverlays, IndicesFit, InductiveInvariant, BufferInvariant, IncompleteInvariant,
           VerifiedBefore(FINAL), NEW r, Follows(r)
    PROVE  LET q == RefStep(buffer, written_last, r)
           IN  q \in RefState /\ (Judged(q) \/ ((Beyond(q) \/ Follows(q)) /\ q.field > r.field))
<1> DEFINE n == r.field
           q == RefStep(buffer, written_last, r)
<1> SUFFICES q \in RefState /\ (Judged(q) \/ ((Beyond(q) \/ Follows(q)) /\ q.field > r.field))
  OBVIOUS
<1>1. r.verdict = "parsing" /\ r \in RefState /\ n \in {INITIAL} \cup Fields /\ (n # INITIAL => WellFormed(n))
  BY DEF Follows
<1>2. CASE ~\E l \in Outgoing(n) : LinkCondition(l, cursors)
  <2>1. Taken(n, r.values) = {}
    BY <1>2, FollowsLinks
  <2>2. q = [r EXCEPT !.verdict = "rejected"]
    BY <1>1, <2>1 DEF RefStep
  <2>3. q \in RefState /\ q.verdict = "rejected"
    BY <1>1, <2>2 DEF RefState
  <2>4. ~WellFormedMessage /\ ~IncompleteMessage
    BY <1>2, FrontierReports
  <2> HIDE DEF q
  <2> QED BY <2>3, <2>4 DEF Judged
<1>3. ASSUME NEW l \in Outgoing(n), LinkCondition(l, cursors)
      PROVE  q \in RefState /\ (Judged(q) \/ ((Beyond(q) \/ Follows(q)) /\ q.field > r.field))
  <2>1. l \in Links /\ l.source = n /\ l.target \in Fields \cup {FINAL} /\ (n = INITIAL => l.target # FINAL)
    BY LinksAssumption DEF Outgoing, LinkType
  <2>2. \A k \in Outgoing(n) : LinkCondition(k, cursors) => k = l
    BY <1>1, <1>3, <2>1, TakenOnce DEF Outgoing, Reached
  <2>3. Taken(n, r.values) = {l} /\ (CHOOSE i \in Taken(n, r.values) : TRUE) = l
    BY <1>3, TakenLink
  <2>4. Followed(l)
    BY <1>1, <1>3, <2>1, TakenFollowed DEF InductiveInvariant
  <2>5. CASE l.target = FINAL
    <3>1. q = [r EXCEPT !.verdict = "accepted"]
      BY <1>1, <2>3, <2>5 DEF RefStep
    <3>2. q \in RefState /\ q.verdict = "accepted"
      BY <1>1, <3>1 DEF RefState
    <3>3. WellFormedMessage
      BY <1>3, <2>1, <2>4, <2>5 DEF WellFormedMessage, Incoming, Followed
    <3>4. \A k \in Outgoing(n) : LinkCondition(k, cursors) => k.target \notin Fields
      BY <2>2, <2>5 DEF FINAL, Fields
    <3>5. ~IncompleteMessage
      BY <3>4, FrontierReports
    <3> HIDE DEF q
    <3> QED BY <3>2, <3>3, <3>5 DEF Judged
  <2>6. CASE l.target \in Fields /\ WellFormed(l.target)
    <3>1. /\ written_last \in Nat /\ verified_last \in Nat /\ verified_last <= written_last
          /\ cursors[l.target] \in FieldCursor /\ cursors[l.target].Last <= verified_last
      BY <2>6 DEF InductiveInvariant, TypeOK, StateInvariant, ValidContext, CursorsInvariant, BoundsInvariant
    <3>2. cursors[l.target].Last <= written_last
      BY <3>1 DEF FieldCursor
    <3>3. Follows(q) /\ q.field > r.field
      BY <1>3, <2>6, <3>1, <3>2, NextFollows
    <3> HIDE DEF q
    <3> QED BY <3>3 DEF Follows
  <2>7. CASE l.target \in Fields /\ ~WellFormed(l.target)
    <3>1. ValidNext(l.target)
      BY <2>1, <2>4 DEF ValidNext, Incoming
    <3>2. Invalid(l.target)
      BY <2>7 DEF InductiveInvariant, TypeOK, FieldCursor, CursorState, WellFormed, Invalid
    <3>3. Refused(l.target)
      BY <2>7, <3>1, <3>2 DEF VerifiedBefore, FINAL, Fields
    <3>4. q \in RefState /\ (Judged(q) \/ (Beyond(q) /\ q.field > r.field))
      BY <1>3, <2>7, <3>1, <3>3, RefusedStep
    <3> HIDE DEF q
    <3> QED BY <3>4
  <2> QED BY <2>1, <2>5, <2>6, <2>7
<1> QED BY <1>2, <1>3

(* The verdict of the reference parser on the bytes that are written. *)
LEMMA VerdictAgrees ==
    ASSUME NoOverlays, IndicesFit, InductiveInvariant, BufferInvariant, IncompleteInvariant,
           VerifiedBefore(FINAL)
    PROVE  Judged(Reference(buffer, first, written_last))
<1> DEFINE S == {r \in RefState : Follows(r) \/ Beyond(r) \/ Judged(r)}
           Step(r) == RefStep(buffer, written_last, r)
<1>1. RefInitial(first) \in S
  BY InitialFollows DEF Follows
<1>2. ASSUME NEW r \in S, r.verdict = "parsing"
      PROVE  r.field \in 0 .. NumFields /\ Step(r) \in S /\ (Step(r).verdict = "parsing" => Step(r).field > r.field)
  <2>1. CASE Follows(r)
    <3>1. r.field \in 0 .. NumFields
      BY <2>1, ConstantsAssumption DEF Follows, INITIAL, Fields
    <3>2. /\ Step(r) \in RefState
          /\ Judged(Step(r)) \/ ((Beyond(Step(r)) \/ Follows(Step(r))) /\ Step(r).field > r.field)
      BY <2>1, VerdictStep
    <3> HIDE DEF Step
    <3> QED BY <3>1, <3>2 DEF Judged
  <2>2. CASE Beyond(r)
    <3>1. r.field \in 0 .. NumFields
      BY <2>2 DEF Beyond, Fields
    <3>2. Step(r) = [r EXCEPT !.verdict = "rejected"]
      BY <2>2 DEF Beyond, RefStep
    <3>3. Step(r) \in RefState /\ Step(r).verdict = "rejected"
      BY <3>2 DEF RefState
    <3>4. ~WellFormedMessage /\ ~IncompleteMessage
      BY <2>2 DEF Beyond
    <3> HIDE DEF Step
    <3> QED BY <3>1, <3>3, <3>4 DEF Judged
  <2> QED BY <1>2, <2>1, <2>2 DEF Judged
<1>3. Advances(S, buffer, written_last)
  BY <1>2 DEF Advances
<1>4. Reference(buffer, first, written_last) \in S /\ Reference(buffer, first, written_last).verdict # "parsing"
  <2> HIDE DEF S
  <2> QED BY <1>1, <1>3, ReferenceEnds
<1> QED BY <1>4 DEF Follows, Beyond

(* For every message without overlays whose bits have indices: when Verify_Message returns,
   the context reports a well-formed message exactly if a parser that knows only the message
   specification accepts the written bytes, and an incomplete one exactly if that parser runs
   out of bytes, whatever was parsed, set or switched to before the call.                   *)
THEOREM VerifyMessageCorrect == NoOverlays /\ IndicesFit => (Spec => VerifyMessageVerdict)
<1> SUFFICES ASSUME NoOverlays, IndicesFit PROVE Spec => VerifyMessageVerdict
  OBVIOUS
<1>1. SequencesNotOverlaid
  BY ConstantsAssumption DEF SequencesNotOverlaid, NoOverlays, NotOverlaid
<1>2. Spec => []BufferInvariant
  BY <1>1, BufferInductive
<1>3. Init => VerifyInvariant
  <2>1. Init => todo = 0 /\ \A f \in Fields : ~Incomplete(f) /\ ~(f < 0)
    BY DEF Init, NoCursors, ResetCursor, Incomplete, Fields
  <2> QED BY <2>1 DEF VerifyInvariant, IncompleteInvariant, VerifiedBefore
<1>4. InductiveInvariant /\ InductiveInvariant' /\ VerifyInvariant /\ [Next]_vars => VerifyInvariant'
  <2> SUFFICES ASSUME InductiveInvariant, InductiveInvariant', VerifyInvariant, [Next]_vars
               PROVE  VerifyInvariant'
    OBVIOUS
  <2>1. IncompleteInvariant'
    BY IncompleteStep DEF VerifyInvariant
  <2>2. CASE Next
    BY <2>1, <2>2, LoopStep DEF VerifyInvariant
  <2>3. CASE UNCHANGED vars
    <3>1. PICK n : n = todo
      OBVIOUS
    <3>2. VerifiedBefore(n)'
      BY <2>3, <3>1, SameRefused DEF VerifyInvariant, vars, bounds
    <3>3. todo' = n
      BY <2>3, <3>1 DEF vars
    <3> QED BY <2>1, <3>2, <3>3 DEF VerifyInvariant, VerifiedBefore
  <2> QED BY <2>2, <2>3
<1> DEFINE Finished == /\ InductiveInvariant /\ BufferInvariant /\ IncompleteInvariant /\ VerifiedBefore(FINAL)
           Correct == Judged(Reference(buffer, first, written_last))
<1>5. (Finished => Correct)'
  <2>1. Finished => Correct
    BY VerdictAgrees
  <2> QED BY <2>1, PTL
<1>6. /\ InductiveInvariant /\ InductiveInvariant' /\ BufferInvariant' /\ VerifyInvariant /\ VerifyInvariant'
      /\ [Next]_vars
      => [todo = NumFields /\ todo' = 0 =>
            LET r == Reference(buffer, first, written_last)
            IN  /\ WellFormedMessage' <=> r.verdict = "accepted"
                /\ IncompleteMessage' <=> r.verdict = "incomplete"]_vars
  <2> SUFFICES ASSUME InductiveInvariant, InductiveInvariant', BufferInvariant', VerifyInvariant,
                      VerifyInvariant', Next, todo = NumFields, todo' = 0
               PROVE  LET r == Reference(buffer, first, written_last)
                      IN  /\ WellFormedMessage' <=> r.verdict = "accepted"
                          /\ IncompleteMessage' <=> r.verdict = "incomplete"
    OBVIOUS
  <2>1. VerifiedBefore(FINAL)' /\ UNCHANGED <<buffer, bounds, written_last>>
    BY LoopStep DEF VerifyInvariant
  <2>2. Correct'
    BY <1>5, <2>1 DEF VerifyInvariant
  <2>3. Reference(buffer, first, written_last)' = Reference(buffer, first, written_last)
    BY <2>1 DEF bounds, Reference, RefStep, Taken, RefStart, RefSize, Prefix, Outgoing
  <2> QED BY <2>2, <2>3 DEF Judged
<1> QED BY <1>2, <1>3, <1>4, <1>6, ContextInductive, PTL DEF Spec, VerifyMessageVerdict
=============================================================================
