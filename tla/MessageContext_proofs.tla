----------------------- MODULE MessageContext_proofs -----------------------
(***************************************************************************)
(* The context predicate, the single path and the end of the message are   *)
(* invariants of every message that meets the assumptions of               *)
(* MessageContextInv, for every buffer and every order of calls.           *)
(***************************************************************************)
EXTENDS MessageContextInv, TLAPS

USE ConstantsAssumption

-----------------------------------------------------------------------------
(* Properties of one state.                                                *)

(* The value or size of every field is one that expressions are evaluated on. *)
Legal(cs) == \A g \in Fields : (IF g \in Composite THEN Size(cs[g]) ELSE cs[g].Value) \in ValueRange(g)

(* What the expressions on a link are evaluated on is a valuation of the earlier fields. *)
LEMMA LegalValues ==
    ASSUME NEW cs, NEW n \in 0 .. NumFields, Legal(cs)
    PROVE  Values(cs, n) \in Valuations(n)
  <1>1. \A g \in 1 .. n : g \in Fields
    BY DEF Fields
  <1>2. \A g \in 1 .. n : Values(cs, n)[g] \in ValueRange(g)
    BY <1>1 DEF Values, Legal
  <1>3. \A g \in 1 .. n : Values(cs, n)[g] \in AllValues
    BY <1>1, <1>2 DEF AllValues
  <1>4. Values(cs, n) = [g \in 1 .. n |-> Values(cs, n)[g]]
    BY DEF Values
  <1>5. Values(cs, n) \in [1 .. n -> AllValues]
    BY <1>3, <1>4
  <1> QED
    BY <1>2, <1>5 DEF Valuations

(* The cursors of a context hold values and sizes in the ranges of their fields. *)
LEMMA LegalCursors ==
    ASSUME TypeOK, StateInvariant, BoundsInvariant, CursorsInvariant
    PROVE  Legal(cursors)
  <1> SUFFICES ASSUME NEW g \in Fields
               PROVE  (IF g \in Composite THEN Size(cursors[g]) ELSE cursors[g].Value) \in ValueRange(g)
    BY DEF Legal
  <1>0. cursors[g] \in FieldCursor
    BY DEF TypeOK
  <1>1. CASE Invalid(g)
    BY <1>0, <1>1 DEF StateInvariant, ValueRange, Sizes
  <1>2. CASE WellFormed(g) /\ g \in Composite
    <2>1. /\ first >= 1
          /\ first <= cursors[g].First /\ cursors[g].First <= cursors[g].Last + 1
          /\ cursors[g].Last <= 8 * BufferLength
      BY <1>0, <1>2 DEF BoundsInvariant, CursorsInvariant, TypeOK, FieldCursor
    <2>2. Size(cursors[g]) \in 0 .. 8 * BufferLength
      BY <1>0, <2>1 DEF Size, FieldCursor, TypeOK
    <2> QED BY <1>2, <2>2 DEF ValueRange, Sizes
  <1>3. CASE WellFormed(g) /\ g \notin Composite
    BY <1>3 DEF CursorsInvariant, ValidValue, Scalars, ValueRange
  <1> QED
    BY <1>0, <1>1, <1>2, <1>3 DEF Invalid, WellFormed, FieldCursor, CursorState

(* What the expressions on a link see of the fields up to an earlier one. *)
LEMMA PrefixValues ==
    ASSUME NEW cs, NEW n \in 0 .. NumFields, NEW m \in 0 .. NumFields, m <= n
    PROVE  Prefix(Values(cs, n), m) = Values(cs, m)
  BY DEF Prefix, Values

(* The source of a link has been reached, or is the initial node. *)
Reached(l) == l.source = INITIAL \/ WellFormed(l.source)

LEMMA LinkNodes ==
    ASSUME NEW l \in Links
    PROVE  /\ l.source \in 0 .. NumFields /\ l.source \in {INITIAL} \cup Fields
           /\ l.target \in 1 .. NumFields + 1 /\ l.source < l.target
  BY LinksAssumption DEF LinkType, INITIAL, FINAL, Fields

(* The field was reached by a link whose condition and size agree with the cursors. *)
LEMMA ReachedBy ==
    ASSUME InductiveInvariant, NEW f \in Fields, WellFormed(f)
    PROVE  \E k \in Links : /\ k.target = f /\ Reached(k) /\ LinkCondition(k, cursors)
                            /\ Size(cursors[f]) = TargetSize(k)
  <1>1. PICK k \in Incoming(f) : (k.source = INITIAL \/ SourceReady(k)) /\ LinkCondition(k, cursors)
    BY DEF InductiveInvariant, ValidContext, ValidPredecessorsInvariant
  <1>2. k \in Links /\ k.target = f
    BY DEF Incoming
  <1>3. Reached(k)
    BY <1>1 DEF Reached, SourceReady, WellFormed, Valid
  <1>4. LinkApplies(k)
    BY <1>1, <1>3 DEF LinkApplies, Reached
  <1>5. f # FINAL
    BY DEF Fields, FINAL
  <1>6. Size(cursors[f]) = TargetSize(k)
    BY <1>2, <1>4, <1>5 DEF InductiveInvariant, ValidContext, MessageStructureInvariant
  <1> QED
    BY <1>1, <1>2, <1>3, <1>6

(* The well-formed fields up to a link that is taken are a path the model has checked. *)
LEMMA PossibleTaken ==
    ASSUME InductiveInvariant, NEW l \in Links, LinkCondition(l, cursors), Reached(l)
    PROVE  /\ Values(cursors, l.source) \in Valuations(l.source)
           /\ parameters \in Parameters
           /\ Possible(l, Values(cursors, l.source), parameters)
  <1> DEFINE n == l.source
             v == Values(cursors, n)
  <1>1. n \in 0 .. NumFields /\ n \in {INITIAL} \cup Fields
    BY LinkNodes
  <1>2. v \in Valuations(n) /\ parameters \in Parameters
    BY <1>1, LegalValues, LegalCursors DEF InductiveInvariant, ValidContext, TypeOK
  <1>3. OnPath(n, v, parameters)
    <2>1. CASE n = INITIAL
      BY <2>1 DEF OnPath
    <2>2. CASE n # INITIAL
      <3> DEFINE W == {g \in 1 .. n : WellFormed(g)}
      <3>1. n \in W
        BY <1>1, <2>2 DEF Reached, INITIAL
      <3>2. ASSUME NEW f \in W
            PROVE  \E k \in Incoming(f) :
                      /\ k.source = INITIAL \/ k.source \in W
                      /\ Condition(k, Prefix(v, k.source), parameters)
                      /\ f \in Composite /\ ~k.implicit => v[f] = LinkSize(k, Prefix(v, k.source), parameters)
        <4>1. f \in Fields /\ WellFormed(f) /\ f \in 1 .. n
          BY <1>1 DEF Fields
        <4>2. PICK k \in Links : /\ k.target = f /\ Reached(k) /\ LinkCondition(k, cursors)
                                 /\ Size(cursors[f]) = TargetSize(k)
          BY <4>1, ReachedBy
        <4>3. k.source \in 0 .. NumFields /\ k.source < f
          BY <4>2, LinkNodes
        <4>4. Prefix(v, k.source) = Values(cursors, k.source)
          BY <1>1, <4>1, <4>3, PrefixValues
        <4>5. k.source = INITIAL \/ k.source \in W
          BY <1>1, <4>1, <4>2, <4>3 DEF Reached, INITIAL
        <4>6. f \in Composite /\ ~k.implicit => v[f] = LinkSize(k, Prefix(v, k.source), parameters)
          BY <4>1, <4>2, <4>4 DEF TargetSize, Values
        <4>7. Condition(k, Prefix(v, k.source), parameters)
          BY <4>2, <4>4 DEF LinkCondition
        <4> QED
          BY <4>2, <4>5, <4>6, <4>7 DEF Incoming
      <3>3. W \in SUBSET (1 .. n)
        OBVIOUS
      <3> HIDE DEF W, n, v
      <3> QED
        BY <3>1, <3>2, <3>3 DEF OnPath
    <2> QED BY <2>1, <2>2
  <1> QED
    BY <1>2, <1>3 DEF Possible, LinkCondition

(* A link can be taken out of a node of the path at most once. *)
LEMMA TakenOnce ==
    ASSUME InductiveInvariant, NEW k \in Links, NEW l \in Links, k.source = l.source, Reached(k),
           LinkCondition(k, cursors), LinkCondition(l, cursors)
    PROVE  k = l
  <1>1. Reached(l)
    BY DEF Reached
  <1> QED
    BY <1>1, PossibleTaken, ExclusiveAssumption

(* Valid_Next may ignore the condition of a link from the initial node: it holds. *)
LEMMA InitialTaken ==
    ASSUME InductiveInvariant, NEW l \in Links, l.source = INITIAL
    PROVE  LinkCondition(l, cursors)
  <1>1. Values(cursors, INITIAL) \in Valuations(INITIAL)
    BY LegalValues, LegalCursors DEF InductiveInvariant, ValidContext, INITIAL
  <1> QED
    BY <1>1, InitialAssumption DEF LinkCondition, InductiveInvariant, TypeOK

(* A link that Valid_Next follows has a true condition and a well-formed source. *)
LEMMA FollowedTaken ==
    ASSUME InductiveInvariant, NEW l \in Links, Followed(l)
    PROVE  /\ LinkCondition(l, cursors)
           /\ l.source # INITIAL => l.source \in Fields /\ WellFormed(l.source)
  <1>1. CASE l.source = INITIAL
    BY <1>1, InitialTaken
  <1>2. CASE l.source # INITIAL
    <2>1. l.source \in Fields
      BY <1>2, LinksAssumption DEF LinkType
    <2>2. SourceReady(l) /\ LinkCondition(l, cursors)
      BY <1>2 DEF Followed
    <2>3. WellFormed(l.source)
      BY <2>2 DEF SourceReady, WellFormed, Valid
    <2> QED BY <2>1, <2>2, <2>3
  <1> QED
    BY <1>1, <1>2

(* A well-formed source is ready: a scalar is valid as soon as it is well-formed. *)
LEMMA TakenFollowed ==
    ASSUME StateInvariant, NEW l \in Links,
           l.source # INITIAL => WellFormed(l.source) /\ LinkCondition(l, cursors)
    PROVE  Followed(l)
  <1> SUFFICES ASSUME l.source # INITIAL
               PROVE  SourceReady(l) /\ LinkCondition(l, cursors)
    BY DEF Followed
  <1>1. l.source \in Fields
    BY LinksAssumption DEF LinkType
  <1> QED
    BY <1>1 DEF StateInvariant, SourceReady, WellFormed, Valid, Scalars

(* Where a followed link skips fields, none of these is well-formed. *)
LEMMA NoneBetween ==
    ASSUME InductiveInvariant, NEW l \in Links, Followed(l), l.target \in Fields,
           NEW g \in Fields, WellFormed(g), g > l.source
    PROVE  g >= l.target /\ WellFormed(l.target)
  <1>1. CASE l.source = INITIAL
    BY <1>1 DEF InductiveInvariant, InitialFieldInvariant
  <1>2. CASE l.source # INITIAL
    <2>1. l.source \in Fields /\ WellFormed(l.source) /\ LinkCondition(l, cursors)
      BY <1>2, FollowedTaken
    <2>2. PICK k \in Outgoing(l.source) :
             k.target <= g /\ WellFormed(k.target) /\ LinkCondition(k, cursors)
      BY <2>1 DEF InductiveInvariant, SinglePath, Fields
    <2>3. k = l
      BY <2>1, <2>2, TakenOnce DEF Outgoing, Reached
    <2> QED BY <2>2, <2>3 DEF Fields
  <1> QED
    BY <1>1, <1>2

(* Field_First and Field_Size of the generated code take the first followed link; there
   is only one.                                                                        *)
LEMMA FollowedOnce ==
    ASSUME InductiveInvariant, NEW k \in Links, NEW l \in Links, k.target = l.target,
           k.target \in Fields, Followed(k), Followed(l)
    PROVE  k = l
  <1>0. k.source \in Int /\ l.source \in Int /\ k.source < k.target /\ l.source < l.target
    BY LinksAssumption DEF LinkType, INITIAL, Fields
  <1>1. ~(k.source < l.source)
    <2> SUFFICES ASSUME k.source < l.source PROVE FALSE
      OBVIOUS
    <2>1. l.source # INITIAL
      BY <1>0, LinksAssumption DEF LinkType, INITIAL, Fields
    <2>2. l.source \in Fields /\ WellFormed(l.source)
      BY <2>1, FollowedTaken
    <2>3. l.source >= k.target
      BY <2>2, NoneBetween
    <2> QED BY <1>0, <2>3 DEF Fields
  <1>2. ~(l.source < k.source)
    <2> SUFFICES ASSUME l.source < k.source PROVE FALSE
      OBVIOUS
    <2>1. k.source # INITIAL
      BY <1>0, LinksAssumption DEF LinkType, INITIAL, Fields
    <2>2. k.source \in Fields /\ WellFormed(k.source)
      BY <2>1, FollowedTaken
    <2>3. k.source >= l.target
      BY <2>2, NoneBetween
    <2> QED BY <1>0, <2>3 DEF Fields
  <1>3. k.source = l.source
    BY <1>0, <1>1, <1>2
  <1> QED
    BY <1>3, FollowedTaken, TakenOnce DEF Reached

(* Field_First and Field_Size evaluate a link that Valid_Next follows. *)
LEMMA FieldLinkFollowed ==
    ASSUME InductiveInvariant, NEW f \in Fields, ValidNext(f)
    PROVE  /\ FieldLink(f) \in Links
           /\ FieldLink(f).target = f
           /\ Followed(FieldLink(f))
  <1>1. PICK l \in Incoming(f) : Followed(l)
    BY DEF ValidNext
  <1>2. \A k \in Incoming(f) : Followed(k) => k.source <= l.source
    <2> SUFFICES ASSUME NEW k \in Incoming(f), Followed(k) PROVE k.source <= l.source
      OBVIOUS
    <2>1. k = l
      BY <1>1, FollowedOnce DEF Incoming
    <2>2. l.source \in Int
      BY LinksAssumption DEF LinkType, INITIAL, Fields, Incoming
    <2> QED BY <2>1, <2>2
  <1>3. FieldLink(f) \in Incoming(f) /\ Followed(FieldLink(f))
    BY <1>1, <1>2 DEF FieldLink
  <1> QED
    BY <1>3 DEF Incoming

(* The position of a field that can be accessed next. *)
LEMMA FieldPosition ==
    ASSUME InductiveInvariant, NEW f \in Fields, ValidNext(f)
    PROVE  /\ SourceLast(FieldLink(f)) \in Int
           /\ first - 1 <= SourceLast(FieldLink(f))
           /\ SourceLast(FieldLink(f)) <= verified_last
           /\ FieldFirst(f) \in Nat /\ first <= FieldFirst(f)
           /\ FieldSize(f) \in Nat
           /\ ~FieldLink(f).overlay => FieldFirst(f) = SourceLast(FieldLink(f)) + 1
           /\ FieldLink(f).overlay => /\ ~FieldLink(f).implicit
                                     /\ FieldFirst(f) + FieldSize(f) - 1 = SourceLast(FieldLink(f))
  <1> DEFINE L == FieldLink(f)
             s == L.source
  <1>1. L \in Links /\ L.target = f /\ Followed(L)
    BY FieldLinkFollowed
  <1>2. s # INITIAL => s \in Fields /\ WellFormed(s)
    BY <1>1, FollowedTaken
  <1>3. s \in 0 .. NumFields
    BY <1>1, LinksAssumption DEF LinkType, INITIAL, Fields
  <1>4. /\ first \in Nat /\ first >= 1 /\ verified_last \in Nat /\ written_last \in Nat
        /\ first - 1 <= verified_last /\ verified_last <= written_last
    BY DEF InductiveInvariant, TypeOK, ValidContext, BoundsInvariant
  <1>5. s # INITIAL =>
            /\ cursors[s].First \in Nat /\ cursors[s].Last \in Nat
            /\ first <= cursors[s].First /\ cursors[s].First <= cursors[s].Last + 1
            /\ cursors[s].Last <= verified_last
    BY <1>2 DEF InductiveInvariant, TypeOK, FieldCursor, ValidContext, CursorsInvariant
  <1>6. /\ Values(cursors, s) \in Valuations(s) /\ parameters \in Parameters
        /\ Possible(L, Values(cursors, s), parameters)
    BY <1>1, FollowedTaken, PossibleTaken DEF Reached
  <1>7. SourceLast(L) \in Int /\ first - 1 <= SourceLast(L) /\ SourceLast(L) <= verified_last
    BY <1>4, <1>5 DEF SourceLast
  <1>8. TargetSize(L) \in Nat
    <2>1. CASE L.implicit
      BY <1>4, <1>7, <2>1 DEF TargetSize
    <2>2. CASE ~L.implicit
      BY <1>1, <1>6, <2>2, SizeAssumption DEF TargetSize
    <2> QED BY <2>1, <2>2
  <1>9. CASE ~L.overlay
    <2>1. TargetFirst(L) = SourceLast(L) + 1
      BY <1>4, <1>9 DEF TargetFirst, SourceLast
    <2> QED BY <1>4, <1>7, <1>8, <1>9, <2>1 DEF FieldFirst, FieldSize
  <1>10. CASE L.overlay
    <2>1. s # INITIAL
      BY <1>1, <1>10, LinksAssumption
    <2>2. PICK k \in Links : /\ k.target = s /\ Reached(k) /\ LinkCondition(k, cursors)
                             /\ Size(cursors[s]) = TargetSize(k)
      BY <1>2, <2>1, ReachedBy
    <2>4. k.source \in 0 .. NumFields /\ k.source < s
      BY <2>2, LinkNodes
    <2>5. Prefix(Values(cursors, s), k.source) = Values(cursors, k.source)
      BY <1>3, <2>4, PrefixValues
    <2>a. Possible(k, Values(cursors, k.source), parameters)
      BY <2>2, PossibleTaken
    <2>3. /\ ~k.implicit /\ ~L.implicit
          /\ LinkSize(L, Values(cursors, s), parameters)
               = LinkSize(k, Values(cursors, k.source), parameters)
      BY <1>1, <1>6, <1>10, <2>2, <2>5, <2>a, OverlayAssumption
    <2>6. TargetSize(L) = Size(cursors[s])
      BY <2>2, <2>3 DEF TargetSize
    <2>7. TargetFirst(L) = cursors[s].First
      BY <1>10, <2>1 DEF TargetFirst
    <2>8. SourceLast(L) = cursors[s].Last
      BY <2>1 DEF SourceLast
    <2>9. TargetFirst(L) + TargetSize(L) - 1 = SourceLast(L)
      BY <1>5, <2>1, <2>6, <2>7, <2>8 DEF Size
    <2> QED BY <1>4, <1>5, <1>7, <1>8, <1>10, <2>1, <2>3, <2>7, <2>9 DEF FieldFirst, FieldSize
  <1> QED
    BY <1>9, <1>10

(* The alignment of the next field. *)
LEMMA FieldAligned ==
    ASSUME InductiveInvariant, NEW f \in Fields, ValidNext(f)
    PROVE  /\ f \in OpaqueFields => FieldFirst(f) % 8 = 1
           /\ SequencesAligned /\ f \in Composite => FieldFirst(f) % 8 = 1
           /\ SequencesInBytes /\ (\E l \in Outgoing(f) : l.target = FINAL) => FieldLast(f) % 8 = 0
  <1> DEFINE L == FieldLink(f)
             s == L.source
             v == Values(cursors, s)
             n == LinkSize(L, v, parameters)
             q == SourceLast(L) % 8
  <1>1. L \in Links /\ L.target = f /\ Followed(L) /\ L.target # FINAL
    BY FieldLinkFollowed DEF Fields, FINAL
  <1>2. LinkCondition(L, cursors) /\ (s # INITIAL => s \in Fields /\ WellFormed(s))
    BY <1>1, FollowedTaken
  <1>3. q \in StartPhases(L, v, parameters)
    BY <1>2 DEF SourceLast, StartPhases, InductiveInvariant, PhaseInvariant, ValidContext,
                BoundsInvariant, TypeOK
  <1>4. v \in Valuations(s) /\ parameters \in Parameters /\ Possible(L, v, parameters)
    BY <1>1, <1>2, PossibleTaken DEF Reached
  <1>5. n \in Nat /\ (f \in OpaqueFields => n % 8 = 0)
    BY <1>1, <1>4, SizeAssumption
  <1>6. /\ f \in OpaqueFields => q = 0
        /\ SequencesInBytes /\ (\E l \in Outgoing(f) : l.target = FINAL) =>
               PhaseBehind(L, v, parameters, q) = 0
    BY <1>1, <1>3, <1>4, AlignmentAssumption
  <1>7. FieldSize(f) = IF L.implicit THEN written_last - SourceLast(L) ELSE n
    BY DEF FieldSize, TargetSize
  <1>8. /\ SourceLast(L) \in Int /\ FieldFirst(f) \in Nat /\ FieldSize(f) \in Nat
        /\ ~L.overlay => FieldFirst(f) = SourceLast(L) + 1
        /\ L.overlay => ~L.implicit /\ FieldFirst(f) + FieldSize(f) - 1 = SourceLast(L)
    BY FieldPosition
  <1>9. written_last \in Nat /\ written_last % 8 = 0
    BY DEF InductiveInvariant, TypeOK, ValidContext, BoundsInvariant
  <1>10. ASSUME SequencesInBytes, NEW l \in Outgoing(f), l.target = FINAL
         PROVE  FieldLast(f) % 8 = 0
    <2>1. PhaseBehind(L, v, parameters, q) = 0
      BY <1>6, <1>10
    <2>2. FieldLast(f) = FieldFirst(f) + FieldSize(f) - 1
      BY DEF FieldLast
    <2>3. CASE L.overlay
      <3>1. q = 0
        BY <2>1, <2>3 DEF PhaseBehind
      <3> QED BY <1>8, <2>2, <2>3, <3>1
    <2>4. CASE L.implicit
      <3>1. ~L.overlay
        BY <1>8, <2>4
      <3>2. FieldLast(f) = written_last
        <4> HIDE DEF L
        <4> QED BY <1>7, <1>8, <1>9, <2>2, <2>4, <3>1
      <3> QED BY <1>9, <3>2
    <2>5. CASE ~L.overlay /\ ~L.implicit
      <3>2. (q + n) % 8 = 0
        BY <2>1, <2>5 DEF PhaseBehind
      <3> HIDE DEF L, n, v
      <3>1. FieldLast(f) = SourceLast(L) + n
        BY <1>5, <1>7, <1>8, <2>2, <2>5
      <3>3. (q + n) % 8 = (SourceLast(L) + n) % 8
        BY <1>5, <1>8
      <3> QED BY <3>1, <3>2, <3>3
    <2> QED BY <2>3, <2>4, <2>5
  <1>11. ASSUME q = 0, n % 8 = 0
         PROVE  FieldFirst(f) % 8 = 1
    <2>1. SourceLast(L) % 8 = 0
      BY <1>11
    <2> HIDE DEF L, n, q
    <2>2. CASE ~L.overlay
      BY <1>8, <2>1, <2>2
    <2>3. CASE L.overlay
      <3>1. FieldSize(f) % 8 = 0
        BY <1>7, <1>8, <1>11, <2>3
      <3> QED BY <1>8, <2>1, <2>3, <3>1
    <2> QED BY <2>2, <2>3
  <1>12. ASSUME SequencesAligned, f \in SequenceFields
         PROVE  q = 0 /\ n % 8 = 0
    <2>1. StartPhases(L, v, parameters) \subseteq {0} /\ n % 8 = 0
      BY <1>1, <1>4, <1>12 DEF SequencesAligned, SequencesInBytes
    <2> QED BY <1>3, <2>1
  <1>13. f \in Composite => f \in SequenceFields \/ f \in OpaqueFields
    BY DEF OpaqueFields
  <1> QED
    BY <1>5, <1>6, <1>10, <1>11, <1>12, <1>13

(* Rounding up to a byte boundary, as the setters and Verify do it. *)
LEMMA ByteEndBounds ==
    ASSUME NEW b \in Nat
    PROVE  /\ ByteEnd(b) \in Nat /\ ByteEnd(b) % 8 = 0 /\ b <= ByteEnd(b)
           /\ b % 8 = 0 => ByteEnd(b) = b
           /\ \A n \in Nat : n % 8 = 0 /\ b <= n => ByteEnd(b) <= n
  BY DEF ByteEnd

-----------------------------------------------------------------------------
(* The steps.  Every call changes the path of well-formed fields in one of *)
(* three ways: it starts a new path, it makes a field the last one of the  *)
(* path, or it cuts the path off before a field.                           *)

(* The fields after f are not well-formed, those before f are as they were. *)
CutAt(f) ==
    /\ \A g \in Fields : g < f => cursors'[g] = cursors[g]
    /\ \A g \in Fields : g > f => Invalid(g)' /\ cursors'[g].Value = 0 /\ Size(cursors'[g]) = 0

(* A step that makes f the last field of the path. *)
Extends(f) ==
    /\ ValidNext(f)
    /\ CutAt(f)
    /\ TypeOK' /\ UNCHANGED bounds
    /\ WellFormed(f)' /\ (f \in Scalars => Valid(f)')
    /\ cursors'[f].First = FieldFirst(f)
    /\ Size(cursors'[f]) \in Nat
    /\ ValidValue(f, cursors'[f].Value)
    /\ \/ Size(cursors'[f]) = FieldSize(f) /\ (FieldLink(f).implicit => written_last' = written_last)
       \/ FieldLink(f).implicit /\ written_last' = cursors'[f].Last
    /\ verified_last' = ByteEnd(cursors'[f].Last)
    /\ verified_last' <= written_last' /\ written_last' <= last /\ written_last' % 8 = 0
    /\ HolderInvariant'

(* A step that leaves no field from f on well-formed. *)
CutsOff(f) ==
    /\ CutAt(f)
    /\ TypeOK' /\ UNCHANGED <<bounds, verified_last, written_last>>
    /\ Invalid(f)' /\ cursors'[f].Value = 0 /\ Size(cursors'[f]) = 0
    /\ WellFormed(f) \/ \A g \in Fields : g >= f => ~WellFormed(g)
    /\ HolderInvariant'

(* Up to f nothing changes that the links refer to. *)
LEMMA CutKeeps ==
    ASSUME NEW f \in Fields, CutAt(f), UNCHANGED bounds, NEW l \in Links, l.source < f
    PROVE  /\ Values(cursors', l.source) = Values(cursors, l.source)
           /\ LinkCondition(l, cursors)' = LinkCondition(l, cursors)
           /\ l.source # INITIAL => cursors'[l.source] = cursors[l.source]
           /\ SourceLast(l)' = SourceLast(l) /\ TargetFirst(l)' = TargetFirst(l)
  <1>1. l.source \in {INITIAL} \cup Fields
    BY LinksAssumption DEF LinkType
  <1>2. \A g \in 1 .. l.source : cursors'[g] = cursors[g]
    BY <1>1 DEF CutAt, Fields, INITIAL
  <1>3. Values(cursors', l.source) = Values(cursors, l.source)
    BY <1>2 DEF Values
  <1>4. l.source # INITIAL => cursors'[l.source] = cursors[l.source]
    BY <1>1 DEF CutAt
  <1>5. first' = first /\ parameters' = parameters
    BY DEF bounds
  <1> QED
    BY <1>3, <1>4, <1>5 DEF LinkCondition, SourceLast, TargetFirst

(* Of the fields before f only those on the path to f are well-formed, and none of them
   ends the message.                                                                   *)
LEMMA BeforeField ==
    ASSUME InductiveInvariant, NEW f \in Fields,
           WellFormed(f) \/ ValidNext(f),
           NEW g \in Fields, g < f, WellFormed(g),
           NEW l \in Outgoing(g), LinkCondition(l, cursors)
    PROVE  l.target <= f
  <1>0. l \in Links /\ l.source = g
    BY DEF Outgoing
  <1>1. CASE WellFormed(f)
    <2>1. PICK k \in Outgoing(g) : k.target <= f /\ LinkCondition(k, cursors)
      BY <1>1 DEF InductiveInvariant, SinglePath
    <2>2. k = l
      BY <1>0, <2>1, TakenOnce DEF Outgoing, Reached
    <2> QED BY <2>1, <2>2
  <1>2. CASE ValidNext(f)
    <2> DEFINE L == FieldLink(f)
    <2>1. L \in Links /\ L.target = f /\ Followed(L)
      BY <1>2, FieldLinkFollowed
    <2>2. L.source \in {INITIAL} \cup Fields /\ L.source < f
      BY <2>1, LinksAssumption DEF LinkType
    <2>3. g <= L.source
      BY <2>1, <2>2, NoneBetween DEF Fields, INITIAL
    <2>4. L.source \in Fields /\ WellFormed(L.source) /\ LinkCondition(L, cursors)
      BY <2>1, <2>2, <2>3, FollowedTaken DEF Fields, INITIAL
    <2>5. CASE g = L.source
      BY <1>0, <2>1, <2>4, <2>5, TakenOnce DEF Fields, Reached
    <2>6. CASE g # L.source
      <3>1. PICK k \in Outgoing(g) : k.target <= L.source /\ LinkCondition(k, cursors)
        BY <2>3, <2>4, <2>6 DEF InductiveInvariant, SinglePath, Fields
      <3>2. k = l
        BY <1>0, <3>1, TakenOnce DEF Outgoing, Reached
      <3>3. l.target \in Int
        BY <1>0, LinksAssumption DEF LinkType, Fields, FINAL
      <3> QED BY <2>2, <3>1, <3>2, <3>3 DEF Fields, INITIAL
    <2> QED BY <2>5, <2>6
  <1> QED
    BY <1>1, <1>2

(* A step that makes f well-formed where its link says and resets later fields keeps the
   invariant. *)
LEMMA ExtendStep ==
    ASSUME InductiveInvariant, NEW f \in Fields, Extends(f)
    PROVE  InductiveInvariant'
  <1>1. PICK L \in Links : L = FieldLink(f) /\ L.target = f /\ Followed(L)
    BY FieldLinkFollowed DEF Extends
  <1> DEFINE s == L.source
             c == cursors'[f]
  <1>2. s \in {INITIAL} \cup Fields /\ s \in Int /\ s < f
    BY <1>1, LinksAssumption DEF LinkType, Fields, INITIAL
  <1>3. LinkCondition(L, cursors) /\ (s # INITIAL => s \in Fields /\ WellFormed(s))
    BY <1>1, FollowedTaken
  <1>4. \A g \in Fields : g < f => cursors'[g] = cursors[g]
    BY DEF Extends, CutAt
  <1>5. \A g \in Fields : WellFormed(g)' => g <= f /\ (g < f => WellFormed(g) /\ g <= s)
    <2> SUFFICES ASSUME NEW g \in Fields, WellFormed(g)'
                 PROVE  g <= f /\ (g < f => WellFormed(g) /\ g <= s)
      OBVIOUS
    <2>1. g <= f
      BY DEF Extends, CutAt, Invalid, WellFormed, Fields
    <2>2. g < f => WellFormed(g)
      BY <1>4 DEF WellFormed
    <2>3. g < f => g <= s
      BY <1>1, <1>2, <2>2, NoneBetween DEF Fields
    <2> QED BY <2>1, <2>2, <2>3
  <1>6. \A l \in Links : l.source < f =>
            /\ LinkCondition(l, cursors)' = LinkCondition(l, cursors)
            /\ SourceLast(l)' = SourceLast(l) /\ TargetFirst(l)' = TargetFirst(l)
            /\ Values(cursors', l.source) = Values(cursors, l.source)
            /\ l.source # INITIAL => cursors'[l.source] = cursors[l.source]
    BY CutKeeps DEF Extends
  <1>7. /\ c \in FieldCursor /\ c.First \in Nat /\ c.Last \in Nat
        /\ c.First = FieldFirst(f) /\ first <= c.First /\ c.First <= c.Last + 1
        /\ SourceLast(L) \in Int /\ SourceLast(L) <= c.Last
        /\ L.implicit => c.First = SourceLast(L) + 1 /\ ~L.overlay
        /\ L.overlay => c.Last = SourceLast(L)
        /\ ~L.overlay => c.First = SourceLast(L) + 1
        /\ first \in Nat /\ first >= 1 /\ last \in Nat /\ written_last' \in Nat
    <2>1. c \in FieldCursor /\ c.First \in Nat /\ c.Last \in Nat /\ written_last' \in Nat
      BY DEF Extends, TypeOK, FieldCursor
    <2>2. first \in Nat /\ first >= 1 /\ last \in Nat
      BY DEF InductiveInvariant, TypeOK, ValidContext, BoundsInvariant
    <2>3. c.First = FieldFirst(f) /\ Size(c) \in Nat /\ (Size(c) = FieldSize(f) \/ L.implicit)
      BY <1>1 DEF Extends
    <2> HIDE DEF c
    <2> QED BY <1>1, <2>1, <2>2, <2>3, FieldPosition DEF Size, Extends
  <1>8. /\ TypeOK' /\ HolderInvariant'
        /\ UNCHANGED <<parameters, first, last>>
        /\ verified_last' = ByteEnd(c.Last)
        /\ verified_last' <= written_last' /\ written_last' <= last /\ written_last' % 8 = 0
    BY DEF Extends, bounds
  <1>9. c.Last <= verified_last' /\ verified_last' \in Nat /\ verified_last' % 8 = 0
    BY <1>7, <1>8, ByteEndBounds
  <1>10. \A g \in Fields : g < f /\ WellFormed(g) => cursors[g].Last <= c.Last
    <2> SUFFICES ASSUME NEW g \in Fields, g < f, WellFormed(g)
                 PROVE  cursors[g].Last <= c.Last
      OBVIOUS
    <2>1. g <= s /\ s \in Fields /\ WellFormed(s)
      BY <1>2, <1>3, <1>4, <1>5 DEF WellFormed, Fields, INITIAL
    <2>2. cursors[g].Last \in Nat /\ cursors[s].Last \in Nat
      BY <2>1 DEF InductiveInvariant, TypeOK, FieldCursor
    <2>3. cursors[g].Last <= cursors[s].Last
      BY <1>2, <2>1, <2>2 DEF InductiveInvariant, LastMonotone, Fields
    <2>4. SourceLast(L) = cursors[s].Last
      BY <2>1 DEF SourceLast, Fields, INITIAL
    <2> QED BY <1>7, <2>2, <2>3, <2>4
  <1>11. StateInvariant'
    <2> SUFFICES ASSUME NEW g \in Fields
                 PROVE  /\ g \in Scalars => cursors'[g].State # "S_Well_Formed"
                        /\ Invalid(g)' => cursors'[g].Value = 0 /\ Size(cursors'[g]) = 0
      BY DEF StateInvariant
    <2>1. CASE g < f
      BY <1>4, <2>1 DEF InductiveInvariant, StateInvariant, Invalid
    <2>2. CASE g = f
      BY <2>2 DEF Extends, WellFormed, Valid, Invalid
    <2>3. CASE g > f
      BY <2>3 DEF Extends, CutAt, Invalid
    <2> QED BY <2>1, <2>2, <2>3 DEF Fields
  <1>12. InitialFieldInvariant'
    <2> SUFFICES ASSUME NEW l \in Links, NEW g \in Fields, l.source = INITIAL, WellFormed(g)'
                 PROVE  l.target <= g /\ WellFormed(l.target)'
      BY DEF InitialFieldInvariant
    <2>1. CASE g < f
      <3>1. l.target <= g /\ WellFormed(l.target)
        BY <1>5, <2>1 DEF InductiveInvariant, InitialFieldInvariant
      <3>2. l.target \in Fields /\ l.target < f
        BY <2>1, <3>1, LinksAssumption DEF LinkType, Fields, INITIAL, FINAL
      <3> QED BY <1>4, <3>1, <3>2 DEF WellFormed
    <2>2. CASE g = f /\ s = INITIAL
      BY <1>1, <1>3, <2>2, InitialTaken, TakenOnce DEF Fields, Reached
    <2>3. CASE g = f /\ s # INITIAL
      <3>1. l.target <= s /\ WellFormed(l.target)
        BY <1>3, <2>3 DEF InductiveInvariant, InitialFieldInvariant
      <3>2. l.target \in Fields /\ l.target < f
        BY <1>2, <2>3, <3>1, LinksAssumption DEF LinkType, Fields, INITIAL, FINAL
      <3> QED BY <1>4, <2>3, <3>1, <3>2 DEF WellFormed, Fields
    <2> QED BY <1>5, <2>1, <2>2, <2>3 DEF Fields
  <1>13. LastMonotone'
    <2> SUFFICES ASSUME NEW h \in Fields, NEW g \in Fields, h < g, WellFormed(h)', WellFormed(g)'
                 PROVE  cursors'[h].Last <= cursors'[g].Last
      BY DEF LastMonotone
    <2>1. h < f /\ g <= f /\ WellFormed(h)
      BY <1>5 DEF Fields
    <2>2. CASE g < f
      BY <1>4, <1>5, <2>1, <2>2 DEF InductiveInvariant, LastMonotone
    <2>3. CASE g = f
      BY <1>4, <1>10, <2>1, <2>3
    <2> QED BY <2>1, <2>2, <2>3 DEF Fields
  <1>14. SinglePath'
    <2> SUFFICES ASSUME NEW h \in Fields, NEW g \in Fields, h < g, WellFormed(h)', WellFormed(g)'
                 PROVE  \E l \in Outgoing(h) :
                           l.target <= g /\ WellFormed(l.target)' /\ LinkCondition(l, cursors)'
      BY DEF SinglePath, Outgoing
    <2>1. h < f /\ g <= f /\ WellFormed(h) /\ h <= s /\ s # INITIAL
      BY <1>2, <1>5 DEF Fields, INITIAL
    <2>2. CASE g < f
      <3>1. PICK l \in Outgoing(h) :
               l.target <= g /\ WellFormed(l.target) /\ LinkCondition(l, cursors)
        BY <1>5, <2>1, <2>2 DEF InductiveInvariant, SinglePath
      <3>2. l \in Links /\ l.source = h /\ l.target \in Fields /\ l.target < f
        BY <2>2, <3>1, LinksAssumption DEF Outgoing, LinkType, Fields, FINAL
      <3> QED BY <1>4, <1>6, <2>1, <3>1, <3>2 DEF WellFormed
    <2>3. CASE g = f /\ h = s
      <3>1. L \in Outgoing(h) /\ L.target <= g /\ WellFormed(L.target)'
        BY <1>1, <2>3 DEF Outgoing, Fields
      <3> QED BY <1>1, <1>2, <1>3, <1>6, <3>1
    <2>4. CASE g = f /\ h # s
      <3>1. PICK l \in Outgoing(h) :
               l.target <= s /\ WellFormed(l.target) /\ LinkCondition(l, cursors)
        BY <1>2, <1>3, <2>1, <2>4 DEF InductiveInvariant, SinglePath, Fields
      <3>2. l \in Links /\ l.source = h /\ l.target \in Fields /\ l.target < f
        BY <1>2, <2>1, <3>1, LinksAssumption DEF Outgoing, LinkType, Fields, FINAL, INITIAL
      <3>3. l.target <= g
        BY <2>4, <3>2 DEF Fields
      <3> QED BY <1>4, <1>6, <2>1, <3>1, <3>2, <3>3 DEF WellFormed
    <2> QED BY <2>1, <2>2, <2>3, <2>4 DEF Fields
  <1>15. BoundsInvariant'
    <2>1. /\ first <= last + 1 /\ last <= 8 * BufferLength
          /\ first % 8 = 1 /\ last % 8 = 0
      BY DEF InductiveInvariant, ValidContext, BoundsInvariant
    <2>2. first - 1 <= verified_last'
      BY <1>7, <1>9
    <2> QED BY <1>8, <1>9, <2>1, <2>2 DEF BoundsInvariant
  <1>16. CursorsInvariant'
    <2> SUFFICES ASSUME NEW g \in Fields, WellFormed(g)'
                 PROVE  /\ first' <= cursors'[g].First
                        /\ cursors'[g].Last <= verified_last'
                        /\ cursors'[g].First <= cursors'[g].Last + 1
                        /\ ValidValue(g, cursors'[g].Value)
      BY DEF CursorsInvariant, ValidValue
    <2>1. CASE g < f
      <3>1. cursors'[g] = cursors[g] /\ WellFormed(g) /\ cursors[g].Last \in Nat
        BY <1>4, <1>5, <2>1 DEF InductiveInvariant, TypeOK, FieldCursor
      <3>2. cursors[g].Last <= verified_last'
        BY <1>7, <1>9, <1>10, <2>1, <3>1
      <3> QED BY <1>8, <3>1, <3>2 DEF InductiveInvariant, ValidContext, CursorsInvariant
    <2>2. CASE g = f
      BY <1>7, <1>8, <1>9, <2>2 DEF Extends
    <2> QED BY <1>5, <2>1, <2>2 DEF Fields
  <1>17. ValidPredecessorsInvariant'
    <2> SUFFICES ASSUME NEW g \in Fields, WellFormed(g)'
                 PROVE  \E l \in Incoming(g) :
                           (l.source = INITIAL \/ SourceReady(l)') /\ LinkCondition(l, cursors)'
      BY DEF ValidPredecessorsInvariant, Incoming
    <2>1. PICK l \in Incoming(g) :
             (l.source = INITIAL \/ SourceReady(l)) /\ LinkCondition(l, cursors)
      <3>1. CASE g < f
        BY <1>5, <3>1 DEF InductiveInvariant, ValidContext, ValidPredecessorsInvariant
      <3>2. CASE g = f
        BY <1>1, <1>3, <3>2 DEF Incoming, Followed
      <3> QED BY <1>5, <3>1, <3>2 DEF Fields
    <2>2. l \in Links /\ l.source < f
      BY <1>5, LinksAssumption DEF Incoming, LinkType, Fields, INITIAL
    <2>3. SourceReady(l) /\ l.source # INITIAL => SourceReady(l)'
      BY <1>6, <2>2 DEF SourceReady, WellFormed, Valid
    <2> QED BY <1>6, <2>1, <2>2, <2>3
  <1>18. MessageStructureInvariant'
    <2> SUFFICES ASSUME NEW l \in Links, l.target # FINAL, WellFormed(l.target)', LinkApplies(l)'
                 PROVE  /\ Size(cursors'[l.target]) = TargetSize(l)'
                        /\ cursors'[l.target].First = TargetFirst(l)'
      BY DEF MessageStructureInvariant, Size
    <2>1. l.target \in Fields /\ l.source < l.target /\ l.source \in Int
      BY LinksAssumption DEF LinkType, Fields, INITIAL
    <2>2. l.target <= f /\ l.source < f
      BY <1>5, <2>1 DEF Fields
    <2>3. LinkApplies(l)
      BY <1>6, <2>2 DEF LinkApplies, WellFormed
    <2>4. CASE l.target < f
      <3>1. WellFormed(l.target) /\ cursors'[l.target] = cursors[l.target]
        BY <1>4, <1>5, <2>1, <2>4
      <3>2. ~l.implicit
        <4>1. PICK k \in Outgoing(l.target) : k.target <= s \/ k = L
          <5>1. l.target <= s /\ s # INITIAL
            BY <1>2, <1>5, <2>1, <2>4 DEF Fields, INITIAL
          <5>2. CASE l.target = s
            BY <1>1, <5>2 DEF Outgoing
          <5>3. CASE l.target # s
            BY <1>2, <1>3, <2>1, <3>1, <5>1, <5>3 DEF InductiveInvariant, SinglePath, Fields
          <5> QED BY <5>2, <5>3
        <4>2. k \in Links /\ k.source = l.target /\ k.target # FINAL
          BY <1>1, <1>2, <4>1 DEF Outgoing, FINAL, Fields, INITIAL
        <4> QED BY <4>2, ImplicitAssumption
      <3>3. TargetSize(l)' = TargetSize(l)
        BY <1>6, <1>8, <2>2, <3>2 DEF TargetSize
      <3> QED BY <1>6, <2>2, <2>3, <3>1, <3>3
              DEF InductiveInvariant, ValidContext, MessageStructureInvariant
    <2>5. CASE l.target = f
      <3>1. l = L
        <4>1. CASE Incoming(l.target) = {l}
          BY <1>1, <2>5, <4>1 DEF Incoming
        <4>2. CASE Incoming(l.target) # {l}
          <5>1. Followed(l)
            BY <2>3, <4>2, TakenFollowed DEF LinkApplies, InductiveInvariant
          <5> QED BY <1>1, <2>5, <5>1, FollowedOnce
        <4> QED BY <4>1, <4>2
      <3>2. TargetFirst(L)' = c.First
        BY <1>1, <1>2, <1>6, <1>7 DEF FieldFirst
      <3>3. Size(c) = TargetSize(L)'
        <4>1. CASE Size(c) = FieldSize(f) /\ ~L.implicit
          BY <1>1, <1>2, <1>6, <1>8, <4>1 DEF TargetSize, FieldSize
        <4>2. CASE Size(c) = FieldSize(f) /\ written_last' = written_last /\ L.implicit
          BY <1>1, <1>2, <1>6, <4>2 DEF TargetSize, FieldSize
        <4>3. CASE L.implicit /\ written_last' = c.Last
          <5>1. TargetSize(L)' = c.Last - SourceLast(L)
            BY <1>1, <1>2, <1>6, <4>3 DEF TargetSize
          <5> QED BY <1>7, <4>3, <5>1 DEF Size
        <4> QED BY <1>1, <4>1, <4>2, <4>3 DEF Extends
      <3> QED BY <2>5, <3>1, <3>2, <3>3
    <2> QED BY <2>1, <2>2, <2>4, <2>5 DEF Fields
  <1>19. MessageEnd'
    <2> SUFFICES ASSUME NEW l \in Incoming(FINAL), SourceReady(l)', LinkCondition(l, cursors)'
                 PROVE  verified_last' = ByteEnd(cursors'[l.source].Last)
      BY DEF MessageEnd, Incoming, FINAL, ByteEnd
    <2>1. l \in Links /\ l.target = FINAL /\ l.source \in Fields
      BY LinksAssumption DEF Incoming, LinkType
    <2>2. WellFormed(l.source)'
      BY DEF SourceReady, WellFormed, Valid
    <2>3. CASE l.source = f
      BY <1>8, <2>3
    <2>4. CASE l.source < f
      <3>1. WellFormed(l.source) /\ LinkCondition(l, cursors)
        BY <1>5, <1>6, <2>1, <2>2, <2>4
      <3>2. l.target <= f
        BY <2>1, <2>4, <3>1, BeforeField DEF Extends, Outgoing
      <3> QED BY <2>1, <3>2 DEF Fields, FINAL
    <2> QED BY <1>5, <2>1, <2>2, <2>3, <2>4 DEF Fields
  <1>20. PhaseInvariant'
    <2> SUFFICES ASSUME NEW g \in Fields, WellFormed(g)'
                 PROVE  cursors'[g].Last % 8 \in EndPhases(g, Values(cursors', g), parameters')
      BY DEF PhaseInvariant, Values
    <2>1. CASE g < f
      <3>1. Values(cursors', g) = Values(cursors, g)
        BY <1>4, <2>1 DEF Values, Fields
      <3> QED BY <1>4, <1>5, <1>8, <2>1, <3>1 DEF InductiveInvariant, PhaseInvariant
    <2>2. CASE g = f
      <3> DEFINE v == Values(cursors, s)
                 w == Values(cursors', f)
                 q == SourceLast(L) % 8
      <3>1. q \in StartPhases(L, v, parameters)
        BY <1>2, <1>3 DEF SourceLast, StartPhases, InductiveInvariant, PhaseInvariant, ValidContext,
                          BoundsInvariant, TypeOK
      <3>2. v \in Valuations(s) /\ parameters \in Parameters /\ Possible(L, v, parameters)
        BY <1>3, PossibleTaken DEF Reached
      <3>3. w \in Valuations(f)
        <4>1. Legal(cursors)'
          <5>1. TypeOK' /\ StateInvariant' /\ BoundsInvariant' /\ CursorsInvariant'
            BY <1>8, <1>11, <1>15, <1>16
          <5> QED BY <5>1, LegalCursors, PTL
        <4>2. Legal(cursors')
          BY <4>1 DEF Legal, Size, ValueRange
        <4> QED BY <4>2, LegalValues DEF Fields
      <3>4. Prefix(w, s) = v
        <4>1. Prefix(w, s) = Values(cursors', s)
          BY <1>2, PrefixValues DEF Fields, INITIAL
        <4> QED BY <1>1, <1>2, <1>6, <4>1
      <3>5. PhaseBehind(L, v, parameters, q) \in EndPhases(f, w, parameters)
        <4>1. L.target # FINAL
          BY <1>1 DEF Fields, FINAL
        <4> HIDE DEF q, v, w
        <4> QED BY <1>1, <3>1, <3>2, <3>3, <3>4, <4>1, PhaseAssumption
      <3>6. c.Last % 8 = PhaseBehind(L, v, parameters, q)
        <4>1. CASE L.overlay
          BY <1>7, <4>1 DEF PhaseBehind
        <4>2. CASE L.implicit
          <5>1. c.Last % 8 = 0
            <6>1. CASE written_last' = c.Last
              BY <1>8, <6>1
            <6>2. CASE Size(c) = FieldSize(f) /\ written_last' = written_last
              <7>1. FieldSize(f) = written_last - SourceLast(L)
                BY <1>1, <4>2 DEF FieldSize, TargetSize
              <7>2. c.Last = written_last
                BY <1>7, <4>2, <6>2, <7>1 DEF Size, InductiveInvariant, TypeOK
              <7> QED BY <1>8, <6>2, <7>2
            <6> QED BY <1>1, <4>2, <6>1, <6>2 DEF Extends
          <5> QED BY <1>7, <4>2, <5>1 DEF PhaseBehind
        <4>3. CASE ~L.overlay /\ ~L.implicit
          <5> DEFINE n == LinkSize(L, v, parameters)
          <5>1. n \in Nat
            BY <3>2, SizeAssumption
          <5>2. Size(c) = n
            BY <1>1, <4>3 DEF Extends, FieldSize, TargetSize
          <5>3. c.Last = SourceLast(L) + n
            BY <1>7, <4>3, <5>1, <5>2 DEF Size
          <5>4. PhaseBehind(L, v, parameters, q) = ((SourceLast(L) % 8) + n) % 8
            BY <4>3 DEF PhaseBehind
          <5> HIDE DEF n, c, v
          <5>5. ((SourceLast(L) % 8) + n) % 8 = (SourceLast(L) + n) % 8
            BY <1>7, <5>1
          <5> QED BY <5>3, <5>4, <5>5
        <4> QED BY <4>1, <4>2, <4>3
      <3> QED BY <1>8, <2>2, <3>5, <3>6
    <2> QED BY <1>5, <2>1, <2>2 DEF Fields
  <1> QED
    BY <1>8, <1>11, <1>12, <1>13, <1>14, <1>15, <1>16, <1>17, <1>18, <1>19, <1>20
       DEF InductiveInvariant, ValidContext

(* A step that resets f and all later fields keeps the invariant. *)
LEMMA CutOffStep ==
    ASSUME InductiveInvariant, NEW f \in Fields, CutsOff(f)
    PROVE  InductiveInvariant'
  <1>1. \A g \in Fields : g < f => cursors'[g] = cursors[g]
    BY DEF CutsOff, CutAt
  <1>2. \A g \in Fields : WellFormed(g)' => g < f /\ WellFormed(g) /\ cursors'[g] = cursors[g]
    BY <1>1 DEF CutsOff, CutAt, Invalid, WellFormed, Fields
  <1>3. \A l \in Links : l.source < f =>
            /\ LinkCondition(l, cursors)' = LinkCondition(l, cursors)
            /\ SourceLast(l)' = SourceLast(l) /\ TargetFirst(l)' = TargetFirst(l)
            /\ Values(cursors', l.source) = Values(cursors, l.source)
            /\ l.source # INITIAL => cursors'[l.source] = cursors[l.source]
    BY CutKeeps DEF CutsOff
  <1>4. TypeOK' /\ HolderInvariant' /\ UNCHANGED <<parameters, first, last, verified_last, written_last>>
    BY DEF CutsOff, bounds
  <1>5. StateInvariant'
    <2> SUFFICES ASSUME NEW g \in Fields
                 PROVE  /\ g \in Scalars => cursors'[g].State # "S_Well_Formed"
                        /\ Invalid(g)' => cursors'[g].Value = 0 /\ Size(cursors'[g]) = 0
      BY DEF StateInvariant
    <2>1. CASE g < f
      BY <1>1, <2>1 DEF InductiveInvariant, StateInvariant, Invalid
    <2>2. CASE ~(g < f)
      BY <2>2 DEF CutsOff, CutAt, Invalid, Fields
    <2> QED BY <2>1, <2>2
  <1>6. InitialFieldInvariant'
    <2> SUFFICES ASSUME NEW l \in Links, NEW g \in Fields, l.source = INITIAL, WellFormed(g)'
                 PROVE  l.target <= g /\ WellFormed(l.target)'
      BY DEF InitialFieldInvariant
    <2>1. l.target <= g /\ WellFormed(l.target)
      BY <1>2 DEF InductiveInvariant, InitialFieldInvariant
    <2>2. l.target \in Fields /\ l.target < f
      BY <1>2, <2>1, LinksAssumption DEF LinkType, Fields, INITIAL, FINAL
    <2> QED BY <1>1, <2>1, <2>2 DEF WellFormed
  <1>7. LastMonotone' /\ PhaseInvariant'
    <2>1. LastMonotone'
      BY <1>2 DEF InductiveInvariant, LastMonotone
    <2>2. ASSUME NEW g \in Fields, WellFormed(g)'
          PROVE  cursors'[g].Last % 8 \in EndPhases(g, Values(cursors', g), parameters')
      <3>1. Values(cursors', g) = Values(cursors, g)
        BY <1>1, <1>2, <2>2 DEF Values, Fields
      <3> QED BY <1>2, <1>4, <2>2, <3>1 DEF InductiveInvariant, PhaseInvariant
    <2> QED BY <2>1, <2>2 DEF PhaseInvariant, Values
  <1>8. SinglePath'
    <2> SUFFICES ASSUME NEW h \in Fields, NEW g \in Fields, h < g, WellFormed(h)', WellFormed(g)'
                 PROVE  \E l \in Outgoing(h) :
                           l.target <= g /\ WellFormed(l.target)' /\ LinkCondition(l, cursors)'
      BY DEF SinglePath, Outgoing
    <2>1. PICK l \in Outgoing(h) :
             l.target <= g /\ WellFormed(l.target) /\ LinkCondition(l, cursors)
      BY <1>2 DEF InductiveInvariant, SinglePath
    <2>2. l \in Links /\ l.source = h /\ l.target \in Fields /\ l.target < f
      BY <1>2, <2>1, LinksAssumption DEF Outgoing, LinkType, Fields, FINAL
    <2> QED BY <1>1, <1>2, <1>3, <2>1, <2>2 DEF WellFormed
  <1>9. BoundsInvariant'
    BY <1>4 DEF InductiveInvariant, ValidContext, BoundsInvariant
  <1>10. CursorsInvariant'
    <2> SUFFICES ASSUME NEW g \in Fields, WellFormed(g)'
                 PROVE  /\ first' <= cursors'[g].First
                        /\ cursors'[g].Last <= verified_last'
                        /\ cursors'[g].First <= cursors'[g].Last + 1
                        /\ ValidValue(g, cursors'[g].Value)
      BY DEF CursorsInvariant, ValidValue
    <2> QED BY <1>2, <1>4 DEF InductiveInvariant, ValidContext, CursorsInvariant
  <1>11. ValidPredecessorsInvariant'
    <2> SUFFICES ASSUME NEW g \in Fields, WellFormed(g)'
                 PROVE  \E l \in Incoming(g) :
                           (l.source = INITIAL \/ SourceReady(l)') /\ LinkCondition(l, cursors)'
      BY DEF ValidPredecessorsInvariant, Incoming
    <2>1. PICK l \in Incoming(g) :
             (l.source = INITIAL \/ SourceReady(l)) /\ LinkCondition(l, cursors)
      BY <1>2 DEF InductiveInvariant, ValidContext, ValidPredecessorsInvariant
    <2>2. l \in Links /\ l.source < f
      BY <1>2, LinksAssumption DEF Incoming, LinkType, Fields, INITIAL
    <2>3. SourceReady(l) /\ l.source # INITIAL => SourceReady(l)'
      BY <1>3, <2>2 DEF SourceReady, WellFormed, Valid
    <2> QED BY <1>3, <2>1, <2>2, <2>3
  <1>12. MessageStructureInvariant'
    <2> SUFFICES ASSUME NEW l \in Links, l.target # FINAL, WellFormed(l.target)', LinkApplies(l)'
                 PROVE  /\ Size(cursors'[l.target]) = TargetSize(l)'
                        /\ cursors'[l.target].First = TargetFirst(l)'
      BY DEF MessageStructureInvariant, Size
    <2>1. l.target \in Fields /\ l.source < l.target /\ l.source \in Int
      BY LinksAssumption DEF LinkType, Fields, INITIAL
    <2>2. l.source < f /\ WellFormed(l.target) /\ cursors'[l.target] = cursors[l.target]
      BY <1>2, <2>1 DEF Fields
    <2>3. LinkApplies(l)
      BY <1>3, <2>2 DEF LinkApplies, WellFormed
    <2>4. TargetSize(l)' = TargetSize(l)
      BY <1>3, <1>4, <2>2 DEF TargetSize
    <2> QED BY <1>3, <2>2, <2>3, <2>4 DEF InductiveInvariant, ValidContext, MessageStructureInvariant
  <1>13. MessageEnd'
    <2> SUFFICES ASSUME NEW l \in Incoming(FINAL), SourceReady(l)', LinkCondition(l, cursors)'
                 PROVE  verified_last' = ByteEnd(cursors'[l.source].Last)
      BY DEF MessageEnd, Incoming, FINAL, ByteEnd
    <2>1. l \in Links /\ l.target = FINAL /\ l.source \in Fields /\ l.source # INITIAL
      BY LinksAssumption DEF Incoming, LinkType, Fields, INITIAL
    <2>2. WellFormed(l.source)'
      BY DEF SourceReady, WellFormed, Valid
    <2>3. /\ l.source < f /\ WellFormed(l.source) /\ LinkCondition(l, cursors)
          /\ cursors'[l.source] = cursors[l.source]
      BY <1>2, <1>3, <2>1, <2>2
    <2>4. CASE WellFormed(f)
      <3>1. l.target <= f
        BY <2>1, <2>3, <2>4, BeforeField DEF Outgoing
      <3> QED BY <2>1, <3>1 DEF Fields, FINAL
    <2>5. CASE ~WellFormed(f)
      <3>1. SourceReady(l)
        BY <2>3 DEF SourceReady, WellFormed, Valid
      <3> QED BY <1>4, <2>3, <3>1 DEF InductiveInvariant, MessageEnd
    <2> QED BY <2>4, <2>5
  <1> QED
    BY <1>4, <1>5, <1>6, <1>7, <1>8, <1>9, <1>10, <1>11, <1>12, <1>13
       DEF InductiveInvariant, ValidContext

(* A context without well-formed fields satisfies everything but the bounds trivially. *)
LEMMA EmptyContext ==
    TypeOK /\ BoundsInvariant /\ cursors = NoCursors /\ holder \in {CALLER, CONTEXT}
    => InductiveInvariant
  <1> SUFFICES ASSUME TypeOK, BoundsInvariant, cursors = NoCursors, holder \in {CALLER, CONTEXT}
               PROVE  InductiveInvariant
    OBVIOUS
  <1>1. \A f \in Fields : /\ ~WellFormed(f) /\ ~Valid(f)
                          /\ cursors[f].Value = 0 /\ Size(cursors[f]) = 0
                          /\ cursors[f].State = "S_Invalid"
    BY DEF NoCursors, ResetCursor, WellFormed, Valid, Size
  <1>2. StateInvariant
    BY <1>1 DEF StateInvariant
  <1>3. InitialFieldInvariant /\ LastMonotone /\ SinglePath /\ PhaseInvariant
    BY <1>1 DEF InitialFieldInvariant, LastMonotone, SinglePath, PhaseInvariant
  <1>4. HolderInvariant
    BY DEF HolderInvariant, Fields, CALLER, CONTEXT
  <1>5. CursorsInvariant /\ ValidPredecessorsInvariant
    BY <1>1 DEF CursorsInvariant, ValidPredecessorsInvariant
  <1>6. MessageStructureInvariant
    <2>1. \A l \in Links : l.target # FINAL => l.target \in Fields
      BY LinksAssumption DEF LinkType
    <2> QED BY <1>1, <2>1 DEF MessageStructureInvariant
  <1>7. MessageEnd
    <2>1. \A l \in Incoming(FINAL) : l.source \in Fields
      BY LinksAssumption DEF Incoming, LinkType
    <2> QED BY <1>1, <2>1 DEF MessageEnd, SourceReady
  <1> QED
    BY <1>2, <1>3, <1>4, <1>5, <1>6, <1>7 DEF InductiveInvariant, ValidContext

(* Steps that only move the buffer. *)
LEMMA SameContext ==
    ASSUME InductiveInvariant, TypeOK', HolderInvariant',
           UNCHANGED <<bounds, verified_last, written_last, cursors>>
    PROVE  InductiveInvariant'
  <1>1. UNCHANGED <<parameters, first, last, verified_last, written_last, cursors>>
    BY DEF bounds
  <1>2. /\ \A l : LinkCondition(l, cursors)' = LinkCondition(l, cursors)
        /\ \A l : TargetSize(l)' = TargetSize(l) /\ TargetFirst(l)' = TargetFirst(l)
        /\ \A l : SourceReady(l)' = SourceReady(l) /\ LinkApplies(l)' = LinkApplies(l)
    BY <1>1 DEF LinkCondition, TargetSize, TargetFirst, SourceLast, SourceReady, LinkApplies,
                WellFormed, Valid, Incoming
  <1>3. StateInvariant' /\ InitialFieldInvariant' /\ LastMonotone' /\ PhaseInvariant'
    BY <1>1 DEF InductiveInvariant, StateInvariant, InitialFieldInvariant, LastMonotone, PhaseInvariant,
                WellFormed, Invalid, Values, Size
  <1>4. SinglePath'
    BY <1>1, <1>2 DEF InductiveInvariant, SinglePath, WellFormed, Outgoing
  <1>5. BoundsInvariant' /\ CursorsInvariant'
    BY <1>1 DEF InductiveInvariant, ValidContext, BoundsInvariant, CursorsInvariant, WellFormed, ValidValue
  <1>6. ValidPredecessorsInvariant' /\ MessageStructureInvariant'
    BY <1>1, <1>2 DEF InductiveInvariant, ValidContext, ValidPredecessorsInvariant,
                      MessageStructureInvariant, WellFormed, Incoming, Size
  <1>7. MessageEnd'
    BY <1>1, <1>2 DEF InductiveInvariant, MessageEnd, Incoming, ByteEnd
  <1> QED
    BY <1>3, <1>4, <1>5, <1>6, <1>7 DEF InductiveInvariant, ValidContext

(* Reset and incomplete cursors are cursors. *)
LEMMA ResetCursorType == ResetCursor \in FieldCursor /\ IncompleteCursor \in FieldCursor
  BY DEF ResetCursor, IncompleteCursor, FieldCursor, CursorState

(* So are those of a new context. *)
LEMMA NoCursorsType == NoCursors \in [Fields -> FieldCursor]
  BY ResetCursorType DEF NoCursors

(* Initialize, Reset, Take_Buffer and Generic_Write keep the invariant. *)
LEMMA ContextStep == InductiveInvariant /\ ContextNext => InductiveInvariant'
  <1> SUFFICES ASSUME InductiveInvariant, ContextNext
               PROVE  InductiveInvariant'
    OBVIOUS
  <1>0. (TypeOK /\ BoundsInvariant /\ cursors = NoCursors /\ holder \in {CALLER, CONTEXT})'
        => InductiveInvariant'
    BY EmptyContext, PTL
  <1>1. ASSUME NEW w \in Windows, NEW n \in Lengths, NEW p \in Parameters, NEW d \in Contents,
               Initialize(w[1], w[2], 8 * n, p, d)
        PROVE  InductiveInvariant'
    <2>1. w[1] \in Nat /\ w[2] \in Nat /\ n \in Nat /\ w[1] >= 1
      BY <1>1 DEF Lengths, Initialize, InBuffer
    <2>2. TypeOK'
      BY <1>1, <2>1, NoCursorsType DEF Initialize, TypeOK, InductiveInvariant, Fields
    <2>3. BoundsInvariant'
      BY <1>1, <2>1 DEF Initialize, InBuffer, BoundsInvariant
    <2> QED BY <1>0, <1>1, <2>2, <2>3 DEF Initialize
  <1>2. ASSUME NEW w \in Windows, NEW p \in Parameters, Reset(w[1], w[2], p)
        PROVE  InductiveInvariant'
    <2>1. w[1] \in Nat /\ w[2] \in Nat /\ w[1] >= 1
      BY <1>2 DEF Reset, InBuffer
    <2>2. TypeOK'
      BY <1>2, <2>1, NoCursorsType DEF Reset, TypeOK, InductiveInvariant, Fields
    <2>3. BoundsInvariant'
      BY <1>2, <2>1 DEF Reset, InBuffer, BoundsInvariant
    <2> QED BY <1>0, <1>2, <2>2, <2>3 DEF Reset, HasBuffer
  <1>3. CASE TakeBuffer
    <2>1. TypeOK'
      BY <1>3 DEF TakeBuffer, TypeOK, InductiveInvariant, bounds
    <2>2. HolderInvariant'
      BY <1>3 DEF TakeBuffer, HolderInvariant, CALLER, Fields
    <2> QED BY <1>3, <2>1, <2>2, SameContext DEF TakeBuffer
  <1>4. ASSUME NEW offset \in Lengths, NEW length \in Lengths, NEW d \in Contents,
               Write(offset, length, d)
        PROVE  InductiveInvariant'
    <2>1. offset \in Nat /\ length \in Nat
      BY DEF Lengths
    <2>2. buffer' \in [BufferBits -> {0, 1}]
      BY <1>4 DEF Write, Overwrite, InductiveInvariant, TypeOK
    <2>3. TypeOK'
      BY <1>4, <2>1, <2>2, NoCursorsType DEF Write, TypeOK, InductiveInvariant
    <2>4. BoundsInvariant'
      BY <1>4, <2>1 DEF Write, BoundsInvariant
    <2> QED BY <1>0, <1>4, <2>3, <2>4 DEF Write, HasBuffer
  <1> QED
    BY <1>1, <1>2, <1>3, <1>4 DEF ContextNext

(* Nothing is well-formed from an invalid field on that could be verified next. *)
LEMMA InvalidNext ==
    ASSUME InductiveInvariant, NEW f \in Fields, ValidNext(f), Invalid(f),
           NEW g \in Fields, g >= f
    PROVE  ~WellFormed(g) /\ Invalid(g) /\ cursors[g].Value = 0 /\ Size(cursors[g]) = 0
  <1>1. FieldLink(f) \in Links /\ FieldLink(f).target = f /\ Followed(FieldLink(f))
    BY FieldLinkFollowed
  <1>2. FieldLink(f).source < f /\ FieldLink(f).source \in Int
    BY <1>1, LinksAssumption DEF LinkType, Fields, INITIAL
  <1>3. ~WellFormed(f)
    BY DEF Invalid, WellFormed
  <1>4. ~WellFormed(g)
    BY <1>1, <1>2, <1>3, NoneBetween DEF Fields
  <1>5. Invalid(g)
    BY <1>4 DEF Invalid, WellFormed, InductiveInvariant, TypeOK, FieldCursor, CursorState
  <1> QED
    BY <1>4, <1>5 DEF InductiveInvariant, StateInvariant

(* The body of Verify keeps the invariant, whether it accepts the field or not. *)
LEMMA VerifyStep ==
    ASSUME InductiveInvariant, NEW f \in Fields, VerifyField(f),
           UNCHANGED <<holder, buffer, bounds, written_last>>,
           holder \in {CALLER, CONTEXT}, todo' \in 0 .. NumFields
    PROVE  InductiveInvariant'
  <1>1. HolderInvariant'
    BY DEF HolderInvariant, CALLER, CONTEXT, Fields
  <1>2. /\ holder' \in {CALLER, CONTEXT} \cup SequenceFields
        /\ buffer' \in [BufferBits -> {0, 1}] /\ parameters' \in Parameters
        /\ first' \in Nat /\ last' \in Nat /\ written_last' \in Nat
        /\ verified_last \in Nat /\ cursors \in [Fields -> FieldCursor]
    BY DEF InductiveInvariant, TypeOK, bounds
  <1>3. CASE UNCHANGED <<cursors, verified_last>>
    <2>1. TypeOK'
      BY <1>2, <1>3 DEF TypeOK
    <2> QED BY <1>1, <1>3, <2>1, SameContext
  <1>4. CASE /\ Invalid(f) /\ ValidNext(f)
             /\ SufficientBufferLength(f) /\ Accepts(f)
             /\ verified_last' = ByteEnd(FieldLast(f))
             /\ cursors' = [cursors EXCEPT ![f] = ParsedCursor(f)]
    <2> DEFINE c == ParsedCursor(f)
    <2>1. cursors'[f] = c /\ \A g \in Fields : g # f => cursors'[g] = cursors[g]
      BY <1>2, <1>4
    <2>2. /\ FieldFirst(f) \in Nat /\ FieldSize(f) \in Nat /\ first <= FieldFirst(f) /\ first >= 1
          /\ first \in Nat /\ FieldLast(f) = FieldFirst(f) + FieldSize(f) - 1
      BY <1>4, FieldPosition DEF InductiveInvariant, TypeOK, ValidContext, BoundsInvariant, FieldLast
    <2>3. /\ c.First = FieldFirst(f) /\ c.Last = FieldLast(f)
          /\ c.State = IF f \in Composite THEN "S_Well_Formed" ELSE "S_Valid"
      BY DEF ParsedCursor
    <2>4. ValidValue(f, c.Value) /\ c.Value \in Nat
      <3>1. ValidValue(f, c.Value)
        BY <1>4 DEF Accepts
      <3>2. CASE f \in Composite
        BY <3>1, <3>2 DEF ParsedCursor
      <3>3. CASE f \notin Composite
        BY <3>1, <3>3 DEF ValidValue, Scalars
      <3> QED BY <3>1, <3>2, <3>3
    <2>5. c \in FieldCursor
      <3>1. c = [State |-> c.State, First |-> c.First, Last |-> c.Last, Value |-> c.Value]
        BY DEF ParsedCursor
      <3> HIDE DEF c
      <3>2. c.State \in CursorState /\ c.First \in Nat /\ c.Last \in Nat
        BY <2>2, <2>3 DEF CursorState
      <3> QED BY <2>4, <3>1, <3>2 DEF FieldCursor
    <2>6. /\ FieldLast(f) \in Nat /\ FieldLast(f) <= written_last
          /\ verified_last' \in Nat /\ verified_last' <= written_last
      <3>1. FieldLast(f) \in Nat /\ FieldLast(f) <= written_last
        BY <1>4, <2>2 DEF SufficientBufferLength
      <3>2. written_last \in Nat /\ written_last % 8 = 0
        BY DEF InductiveInvariant, TypeOK, ValidContext, BoundsInvariant
      <3> QED BY <1>4, <3>1, <3>2, ByteEndBounds
    <2>7. TypeOK'
      BY <1>2, <1>4, <2>5, <2>6 DEF TypeOK
    <2>8. CutAt(f)
      <3>1. \A g \in Fields : g > f =>
               Invalid(g) /\ cursors[g].Value = 0 /\ Size(cursors[g]) = 0
        BY <1>4, InvalidNext DEF Fields
      <3>2. \A g \in Fields : g > f => cursors'[g] = cursors[g]
        BY <2>1 DEF Fields
      <3>3. \A g \in Fields : g < f => cursors'[g] = cursors[g]
        BY <2>1 DEF Fields
      <3> QED BY <3>1, <3>2, <3>3 DEF CutAt, Invalid
    <2>9. Size(cursors'[f]) = FieldSize(f)
      BY <2>1, <2>2, <2>3 DEF Size
    <2>10. WellFormed(f)' /\ (f \in Scalars => Valid(f)')
      BY <2>1, <2>3 DEF WellFormed, Valid, Scalars
    <2>11. written_last' <= last /\ written_last' % 8 = 0
      BY DEF InductiveInvariant, ValidContext, BoundsInvariant
    <2> HIDE DEF c
    <2>12. Extends(f)
      BY <1>1, <1>4, <2>1, <2>2, <2>3, <2>4, <2>6, <2>7, <2>8, <2>9, <2>10, <2>11 DEF Extends
    <2> QED BY <2>12, ExtendStep
  <1>5. CASE /\ Invalid(f) /\ ValidNext(f) /\ UNCHANGED verified_last
             /\ \E c \in {ResetCursor, IncompleteCursor} : cursors' = [cursors EXCEPT ![f] = c]
    <2>1. PICK c \in {ResetCursor, IncompleteCursor} : cursors' = [cursors EXCEPT ![f] = c]
      BY <1>5
    <2>2. cursors'[f] = c /\ \A g \in Fields : g # f => cursors'[g] = cursors[g]
      BY <1>2, <2>1
    <2>3. c \in FieldCursor /\ c.State \in {"S_Invalid", "S_Incomplete"} /\ c.Value = 0 /\ Size(c) = 0
      BY ResetCursorType DEF ResetCursor, IncompleteCursor, Size
    <2>4. TypeOK'
      BY <1>2, <1>5, <2>1, <2>3 DEF TypeOK
    <2>5. CutAt(f)
      <3>1. \A g \in Fields : g > f =>
               Invalid(g) /\ cursors[g].Value = 0 /\ Size(cursors[g]) = 0
        BY <1>5, InvalidNext DEF Fields
      <3>2. \A g \in Fields : g > f => cursors'[g] = cursors[g]
        BY <2>2 DEF Fields
      <3>3. \A g \in Fields : g < f => cursors'[g] = cursors[g]
        BY <2>2 DEF Fields
      <3> QED BY <3>1, <3>2, <3>3 DEF CutAt, Invalid
    <2>6. \A g \in Fields : g >= f => ~WellFormed(g)
      BY <1>5, InvalidNext
    <2>7. CutsOff(f)
      BY <1>1, <1>5, <2>2, <2>3, <2>4, <2>5, <2>6 DEF CutsOff, Invalid
    <2> QED BY <2>7, CutOffStep
  <1> QED
    BY <1>3, <1>4, <1>5 DEF VerifyField

(* Verify and Verify_Message keep the invariant. *)
LEMMA ParserStep == InductiveInvariant /\ ParserNext => InductiveInvariant'
  <1> SUFFICES ASSUME InductiveInvariant, ParserNext
               PROVE  InductiveInvariant'
    OBVIOUS
  <1>1. ASSUME NEW f \in Fields, Verify(f)
        PROVE  InductiveInvariant'
    BY <1>1, VerifyStep DEF Verify, HasBuffer
  <1>2. CASE VerifyMessage
    <2>1. TypeOK'
      BY <1>2 DEF VerifyMessage, TypeOK, InductiveInvariant, bounds
    <2>2. HolderInvariant'
      BY <1>2 DEF VerifyMessage, HasBuffer, HolderInvariant, CONTEXT, Fields
    <2> QED BY <1>2, <2>1, <2>2, SameContext DEF VerifyMessage
  <1>3. CASE VerifyMessageLoop
    <2>1. todo \in Fields /\ todo' \in 0 .. NumFields
      BY <1>3 DEF VerifyMessageLoop, InductiveInvariant, TypeOK, Fields
    <2>2. holder \in {CALLER, CONTEXT}
      BY <1>3 DEF VerifyMessageLoop, InductiveInvariant, TypeOK, HolderInvariant
    <2>3. \A f \in Fields : f = todo => InductiveInvariant'
      BY <1>3, <2>1, <2>2, VerifyStep DEF VerifyMessageLoop
    <2> QED BY <2>1, <2>3
  <1> QED
    BY <1>1, <1>2, <1>3 DEF ParserNext

(* The procedures that store a cursor for f and reset the fields after it. *)
LEMMA StoreStep ==
    ASSUME InductiveInvariant, NEW f \in Fields, ValidNext(f),
           NEW state \in {"S_Valid", "S_Well_Formed"}, NEW size \in Nat, NEW value \in Nat,
           f \in Scalars => state = "S_Valid" /\ value \in FieldValues[f],
           ResetDependentFields(f, SetCursor(f, state, size, value)),
           \/ size = FieldSize(f) /\ (FieldLink(f).implicit => written_last' = written_last)
           \/ FieldLink(f).implicit /\ written_last' = FieldFirst(f) + size - 1,
           verified_last' = ByteEnd(FieldFirst(f) + size - 1),
           written_last' \in Nat, verified_last' <= written_last', written_last' <= last,
           written_last' % 8 = 0,
           buffer' \in [BufferBits -> {0, 1}], UNCHANGED <<bounds, todo>>,
           holder' \in {CONTEXT, f}, holder' = f => f \in SequenceFields /\ todo = 0
    PROVE  InductiveInvariant'
  <1> DEFINE c == SetCursor(f, state, size, value)
  <1>1. /\ FieldFirst(f) \in Nat /\ FieldFirst(f) >= 1
        /\ FieldFirst(f) + size - 1 \in Nat
    BY FieldPosition DEF InductiveInvariant, ValidContext, BoundsInvariant, TypeOK
  <1>2. /\ c.State = state /\ c.First = FieldFirst(f) /\ c.Last = FieldFirst(f) + size - 1
        /\ c.Value = value
    BY DEF SetCursor
  <1>3. c \in FieldCursor
    BY <1>1 DEF SetCursor, FieldCursor, CursorState
  <1>4. cursors' = [g \in Fields |-> IF g < f THEN cursors[g] ELSE IF g = f THEN c ELSE ResetCursor]
    BY DEF ResetDependentFields
  <1> HIDE DEF c
  <1>5. /\ cursors'[f] = c
        /\ \A g \in Fields : g < f => cursors'[g] = cursors[g]
        /\ \A g \in Fields : g > f => cursors'[g] = ResetCursor
    BY <1>4 DEF Fields
  <1>6. cursors' \in [Fields -> FieldCursor]
    BY <1>3, <1>4, ResetCursorType DEF InductiveInvariant, TypeOK
  <1>7. TypeOK'
    <2>1. verified_last' \in Nat
      BY <1>1, ByteEndBounds
    <2>2. holder' \in {CALLER, CONTEXT} \cup SequenceFields
      OBVIOUS
    <2> QED BY <1>6, <2>1, <2>2 DEF TypeOK, InductiveInvariant, bounds
  <1>8. CutAt(f)
    BY <1>5 DEF CutAt, ResetCursor, Invalid, Size
  <1>9. WellFormed(f)' /\ (f \in Scalars => Valid(f)')
    BY <1>2, <1>5 DEF WellFormed, Valid
  <1>10. Size(cursors'[f]) = size
    BY <1>1, <1>2, <1>5 DEF Size
  <1>11. ValidValue(f, cursors'[f].Value)
    BY <1>2, <1>5 DEF ValidValue
  <1>12. HolderInvariant'
    BY <1>9 DEF HolderInvariant, CONTEXT, Fields
  <1>13. Extends(f)
    BY <1>2, <1>5, <1>7, <1>8, <1>9, <1>10, <1>11, <1>12 DEF Extends
  <1> QED
    BY <1>13, ExtendStep

(* The same for the setters, which end the written part with the field. *)
LEMMA SetterStep ==
    ASSUME InductiveInvariant, NEW f \in Fields, SetPossible(f),
           NEW state \in {"S_Valid", "S_Well_Formed"}, NEW size \in Nat, NEW value \in Nat,
           f \in Scalars => state = "S_Valid" /\ value \in FieldValues[f] /\ size = FieldSize(f),
           FieldLink(f).implicit => (FieldFirst(f) + size - 1) % 8 = 0,
           ValidSize(f, size),
           ResetDependentFields(f, SetCursor(f, state, size, value)),
           verified_last' = ByteEnd(FieldFirst(f) + size - 1),
           written_last' = ByteEnd(FieldFirst(f) + size - 1),
           buffer' \in [BufferBits -> {0, 1}], UNCHANGED <<holder, bounds, todo>>
    PROVE  InductiveInvariant'
  <1> DEFINE e == FieldFirst(f) + size - 1
  <1>1. ValidNext(f) /\ SufficientSpace(f) /\ holder = CONTEXT
    BY DEF SetPossible, HasBuffer
  <1>2. /\ FieldFirst(f) \in Nat /\ FieldFirst(f) >= 1 /\ FieldSize(f) \in Nat /\ e \in Nat
        /\ last \in Nat /\ last % 8 = 0
    BY <1>1, FieldPosition DEF InductiveInvariant, ValidContext, BoundsInvariant, TypeOK
  <1>3. size <= AvailableSpace(f) /\ (size = FieldSize(f) \/ FieldLink(f).implicit)
    BY <1>1 DEF ValidSize, SufficientSpace
  <1>4. e <= last
    BY <1>2, <1>3 DEF AvailableSpace
  <1>5. ByteEnd(e) \in Nat /\ ByteEnd(e) % 8 = 0 /\ ByteEnd(e) <= last
    BY <1>2, <1>4, ByteEndBounds
  <1>6. FieldLink(f).implicit => ByteEnd(e) = e
    BY <1>2, ByteEndBounds
  <1>7. \/ size = FieldSize(f) /\ (FieldLink(f).implicit => written_last' = written_last)
        \/ FieldLink(f).implicit /\ written_last' = e
    BY <1>3, <1>6
  <1>8. f # CONTEXT
    BY DEF Fields, CONTEXT
  <1>9. f \in Scalars => state = "S_Valid" /\ value \in FieldValues[f]
    OBVIOUS
  <1>10. verified_last' <= written_last'
    BY <1>5
  <1> QED
    BY <1>1, <1>5, <1>7, <1>8, <1>9, <1>10, StoreStep

(* Writing to the buffer yields a buffer. *)
LEMMA BufferType ==
    ASSUME NEW b \in [BufferBits -> {0, 1}], NEW fst, NEW lst
    PROVE  /\ \A v : Insert(b, fst, lst, v) \in [BufferBits -> {0, 1}]
           /\ \A d \in Contents : Overwrite(b, fst, lst, d) \in [BufferBits -> {0, 1}]
  <1>1. ASSUME NEW v PROVE Insert(b, fst, lst, v) \in [BufferBits -> {0, 1}]
    <2>1. \A n : Bit(v, n) \in {0, 1}
      BY DEF Bit
    <2> QED BY <2>1 DEF Insert
  <1>2. ASSUME NEW d \in Contents PROVE Overwrite(b, fst, lst, d) \in [BufferBits -> {0, 1}]
    BY DEF Overwrite
  <1> QED
    BY <1>1, <1>2

(* A composite field that was well-formed becomes valid. *)
LEMMA ShapeStep ==
    ASSUME InductiveInvariant, NEW f \in Composite, WellFormed(f),
           TypeOK', HolderInvariant', UNCHANGED <<bounds, verified_last, written_last>>,
           \A g \in Fields : g # f => cursors'[g] = cursors[g],
           cursors'[f].First = cursors[f].First, cursors'[f].Last = cursors[f].Last,
           cursors'[f].Value = cursors[f].Value, cursors'[f].State = "S_Valid"
    PROVE  InductiveInvariant'
  <1>0. f \in Fields /\ f \notin Scalars
    BY DEF Scalars
  <1>1. UNCHANGED <<parameters, first, last, verified_last, written_last>>
    BY DEF bounds
  <1>2. \A g \in Fields : /\ WellFormed(g)' = WellFormed(g)
                          /\ g \in Scalars => cursors'[g] = cursors[g]
                          /\ cursors'[g].First = cursors[g].First /\ cursors'[g].Last = cursors[g].Last
                          /\ cursors'[g].Value = cursors[g].Value
                          /\ Size(cursors'[g]) = Size(cursors[g])
    BY <1>0 DEF WellFormed, Size
  <1>3. \A l \in Links : /\ l.source \in {INITIAL} \cup Fields /\ l.source \in 0 .. NumFields
                         /\ l.target \in Fields \cup {FINAL}
    BY LinksAssumption DEF LinkType, INITIAL, Fields
  <1>4. \A l \in Links : Values(cursors', l.source) = Values(cursors, l.source)
    <2> SUFFICES ASSUME NEW l \in Links PROVE Values(cursors', l.source) = Values(cursors, l.source)
      OBVIOUS
    <2>1. \A g \in 1 .. l.source : g \in Fields
      BY <1>3 DEF Fields
    <2> QED BY <1>2, <2>1 DEF Values
  <1>5. \A l \in Links : /\ LinkCondition(l, cursors)' = LinkCondition(l, cursors)
                         /\ SourceLast(l)' = SourceLast(l) /\ TargetFirst(l)' = TargetFirst(l)
                         /\ TargetSize(l)' = TargetSize(l)
                         /\ l.source # INITIAL => SourceReady(l)' = SourceReady(l)
    <2> SUFFICES ASSUME NEW l \in Links
                 PROVE  /\ LinkCondition(l, cursors)' = LinkCondition(l, cursors)
                        /\ SourceLast(l)' = SourceLast(l) /\ TargetFirst(l)' = TargetFirst(l)
                        /\ TargetSize(l)' = TargetSize(l)
                        /\ l.source # INITIAL => SourceReady(l)' = SourceReady(l)
      OBVIOUS
    <2>1. LinkCondition(l, cursors)' = LinkCondition(l, cursors)
      BY <1>1, <1>4 DEF LinkCondition
    <2>2. SourceLast(l)' = SourceLast(l) /\ TargetFirst(l)' = TargetFirst(l)
      BY <1>1, <1>2, <1>3 DEF SourceLast, TargetFirst
    <2>3. TargetSize(l)' = TargetSize(l)
      BY <1>1, <1>4, <2>2 DEF TargetSize
    <2>4. l.source # INITIAL => SourceReady(l)' = SourceReady(l)
      BY <1>2, <1>3 DEF SourceReady, Valid, Scalars
    <2> QED BY <2>1, <2>2, <2>3, <2>4
  <1>6. StateInvariant'
    <2> SUFFICES ASSUME NEW g \in Fields
                 PROVE  /\ g \in Scalars => cursors'[g].State # "S_Well_Formed"
                        /\ Invalid(g)' => cursors'[g].Value = 0 /\ Size(cursors'[g]) = 0
      BY DEF StateInvariant
    <2>1. CASE g = f
      BY <1>0, <2>1 DEF Invalid
    <2>2. CASE g # f
      BY <2>2 DEF Invalid, InductiveInvariant, StateInvariant
    <2> QED BY <2>1, <2>2
  <1>7. InitialFieldInvariant'
    <2>1. \A l \in Links : l.source = INITIAL => l.target \in Fields
      BY LinksAssumption DEF LinkType
    <2> QED BY <1>2, <2>1 DEF InductiveInvariant, InitialFieldInvariant
  <1>8. LastMonotone' /\ PhaseInvariant'
    <2>1. LastMonotone'
      BY <1>2 DEF InductiveInvariant, LastMonotone
    <2>2. ASSUME NEW g \in Fields, WellFormed(g)'
          PROVE  cursors'[g].Last % 8 \in EndPhases(g, Values(cursors', g), parameters')
      <3>1. Values(cursors', g) = Values(cursors, g)
        <4>1. \A h \in 1 .. g : h \in Fields
          BY DEF Fields
        <4> QED BY <1>2, <4>1 DEF Values
      <3> QED BY <1>1, <1>2, <2>2, <3>1 DEF InductiveInvariant, PhaseInvariant
    <2> QED BY <2>1, <2>2 DEF PhaseInvariant, Values
  <1>9. SinglePath'
    <2> SUFFICES ASSUME NEW h \in Fields, NEW g \in Fields, h < g, WellFormed(h)', WellFormed(g)'
                 PROVE  \E l \in Outgoing(h) :
                           l.target <= g /\ WellFormed(l.target)' /\ LinkCondition(l, cursors)'
      BY DEF SinglePath, Outgoing
    <2>1. PICK l \in Outgoing(h) :
             l.target <= g /\ WellFormed(l.target) /\ LinkCondition(l, cursors)
      BY <1>2 DEF InductiveInvariant, SinglePath
    <2>2. l \in Links /\ l.target \in Fields
      BY <1>3, <2>1 DEF Outgoing, Fields, FINAL
    <2> QED BY <1>2, <1>5, <2>1, <2>2
  <1>10. BoundsInvariant' /\ CursorsInvariant'
    <2>1. BoundsInvariant'
      BY <1>1 DEF InductiveInvariant, ValidContext, BoundsInvariant
    <2>2. CursorsInvariant'
      <3> SUFFICES ASSUME NEW g \in Fields, WellFormed(g)'
                   PROVE  /\ first' <= cursors'[g].First
                          /\ cursors'[g].Last <= verified_last'
                          /\ cursors'[g].First <= cursors'[g].Last + 1
                          /\ ValidValue(g, cursors'[g].Value)
        BY DEF CursorsInvariant, ValidValue
      <3> QED BY <1>1, <1>2 DEF InductiveInvariant, ValidContext, CursorsInvariant
    <2> QED BY <2>1, <2>2
  <1>11. ValidPredecessorsInvariant'
    <2> SUFFICES ASSUME NEW g \in Fields, WellFormed(g)'
                 PROVE  \E l \in Incoming(g) :
                           (l.source = INITIAL \/ SourceReady(l)') /\ LinkCondition(l, cursors)'
      BY DEF ValidPredecessorsInvariant, Incoming
    <2>1. PICK l \in Incoming(g) :
             (l.source = INITIAL \/ SourceReady(l)) /\ LinkCondition(l, cursors)
      BY <1>2 DEF InductiveInvariant, ValidContext, ValidPredecessorsInvariant
    <2> QED BY <1>5, <2>1 DEF Incoming
  <1>12. MessageStructureInvariant'
    <2> SUFFICES ASSUME NEW l \in Links, l.target # FINAL, WellFormed(l.target)', LinkApplies(l)'
                 PROVE  /\ Size(cursors'[l.target]) = TargetSize(l)'
                        /\ cursors'[l.target].First = TargetFirst(l)'
      BY DEF MessageStructureInvariant, Size
    <2>1. l.target \in Fields /\ WellFormed(l.target)
      BY <1>2, <1>3
    <2>2. LinkApplies(l)
      BY <1>2, <1>3, <1>5 DEF LinkApplies
    <2> QED BY <1>2, <1>5, <2>1, <2>2 DEF InductiveInvariant, ValidContext, MessageStructureInvariant
  <1>13. MessageEnd'
    <2> SUFFICES ASSUME NEW l \in Incoming(FINAL), SourceReady(l)', LinkCondition(l, cursors)'
                 PROVE  verified_last' = ByteEnd(cursors'[l.source].Last)
      BY DEF MessageEnd, Incoming, FINAL, ByteEnd
    <2>1. l \in Links /\ l.source \in Fields /\ l.source # INITIAL
      BY LinksAssumption DEF Incoming, LinkType, Fields, INITIAL
    <2> QED BY <1>1, <1>2, <1>5, <2>1 DEF InductiveInvariant, MessageEnd
  <1> QED
    BY <1>6, <1>7, <1>8, <1>9, <1>10, <1>11, <1>12, <1>13 DEF InductiveInvariant, ValidContext

(* Initialize_F_Private, which all operations on opaque fields end with. *)
LEMMA PrivateStep ==
    ASSUME InductiveInvariant, NEW f \in Composite, NEW length \in Lengths,
           InitializePossible(f, length), InitializePrivate(f, length),
           buffer' \in [BufferBits -> {0, 1}], UNCHANGED <<holder, bounds, todo>>
    PROVE  InductiveInvariant'
  <1>1. f \in Fields /\ f \notin Scalars /\ length \in Nat
    BY DEF Scalars, Lengths
  <1>2. SetPossible(f) /\ ValidSize(f, 8 * length) /\ ValidNext(f)
    BY DEF InitializePossible, SetPossible
  <1>3. FieldFirst(f) \in Nat /\ FieldFirst(f) + 8 * length - 1 \in Nat
        /\ (FieldFirst(f) + 8 * length - 1) % 8 = 0
    BY <1>1, <1>2, FieldPosition DEF InitializePrivate, PrivateLastOK, PrivateLast
  <1>4. ByteEnd(FieldFirst(f) + 8 * length - 1) = FieldFirst(f) + 8 * length - 1
    BY <1>3, ByteEndBounds
  <1>5. /\ ResetDependentFields(f, SetCursor(f, "S_Well_Formed", 8 * length, 0))
        /\ verified_last' = FieldFirst(f) + 8 * length - 1
        /\ written_last' = FieldFirst(f) + 8 * length - 1
    BY DEF InitializePrivate, SetCursor
  <1>6. 8 * length \in Nat
    BY <1>1
  <1> QED
    BY <1>1, <1>2, <1>3, <1>4, <1>5, <1>6, SetterStep

(* The setters and Initialize_F keep the invariant. *)
LEMMA SerializerStep == InductiveInvariant /\ SerializerNext => InductiveInvariant'
  <1> SUFFICES ASSUME InductiveInvariant, NEW f \in Fields,
                      \/ f \in Scalars /\ \E v \in FieldValues[f] : SetScalar(f, v)
                      \/ SetEmpty(f)
                      \/ \E length \in Lengths : InitializeField(f, length)
                      \/ \E length \in Lengths, d \in Contents :
                            \/ SetSequence(f, length, d)
                            \/ SetOpaque(f, length, d)
                            \/ GenericSetOpaque(f, length, d)
               PROVE  InductiveInvariant'
    BY DEF SerializerNext
  <1>0. buffer \in [BufferBits -> {0, 1}]
    BY DEF InductiveInvariant, TypeOK
  <1>1. ASSUME f \in Scalars, NEW v \in FieldValues[f], SetScalar(f, v)
        PROVE  InductiveInvariant'
    <2>1. SetPossible(f) /\ ValidNext(f) /\ v \in Nat /\ f \notin Composite
      BY <1>1 DEF SetScalar, SetPossible, Scalars
    <2>2. FieldSize(f) \in Nat
      BY <2>1, FieldPosition
    <2>3. ~FieldLink(f).implicit
      BY <2>1, FieldLinkFollowed, LinksAssumption
    <2>4. ValidSize(f, FieldSize(f))
      BY <2>3 DEF ValidSize
    <2>5. /\ ResetDependentFields(f, SetCursor(f, "S_Valid", FieldSize(f), v))
          /\ verified_last' = ByteEnd(FieldFirst(f) + FieldSize(f) - 1)
          /\ written_last' = ByteEnd(FieldFirst(f) + FieldSize(f) - 1)
      BY <1>1 DEF SetScalar, Set, SetCursor
    <2>6. buffer' \in [BufferBits -> {0, 1}] /\ UNCHANGED <<holder, bounds, todo>>
      BY <1>0, <1>1, BufferType DEF SetScalar
    <2> QED BY <1>1, <2>1, <2>2, <2>3, <2>4, <2>5, <2>6, SetterStep
  <1>2. CASE SetEmpty(f)
    <2>1. SetPossible(f) /\ ValidNext(f) /\ f \in Composite /\ f \notin Scalars /\ FieldSize(f) = 0
      BY <1>2 DEF SetEmpty, SetPossible, Scalars
    <2>2. ValidSize(f, 0)
      BY <2>1 DEF ValidSize, SetPossible, SufficientSpace
    <2>3. /\ ResetDependentFields(f, SetCursor(f, "S_Valid", 0, 0))
          /\ verified_last' = ByteEnd(FieldFirst(f) + 0 - 1)
          /\ written_last' = ByteEnd(FieldFirst(f) + 0 - 1)
      BY <1>2 DEF SetEmpty, Set, SetCursor
    <2>4. buffer' \in [BufferBits -> {0, 1}] /\ UNCHANGED <<holder, bounds, todo>>
      BY <1>0, <1>2 DEF SetEmpty
    <2>5. ASSUME FieldLink(f).implicit
          PROVE  (FieldFirst(f) + 0 - 1) % 8 = 0
      <3>1. FieldSize(f) = written_last - SourceLast(FieldLink(f))
        BY <2>5 DEF FieldSize, TargetSize
      <3>2. FieldFirst(f) = SourceLast(FieldLink(f)) + 1 /\ SourceLast(FieldLink(f)) \in Int
        BY <2>1, <2>5, FieldPosition
      <3>3. written_last \in Nat /\ written_last % 8 = 0
        BY DEF InductiveInvariant, TypeOK, ValidContext, BoundsInvariant
      <3> QED BY <2>1, <3>1, <3>2, <3>3
    <2> QED BY <2>1, <2>2, <2>3, <2>4, <2>5, SetterStep
  <1>3. ASSUME NEW length \in Lengths, InitializeField(f, length)
        PROVE  InductiveInvariant'
    BY <1>0, <1>3, PrivateStep DEF InitializeField
  <1>4. ASSUME NEW length \in Lengths, NEW d \in Contents, SetSequence(f, length, d)
        PROVE  InductiveInvariant'
    <2>1. SetPossible(f) /\ f \in Composite /\ f \notin Scalars /\ ValidSize(f, 8 * length)
      BY <1>4 DEF SetSequence, Scalars
    <2>2. 8 * length \in Nat
      BY DEF Lengths
    <2>5. (FieldFirst(f) + 8 * length - 1) % 8 = 0
      <3>1. FieldFirst(f) \in Nat /\ FieldFirst(f) % 8 = 1 /\ length \in Nat
        BY <1>4, FieldPosition DEF SetSequence, SetPossible, Lengths
      <3> QED BY <3>1
    <2>3. /\ ResetDependentFields(f, SetCursor(f, "S_Valid", 8 * length, 0))
          /\ verified_last' = ByteEnd(FieldFirst(f) + 8 * length - 1)
          /\ written_last' = ByteEnd(FieldFirst(f) + 8 * length - 1)
      BY <1>4 DEF SetSequence, Set, SetCursor
    <2>4. buffer' \in [BufferBits -> {0, 1}] /\ UNCHANGED <<holder, bounds, todo>>
      BY <1>0, <1>4, BufferType DEF SetSequence
    <2> QED BY <2>1, <2>2, <2>3, <2>4, <2>5, SetterStep
  <1>5. ASSUME NEW length \in Lengths, NEW d \in Contents, SetOpaque(f, length, d)
        PROVE  InductiveInvariant'
    BY <1>0, <1>5, BufferType, PrivateStep DEF SetOpaque
  <1>6. ASSUME NEW length \in Lengths, NEW d \in Contents, GenericSetOpaque(f, length, d)
        PROVE  InductiveInvariant'
    BY <1>0, <1>6, BufferType, PrivateStep DEF GenericSetOpaque
  <1> QED
    BY <1>1, <1>2, <1>3, <1>4, <1>5, <1>6

(* Switch_To_F and Update_F keep the invariant. *)
LEMMA SequenceStep == InductiveInvariant /\ SequenceNext => InductiveInvariant'
  <1> SUFFICES ASSUME InductiveInvariant, NEW f \in Fields,
                      \/ SwitchTo(f)
                      \/ \E complete \in BOOLEAN, d \in Contents : Update(f, complete, d)
               PROVE  InductiveInvariant'
    BY DEF SequenceNext
  <1>0. buffer \in [BufferBits -> {0, 1}]
    BY DEF InductiveInvariant, TypeOK
  <1>1. CASE SwitchTo(f) /\ ~Invalid(f)
    <2>1. WellFormed(f) /\ UNCHANGED <<bounds, verified_last, written_last, cursors, buffer, todo>>
          /\ holder' = f /\ f \in SequenceFields /\ todo = 0
      BY <1>1 DEF SwitchTo, SetPossible, Invalid, WellFormed, InductiveInvariant, TypeOK,
                  FieldCursor, CursorState
    <2>2. TypeOK'
      BY <2>1 DEF TypeOK, InductiveInvariant, bounds
    <2>3. HolderInvariant'
      BY <2>1 DEF HolderInvariant, WellFormed
    <2> QED BY <2>1, <2>2, <2>3, SameContext
  <1>2. CASE SwitchTo(f) /\ Invalid(f)
    <2> DEFINE e == FieldFirst(f) + FieldSize(f) - 1
    <2>1. /\ ValidNext(f) /\ SufficientSpace(f) /\ f \in SequenceFields /\ f \in Composite
          /\ todo = 0 /\ holder' = f /\ f \notin Scalars
      BY <1>2 DEF SwitchTo, SetPossible, Scalars
    <2>2. /\ ResetDependentFields(f, SetCursor(f, "S_Well_Formed", FieldSize(f), 0))
          /\ verified_last' = e /\ written_last' = Max(written_last, e)
          /\ UNCHANGED <<buffer, bounds, todo>>
      BY <1>2 DEF SwitchTo, SetCursor
    <2>3. /\ FieldFirst(f) \in Nat /\ FieldFirst(f) >= 1 /\ FieldSize(f) \in Nat /\ e \in Nat
          /\ last \in Nat /\ written_last \in Nat /\ written_last % 8 = 0 /\ written_last <= last
      BY <2>1, FieldPosition DEF InductiveInvariant, ValidContext, BoundsInvariant, TypeOK
    <2>4. FieldLink(f).implicit => e = written_last
      <3> SUFFICES ASSUME FieldLink(f).implicit PROVE e = written_last
        OBVIOUS
      <3>1. FieldSize(f) = written_last - SourceLast(FieldLink(f))
        BY DEF FieldSize, TargetSize
      <3>2. FieldFirst(f) = SourceLast(FieldLink(f)) + 1 /\ SourceLast(FieldLink(f)) \in Int
        BY <2>1, FieldPosition
      <3> QED BY <2>3, <3>1, <3>2
    <2>5. e % 8 = 0
      BY <1>2 DEF SwitchTo, SetCursor
    <2>6. e <= last
      BY <2>1, <2>3 DEF SufficientSpace, AvailableSpace
    <2>7. /\ written_last' \in Nat /\ written_last' <= last /\ written_last' % 8 = 0
          /\ verified_last' <= written_last' /\ verified_last' = ByteEnd(e)
          /\ FieldLink(f).implicit => written_last' = written_last
      BY <2>2, <2>3, <2>4, <2>5, <2>6, ByteEndBounds DEF Max
    <2> QED BY <1>0, <2>1, <2>2, <2>3, <2>7, StoreStep
  <1>3. ASSUME NEW complete \in BOOLEAN, NEW d \in Contents, Update(f, complete, d), ~complete
        PROVE  InductiveInvariant'
    <2>1. WellFormed(f) /\ todo = 0 /\ holder' = CONTEXT
      BY <1>3 DEF Update, InductiveInvariant, HolderInvariant
    <2>2. cursors' = [g \in Fields |-> IF g < f THEN cursors[g] ELSE ResetCursor]
      BY <1>3 DEF Update, ResetDependentFields
    <2>3. cursors' \in [Fields -> FieldCursor]
      BY <2>2, ResetCursorType DEF InductiveInvariant, TypeOK
    <2>4. buffer' \in [BufferBits -> {0, 1}] /\ UNCHANGED <<bounds, verified_last, written_last, todo>>
      BY <1>0, <1>3, BufferType DEF Update
    <2>5. TypeOK'
      BY <2>1, <2>3, <2>4 DEF TypeOK, InductiveInvariant, bounds
    <2>6. HolderInvariant'
      BY <2>1 DEF HolderInvariant, CONTEXT, Fields
    <2>7. \A g \in Fields : g >= f => cursors'[g] = ResetCursor
      BY <2>2 DEF Fields
    <2>8. CutAt(f)
      BY <2>2, <2>7 DEF CutAt, ResetCursor, Invalid, Size, Fields
    <2>9. Invalid(f)' /\ cursors'[f].Value = 0 /\ Size(cursors'[f]) = 0
      BY <2>7 DEF ResetCursor, Invalid, Size, Fields
    <2>10. CutsOff(f)
      BY <2>1, <2>4, <2>5, <2>6, <2>8, <2>9 DEF CutsOff
    <2> QED BY <2>10, CutOffStep
  <1>4. ASSUME NEW complete \in BOOLEAN, NEW d \in Contents, Update(f, complete, d), complete
        PROVE  InductiveInvariant'
    <2>1. WellFormed(f) /\ todo = 0 /\ holder' = CONTEXT /\ f \in Composite /\ f \notin Scalars
      BY <1>4 DEF Update, InductiveInvariant, HolderInvariant, TypeOK, CALLER, CONTEXT, Fields, Scalars
    <2>2. cursors' = [cursors EXCEPT ![f].State = "S_Valid"] /\ cursors \in [Fields -> FieldCursor]
      BY <1>4 DEF Update, InductiveInvariant, TypeOK
    <2>3. cursors' \in [Fields -> FieldCursor]
      BY <2>2 DEF FieldCursor, CursorState
    <2>4. buffer' \in [BufferBits -> {0, 1}] /\ UNCHANGED <<bounds, verified_last, written_last, todo>>
      BY <1>0, <1>4, BufferType DEF Update
    <2>5. TypeOK'
      BY <2>1, <2>3, <2>4 DEF TypeOK, InductiveInvariant, bounds
    <2>6. HolderInvariant'
      BY <2>1 DEF HolderInvariant, CONTEXT, Fields
    <2>7. \A g \in Fields : g # f => cursors'[g] = cursors[g]
      BY <2>2
    <2>8. /\ cursors'[f].First = cursors[f].First /\ cursors'[f].Last = cursors[f].Last
          /\ cursors'[f].Value = cursors[f].Value /\ cursors'[f].State = "S_Valid"
      BY <2>2 DEF FieldCursor
    <2> QED BY <2>1, <2>4, <2>5, <2>6, <2>7, <2>8, ShapeStep DEF WellFormed
  <1> QED
    BY <1>1, <1>2, <1>3, <1>4 DEF SwitchTo

-----------------------------------------------------------------------------
(* The results.                                                            *)

(* A default-initialised context satisfies the invariant. *)
LEMMA InitInductive == Init => InductiveInvariant
  <1> SUFFICES ASSUME Init PROVE InductiveInvariant
    OBVIOUS
  <1>1. TypeOK
    BY NoCursorsType DEF Init, TypeOK
  <1>2. BoundsInvariant
    BY DEF Init, BoundsInvariant
  <1> QED
    BY <1>1, <1>2, EmptyContext DEF Init

(* The strengthened invariant holds in every state that calls of the generated
   subprograms can reach, for every message that meets the assumptions: those that the
   model accepts, if their links out of the initial node are unconditional and overlays
   have the size of what they overlay.  Sequences may lie at any position.             *)
THEOREM ContextInductive == Spec => []InductiveInvariant
  <1>1. Init => InductiveInvariant
    BY InitInductive
  <1>2. InductiveInvariant /\ [Next]_vars => InductiveInvariant'
    <2> SUFFICES ASSUME InductiveInvariant, [Next]_vars
                 PROVE  InductiveInvariant'
      OBVIOUS
    <2>1. CASE ContextNext
      BY <2>1, ContextStep
    <2>2. CASE ParserNext
      BY <2>2, ParserStep
    <2>3. CASE SerializerNext
      BY <2>3, SerializerStep
    <2>4. CASE SequenceNext
      BY <2>4, SequenceStep
    <2>5. CASE UNCHANGED vars
      <3>1. TypeOK' /\ HolderInvariant'
        BY <2>5 DEF InductiveInvariant, TypeOK, HolderInvariant, WellFormed, vars
      <3> QED BY <2>5, <3>1, SameContext DEF vars, bounds
    <2> QED BY <2>1, <2>2, <2>3, <2>4, <2>5 DEF Next
  <1> QED
    BY <1>1, <1>2, PTL DEF Spec

(* The dynamic predicate Valid_Context of the generated context type is never violated,
   whatever calls are made in whatever order.                                          *)
THEOREM ContextValid == Spec => []ValidContext
  <1>1. InductiveInvariant => ValidContext
    BY DEF InductiveInvariant
  <1> QED
    BY <1>1, ContextInductive, PTL

(* Well-formed fields form one path of the message graph. *)
THEOREM ContextPath == Spec => []SinglePath
  <1>1. InductiveInvariant => SinglePath
    BY DEF InductiveInvariant
  <1> QED
    BY <1>1, ContextInductive, PTL

(* When the path is complete, Verified_Last delimits exactly the bytes of the message: the
   slice that Read, Data and Copy hand out is the whole message and nothing behind it.    *)
THEOREM ContextEnd == Spec => []MessageEnd
  <1>1. InductiveInvariant => MessageEnd
    BY DEF InductiveInvariant
  <1> QED
    BY <1>1, ContextInductive, PTL

(* In a message whose sequences start at byte boundaries and have sizes in bytes, which the
   model does not check, every field that can be accessed next is aligned the way Verify,
   Initialize_F and Switch_To_F assert it.                                                *)
THEOREM ContextAligned == SequencesAligned => (Spec => []Aligned)
  <1> SUFFICES ASSUME SequencesAligned PROVE Spec => []Aligned
    OBVIOUS
  <1>1. InductiveInvariant => Aligned
    BY FieldAligned DEF Aligned, SequencesAligned
  <1> QED
    BY <1>1, ContextInductive, PTL

(* The type invariant. *)
THEOREM ContextType == Spec => []TypeOK
  <1>1. InductiveInvariant => TypeOK
    BY DEF InductiveInvariant
  <1> QED
    BY <1>1, ContextInductive, PTL
=============================================================================
