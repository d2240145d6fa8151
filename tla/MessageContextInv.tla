------------------------- MODULE MessageContextInv -------------------------
(***************************************************************************)
(* What the verification of a message (Message._verify) establishes before *)
(* code is generated for it, as far as the invariants of the context rest  *)
(* on it, and the inductive strengthening of these invariants.             *)
(*                                                                         *)
(* The checks of _verify ask a solver about each path to a field, given    *)
(* the conditions and sizes of the links of the path, and so do the        *)
(* assumptions.  Two of them are stronger than what is checked:            *)
(* InitialAssumption and OverlayAssumption.                                *)
(***************************************************************************)
EXTENDS MessageContext

(* For each field the remainders (by 8) of the positions it can end at, given the values
   of the fields up to it and the parameters.                                            *)
CONSTANT EndPhases(_, _, _)

OpaqueFields == Composite \ SequenceFields

Prefix(v, n) == [g \in 1 .. n |-> v[g]]

(* The values v of the fields up to n are those of some path to n: every field of the set
   W is reached from another one by a link whose condition and size agree with v.        *)
OnPath(n, v, p) ==
    \/ n = INITIAL
    \/ \E W \in SUBSET (1 .. n) :
          /\ n \in W
          /\ \A f \in W : \E l \in Incoming(f) :
                /\ l.source = INITIAL \/ l.source \in W
                /\ Condition(l, Prefix(v, l.source), p)
                /\ f \in Composite /\ ~l.implicit => v[f] = LinkSize(l, Prefix(v, l.source), p)

Possible(l, v, p) == OnPath(l.source, v, p) /\ Condition(l, v, p)

(* The links out of the initial node are unconditional.  Messages with conditions on such
   links are accepted, but the context of their packages does not keep its predicate (see
   README.md; the test messages_with_multiple_initial_links is excluded from the proof).  *)
ASSUME InitialAssumption ==
    \A l \in Links : l.source = INITIAL =>
        \A v \in Valuations(INITIAL), p \in Parameters : Condition(l, v, p)

(* _prove_conflicting_conditions *)
ASSUME ExclusiveAssumption ==
    \A k, l \in Links : k # l /\ k.source = l.source =>
        \A v \in Valuations(k.source), p \in Parameters :
            ~(Possible(k, v, p) /\ Possible(l, v, p))

(* _validate_link_aspects: a field of implicit size is a last field *)
ASSUME ImplicitAssumption ==
    \A l \in Links : l.implicit => \A k \in Links : k.source = l.target => k.target = FINAL

(* _prove_field_positions: sizes are not negative, those of opaque fields are multiples of
   a byte                                                                                *)
ASSUME SizeAssumption ==
    \A l \in Links : \A v \in Valuations(l.source), p \in Parameters : Possible(l, v, p) =>
        /\ LinkSize(l, v, p) \in Nat
        /\ l.target \in OpaqueFields => LinkSize(l, v, p) % 8 = 0

(* A field and the field it overlays have the same size.  _prove_overlays asks for one
   choice of values that makes them equal; that is the same if the sizes are constants,
   as those of scalars are.                                                             *)
ASSUME OverlayAssumption ==
    \A k, l \in Links : l.overlay /\ k.target = l.source =>
        /\ ~k.implicit /\ ~l.implicit
        /\ \A v \in Valuations(l.source), p \in Parameters :
              Possible(l, v, p) /\ Possible(k, Prefix(v, k.source), p) =>
                  LinkSize(l, v, p) = LinkSize(k, Prefix(v, k.source), p)

(* The sizes of sequences are multiples of a byte.  No check establishes this;
   _prove_message_size takes it for granted.                                  *)
SequencesInBytes ==
    \A l \in Links : \A v \in Valuations(l.source), p \in Parameters :
        l.target \in SequenceFields /\ Possible(l, v, p) => LinkSize(l, v, p) % 8 = 0

(* The remainders of the position before link l, and the one behind its target. *)
StartPhases(l, v, p) == IF l.source = INITIAL THEN {0} ELSE EndPhases(l.source, v, p)
PhaseBehind(l, v, p, q) ==
    IF l.overlay THEN q ELSE IF l.implicit THEN 0 ELSE (q + LinkSize(l, v, p)) % 8

(* _prove_field_positions and _prove_message_size: on every path opaque fields start, and
   the message ends, at a byte boundary.                                                 *)
ASSUME AlignmentAssumption ==
    \A l \in Links : \A v \in Valuations(l.source), p \in Parameters :
        l.target # FINAL /\ Possible(l, v, p) =>
            \A q \in StartPhases(l, v, p) :
                /\ l.target \in OpaqueFields => q = 0
                /\ SequencesInBytes /\ (\E k \in Outgoing(l.target) : k.target = FINAL) =>
                       PhaseBehind(l, v, p, q) = 0

(* EndPhases follows the paths of the message. *)
ASSUME PhaseAssumption ==
    \A l \in Links : l.target # FINAL =>
        \A w \in Valuations(l.target), p \in Parameters :
            LET v == Prefix(w, l.source)
            IN  Possible(l, v, p) => \A q \in StartPhases(l, v, p) :
                                        PhaseBehind(l, v, p, q) \in EndPhases(l.target, w, p)

(* Sequences start at a byte boundary, too.  No check establishes this either; it is an
   assertion of the generated code (precondition of Switch_To_F, Initialize_F_Private). *)
SequencesAligned ==
    /\ SequencesInBytes
    /\ \A l \in Links : \A v \in Valuations(l.source), p \in Parameters :
          l.target \in SequenceFields /\ Possible(l, v, p) => StartPhases(l, v, p) \subseteq {0}

-----------------------------------------------------------------------------
(* The assertions of Verify and Initialize_F_Private and the precondition of Switch_To_F
   on alignment: composite fields start at a byte boundary and fields with a link to
   FINAL end at one, whatever path leads to them, in messages that respect
   SequencesAligned.                                                                   *)
Aligned ==
    \A f \in Fields : ValidNext(f) =>
        /\ f \in Composite => FieldFirst(f) % 8 = 1
        /\ (\E l \in Outgoing(f) : l.target = FINAL) => FieldLast(f) % 8 = 0

(* Scalars are never merely well-formed, and a field that is not well-formed has value
   and size 0.                                                                         *)
StateInvariant ==
    \A f \in Fields :
        /\ f \in Scalars => cursors[f].State # "S_Well_Formed"
        /\ Invalid(f) => cursors[f].Value = 0 /\ Size(cursors[f]) = 0

(* The first field of the message is well-formed if any field is. *)
InitialFieldInvariant ==
    \A l \in Links : \A f \in Fields : l.source = INITIAL /\ WellFormed(f) =>
        l.target <= f /\ WellFormed(l.target)

(* The fields of the path end one after the other. *)
LastMonotone ==
    \A f, g \in Fields :
        f < g /\ WellFormed(f) /\ WellFormed(g) => cursors[f].Last <= cursors[g].Last

(* The fields end where the model has proved that they end. *)
PhaseInvariant ==
    \A f \in Fields : WellFormed(f) =>
        cursors[f].Last % 8 \in EndPhases(f, Values(cursors, f), parameters)

(* The field whose sequence context borrows the buffer is well-formed. *)
HolderInvariant == holder \in Fields => WellFormed(holder) /\ todo = 0

(* An induction hypothesis for ValidContext: the dynamic predicate of the context is
   preserved by every call only together with the shape of the path it describes.   *)
InductiveInvariant ==
    /\ TypeOK
    /\ StateInvariant
    /\ InitialFieldInvariant
    /\ LastMonotone
    /\ PhaseInvariant
    /\ HolderInvariant
    /\ SinglePath
    /\ ValidContext
    /\ MessageEnd
=============================================================================
