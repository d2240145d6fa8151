-------------------------- MODULE MessageReference --------------------------
(***************************************************************************)
(* A reference parser for a message, written from the message              *)
(* specification alone (follow the one link whose condition holds until    *)
(* FINAL), and the recursive computation of field positions that           *)
(* create_field_first_internal_function generates.  Both are compared with *)
(* the state a context is in.                                              *)
(***************************************************************************)
EXTENDS MessageContextInv

(* The values of a scalar type fit into its size (model/type_decl.py rejects a type whose
   "size ... too small").                                                                *)
ASSUME ScalarsAssumption ==
    \A l \in Links : l.target \in Scalars =>
        \A v \in Valuations(l.source), p \in Parameters, x \in FieldValues[l.target] :
            ShiftRight(x, LinkSize(l, v, p)) = 0

Taken(n, v) == {l \in Outgoing(n) : Condition(l, Prefix(v, n), parameters)}

RefStart(l, fst, lst) == IF l.source = INITIAL THEN fst
                         ELSE IF l.overlay THEN fst ELSE lst + 1
RefSize(l, v, lst, end) == IF l.implicit THEN end - lst ELSE LinkSize(l, Prefix(v, l.source), parameters)

(* One step of parsing the bits of b up to end: r holds the field found last, where it
   lies and the values so far.                                                        *)
RefStep(b, end, r) ==
    LET l == CHOOSE k \in Taken(r.field, r.values) : TRUE
        f == l.target
        s == RefStart(l, r.first, r.last)
        e == s + RefSize(l, r.values, r.last, end) - 1
        x == IF f \in Composite THEN 0 ELSE Extract(b, s, e)
    IN  IF r.verdict # "parsing" THEN r
        ELSE IF Taken(r.field, r.values) = {} THEN [r EXCEPT !.verdict = "rejected"]
        ELSE IF f = FINAL THEN [r EXCEPT !.verdict = "accepted"]
        ELSE IF e > end THEN [r EXCEPT !.verdict = "incomplete"]
        ELSE IF ~ValidValue(f, x) THEN [r EXCEPT !.verdict = "rejected"]
        ELSE [verdict |-> "parsing", field |-> f, first |-> s, last |-> e,
              values |-> [r.values EXCEPT ![f] = IF f \in Composite THEN e - s + 1 ELSE x]]

RefInitial(fst) ==
    [verdict |-> "parsing", field |-> INITIAL, first |-> fst, last |-> fst - 1,
     values |-> [f \in Fields |-> 0]]

(* No path has more links than there are fields and FINAL. *)
Reference(b, fst, end) ==
    LET parse[n \in 0 .. FINAL] ==
            IF n = 0 THEN RefInitial(fst) ELSE RefStep(b, end, parse[n - 1])
    IN  parse[FINAL]

(* Field_First_F of the generated code: positions are not read from the cursors but
   added up from the sizes of the fields on the path.  Its precondition is Valid_Next. *)
(* Mutant: an overlay is placed behind the field it overlays. *)
FieldFirstInternalMutant(f) ==
    LET position[g \in {h \in Fields : ValidNext(h)}] ==
            LET l == FieldLink(g)
            IN  IF l.source = INITIAL THEN first ELSE position[l.source] + FieldSize(l.source)
    IN  position[f]
FieldFirstInternal(f) ==
    LET position[g \in {h \in Fields : ValidNext(h)}] ==
            LET l == FieldLink(g)
            IN  IF l.source = INITIAL THEN first
                ELSE position[l.source] + IF l.overlay THEN 0 ELSE FieldSize(l.source)
    IN  position[f]

-----------------------------------------------------------------------------
(* The position that Field_First computes by adding up field sizes is where the
   cursors of the preceding fields say that the field starts, for every field that
   can be accessed next in any state of the context.                              *)
FieldFirstAgrees ==
    \A f \in Fields : ValidNext(f) => FieldFirstInternal(f) = FieldFirst(f)

(* Fields that no other field overlays. *)
NotOverlaid == Fields \ {l.source : l \in {k \in Links : k.overlay}}

(* The value a getter returns is the one stored in the buffer: setters, the user's
   sequence contexts and later fields never overwrite a field that stays valid.     *)
ValuesInBuffer ==
    \A f \in Scalars \cap NotOverlaid : Valid(f) =>
        cursors[f].Value = Extract(buffer, cursors[f].First, cursors[f].Last)

(* The bytes of a message that the context reports as well-formed, however it came
   about (parsed, set field by field, or a mixture), parse to the same message.     *)
ReparseAgrees ==
    WellFormedMessage =>
        LET r == Reference(buffer, first, verified_last)
        IN  /\ r.verdict = "accepted" /\ r.last = verified_last
            /\ \A f \in Scalars : Valid(f) => r.values[f] = cursors[f].Value

(* When Verify_Message returns, the context reports a well-formed message exactly if
   the written bytes are one, and an incomplete message exactly if bytes are missing,
   whatever was verified or set before the call.                                     *)
VerifyMessageVerdict ==
    [][todo = NumFields /\ todo' = 0 =>
        LET r == Reference(buffer, first, written_last)
        IN  /\ WellFormedMessage' <=> r.verdict = "accepted"
            /\ IncompleteMessage' <=> r.verdict = "incomplete"]_vars
=============================================================================
