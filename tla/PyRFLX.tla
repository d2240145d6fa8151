------------------------------- MODULE PyRFLX -------------------------------
(***************************************************************************)
(* PyRFLX's message values (rflx/pyrflx/typevalue.py): a message that is   *)
(* built field by field or parsed from bytes.                              *)
(*                                                                         *)
(* A MessageValue does not keep the path through the message.  It keeps    *)
(* the values of its fields, where they start, the list of the fields that *)
(* can be accessed and a mapping that is used to simplify conditions and   *)
(* sizes, and derives everything else.  Setting a field rebuilds the       *)
(* mapping and extends the list of accessible fields; fields that were set *)
(* before on another path keep their values.                               *)
(*                                                                         *)
(* Positions and sizes are in bytes, a scalar takes one byte.  A condition *)
(* is a set of conjuncts, each of which restricts the value of one field,  *)
(* of a parameter or the size of the message.                              *)
(***************************************************************************)
EXTENDS Integers, Sequences, FiniteSets, SequencesExt

CONSTANTS Messages,    \* the message types that are checked
          MaxByte,     \* bytes are 0..MaxByte
          MaxBytes     \* length of the opaque values and messages that are tried

Byte == 0..MaxByte
Initial == "Initial"
Final == "Final"
NoField == ""
Undefined == -2        \* no Number; -1 is the last bit of an empty field at 0

FieldNames(m) == ToSet(m.fields)
IsComposite(m, f) == f = Initial \/ m.kind[f] # "Scalar"

ASSUME MessagesAssumption ==
  \A m \in Messages : \A i \in DOMAIN m.links :
    /\ m.links[i].source \in FieldNames(m) \union {Initial}
    /\ m.links[i].target \in FieldNames(m) \union {Final}

VARIABLE value         \* the message value

-----------------------------------------------------------------------------
(* Conditions and sizes *)

(* _simplified of a name.  UNDEFINED: the name stays in the expression. *)
Simplified(s, name) ==
  CASE name = "Message" -> s.mapping.message
    [] name \in DOMAIN s.parameters -> s.parameters[name]
    [] OTHER -> s.mapping.variable[name]

Holds(s, condition) == \A c \in condition : Simplified(s, c.name) \in c.values
Fails(s, condition) ==
  \E c \in condition : Simplified(s, c.name) \notin c.values \union {Undefined}

Outgoing(m, f) == SelectSeq(m.links, LAMBDA l : l.source = f)
Incoming(m, f) == SelectSeq(m.links, LAMBDA l : l.target = f)

(* the path condition of a field simplifies to TRUE *)
PathHolds(s, f) ==
  LET fields == <<Initial>> \o s.type.fields
      reached(acc, g) ==
        IF g = Initial \/ \E i \in DOMAIN Incoming(s.type, g) :
             LET l == Incoming(s.type, g)[i] IN l.source \in acc /\ Holds(s, l.condition)
        THEN acc \union {g} ELSE acc
  IN f \in FoldLeft(reached, {}, fields)

-----------------------------------------------------------------------------
(* Fields *)

Size(s, f) ==
  CASE f = Initial -> 0
    [] ~IsComposite(s.type, f) -> 1
    [] s.type.kind[f] = "Opaque" -> IF s.initialized[f] THEN Len(s.data[f]) ELSE s.expected[f]
    [] OTHER -> IF s.data[f] # <<>> THEN Len(s.data[f]) ELSE s.expected[f]

FieldLast(s, f) == IF Undefined \in {s.first[f], Size(s, f)} THEN Undefined
                   ELSE s.first[f] + Size(s, f) - 1

IsSet(s, f) == s.initialized[f] /\ Undefined \notin {Size(s, f), s.first[f]}

NextLink(s, f) == SelectSeq(Outgoing(s.type, f), LAMBDA l : Holds(s, l.condition))

NextField(s, f) ==
  CASE f = Final -> NoField
    [] f # Final /\ s.skip /\ s.next[f] # NoField -> s.next[f]
    [] OTHER -> IF NextLink(s, f) = <<>> THEN NoField ELSE Head(NextLink(s, f)).target

PrevField(s, f) ==
  LET prev == SelectSeq(Incoming(s.type, f), LAMBDA l : Holds(s, l.condition))
      accessible == SelectSeq(prev, LAMBDA l : l.source \in ToSet(s.accessible))
  IN CASE s.skip -> s.prev[f]
       [] ~s.skip /\ Len(prev) = 1 -> prev[1].source
       [] OTHER -> IF accessible = <<>> THEN NoField ELSE accessible[1].source

(* The size of a link: a number, the value of a field, or what is left of
   the message after the source. *)
SimplifiedSize(s, l) ==
  CASE l.size = "Rest" -> IF Undefined \in {s.mapping.message, s.mapping.last[l.source]}
                          THEN Undefined
                          ELSE s.mapping.message - s.mapping.last[l.source] - 1
    [] OTHER -> Simplified(s, l.size)

GetSize(s, f) ==
  LET links == SelectSeq(Incoming(s.type, f),
                         LAMBDA l : /\ IsSet(s, l.source)
                                    /\ l.size # NoField
                                    /\ s.skip \/ Holds(s, l.condition))
  IN CASE ~IsComposite(s.type, f) -> Size(s, f)
       [] links # <<>> -> SimplifiedSize(s, Head(links))
       [] OTHER -> Undefined

Behind(s, prev) ==
  IF prev = NoField \/ FieldLast(s, prev) = Undefined THEN Undefined ELSE FieldLast(s, prev) + 1

GetFirst(s, f) ==
  LET links == SelectSeq(Incoming(s.type, f),
                         LAMBDA l : l.first # NoField /\ (s.skip \/ Holds(s, l.condition)))
  IN IF links # <<>> THEN s.mapping.first[Head(links).first] ELSE Behind(s, PrevField(s, f))

(* The fields after f, as far as the next field is known; the last element
   is Final or NoField. *)
Path(s, f) ==
  FoldLeft(LAMBDA path, g : IF Last(path) \in {Final, NoField} THEN path
                            ELSE Append(path, NextField(s, Last(path))),
           <<NextField(s, f)>>, s.type.fields)

(* MessageValue.bitstring: the fields from the first one on, each at its
   first position, which cuts off what an overlaid field wrote behind it. *)
Bits(s) ==
  FoldLeft(LAMBDA acc, f :
             IF acc.end \/ f \in {Final, NoField} \/ ~IsSet(s, f) \/ s.first[f] > Len(acc.bits)
             THEN [acc EXCEPT !.end = TRUE]
             ELSE [acc EXCEPT !.bits = SubSeq(@, 1, s.first[f]) \o s.data[f]],
           [bits |-> <<>>, end |-> FALSE], Path(s, Initial)).bits

-----------------------------------------------------------------------------
(* The mapping *)

EmptyMapping(m) ==
  LET none == [f \in FieldNames(m) \union {Initial} |-> Undefined]
  IN [variable |-> none, first |-> none, last |-> none, message |-> Undefined]

Mapped(s) ==
  LET all == DOMAIN s.first
      variable == [f \in all |-> IF f # Initial /\ ~IsComposite(s.type, f) /\ IsSet(s, f)
                                 THEN s.data[f][1] ELSE Undefined]
  IN [s EXCEPT !.mapping = [variable |-> variable, first |-> s.first,
                            last |-> [f \in all |-> FieldLast(s, f)], message |-> Undefined]]

(* The size of the message gets into the mapping only if the path ends at a
   field whose next field is unknown without it. *)
AddMessageSize(s, path, messageSize) ==
  LET end == path[Len(path) - 1]
      stuck == /\ Last(path) = NoField /\ Len(path) > 1
               /\ \A i \in 1..(Len(path) - 1) : s.mapping.last[path[i]] # Undefined
               /\ \E i \in DOMAIN Outgoing(s.type, end) : Outgoing(s.type, end)[i].target = Final
  IN [s EXCEPT !.mapping.message =
        IF ~stuck THEN Undefined
        ELSE IF messageSize > 0 THEN messageSize ELSE s.mapping.last[end] + 1]

UpdateSimplifiedMapping(s, messageSize) ==
  AddMessageSize(Mapped(s), Path(Mapped(s), Initial), messageSize)

-----------------------------------------------------------------------------
(* Accessible fields *)

IsValidCompositeField(s, f) ==
  LET links == SelectSeq(Incoming(s.type, f),
                         LAMBDA l : l.size # NoField /\ IsSet(s, l.source) /\ Holds(s, l.condition))
  IN links # <<>> /\ \/ Head(links).size \in DOMAIN s.parameters \union {"Rest"}
                     \/ IsSet(s, Head(links).size)

(* Mutant: an opaque field that was set before is kept *)
StaleMutant(s, f) == FALSE

(* an opaque field that was set before loses its value *)
Stale(s, f) == IsSet(s, f) /\ s.type.kind[f] = "Opaque"

Accessible(s, f, size) ==
  /\ PathHolds(s, f)
  /\ IF IsComposite(s.type, f) THEN IsValidCompositeField(s, f) ELSE size # Undefined

(* where a field starts; an opaque field that is there already is cleared
   and ends the loop *)
Positioned(s, f, first, size) ==
  [s EXCEPT !.first[f] = first, !.expected[f] = IF s.type.kind[f] = "Opaque" THEN size ELSE @]

Placed(t, f) ==
  IF Stale(t, f)
  THEN [value |-> [t EXCEPT !.first[f] = Undefined, !.initialized[f] = FALSE, !.data[f] = <<>>],
        next |-> NoField]
  ELSE [value |-> t, next |-> NextField(t, f)]

(* One iteration of _preset_fields for the field f, which starts at first *)
PresetAt(s, f, fields, first, size) ==
  [fields |-> IF first # Undefined /\ Accessible(s, f, size) THEN Append(fields, f) ELSE fields]
  @@ IF Undefined \in {first, size} THEN [value |-> s, next |-> NoField]
     ELSE Placed(Positioned(s, f, first, size), f)

PresetField(acc, ignored) ==
  IF acc.next \in {Final, NoField} THEN acc
  ELSE PresetAt(acc.value, acc.next, acc.fields, GetFirst(acc.value, acc.next),
                GetSize(acc.value, acc.next))

PresetFields(s, f) ==
  LET kept == SelectSeq([i \in DOMAIN s.accessible |-> i], LAMBDA i : s.accessible[i] = f)
      Extended(result) ==
        [result.value EXCEPT !.accessible =
           IF kept = <<>> THEN result.fields ELSE SubSeq(@, 1, Head(kept)) \o result.fields]
  IN Extended(FoldLeft(PresetField, [value |-> s, fields |-> <<>>, next |-> NextField(s, f)],
                       s.type.fields))

-----------------------------------------------------------------------------
(* Construction *)

NewMessage(m, parameters, skip) ==
  LET all == FieldNames(m) \union {Initial}
      s == [type |-> m, parameters |-> parameters, skip |-> skip,
            data |-> [f \in all |-> <<>>],
            initialized |-> [f \in all |-> f = Initial \/ m.kind[f] = "Sequence"],
            first |-> [f \in all |-> IF f = Initial THEN 0 ELSE Undefined],
            expected |-> [f \in all |-> Undefined],
            refined |-> {}, accessible |-> <<>>, mapping |-> EmptyMapping(m),
            calculated |-> FALSE, function |-> FALSE,
            prev |-> [f \in all |-> NoField], next |-> [f \in all |-> NoField],
            lastField |-> Initial]
  IN IF skip THEN s ELSE PresetFields(s, Initial)

-----------------------------------------------------------------------------
(* Setting a field *)

Result(s, o) == [value |-> s, outcome |-> o]

SizeFits(s, f, bytes) == s.expected[f] \in {Undefined, Len(bytes)}

AssignedScalar(s, f, bytes) == IF bytes[1] \in s.type.values[f] THEN <<bytes>> ELSE <<>>

(* A nested message stores its own bytes, without what follows it. *)
AssignedOpaque(s, f, bytes) ==
  LET nested == s.type.refinement
  IN CASE ~SizeFits(s, f, bytes) -> <<>>
       [] SizeFits(s, f, bytes) /\ f \in s.refined ->
            IF Len(bytes) >= nested.size /\ bytes[1] \in nested.values
            THEN <<SubSeq(bytes, 1, nested.size)>> ELSE <<>>
       [] OTHER -> <<bytes>>

AssignedSequence(s, f, bytes) ==
  IF SizeFits(s, f, bytes) /\ ToSet(bytes) \subseteq s.type.values[f] THEN <<bytes>> ELSE <<>>

(* what assign or parse of the type stores, nothing if it raises *)
Assigned(s, f, bytes) ==
  CASE s.type.kind[f] = "Scalar" -> AssignedScalar(s, f, bytes)
    [] s.type.kind[f] = "Opaque" -> AssignedOpaque(s, f, bytes)
    [] s.type.kind[f] = "Sequence" -> AssignedSequence(s, f, bytes)

(* check_outgoing_condition_satisfied *)
CheckOutgoing(s, f) ==
  LET out == Outgoing(s.type, f)
  IN CASE \A i \in DOMAIN out : Fails(s, out[i].condition) ->
            Result([s EXCEPT !.data[f] = <<>>, !.initialized[f] = FALSE], "error")
       [] \E i \in DOMAIN out : ~Fails(s, out[i].condition) /\ ~Holds(s, out[i].condition) ->
            Result(s, "assert")
       [] OTHER -> Result(s, "ok")

Store(s, f, stored, messageSize) ==
  IF stored = <<>> THEN Result(s, "error")
  ELSE CheckOutgoing(UpdateSimplifiedMapping(
         [s EXCEPT !.data[f] = Head(stored), !.initialized[f] = TRUE], messageSize), f)

(* set_expected_size and set_refinement *)
Prepared(s, f, first, size) ==
  LET refinement == s.type.refinement
  IN [s EXCEPT !.first[f] = first,
               !.expected[f] = IF IsComposite(s.type, f) /\ size # Undefined THEN size ELSE @,
               !.refined = IF f = refinement.field /\ Holds(s, refinement.condition)
                           THEN @ \union {f} ELSE @]

SetChecked(s, f, bytes, messageSize) ==
  LET Assign(t) == Store(t, f, Assigned(t, f, bytes), messageSize)
  IN IF f \notin ToSet(s.accessible) THEN Result(s, "error")
     ELSE IF GetFirst(s, f) = Undefined THEN Result(s, "assert")
     ELSE Assign(Prepared(s, f, GetFirst(s, f), GetSize(s, f)))

Preset(r, f) == IF r.outcome = "ok" THEN Result(PresetFields(r.value, f), "ok") ELSE r

-----------------------------------------------------------------------------
(* Checksums *)

(* The range of bytes the checksum is calculated over is known, and all
   fields in it but checksums are set. *)
IsChecksumSettable(s) ==
  LET c == s.type.checksum
      path == <<c.from>> \o Path(s, c.from)
  IN /\ Undefined \notin {s.mapping.first[c.from], s.mapping.last[c.to]}
     /\ \E n \in DOMAIN path :
          /\ path[n] = c.to
          /\ \A i \in 2..n : path[i] # c.field => IsSet(s, path[i])

(* the function the user provides; here a sum of the bytes *)
ChecksumFunction(bytes, lower, upper) ==
  FoldLeft(LAMBDA sum, b : (sum + b) % (MaxByte + 1), 0, SubSeq(bytes, lower + 1, upper + 1))

CalculateChecksum(s) ==
  LET c == s.type.checksum
  IN ChecksumFunction(Bits(s), s.mapping.first[c.from], s.mapping.last[c.to])

(* The checksum is calculated with zero in its place, and stored like any
   other field. *)
SetChecksum(r) ==
  LET c == r.value.type.checksum
      s == r.value
      zero == [s EXCEPT !.data[c.field] = <<0>>, !.initialized[c.field] = TRUE, !.calculated = TRUE]
      due == (IsSet(s, c.field) => s.calculated) /\ IsChecksumSettable(s)
  IN CASE r.outcome # "ok" \/ c.field = NoField -> r
       [] r.outcome = "ok" /\ c.field # NoField /\ due ->
            IF 0 \notin s.type.values[c.field] THEN Result(s, "error")
            ELSE IF ~s.function THEN Result(zero, "error")
            ELSE SetChecked(zero, c.field, <<CalculateChecksum(zero)>>, 0)
       [] OTHER -> r

-----------------------------------------------------------------------------
(* Valid messages *)

ValidFields(s) ==
  SelectSeq(s.accessible,
            LAMBDA f : /\ IsSet(s, f)
                       /\ PathHolds(s, f)
                       /\ NextLink(s, f) # <<>>)

ValidMessage(s) ==
  /\ ValidFields(s) # <<>>
  /\ NextField(s, Last(ValidFields(s))) = Final
  /\ s.type.checksum.field # NoField =>
       /\ IsChecksumSettable(s) /\ s.function
       /\ s.type.checksum.field \in ToSet(ValidFields(s))
       /\ s.data[s.type.checksum.field] = <<CalculateChecksum(s)>>

RequiredFields(s) == SelectSeq(s.accessible, LAMBDA f : f \notin ToSet(ValidFields(s)))

-----------------------------------------------------------------------------
(* Parsing *)

(* The field that follows an overlaid field starts where that one did. *)
CurrentPosition(s, f, acc) ==
  LET prev == s.first[PrevField(s, f)]
  IN IF prev # Undefined /\ prev = s.first[f] THEN acc.last ELSE acc.current

Parsed(r, f, position, current) ==
  [value |-> r.value, outcome |-> r.outcome, field |-> NextField(r.value, f),
   last |-> position, current |-> current]

(* A field of unknown size gets the rest of the bytes. *)
ParseAt(s, f, bytes, position, size) ==
  LET rest == size = Undefined
      end == IF rest THEN Len(bytes) ELSE position + size
      t == IF rest /\ GetFirst(s, f) # Undefined THEN [s EXCEPT !.first[f] = GetFirst(s, f)] ELSE s
  IN IF end > Len(bytes) THEN Parsed(Result(s, "error"), f, position, position)
     ELSE Parsed(Preset(SetChecked(t, f, SubSeq(bytes, position + 1, end), Len(bytes)), f),
                 f, position, IF rest THEN position ELSE end)

ParseField(acc, bytes) ==
  IF acc.field = NoField \/ PrevField(acc.value, acc.field) = NoField
  THEN [acc EXCEPT !.outcome = "assert"]
  ELSE ParseAt(acc.value, acc.field, bytes, CurrentPosition(acc.value, acc.field, acc),
               GetSize(acc.value, acc.field))

Parse(s, bytes) ==
  FoldLeft(LAMBDA acc, f : IF acc.outcome # "ok" \/ acc.field = Final THEN acc
                           ELSE ParseField(acc, bytes),
           [value |-> s, outcome |-> "ok", field |-> NextField(s, Initial),
            last |-> 0, current |-> 0],
           s.type.fields)

-----------------------------------------------------------------------------
(* Messages whose fields are set without verification *)

(* Mutant: the field set before does not become the previous field *)
LinkedMutant(s, f) == [s EXCEPT !.prev[f] = Initial, !.next[s.lastField] = f, !.lastField = f]

Linked(s, f) == [s EXCEPT !.prev[f] = s.lastField, !.next[s.lastField] = f, !.lastField = f]

SetUnchecked(s, f, bytes) ==
  LET t == Linked(s, f)
      u == [t EXCEPT !.first[f] = GetFirst(t, f),
                     !.expected[f] = IF IsComposite(s.type, f) /\ GetSize(t, f) # Undefined
                                     THEN GetSize(t, f) ELSE @,
                     !.data[f] = bytes, !.initialized[f] = TRUE,
                     !.accessible = Append(@, f)]
  IN [u EXCEPT !.mapping.variable[f] = IF IsComposite(s.type, f) THEN @ ELSE bytes[1],
               !.mapping.first[f] = u.first[f],
               !.mapping.last[f] = FieldLast(u, f),
               !.mapping.message = FieldLast(u, f) + 1]

(* _calculate_checksum raises an error if no function was provided.  The
   function belongs to the type, so that all of its messages have it if a valid
   one has. *)
UpdateChecksums(s) ==
  IF s.type.checksum.field = NoField THEN s
  ELSE [s EXCEPT !.data[s.type.checksum.field] = <<CalculateChecksum(s)>>]

-----------------------------------------------------------------------------
(* The calls *)

Inputs(m, f) == IF m.kind[f] = "Scalar" THEN {<<b>> : b \in Byte}
                ELSE UNION {[1..n -> Byte] : n \in 0..MaxBytes}

(* Package.new_message.  All messages of one type share whether their
   checksum was calculated, so that it may already be true. *)
Init ==
  \E m \in Messages : \E p \in [m.parameters -> Byte] : \E calculated \in BOOLEAN :
    value = [NewMessage(m, p, FALSE) EXCEPT !.calculated = calculated]

(* A call that raises keeps what it has changed so far. *)
SetField(f, bytes) ==
  value' = SetChecksum(Preset(SetChecked(value, f, bytes, 0), f)).value

ParseMessage(bytes) ==
  value' = Parse(value, bytes).value

SetChecksumFunction ==
  /\ value.type.checksum.field # NoField
  /\ value' = [value EXCEPT !.function = TRUE]

Next ==
  \/ \E f \in FieldNames(value.type) : \E bytes \in Inputs(value.type, f) : SetField(f, bytes)
  \/ \E n \in 1..MaxBytes : \E bytes \in [1..n -> Byte] : ParseMessage(bytes)
  \/ SetChecksumFunction

Spec == Init /\ [][Next]_value

-----------------------------------------------------------------------------
(* Properties *)

(* valid_message looks at the last valid field only, and the elements of a
   sequence are kept when its size changes or a call fails (only an opaque
   field is cleared).  A message is complete if no field is missing before
   the last one and every sequence has the size the message gives it. *)
Complete(s) ==
  /\ ValidMessage(s)
  /\ RequiredFields(s) = <<>>
  /\ \A f \in ToSet(ValidFields(s)) : s.type.kind[f] = "Sequence" => Len(s.data[f]) = GetSize(s, f)

(* A complete message is the message its bytestring stands for: a new
   message value that parses the bytestring gets the same fields with the
   same values.  In particular no value of a field that was set before, on
   another path or with another size, is left in the message, and a call
   that raised an error did not make it valid. *)
BytestringParses ==
  Complete(value) =>
    LET Agrees(r) ==
          /\ r.outcome = "ok"
          /\ ValidFields(r.value) = ValidFields(value)
          /\ \A f \in ToSet(ValidFields(value)) : r.value.data[f] = value.data[f]
    IN Agrees(Parse(NewMessage(value.type, value.parameters, FALSE), Bits(value)))

(* The fields of a valid message, set one after the other without
   verification, give the same bytestring, with or without an update of the
   checksums at the end. *)
UncheckedAgrees ==
  Complete(value) =>
    LET fast == FoldLeft(LAMBDA s, f : SetUnchecked(s, f, value.data[f]),
                         NewMessage(value.type, value.parameters, TRUE), ValidFields(value))
    IN Bits(fast) = Bits(value) /\ Bits(UpdateChecksums(fast)) = Bits(value)
=============================================================================
