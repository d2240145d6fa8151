----------------------------- MODULE MCEthernet -----------------------------
(***************************************************************************)
(* Ethernet::Frame of tests/data/specs/ethernet.rflx with scaled-down      *)
(* numbers and without the addresses and the TCI.  Type_Length_TPID is     *)
(* read again as TPID if it has the value 9 and as Type_Length otherwise   *)
(* (First => Type_Length_TPID'First).  A Type_Length of at most 1 is the   *)
(* length of Payload, one of at least 9 leaves Payload the rest of the     *)
(* frame, and Payload must not be empty.  Payload is a sequence here, so   *)
(* that Set_Payload may shorten it to nothing.                             *)
(***************************************************************************)
EXTENDS MessageReference

TypeLengthTPID == 1
TPID == 2
TypeLength == 3
Payload == 4

MCNumFields == 4
MCLink(s, t, overlay, implicit) ==
    [source |-> s, target |-> t, overlay |-> overlay, implicit |-> implicit, alt |-> 0]
MCLinks == {MCLink(0, TypeLengthTPID, FALSE, FALSE), MCLink(TypeLengthTPID, TPID, TRUE, FALSE),
            MCLink(TypeLengthTPID, TypeLength, TRUE, FALSE), MCLink(TPID, TypeLength, FALSE, FALSE),
            MCLink(TypeLength, Payload, FALSE, FALSE), MCLink(TypeLength, Payload, FALSE, TRUE),
            MCLink(Payload, 5, FALSE, FALSE)}
MCFieldValues == [f \in {TypeLengthTPID, TPID, TypeLength} |-> IF f = TPID THEN {9} ELSE {0, 1, 9, 12}]
MCCondition(l, v, p) ==
    CASE l.source = TypeLengthTPID -> v[TypeLengthTPID] = 9 <=> l.target = TPID
      [] l.source = TypeLength -> IF l.implicit THEN v[TypeLength] >= 9 ELSE v[TypeLength] <= 1
      [] l.source = Payload -> v[Payload] \div 8 >= 1
      [] OTHER -> TRUE
MCLinkSize(l, v, p) == IF l.target = Payload THEN 8 * v[TypeLength] ELSE 8
MCBufferLength == 3
Bits(bytes) == [i \in 1 .. 8 * MCBufferLength |-> Bit(bytes[((i - 1) \div 8) + 1], 7 - ((i - 1) % 8))]
MCEndPhases(f, v, p) == {0}
MCContents == {Bits(b) : b \in {<<9, 1, 5>>, <<12, 9, 9>>, <<1, 0, 9>>}}
MCWindows == {<<1, 24>>}
=============================================================================
