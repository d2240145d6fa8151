-------------------------------- MODULE MCTlv --------------------------------
(***************************************************************************)
(* TLV::Message of tests/data/specs/tlv.rflx: Tag (8 bit, Msg_Data = 1 or  *)
(* Msg_Error = 3), Length (16 bit) and Value (Length bytes); a Msg_Error   *)
(* ends after the tag.  Length is restricted to LengthValues.              *)
(***************************************************************************)
EXTENDS MessageReference, Sequences

Tag == 1
Length == 2
Value == 3
MsgData == 1
MsgError == 3
LengthValues == 0 .. 2

MCNumFields == 3
MCLink(s, t, alt) == [source |-> s, target |-> t, overlay |-> FALSE, implicit |-> FALSE, alt |-> alt]
MCLinks == {MCLink(0, Tag, 0), MCLink(Tag, 4, 0), MCLink(Tag, Length, 0),
            MCLink(Length, Value, 0), MCLink(Value, 4, 0)}
MCFieldValues == [f \in {Tag, Length} |-> IF f = Tag THEN {MsgData, MsgError} ELSE LengthValues]
MCCondition(l, v, p) ==
    l.source = Tag => v[Tag] = IF l.target = Length THEN MsgData ELSE MsgError
MCLinkSize(l, v, p) ==
    CASE l.target = Tag -> 8 [] l.target = Length -> 16 [] l.target = Value -> 8 * v[Length]
      [] OTHER -> 0
MCBufferLength == 5
Bits(bytes) == [i \in 1 .. 8 * MCBufferLength |-> Bit(bytes[((i - 1) \div 8) + 1], 7 - ((i - 1) % 8))]
MCEndPhases(f, v, p) == {0}
MCContents == {Bits(b) : b \in {<<1, 0, 1, 1, 3>>, <<3, 1, 0, 0, 2>>, <<1, 0, 2, 0, 1>>}}
MCWindows == {<<1, 40>>, <<9, 32>>, <<9, 8>>}
=============================================================================
