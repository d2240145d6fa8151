------------------------------ MODULE MCBranch ------------------------------
(***************************************************************************)
(* A message with two paths of different length and scalars that share     *)
(* bytes: Kind (4 bit) selects Short (4 bit) or Long (12 bit), both are    *)
(* followed by Body, a sequence that extends to the end of the message     *)
(* (Size => Message'Last - ...).  Kind = 2 is a valid value that no link   *)
(* accepts.                                                                *)
(***************************************************************************)
EXTENDS MessageReference, Sequences

Kind == 1
Short == 2
Long == 3
Body == 4

MCNumFields == 4
MCLink(s, t, implicit) == [source |-> s, target |-> t, overlay |-> FALSE, implicit |-> implicit, alt |-> 0]
MCLinks == {MCLink(0, Kind, FALSE), MCLink(Kind, Short, FALSE), MCLink(Kind, Long, FALSE),
            MCLink(Short, Body, TRUE), MCLink(Long, Body, TRUE), MCLink(Body, 5, FALSE)}
MCFieldValues == [f \in {Kind, Short, Long} |->
                    CASE f = Kind -> 0 .. 2 [] f = Short -> {0, 5} [] f = Long -> {1, 256}]
MCCondition(l, v, p) ==
    l.source = Kind => v[Kind] = IF l.target = Short THEN 0 ELSE 1
MCLinkSize(l, v, p) ==
    CASE l.target \in {Kind, Short} -> 4 [] l.target = Long -> 12 [] OTHER -> 0
MCBufferLength == 3
Bits(bytes) == [i \in 1 .. 8 * MCBufferLength |-> Bit(bytes[((i - 1) \div 8) + 1], 7 - ((i - 1) % 8))]
MCEndPhases(f, v, p) == IF f = Kind THEN {4} ELSE {0}
MCContents == {Bits(b) : b \in {<<5, 17, 0>>, <<17, 0, 32>>, <<32, 16, 1>>}}
MCWindows == {<<1, 24>>, <<9, 24>>}
=============================================================================
