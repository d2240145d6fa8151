------------------------------ MODULE MCPyRFLX ------------------------------
(* Message types of PyRFLX for TLC *)
EXTENDS PyRFLX, TLC

True == {}
Is(n, S) == {[name |-> n, values |-> S]}
L(s, c, t) == [source |-> s, target |-> t, condition |-> c, size |-> "", first |-> ""]
LS(s, c, t, z) == [L(s, c, t) EXCEPT !.size = z]
NoChecksum == [field |-> "", from |-> "", to |-> ""]
NoRefinement == [field |-> "", condition |-> True, values |-> {}, size |-> 1]
Plain(fields, kind, vals, links) ==
  [fields |-> fields, kind |-> kind, values |-> vals, links |-> links,
   parameters |-> {}, checksum |-> NoChecksum, refinement |-> NoRefinement]

(* tag, length and value; a tag 2 has no message *)
TLV == Plain(<<"Tag", "Length", "Value">>,
  "Tag" :> "Scalar" @@ "Length" :> "Scalar" @@ "Value" :> "Opaque",
  "Tag" :> {0, 1, 2} @@ "Length" :> {0, 1, 2},
  <<L("Initial", True, "Tag"), L("Tag", Is("Tag", {0}), "Final"), L("Tag", Is("Tag", {1}), "Length"),
    LS("Length", True, "Value", "Length"), L("Value", True, "Final")>>)

(* an optional opaque field, followed by an optional scalar *)
Optional == Plain(<<"Length", "Data", "Flag", "Extra">>,
  "Length" :> "Scalar" @@ "Data" :> "Opaque" @@ "Flag" :> "Scalar" @@ "Extra" :> "Scalar",
  "Length" :> {0, 1} @@ "Flag" :> {0, 1, 2} @@ "Extra" :> {0, 1},
  <<L("Initial", True, "Length"), LS("Length", Is("Length", {1}), "Data", "Length"),
    L("Length", Is("Length", {0}), "Flag"), L("Data", True, "Flag"),
    L("Flag", Is("Flag", {0}), "Final"), L("Flag", Is("Flag", {1}), "Extra"), L("Extra", True, "Final")>>)

(* a field that is laid over its predecessor, and a payload up to the end *)
Overlay == Plain(<<"Kind", "Inner", "Payload">>,
  "Kind" :> "Scalar" @@ "Inner" :> "Scalar" @@ "Payload" :> "Opaque",
  "Kind" :> {0, 1} @@ "Inner" :> {1},
  <<L("Initial", True, "Kind"), [L("Kind", Is("Kind", {1}), "Inner") EXCEPT !.first = "Kind"],
    LS("Kind", Is("Kind", {0}), "Payload", "Rest"), LS("Inner", True, "Payload", "Rest"),
    L("Payload", True, "Final")>>)

(* a checksum over all other fields *)
Checksum == [Plain(<<"Length", "Data", "Checksum">>,
  "Length" :> "Scalar" @@ "Data" :> "Opaque" @@ "Checksum" :> "Scalar",
  "Length" :> {0, 1} @@ "Checksum" :> Byte,
  <<L("Initial", True, "Length"), LS("Length", True, "Data", "Length"), L("Data", True, "Checksum"),
    L("Checksum", True, "Final")>>) EXCEPT
  !.checksum = [field |-> "Checksum", from |-> "Length", to |-> "Data"]]

(* the first field depends on a parameter, the end on the size *)
Parameter == [Plain(<<"A", "B", "C">>,
  "A" :> "Scalar" @@ "B" :> "Scalar" @@ "C" :> "Scalar",
  "A" :> {0, 1} @@ "B" :> {0, 1} @@ "C" :> {0},
  <<L("Initial", Is("P", {0}), "A"), L("Initial", Is("P", {1, 2}), "B"), L("A", True, "C"),
    L("B", Is("Message", {1}), "Final"), L("B", Is("Message", {2, 3}), "C"), L("C", True, "Final")>>)
  EXCEPT !.parameters = {"P"}]

(* the payload is a message if the tag is 1 *)
Refined == [Plain(<<"Tag", "Payload">>,
  "Tag" :> "Scalar" @@ "Payload" :> "Opaque", "Tag" :> {0, 1},
  <<L("Initial", True, "Tag"), LS("Tag", True, "Payload", "Tag"), L("Payload", True, "Final")>>)
  EXCEPT !.refinement = [field |-> "Payload", condition |-> Is("Tag", {1}), values |-> {0, 1}, size |-> 1]]

(* whether a field is the last one depends on a field before it *)
Dependent == Plain(<<"A", "B", "C">>,
  "A" :> "Scalar" @@ "B" :> "Scalar" @@ "C" :> "Scalar",
  "A" :> {0, 1} @@ "B" :> {0, 1} @@ "C" :> {0, 1},
  <<L("Initial", True, "A"), L("A", True, "B"), L("B", Is("A", {1}), "C"),
    L("B", Is("A", {0}) \union Is("B", {0}), "Final"), L("C", True, "Final")>>)

(* a sequence of scalars *)
Vector == Plain(<<"Length", "Vector">>,
  "Length" :> "Scalar" @@ "Vector" :> "Sequence", "Length" :> {0, 1, 2} @@ "Vector" :> {0, 1},
  <<L("Initial", True, "Length"), LS("Length", True, "Vector", "Length"), L("Vector", True, "Final")>>)

MCMessages == {Dependent, Vector, TLV, Optional, Overlay, Checksum, Parameter, Refined}
=============================================================================
