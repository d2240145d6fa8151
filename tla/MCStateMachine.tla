--------------------------- MODULE MCStateMachine ---------------------------
(* State machines for TLC.  The first uses every kind of statement and of   *)
(* value, a state for each group of them; sizes are 1 or 2 units.           *)
EXTENDS StateMachine

value(f, k, of, from) == [field |-> f, value |-> k, of |-> of, from |-> from]
scalar(f) == value(f, "Scalar", "", "")

over(kind, at, target, of, field, cond, elements) ==
    [kind |-> kind, at |-> at, target |-> target, of |-> of, field |-> field, iterator |-> "E",
     selector |-> cond, condition |-> cond, conditional |-> cond # <<>>, elements |-> elements]

access(target, of, field) == [kind |-> "FieldAccess", target |-> target, of |-> of, field |-> field]

VarDecl(v, at) == [kind |-> "VarDecl", var |-> v, at |-> at]

goto(target) == <<[stmts |-> <<>>, target |-> target]>>

MCStates == {"Receive", "Build", "Collect", "Search", "Pick", "Edit", "Compute", "Reply", "Done", "Final"}

MCMachine == [s \in MCStates |->
    CASE s = "Receive" ->
           [actions |-> <<[kind |-> "Read", var |-> "Request", channel |-> "C"]>>,
            transitions |-> <<[stmts |-> <<access("T", "Request", "Tag")>>, target |-> "Build"]>>
                            \o goto("Collect") \o goto("Search") \o goto("Pick")
                            \o goto("Edit") \o goto("Compute") \o goto("Final"),
            exception |-> "Done"]
      [] s = "Build" ->
           [actions |-> <<[kind |-> "MsgAgg", target |-> "Response",
                           values |-> <<value("Tag", "ScalarField", "Request", "Tag"),
                                        value("Data", "FieldAccess", "Request", "Data")>>],
                          [kind |-> "MsgAgg", target |-> "Response",
                           values |-> <<scalar("Tag"), value("Data", "Opaque", "Request", "")>>]>>,
            transitions |-> goto("Reply"), exception |-> "Done"]
      [] s = "Collect" ->
           [actions |-> <<VarDecl("Local", "1"),
                          [kind |-> "Append", target |-> "List", elements |-> "Message",
                           values |-> <<scalar("Tag"), value("Data", "Empty", "", "")>>],
                          over("Comprehension", "2", "Local", "List", "",
                               <<access("A", "E", "Tag")>>, "Message"),
                          [kind |-> "MsgAgg", target |-> "Response",
                           values |-> <<scalar("Tag"), value("Data", "Sequence", "Local", "")>>]>>,
            transitions |-> goto("Reply"), exception |-> "Done"]
      [] s = "Search" ->
           [actions |-> <<VarDecl("Item", "3"), VarDecl("Numbers", "4"),
                          over("Find", "5", "Item", "Request", "Data", <<access("A", "E", "Tag")>>, "Message"),
                          over("Comprehension", "6", "Numbers", "Request", "Data", <<>>, "Scalar")>>,
            transitions |-> goto("Done"), exception |-> "Done"]
      [] s = "Pick" ->
           [actions |-> <<VarDecl("Item", "7"),
                          [kind |-> "Head", at |-> "8", target |-> "Item", of |-> "List", elements |-> "Message"],
                          over("Find", "9", "N", "List", "", <<>>, "Scalar")>>,
            transitions |-> goto("Done"), exception |-> "Done"]
      [] s = "Edit" ->
           [actions |-> <<VarDecl("Numbers", "A"),
                          [kind |-> "Append", target |-> "Numbers", elements |-> "Scalar", values |-> <<>>],
                          [kind |-> "Head", at |-> "B", target |-> "N", of |-> "Numbers", elements |-> "Scalar"],
                          [kind |-> "Add", target |-> "N", of |-> "N"],
                          [kind |-> "Reset", target |-> "Numbers"],
                          [kind |-> "FieldAssign", target |-> "Response", values |-> <<scalar("Tag")>>],
                          [kind |-> "DeltaMsgAgg", target |-> "Response",
                           values |-> <<value("Data", "Aggregate", "", "")>>]>>,
            transitions |-> goto("Reply"), exception |-> "Done"]
      [] s = "Compute" ->
           [actions |-> <<VarDecl("Item", "C"),
                          [kind |-> "Call", target |-> "S", returns |-> "Structure",
                           values |-> <<value("", "FieldAccess", "Request", "Data"),
                                        value("", "Opaque", "Request", ""),
                                        value("", "OpaqueSequence", "List", ""), scalar("")>>],
                          [kind |-> "MsgAgg", target |-> "Response",
                           values |-> <<scalar("Tag"), value("Data", "StructureField", "S", "")>>],
                          [kind |-> "Call", target |-> "Item", returns |-> "Message",
                           values |-> <<>>],
                          [kind |-> "Call", target |-> "N", returns |-> "Scalar",
                           values |-> <<value("", "Message", "Item", "")>>],
                          [kind |-> "Conversion", target |-> "Item", of |-> "Request", field |-> "Data"]>>,
            transitions |-> goto("Reply"), exception |-> "Final"]
      [] s = "Reply" ->
           [actions |-> <<[kind |-> "Write", var |-> "Response", channel |-> "C"]>>,
            transitions |-> goto("Done"), exception |-> "Final"]
      [] s = "Done" ->
           [actions |-> <<[kind |-> "Reset", target |-> "Response"]>>,
            transitions |-> goto("Receive"), exception |-> "Final"]
      [] OTHER -> [actions |-> <<>>, transitions |-> <<>>, exception |-> "Final"]]

MCGlobals == <<"Request", "Response", "List">>
MCComposite == {"Request", "Response", "List", "Numbers", "Local", "Item"}
MCKind == [v \in MCComposite |-> IF v \in {"List", "Numbers", "Local"} THEN "Sequence" ELSE "Message"]
MCFields == [v \in MCComposite |-> IF v = "Numbers" THEN <<>> ELSE <<"Tag", "Data">>]

sizes(default, global, local) == [default |-> default, global |-> global, local |-> local]

internal == [external |-> FALSE, size |-> sizes(2, [v \in {"Response"} |-> 1],
                                                [x \in {"Pick", "Search"} \X {"Item", "Numbers"} |-> 1])]

internalSlots ==
    "Request" :> 1 @@ "Response" :> 2 @@ "List" :> 3 @@ "A" :> 4 @@ "B" :> 5 @@ "C" :> 4
    @@ "1" :> 4 @@ "2" :> 5 @@ "3" :> 6 @@ "4" :> 7 @@ "5" :> 4 @@ "6" :> 5 @@ "7" :> 6 @@ "8" :> 4 @@ "9" :> 5

external == [external |-> TRUE, size |-> sizes(1, <<>>, <<>>)]

externalSlots ==
    "List" :> 1 @@ "A" :> 2 @@ "B" :> 3 @@ "C" :> 2
    @@ "1" :> 2 @@ "2" :> 3 @@ "3" :> 2 @@ "4" :> 3 @@ "5" :> 4 @@ "6" :> 5 @@ "7" :> 2 @@ "8" :> 3 @@ "9" :> 4

\* A sequence of size 1 that shares its slot with a larger message.
slotStates == {"Prepare", "Select", "Final"}

slotMachine == [s \in slotStates |->
    CASE s = "Prepare" ->
           [actions |-> <<VarDecl("Item", "1"), [kind |-> "Reset", target |-> "Item"]>>,
            transitions |-> goto("Select"), exception |-> "Final"]
      [] s = "Select" ->
           [actions |-> <<VarDecl("Local", "2"),
                          [kind |-> "Append", target |-> "Local", elements |-> "Message",
                           values |-> <<scalar("Tag")>>],
                          [kind |-> "Append", target |-> "Local", elements |-> "Message",
                           values |-> <<scalar("Tag")>>],
                          over("Comprehension", "3", "List", "Local", "", <<>>, "Message")>>,
            transitions |-> goto("Final"), exception |-> "Final"]
      [] OTHER -> [actions |-> <<>>, transitions |-> <<>>, exception |-> "Final"]]

slotGlobals == <<"List">>
slotFields == [v \in MCComposite |-> <<"Tag">>]
shared == [external |-> FALSE, size |-> sizes(2, <<>>, [x \in {<<"Select", "Local">>} |-> 1])]
sharedSlots == "List" :> 1 @@ "1" :> 2 @@ "2" :> 2 @@ "3" :> 3
=============================================================================
