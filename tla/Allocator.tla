------------------------------ MODULE Allocator ------------------------------
(***************************************************************************)
(* The memory of a generated state machine: the slots that                 *)
(* rflx/generator/allocator.py assigns to the locations of declarations    *)
(* and of copies of sequences.                                             *)
(***************************************************************************)
EXTENDS Integration

GlobalSlots == ConcatMap(LAMBDA v : IF v \in external_io_buffers THEN <<>> ELSE <<v>>, Globals)

\* A variable declared in a state has the state as scope, any other is global.
Scope(s, v) ==
    IF \E a \in ToSet(Machine[s].actions) : a.kind = "VarDecl" /\ a.var = v THEN s ELSE ""

\* What a statement needs: its location and a size.
Requirement(s, a) ==
    CASE a.kind = "VarDecl" -> <<[at |-> a.at, size |-> get_size(a.var, s)]>>
      [] a.kind \in {"Comprehension", "Find"} ->
             <<[at |-> a.at, size |-> get_size(a.of, Scope(s, a.of))]>>
             \o ConcatMap(LAMBDA b : IF b.kind = "VarDecl"
                                     THEN <<[at |-> b.at, size |-> get_size(b.var, s)]>>
                                     ELSE <<>>, a.selector \o a.condition)
      [] a.kind = "Head" -> <<[at |-> a.at, size |-> get_size(a.of, Scope(s, a.of))]>>
      [] OTHER -> <<>>

Requirements(s) == ConcatMap(LAMBDA a : Requirement(s, a), Machine[s].actions)

\* The position of the k-th requirement after the stable sort by descending size.
Rank(r, k) ==
    Cardinality({j \in 1 .. Len(r) : \/ r[j].size > r[k].size
                                     \/ r[j].size = r[k].size /\ j <= k})

LocalSlotCount == Max({Len(Requirements(s)) : s \in States})

SlotCount == Len(GlobalSlots) + LocalSlotCount

\* A local slot is as large as the largest of the requirements that share it.
SlotSize == [i \in 1 .. SlotCount |->
    IF i <= Len(GlobalSlots) THEN get_size(GlobalSlots[i], "")
    ELSE Max(UNION {{Requirements(s)[k].size :
                         k \in {j \in 1 .. Len(Requirements(s)) :
                                   Rank(Requirements(s), j) = i - Len(GlobalSlots)}} : s \in States})]

\* Locations are unique: a global declaration is located at its name.
Locations == ToSet(GlobalSlots) \cup {r.at : r \in UNION {ToSet(Requirements(s)) : s \in States}}

get_slot_ptr == [at \in Locations |->
    IF at \in ToSet(GlobalSlots)
    THEN CHOOSE i \in 1 .. Len(GlobalSlots) : GlobalSlots[i] = at
    ELSE LET s == CHOOSE t \in States : \E k \in 1 .. Len(Requirements(t)) : Requirements(t)[k].at = at
             k == CHOOSE j \in 1 .. Len(Requirements(s)) : Requirements(s)[j].at = at
         IN  Len(GlobalSlots) + Rank(Requirements(s), k)]

\* The sizes of the global variables with a slot.
GlobalSizes == [v \in ToSet(GlobalSlots) |-> get_size(v, "")]
=============================================================================
