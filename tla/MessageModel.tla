---------------------------- MODULE MessageModel ----------------------------
(***************************************************************************)
(* From the declaration of a message to a message that the generators      *)
(* accept: the fields of inner messages are merged, the structure is       *)
(* validated, normalized and sorted, and proofs show that every value of   *)
(* the fields leads to at most one message.                                *)
(*                                                                         *)
(* An expression is what a proof can tell of it.  A condition is a set of  *)
(* atoms, all of which have to hold: an attribute of a field and the       *)
(* values for which the atom holds.  A size is a multiple of the value of  *)
(* a field and an offset.  The solver is modelled by its answer: whether a *)
(* valuation of the fields satisfies all facts and the goal.               *)
(***************************************************************************)
EXTENDS ParallelProofs, TLC

CONSTANTS
    Messages,   \* the declarations that are checked
    Inner,      \* messages that were checked before, by name
    MaxBits,    \* bound on the size of a message
    MaxValue,   \* bound on the values of an unconstrained variable
    Unknowns    \* the sizes and positions that the solver tries where no fact determines them

VARIABLES
    phase,        \* the step of the check
    message,      \* the message, as far as it is merged and normalized
    declaration,  \* the declaration as it was written
    fields,       \* the fields in topological order
    valid_paths,  \* the paths without contradictions
    todo,         \* the fields whose outgoing links remain to be examined
    unreachable   \* paths without any satisfiable outgoing link

vars == <<phase, message, declaration, fields, valid_paths, todo, unreachable, poolVars>>

-----------------------------------------------------------------------------
(* Messages.  Identifiers are sequences, as merging prefixes them. *)

\* The elements of sequence s that are in S.
Kept(s, S) ==
    LET kept[i \in 0 .. Len(s)] ==
            IF i = 0 THEN <<>>
            ELSE IF s[i] \in S THEN Append(kept[i - 1], s[i]) ELSE kept[i - 1]
    IN  kept[Len(s)]

\* Function f where it is defined, g elsewhere.
Joined(f, g) == [x \in DOMAIN f \cup DOMAIN g |-> IF x \in DOMAIN f THEN f[x] ELSE g[x]]

\* The elements of S in some order.
InAnyOrder(S) == FoldSet(LAMBDA x, s : Append(s, x), <<>>, S)

INITIAL == <<"Initial">>
FINAL == <<"Final">>
Message == <<"Message">>

Undefined == [kind |-> "undefined"]
Implicit == [kind |-> "implicit"]
First(f) == [kind |-> "first", of |-> f]
Multiple(factor, field, offset) ==
    [kind |-> "value", factor |-> factor, of |-> field, offset |-> offset]

\* A link; the target of an overlay starts where the field first starts.
Link(source, target, condition, size, first) ==
    [source |-> source, target |-> target, condition |-> condition, size |-> size,
     first |-> first]

Composite == {"opaque", "sequence"}

\* What a declaration consists of, as the parser of specifications creates it.
IsName(f) == f \in Seq(ToSet(f)) /\ f # <<>>

IsSize(s) ==
    \/ s \in {Undefined, Implicit}
    \/ s = Multiple(s.factor, s.of, s.offset) /\ s.factor \in Int /\ s.offset \in Int

IsAtom(a) ==
    /\ a = [attr |-> a.attr, field |-> a.field, values |-> a.values]
    /\ IsName(a.field)
    /\ a.attr \in {"Value", "Size", "Remaining"} /\ (a.attr = "Remaining" => a.field # Message)

IsLink(l) ==
    /\ l = Link(l.source, l.target, l.condition, l.size, l.first)
    /\ IsName(l.source) /\ l.source \notin {FINAL, Message}
    /\ IsName(l.target) /\ l.target \notin {INITIAL, Message}
    /\ IsFiniteSet(l.condition) /\ \A a \in l.condition : IsAtom(a)
    /\ IsSize(l.size)

IsArgument(e) == IF e.kind = "number" THEN e.value \in Int ELSE IsName(e.of) /\ e.of # Message

IsType(t) ==
    \/ t.kind = "scalar" /\ t.size \in Int
    \/ t.kind \in Composite
    \/ t.kind = "message" /\ t.name \in DOMAIN Inner /\ \A g \in DOMAIN t.arguments : IsArgument(t.arguments[g])

WellFormed(m) ==
    /\ m = [order |-> m.order, types |-> m.types, parameters |-> m.parameters, structure |-> m.structure]
    /\ IsFiniteSet(m.structure) /\ \A l \in m.structure : IsLink(l)
    /\ IsFiniteSet(DOMAIN m.types) /\ \A f \in DOMAIN m.types : IsName(f) /\ IsType(m.types[f])
    /\ m.order \in Seq(DOMAIN m.types)
    /\ \A f \in DOMAIN m.types : m.types[f].kind = "message" => f \in ToSet(m.order)

\* The inner messages of a message that was checked are merged.
ASSUME MessagesAssumption == \A m \in Messages : WellFormed(m)
ASSUME InnerAssumption ==
    \A n \in DOMAIN Inner :
        /\ WellFormed(Inner[n])
        /\ \A f \in DOMAIN Inner[n].types : Inner[n].types[f].kind # "message"
        /\ ToSet(Inner[n].order) \subseteq DOMAIN Inner[n].types \ Inner[n].parameters
        /\ \E l \in Inner[n].structure : l.source = INITIAL
ASSUME BoundsAssumption == MaxBits \in Nat /\ MaxValue \in Nat /\ Unknowns \subseteq Int

incoming(m, f) == {l \in m.structure : l.target = f}
outgoing(m, f) == {l \in m.structure : l.source = f}

StructureFields(m) == {l.source : l \in m.structure} \cup {l.target : l \in m.structure}

\* All paths of m, sequences of links from INITIAL that follow each other.
AllPaths(m) ==
    LET N == Cardinality(m.structure)
        extended[n \in 0 .. N] ==
            IF n = 0 THEN {<<l>> : l \in outgoing(m, INITIAL)}
            ELSE LET found == extended[n - 1]
                 IN  found \cup UNION {{Append(p, l) : l \in outgoing(m, Last(p).target)} : p \in found}
    IN  extended[N]

paths(m, f) == {p \in AllPaths(m) : Last(p).target = f}

-----------------------------------------------------------------------------
(* What the solver knows.  A valuation has the values of all variables,    *)
(* Message'Last (Message'First is 1), and the attributes that no fact      *)
(* determines: those of fields that are not on the path and, unless exact, *)
(* those of INITIAL and of the field of implicit size at its end.          *)

Scalars(m) == {f \in DOMAIN m.types : m.types[f].kind = "scalar"}

\* The names that are numbers for the solver, whatever their types are.
Numbers(m) ==
    Scalars(m) \cup {l.size.of : l \in {k \in m.structure : k.size.kind = "value" /\ k.size.factor # 0}}

\* The fields whose sizes or positions the conditions refer to.
Measured(m) == {a.field : a \in {b \in UNION {l.condition : l \in m.structure} :
                                     b.attr # "Value" /\ b.field # Message}}

HasImplicitSize(p) == \E i \in DOMAIN p : p[i].size = Implicit

Valuations(m, p, constrained, exact) ==
    LET numbers == [Numbers(m) -> 0 .. MaxValue]
        open == IF HasImplicitSize(p) /\ ~exact THEN Unknowns ELSE {0}
        outside == Measured(m) \ {p[i].target : i \in DOMAIN p}
    IN  [values : IF constrained
                  THEN {v \in numbers : \A f \in Scalars(m) : v[f] \in m.types[f].values}
                  ELSE numbers,
         last : IF constrained THEN {8 * k : k \in 1 .. MaxBits \div 8} ELSE 1 .. MaxBits,
         size : open,
         end : open,
         outside : [outside -> [size : Unknowns, last : Unknowns]],
         exact : {exact}]

\* Size of the target of a link, as its size aspect or its type says.
target_size(m, l, at, v) ==
    CASE l.size.kind = "implicit" -> v.last - at[l.source].last
      [] l.size.kind = "value" ->
             (IF l.size.factor = 0 THEN 0 ELSE l.size.factor * v.values[l.size.of]) + l.size.offset
      [] OTHER -> IF l.target = FINAL THEN 0 ELSE m.types[l.target].size

target_first(l, at) ==
    IF l.source = INITIAL THEN 1
    ELSE IF l.first # Undefined THEN at[l.first.of].first ELSE at[l.source].last + 1

\* What a link adds to the attributes of the fields in front of it.  The facts
\* leave the size and the end of a field open if they depend on the message.
Placed(m, l, at, v) ==
    LET first == target_first(l, at)
        size == target_size(m, l, at, v)
        open == l.size = Implicit /\ ~v.exact
    IN  [f \in DOMAIN at \cup {l.target} |->
            IF f # l.target THEN at[f]
            ELSE [first |-> first,
                  size |-> IF open THEN v.size ELSE size,
                  last |-> IF open THEN v.end ELSE first + size - 1]]

\* First, Size and Last of the fields on a path.
Attributes(m, p, v) ==
    LET attributes[i \in 0 .. Len(p)] ==
            IF i = 0 THEN [f \in {INITIAL} |-> [first |-> 1, size |-> 0, last |-> 0]]
            ELSE Placed(m, p[i], attributes[i - 1], v)
    IN  attributes[Len(p)]

Attribute(atom, at, v) ==
    LET known == atom.field \in DOMAIN at /\ (atom.field = INITIAL => v.exact)
        of == IF known THEN at[atom.field] ELSE v.outside[atom.field]
    IN  CASE atom.attr = "Value" -> v.values[atom.field]
          [] atom.attr = "Size" /\ atom.field = Message -> v.last
          [] atom.attr = "Size" /\ atom.field # Message -> of.size
          [] OTHER -> v.last - of.last

True(condition, at, v) == \A a \in condition : Attribute(a, at, v) \in a.values

path_constraints(p, at, v) ==
    \A i \in DOMAIN p : True(p[i].condition, at, v) /\ at[p[i].target].last <= v.last

\* The goal can be satisfied together with the constraints of the path.
Satisfiable(m, p, constrained, Goal(_, _)) ==
    \E v \in Valuations(m, p, constrained, FALSE) :
        LET at == Attributes(m, p, v)
        IN  path_constraints(p, at, v) /\ Goal(at, v)

\* The conditions on one of the paths to f hold, whatever the sizes are.
path_condition(f, found, v) ==
    f = INITIAL \/ \E p \in found : \A i \in DOMAIN p : True(p[i].condition, <<>>, v)

-----------------------------------------------------------------------------
(* UncheckedMessage.merged. *)

IsMessage(m, f) == f \in DOMAIN m.types /\ m.types[f].kind = "message"

MessageFields(m) == Kept(m.order, {f \in DOMAIN m.types : IsMessage(m, f)})

\* The arguments are kept by type: those of the last field of the type.
arguments(m, name) ==
    LET same == {f \in DOMAIN m.types : IsMessage(m, f) /\ m.types[f].name = name}
    IN  m.types[Last(Kept(m.order, same))].arguments

Renamed(f, inner, g) ==
    IF g \in {INITIAL, FINAL, Message} \cup inner.parameters THEN g ELSE f \o g

\* A condition that is false.
Never == [attr |-> "Size", field |-> Message, values |-> {}]

\* Parameters are replaced by arguments, attributes of the inner message by
\* what is left of the message behind the field in front of it.
SubstituteCondition(f, inner, args, source, condition) ==
    LET number(a) == a.field \in DOMAIN args /\ args[a.field].kind = "number"
        name(a) == IF a.field \in DOMAIN args THEN args[a.field].of ELSE Renamed(f, inner, a.field)
    IN  {IF number(a) THEN Never
         ELSE IF a.field \in {Message, INITIAL}
         THEN [attr |-> "Remaining", field |-> source, values |-> a.values]
         ELSE [a EXCEPT !.field = name(a)] :
             a \in {b \in condition : ~(number(b) /\ args[b.field].value \in b.values)}}

SubstituteSize(f, inner, args, size) ==
    IF size.kind # "value" \/ size.factor = 0 THEN size
    ELSE IF size.of \notin DOMAIN args THEN [size EXCEPT !.of = Renamed(f, inner, @)]
    ELSE IF args[size.of].kind = "number"
    THEN Multiple(0, INITIAL, size.factor * args[size.of].value + size.offset)
    ELSE [size EXCEPT !.of = args[size.of].of]

\* A link of the inner message in field f, which follows source.
Substituted(f, inner, args, source, l) ==
    Link(Renamed(f, inner, l.source), Renamed(f, inner, l.target),
         SubstituteCondition(f, inner, args, source, l.condition), SubstituteSize(f, inner, args, l.size),
         IF l.first = Undefined THEN Undefined ELSE First(Renamed(f, inner, l.first.of)))

\* Fields without outgoing links are removed, and those that lead only to them.
prune_dangling_fields(structure) ==
    LET N == Cardinality(structure)
        pruned[n \in 0 .. N] ==
            IF n = 0 THEN structure
            ELSE LET kept == pruned[n - 1]
                 IN  {l \in kept : l.target \in {k.source : k \in kept} \cup {FINAL}}
    IN  pruned[N]

\* The condition of a link out of the merged field can be satisfied.
MergedConditionPossible(m, inner, l) ==
    LET scalars == Scalars(m) \cup Scalars(inner)  \* those of m are not constrained
        found == paths(inner, l.source)
        measured == Measured(inner) \cup Measured([structure |-> {l}])
    IN  \E v \in [values : [scalars -> 0 .. MaxValue], last : {8 * i : i \in 1 .. MaxBits \div 8},
                  outside : [measured -> [size : Unknowns, last : Unknowns]]] :
            /\ \A f \in Scalars(inner) : v.values[f] \in inner.types[f].values
            /\ True(l.condition, <<>>, v)
            /\ path_condition(l.source, found, v)

MergedLink(l, k) ==
    Link(k.source, l.target, l.condition \cup k.condition, l.size, l.first)

\* The types of the fields of an inner message in field f.
prefixed_types(f, inner) ==
    [g \in {f \o h : h \in DOMAIN inner.types \ inner.parameters} |->
        inner.types[SubSeq(g, Len(f) + 1, Len(g))]]

\* The links on paths to FINAL.
used_links(m) == {l \in m.structure : \E p \in paths(m, FINAL) : l \in ToSet(p)}

\* The link l of the inner message in field f, which follows source.
inner_link(m, f, source, l) ==
    LET name == m.types[f].name IN Substituted(f, Inner[name], arguments(declaration, name), source, l)

inner_links(m, f, source) == {inner_link(m, f, source, l) : l \in Inner[m.types[f].name].structure}

\* The links into field f lead to the first field of the inner message.
links_into(m, f) ==
    LET type == Inner[m.types[f].name]
        initial == CHOOSE l \in type.structure : l.source = INITIAL
    IN  {Link(l.source, Renamed(f, type, initial.target), l.condition,
              inner_link(m, f, l.source, initial).size, l.first) : l \in {k \in used_links(m) : k.target = f}}

\* The links out of field f come from the last fields of the inner message.
links_behind(m, f, source) ==
    {MergedLink(l, k) : l \in {n \in used_links(m) : n.source = f},
                        k \in {n \in inner_links(m, f, source) : n.target = FINAL}}

links_out(m, f) ==
    LET type == Inner[m.types[f].name]
        prefixed == [type EXCEPT !.structure = {Substituted(f, type, <<>>, INITIAL, l) : l \in @},
                                 !.types = Joined(prefixed_types(f, type), @)]
        found == UNION {links_behind(m, f, i.source) : i \in {n \in used_links(m) : n.target = f}}
    IN  {l \in found : MergedConditionPossible(m, prefixed, l)}

\* The structure with the links of the inner message in field f.  The
\* substitution of the last visited source stays.
merged_links(m, f, source) ==
    {l \in used_links(m) : f \notin {l.source, l.target}}
    \cup links_into(m, f) \cup links_out(m, f)
    \cup {l \in inner_links(m, f, source) : l.target # FINAL /\ l.source # INITIAL}

\* _merge_inner_message: the message with the fields of the message in f in
\* the place of f.
merge_inner_message(m, f, source) ==
    LET type == Inner[m.types[f].name]
        types == Joined(prefixed_types(f, type), m.types)
        linked == merged_links(m, f, source)
        structure == prune_dangling_fields(linked)
        dangling == {l.target : l \in linked \ structure}
        order == Kept(m.order, ToSet(m.order) \ {f}) \o [i \in DOMAIN type.order |-> f \o type.order[i]]
    IN  [order |-> Kept(order, ToSet(order) \ dangling),
         types |-> [g \in DOMAIN types \ (dangling \cup {f}) |-> types[g]],
         parameters |-> m.parameters,
         structure |-> structure]

-----------------------------------------------------------------------------
(* Validation.  An error is the name of a check and a field. *)

Error(check, f) == [severity |-> "error", check |-> check, field |-> f]
Warning(check, f) == [severity |-> "warning", check |-> check, field |-> f]

\* An error for each element of S.
Errors(check, S) == LET s == InAnyOrder(S) IN [i \in DOMAIN s |-> Error(check, s[i])]

HasErrors(entries) == \E i \in DOMAIN entries : entries[i].severity = "error"

\* _check_message_attributes and _check_name_conflicts
merge_errors(m, f) ==
    LET inner == Inner[m.types[f].name]
        depends == \E l \in inner.structure :
                       l.size = Implicit \/ \E a \in l.condition : a.field = Message
    IN  Errors("last_field", {f : l \in {k \in outgoing(m, f) : k.target # FINAL /\ depends}})
        \o Errors("name_conflict", {f \o g : g \in ToSet(inner.order)} \cap ToSet(m.order))

validate_types(m) == Errors("missing_type", StructureFields(m) \ (DOMAIN m.types \cup {INITIAL, FINAL}))

validate_initial_link(m) ==
    Errors("initial_first", {l.target : l \in {k \in outgoing(m, INITIAL) : k.first # Undefined}})

\* Fields from which neither FINAL nor a cycle can be reached.
dead_ends(m) ==
    LET N == Cardinality(m.structure) + 1
        dead[n \in 0 .. N] ==
            IF n = 0 THEN {}
            ELSE LET found == dead[n - 1]
                 IN  {f \in (StructureFields(m) \cup {INITIAL}) \ {FINAL} : {l.target : l \in outgoing(m, f)} \subseteq found}
    IN  dead[N]

unreachable_fields(m) == StructureFields(m) \ ({INITIAL} \cup {l.target : l \in m.structure})

validate_structure(m) ==
    Errors("unreachable", unreachable_fields(m))
    \o Errors("no_path", dead_ends(m))
    \o Errors("duplicate", {l.source : l \in {k \in m.structure :
           \E n \in m.structure \ {k} : <<n.source, n.target, n.condition>> = <<k.source, k.target, k.condition>>}})

validate_link_aspects(m) ==
    Errors("implicit_size", {l.target : l \in {k \in m.structure :
           k.size = Implicit /\ \E n \in outgoing(m, k.target) : n.target # FINAL}})

\* The last field gets what remains of the message.
Normalized(m, l) ==
    IF /\ l.size = Undefined /\ l.target \in DOMAIN m.types /\ m.types[l.target].kind \in Composite
       /\ \A n \in outgoing(m, l.target) : n.target = FINAL
    THEN Link(l.source, l.target, l.condition, Implicit, l.first) ELSE l

normalize(m) == [m EXCEPT !.structure = {Normalized(m, l) : l \in @}]

\* Kahn's algorithm.  One step takes the next field whose predecessors were
\* all visited; every field is taken once.
Kahn(m, s) ==
    IF s.pending = <<>> THEN s
    ELSE LET f == Head(s.pending)
             seen == s.visited \cup outgoing(m, f)
             ready == {g \in {l.target : l \in outgoing(m, f)} : incoming(m, g) \subseteq seen}
         IN  [pending |-> Tail(s.pending) \o InAnyOrder(ready), sorted |-> Append(s.sorted, f), visited |-> seen]

topological_sorting(m) ==
    LET N == Cardinality(m.structure) + 1
        after[n \in 0 .. N] ==
            IF n = 0 THEN [pending |-> <<INITIAL>>, sorted |-> <<>>, visited |-> {}]
            ELSE Kahn(m, after[n - 1])
    IN  after[N]

cycle_errors(m) ==
    IF unreachable_fields(m) = {} /\ topological_sorting(m).visited # m.structure
    THEN <<Error("cycle", INITIAL)>> ELSE <<>>

Used(m) == UNION {{a.field : a \in l.condition} \cup
                  (IF l.size.kind = "value" /\ l.size.factor # 0 THEN {l.size.of} ELSE {}) : l \in m.structure}

verify_parameters(m) == Errors("unused_parameter", m.parameters \ Used(m))

verify_message_types(m) ==
    Errors("undefined_variable", Used(m) \ (DOMAIN m.types \cup {INITIAL, Message}))

verify_links(m) ==
    LET sized(l) == l.size # Undefined
        kind(l) == m.types[l.target].kind
    IN  Errors("empty", {l.target : l \in {k \in m.structure : k.source = INITIAL /\ k.target = FINAL}})
        \o Errors("first", {l.target : l \in {k \in m.structure : k.first \notin {Undefined, First(k.source)}}})
        \o Errors("size", {l.target : l \in {k \in m.structure :
               IF k.target = FINAL THEN sized(k) ELSE sized(k) # (kind(k) \in Composite)}})

\* Every variable in an expression is a parameter or was seen before on the path.
verify_expression_types(m, valid) ==
    Errors("type", UNION {UNION {(Used([structure |-> {p[i]}]) \ {Message, INITIAL})
                                     \ (m.parameters \cup {p[j].source : j \in 1 .. i}) :
                                 i \in DOMAIN p} : p \in paths(m, FINAL) \cap valid})

-----------------------------------------------------------------------------
(* The proofs. *)

Jobs(S, Job(_)) == LET s == InAnyOrder(S) IN [i \in DOMAIN s |-> Job(s[i])]

\* The path has no contradiction.
Possible(m, p) == Satisfiable(m, p, TRUE, LAMBDA at, v : TRUE)

\* Paths with a contradiction are found by proofs without errors.
path_proof(m, p) ==
    LET job == ProofJob(Possible(m, p), <<>>, <<>>, <<>>)
    IN  [path |-> p, result |-> job.result, errors |-> job.errors]

path_proofs(m) == Jobs(AllPaths(m), LAMBDA p : path_proof(m, p))

\* No condition is true whenever its source is reached.
NotStatic(m, l) ==
    LET found == paths(m, l.source)
    IN  \E v \in Valuations(m, <<>>, TRUE, FALSE) :
            path_condition(l.source, found, v) /\ ~True(l.condition, <<>>, v)

static_proof(m, l) ==
    ProofJob(NotStatic(m, l), <<>>, <<Error("always_true", l.source)>>, <<Warning("always_true", l.source)>>)

static_conditions(m) == Jobs({l \in m.structure : l.condition # {}}, LAMBDA l : static_proof(m, l))

\* Mutant: only conditions of links to different fields are compared.
ConflictsMutant(m) ==
    {c \in kSubset(2, m.structure) \X AllPaths(m) :
        (\A l \in c[1] : l.source = Last(c[2]).target) /\ Cardinality({l.target : l \in c[1]}) = 2}
\* Two links of a field and a path to the field, for each pair of its links.
Conflicts(m) ==
    {c \in kSubset(2, m.structure) \X AllPaths(m) : \A l \in c[1] : l.source = Last(c[2]).target}

InConflict(m, links, p) == Satisfiable(m, p, TRUE, LAMBDA at, v : \A l \in links : True(l.condition, at, v))

conflict_proof(m, c) ==
    LET entry == <<Error("conflict", Last(c[2]).target)>> IN ProofJob(InConflict(m, c[1], c[2]), entry, <<>>, entry)

conflicting_conditions(m) == Jobs(Conflicts(m), LAMBDA c : conflict_proof(m, c))

\* An overlay can end where the overlaid field ends.
Congruent(m, p) ==
    Satisfiable(m, p, FALSE, LAMBDA at, v : at[Last(p).target].last = at[Last(p).first.of].last)

overlay_proof(m, p) ==
    LET entry == <<Error("overlay", Last(p).target)>> IN ProofJob(Congruent(m, p), <<>>, entry, entry)

overlays(m) ==
    Jobs({p \in AllPaths(m) : Last(p).target # FINAL /\ Last(p).first # Undefined}, LAMBDA p : overlay_proof(m, p))

\* The size of the last field on a path, as its link says.
PathSize(m, p, at, v) == target_size(m, Last(p), at, v)

\* The size and the start of every field on every path, and the alignment of
\* opaque fields.
NegativeSize(m, p) == Satisfiable(m, p, TRUE, LAMBDA at, v : PathSize(m, p, at, v) < 0)
PositiveStart(m, p) == Satisfiable(m, p, TRUE, LAMBDA at, v : target_first(Last(p), at) >= 1)
Misaligned(m, p) == Satisfiable(m, p, TRUE, LAMBDA at, v : at[Last(p).target].first % 8 # 1)
FractionOfByte(m, p) == Satisfiable(m, p, TRUE, LAMBDA at, v : PathSize(m, p, at, v) % 8 # 0)

position_proofs(m, p) ==
    LET f == Last(p).target
        Refuted(check, sat) == ProofJob(sat, <<Error(check, f)>>, <<>>, <<Error(check, f)>>)
    IN  <<Refuted("negative_size", NegativeSize(m, p)),
          ProofJob(PositiveStart(m, p), <<>>, <<Error("negative_start", f)>>, <<Error("negative_start", f)>>)>>
        \o IF f # FINAL /\ m.types[f].kind = "opaque"
           THEN <<Refuted("alignment", Misaligned(m, p)), Refuted("multiple", FractionOfByte(m, p))>>
           ELSE <<>>

field_positions(m, valid) == FlattenSeq(Jobs(valid, LAMBDA p : position_proofs(m, p)))

\* The sizes of the fields on a path, without overlays.
SizeOfFields(p, at) ==
    LET sum[i \in 0 .. Len(p)] ==
            IF i = 0 THEN 0
            ELSE sum[i - 1] + (IF p[i].first = Undefined THEN at[p[i].target].size ELSE 0)
    IN  sum[Len(p)]

\* The size of the message behind each path to FINAL, given that the sizes of
\* all composite fields are multiples of 8.
UnevenSize(m, p) ==
    LET composite == {f \in {p[i].target : i \in DOMAIN p} : m.types[f].kind \in Composite}
    IN  Satisfiable(m, p, TRUE, LAMBDA at, v :
            (\A f \in composite : at[f].size % 8 = 0) /\ SizeOfFields(p, at) % 8 # 0)

message_size_proof(m, p) ==
    LET entry == <<Error("message_size", FINAL)>> IN ProofJob(UnevenSize(m, p), entry, <<>>, entry)

message_size(m) == Jobs({Front(p) : p \in paths(m, FINAL)}, LAMBDA p : message_size_proof(m, p))

message_proofs(m, valid) ==
    static_conditions(m) \o conflicting_conditions(m) \o overlays(m) \o field_positions(m, valid)
    \o message_size(m)

-----------------------------------------------------------------------------
(* The check of a declaration. *)

Init ==
    /\ declaration \in Messages
    /\ message = declaration
    /\ phase = "merge"
    /\ fields = <<>> /\ todo = <<>>
    /\ valid_paths = {} /\ unreachable = {}
    /\ NoProofs

\* error.propagate: goes on unless there are errors.
Propagate(entries, next) ==
    /\ error' = error \o entries
    /\ phase' = IF HasErrors(error') THEN "rejected" ELSE next

Idle == UNCHANGED <<proofs, taken, results, collected, timeouts>>

Merge ==
    /\ phase = "merge" /\ MessageFields(message) # <<>>
    /\ LET f == Head(MessageFields(message))
           errors == merge_errors(message, f)
       IN  IF errors # <<>>
           THEN Propagate(errors, "merge") /\ UNCHANGED message
           ELSE \E l \in incoming(message, f) :
                    LET merged == merge_inner_message(message, f, l.source)
                    IN  /\ Propagate(IF merged.structure = {} \/ merged.order = <<>>
                                     THEN <<Error("empty", f)>> ELSE <<>>, "merge")
                        /\ message' = merged
    /\ Idle /\ UNCHANGED <<declaration, fields, valid_paths, todo, unreachable>>

Validate ==
    /\ phase = "merge" /\ MessageFields(message) = <<>>
    /\ LET early == validate_types(message) \o validate_initial_link(message)
           m == normalize(message)
           sorted == Kept(topological_sorting(m).sorted, StructureFields(m) \ {INITIAL, FINAL})
       IN  IF early # <<>>
           THEN Propagate(early, "verify") /\ UNCHANGED <<message, fields>>
           ELSE /\ Propagate(validate_structure(message) \o validate_link_aspects(message)
                             \o cycle_errors(m), "verify")
                /\ message' = [m EXCEPT !.parameters = DOMAIN m.types \ ToSet(sorted)]
                /\ fields' = sorted
    /\ Idle /\ UNCHANGED <<declaration, valid_paths, todo, unreachable>>

Verify ==
    /\ phase = "verify"
    /\ LET entries == verify_parameters(message) \o verify_message_types(message) \o verify_links(message)
       IN  /\ Propagate(entries, "paths")
           /\ IF entries = <<>> THEN StartProofs(path_proofs(message))
              ELSE UNCHANGED <<proofs, taken, results, collected>>
    /\ UNCHANGED <<timeouts, message, declaration, fields, valid_paths, todo, unreachable>>

Prove ==
    /\ phase \in {"paths", "proofs"} /\ PoolStep
    /\ UNCHANGED <<phase, message, declaration, fields, valid_paths, todo, unreachable>>

ValidPaths == {proofs[i].path : i \in {j \in DOMAIN proofs : results[j] = "SAT"}}

DetermineValidPaths ==
    /\ phase = "paths" /\ ProofsDone
    /\ LET valid == ValidPaths
           entries == verify_expression_types(message, valid)
       IN  /\ Propagate(entries, "proofs")
           /\ valid_paths' = valid
           /\ IF entries = <<>>
              THEN StartProofs(message_proofs(message, valid))
              ELSE UNCHANGED <<proofs, taken, results, collected>>
    /\ UNCHANGED <<timeouts, message, declaration, fields, todo, unreachable>>

ProofsChecked ==
    /\ phase = "proofs" /\ ProofsDone
    /\ phase' = "outgoing"
    /\ todo' = fields
    /\ Idle /\ UNCHANGED <<error, message, declaration, fields, valid_paths, unreachable>>

Extends(q, p) == Len(q) > Len(p) /\ SubSeq(q, 1, Len(p)) = p

\* The condition of link l can be true behind path p.
CanBeTaken(m, p, l) == Satisfiable(m, p, TRUE, LAMBDA at, v : True(l.condition, at, v))

Continues(p) == \E l \in outgoing(message, Last(p).target) : CanBeTaken(message, p, l)

\* Mutant: a path without contradiction needs no continuation.
ContinuedMutant(p) == p \in valid_paths
\* Mutant: the last link of a path does not count.
ContinuedOffByOne(p) == \E q \in valid_paths : Len(q) > Len(p) + 1 /\ Extends(q, p)
\* A proper prefix of a path without contradiction.
Continued(p) == \E q \in valid_paths : Extends(q, p)

\* _prove_conditions_at_outgoing_links for the next field.  The paths are
\* visited in any order, and not at all behind the first that is continued.
CheckOutgoing ==
    /\ phase = "outgoing" /\ todo # <<>>
    /\ LET f == Head(todo)
           seen == {p \in paths(message, f) : ~\E q \in unreachable : Extends(p, q)}
           dead == {p \in seen : ~Continued(p)}
       IN  \E visited \in IF dead = seen THEN {dead} ELSE SUBSET dead :
               IF \E p \in visited : Continues(p)
               THEN phase' = "crashed" /\ UNCHANGED <<error, todo, unreachable>>
               ELSE /\ unreachable' = unreachable \cup visited
                    /\ error' = IF dead # seen THEN error
                                ELSE error \o [i \in 1 .. Cardinality(seen) |->
                                                  Error("no_satisfiable_condition", f)]
                    /\ todo' = Tail(todo)
                    /\ UNCHANGED phase
    /\ Idle /\ UNCHANGED <<message, declaration, fields, valid_paths>>

Finish ==
    /\ phase = "outgoing" /\ todo = <<>>
    /\ Propagate(<<>>, "accepted")
    /\ Idle /\ UNCHANGED <<message, declaration, fields, valid_paths, todo, unreachable>>

Next == Merge \/ Validate \/ Verify \/ Prove \/ DetermineValidPaths \/ ProofsChecked
        \/ CheckOutgoing \/ Finish

\* The program ends with the verdict or with a failed assertion.
Ended == phase \in {"accepted", "rejected", "crashed"} /\ UNCHANGED vars

Spec == Init /\ [][Next \/ Ended]_vars

-----------------------------------------------------------------------------
(* What the generators rely on: the parser of an accepted message. *)

\* The paths that a parser follows for given values and a given size of the
\* message: every condition holds and every field lies in the message.
Followed(m, v) == {p \in AllPaths(m) : path_constraints(p, Attributes(m, p, v), v)}

Exact(m) == Valuations(m, <<>>, TRUE, TRUE)

\* What no proof covers: sequences consist of whole bytes, and overlays end
\* where the overlaid field ends for all values, not only for some.
TakenForGranted(m, p, at) ==
    \A i \in DOMAIN p :
        /\ p[i].target # FINAL /\ m.types[p[i].target].kind = "sequence" => at[p[i].target].size % 8 = 0
        /\ p[i].first # Undefined => at[p[i].target].last = at[p[i].source].last

\* After path p at most one link can be taken, the field is where the
\* generated code can access it and the message ends at a byte boundary.
Unambiguous(m, p, v) ==
    LET at == Attributes(m, p, v)
        f == Last(p).target
        enabled == {l \in outgoing(m, f) : True(l.condition, at, v)}
    IN  /\ Cardinality(enabled) <= 1
        /\ at[f].size >= 0 /\ at[f].first >= 1
        /\ f # FINAL /\ m.types[f].kind = "opaque" => at[f].first % 8 = 1 /\ at[f].size % 8 = 0
        /\ f = FINAL /\ TakenForGranted(m, p, at) => at[f].last % 8 = 0

\* The solver did not give up on the question whether a path is possible.
PathsDecided == valid_paths = {p \in AllPaths(message) : Possible(message, p)}

\* The facts about a path leave attributes open that its conditions refer to.
Undetermined(p) ==
    \E i \in DOMAIN p : p[i].size = Implicit \/ \E a \in p[i].condition : a.field = INITIAL

TypeOK ==
    /\ phase \in {"merge", "verify", "paths", "proofs", "outgoing", "accepted", "rejected", "crashed"}
    /\ PoolTypeOK

\* An accepted message has one meaning: whatever the values of its fields and
\* its size, a parser never has the choice between two links, every field is
\* where it can be accessed, and opaque fields and the end of the message are
\* aligned, although the solver may give up on a proof about it.  Excepted is
\* the question whether a path is possible: without an answer the path is not
\* checked (_prove_conflicting_conditions, _prove_field_positions,
\* _prove_message_size).
AcceptedUnambiguous ==
    (phase = "accepted" /\ PathsDecided) =>
        \A v \in Exact(message) : \A p \in Followed(message, v) : Unambiguous(message, p, v)

\* Every field of an accepted message is reached for some values, and the
\* message goes on behind it with a field that fits, unless the facts do not
\* determine how (_prove_conditions_at_outgoing_links with its shortcuts for
\* paths that were seen before).
FieldsContinue ==
    phase = "accepted" =>
        \A f \in ToSet(fields) :
            \/ \E p \in AllPaths(message) : Last(p).source = f /\ Undetermined(p)
            \/ \E v \in Exact(message) : \E p \in Followed(message, v) : Last(p).source = f

\* The errors of the proofs are those that a single process would report, in
\* the same order, whatever the workers do (ParallelProofs.check).
ErrorsInOrder ==
    phase \in {"paths", "proofs"} =>
        error = FlattenSeq([i \in 1 .. collected |->
                    IF results[i] = None THEN <<>> ELSE proofs[i].errors[results[i]]])

\* The condition of l can be true behind p, but what follows never fits.
NeverFits(m, p, l) ==
    CanBeTaken(m, p, l) /\ ~Possible(m, Append(p, l))

\* The two ways to tell whether a path goes on agree: the assertion on paths
\* that have no continuation without a contradiction fails only if the solver
\* gave up on a path, or if a condition can be true although the field behind
\* it never fits into the message (_prove_conditions_at_outgoing_links).
AssertionHolds ==
    (phase = "crashed" /\ PathsDecided) =>
        \E p \in AllPaths(message) : \E l \in outgoing(message, Last(p).target) : NeverFits(message, p, l)

-----------------------------------------------------------------------------
(* The meaning of a declaration with inner messages. *)

\* The links that path p stands for if the inner message in each field f
\* takes the path inner[f].
Spliced(d, p, inner) ==
    LET type(f) == Inner[d.types[f].name]
        link(f, s, l) == Substituted(f, type(f), d.types[f].arguments, s, l)
        source(i) == IF i > 1 /\ IsMessage(d, p[i].source)
                     THEN Renamed(p[i].source, type(p[i].source), Last(inner[p[i].source]).source)
                     ELSE p[i].source
        before(i) == IF IsMessage(d, p[i].source)
                     THEN link(p[i].source, source(i - 1), Last(inner[p[i].source])).condition ELSE {}
        part(i) == LET f == p[i].target
                   IN  IF IsMessage(d, f)
                       THEN LET q == [k \in DOMAIN inner[f] |-> link(f, source(i), inner[f][k])]
                            IN  <<[q[1] EXCEPT !.source = source(i), !.first = p[i].first,
                                               !.condition = @ \cup p[i].condition \cup before(i)]>>
                                \o SubSeq(q, 2, Len(q) - 1)
                       ELSE <<[p[i] EXCEPT !.source = source(i), !.condition = @ \cup before(i)]>>
    IN  FlattenSeq([i \in DOMAIN p |-> part(i)])

Meanings(d) ==
    UNION {LET used == {f \in {p[i].target : i \in DOMAIN p} : IsMessage(d, f)}
           IN  {Spliced(d, p, inner) :
                   inner \in {c \in [used -> UNION {paths(Inner[n], FINAL) : n \in DOMAIN Inner}] :
                                 \A f \in used : c[f] \in paths(Inner[d.types[f].name], FINAL)}} :
           p \in paths(d, FINAL)}

\* The types of all fields, those of inner messages included.
AllTypes(d) ==
    FoldLeft(LAMBDA types, f : Joined(prefixed_types(f, Inner[d.types[f].name]), types), d.types, MessageFields(d))

Targets(p) == [i \in DOMAIN p |-> p[i].target]

\* What _merge_inner_message does not keep: the arguments of a field if another
\* field of the same type has different ones, as they are kept by type, and the
\* condition on the first link of an inner message, which links_into leaves out.
SameArguments(d) ==
    \A f, g \in ToSet(MessageFields(d)) :
        d.types[f].name = d.types[g].name => d.types[f].arguments = d.types[g].arguments
UnconditionalStart(inner) ==
    \E l \in outgoing(inner, INITIAL) : outgoing(inner, INITIAL) = {l} /\ l.condition = {}

=============================================================================
