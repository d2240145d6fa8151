---------------------- MODULE StateMachineModel_proofs ----------------------
(***************************************************************************)
(* What the validation of a state machine guarantees for every machine a   *)
(* specification can declare: code generation does not fail an assertion   *)
(* on an accepted machine, and a run of it never leaves its states.        *)
(***************************************************************************)
EXTENDS StateMachineModel, Induction

(* A state as State.__init__ leaves it. *)
Created(s) == [NormalizeTransitions(s) EXCEPT !.actions = NormalizeActions(@)]

CreatedStates == {FinalState} \union {Created(s) : s \in UNION {ToSet(m.states) : m \in Machines}}

(* Errors that do not go away once the states were created. *)
GraphErrors == ValidateStateExistence \union ValidateDuplicateStates \union ValidateStateReachability

(* The errors that ValidateState finds in a state. *)
StateErrors(s) ==
  IOErrors(s)
  \union (UNION {ActionErrors(s.actions[i], s.declarations @@ Globals) : i \in DOMAIN s.actions})
  \union TransitionErrors(s, s.declarations @@ Globals)

Validating == {"declarations", "validate"}
Accepted == {"optimize", "generate", "run", "failed", "unsupported"}

(* _normalize has looked up the exception targets: a missing one has ended the
   construction, unless the last transition has no valid target either. *)
Looked == \A i \in DOMAIN states : ~LookupFails(states[i], StateNames)

StatesInvariant ==
  /\ machine \in Machines
  /\ states \in Seq(CreatedStates)
  /\ index \in Nat \ {0}
  /\ phase \in {"states", "KeyError", "rejected"} \union Validating \union Accepted => Len(states) > 0
  /\ phase \in {"states"} \union Validating \union Accepted => Looked

(* Every error of the states before the current one has been reported. *)
ErrorsInvariant ==
  /\ phase \in Validating \union Accepted => GraphErrors \subseteq errors
  /\ phase = "validate" => \A i \in DOMAIN states : i < index => StateErrors(states[i]) \subseteq errors
  /\ phase \in Accepted => errors = {} /\ \A i \in DOMAIN states : StateErrors(states[i]) \subseteq errors
  /\ phase \in {"generate", "failed"} =>
       structures = UNION {OptimizeStructures(states[i]) : i \in DOMAIN states}

(* A run stays in the states of the machine and does nothing in the final one. *)
RunInvariant ==
  /\ phase = "run" => current \in StateNames
  /\ phase = "run" /\ current = Final => pc = 0 /\ outcome.code = "ok"
  /\ phase # "run" => outcome.code = "ok"
  /\ phase = "failed" => \E i \in DOMAIN states : GenerationFails(states[i])

ModelInvariant == StatesInvariant /\ ErrorsInvariant /\ RunInvariant

-----------------------------------------------------------------------------
(* Creation of a state keeps its name and gives transitions with normalised targets. *)
LEMMA CreatedState ==
  ASSUME NEW s \in CreatedStates
  PROVE  s.transitions \in Seq(ToSet(s.transitions))
<1>1. CASE s = FinalState
  BY <1>1 DEF FinalState, ToSet
<1>2. ASSUME NEW m \in Machines, NEW t \in ToSet(m.states), s = Created(t)
      PROVE  s.transitions \in Seq(ToSet(s.transitions))
  <2>1. /\ {"name", "transitions", "exception", "actions", "declarations"} \subseteq DOMAIN t
        /\ t.transitions \in Seq(ToSet(t.transitions))
    BY MachinesAssumption
  <2>2. s.transitions = [i \in DOMAIN t.transitions |->
                           NormalizeTransition(t.transitions[i])]
    BY <1>2, <2>1 DEF Created, NormalizeTransitions
  <2>3. DOMAIN t.transitions = 1 .. Len(t.transitions) /\ Len(t.transitions) \in Nat
    BY <2>1
  <2>4. \A i \in 1 .. Len(t.transitions) : s.transitions[i] \in ToSet(s.transitions)
    BY <2>2, <2>3 DEF ToSet
  <2>5. s.transitions \in [1 .. Len(t.transitions) -> ToSet(s.transitions)]
    BY <2>2, <2>3, <2>4
  <2> QED BY <2>3, <2>5
<1> QED BY <1>1, <1>2 DEF CreatedStates
(* The normalisation of actions returns actions of the source and delta aggregates. *)
LEMMA NormalizedActions ==
  ASSUME NEW A, NEW actions \in Seq(A)
  PROVE  NormalizeActions(actions) \in Seq(A \union {CollectMessageFieldAssignments(g) : g \in Seq(A)})
<1> DEFINE B == A \union {CollectMessageFieldAssignments(g) : g \in Seq(A)}
           S == [group : Seq(A), actions : Seq(B)]
           start == [group |-> <<>>, actions |-> <<>>]
           N == Len(actions)
<1>1. ASSUME NEW acc \in S PROVE Flush(acc) \in Seq(B)
  <2>1. acc.group \in Seq(A) /\ acc.actions \in Seq(B)
    OBVIOUS
  <2>2. CASE Len(acc.group) = 0
    BY <2>1, <2>2 DEF Flush
  <2>3. CASE Len(acc.group) = 1
    <3>1. acc.group[1] \in B
      BY <2>1, <2>3
    <3> HIDE DEF B
    <3> QED BY <2>1, <2>3, <3>1 DEF Flush
  <2>4. CASE Len(acc.group) # 0 /\ Len(acc.group) # 1
    <3>1. CollectMessageFieldAssignments(acc.group) \in B
      BY <2>1
    <3> HIDE DEF B
    <3>2. Flush(acc) = Append(acc.actions, CollectMessageFieldAssignments(acc.group))
      BY <2>4 DEF Flush
    <3> QED BY <2>1, <3>1, <3>2
  <2> QED BY <2>2, <2>3, <2>4
<1>2. ASSUME NEW acc \in S, NEW a \in A PROVE Collect(acc, a) \in S
  <2>1. a \in B /\ acc.group \in Seq(A) /\ acc.actions \in Seq(B) /\ Flush(acc) \in Seq(B)
    BY <1>1
  <2> HIDE DEF B
  <2>2. CASE a.kind = "FieldAssign" /\ SameGroup(acc, a)
    <3>1. Collect(acc, a) = [acc EXCEPT !.group = Append(@, a)]
      BY <2>2 DEF Collect
    <3>2. acc = [group |-> acc.group, actions |-> acc.actions]
      OBVIOUS
    <3>3. Collect(acc, a) = [group |-> Append(acc.group, a), actions |-> acc.actions]
      BY <3>1, <3>2
    <3>4. Append(acc.group, a) \in Seq(A)
      BY <2>1
    <3> QED BY <2>1, <3>3, <3>4
  <2>3. CASE a.kind = "FieldAssign" /\ ~SameGroup(acc, a)
    <3>1. Collect(acc, a) = [group |-> <<a>>, actions |-> Flush(acc)]
      BY <2>3 DEF Collect
    <3>2. <<a>> \in Seq(A)
      OBVIOUS
    <3> QED BY <2>1, <3>1, <3>2
  <2>4. CASE a.kind # "FieldAssign"
    <3>1. Collect(acc, a) = [group |-> <<>>, actions |-> Append(Flush(acc), a)]
      BY <2>4 DEF Collect
    <3> QED BY <2>1, <3>1
  <2> QED BY <2>2, <2>3, <2>4
<1>3. N \in Nat /\ start \in S /\ \A n \in 1 .. N : actions[n] \in A
  OBVIOUS
<1> DEFINE step == [n \in 1 .. N |-> [acc \in S |-> Collect(acc, actions[n])]]
<1>4. step \in [1 .. N -> [S -> S]]
  <2> HIDE DEF S, N
  <2> QED BY <1>2, <1>3
<1>5. PICK f \in [0 .. N -> S] : f[0] = start /\ \A n \in 1 .. N : f[n] = step[n][f[n - 1]]
  <2>1. N \in Nat /\ start \in S
    BY <1>3
  <2> HIDE DEF S, N, start, step
  <2>2. \E f : Recursion(f, N, S, start, step)
    BY <2>1, <1>4, RecursiveFunction
  <2> QED BY <2>2 DEF Recursion
<1>6. \A n \in 1 .. N : step[n][f[n - 1]] = Collect(f[n - 1], actions[n])
  <2> HIDE DEF S
  <2>1. \A n \in 1 .. N : f[n - 1] \in S
    BY <1>3
  <2> QED BY <2>1
<1>7. f = [n \in 0 .. N |-> IF n = 0 THEN start ELSE Collect(f[n - 1], actions[n])]
  <2> HIDE DEF S, N, start, step
  <2>1. ASSUME NEW n \in 0 .. N
        PROVE  f[n] = IF n = 0 THEN start ELSE Collect(f[n - 1], actions[n])
    <3>1. CASE n = 0
      BY <3>1, <1>5
    <3>2. CASE n # 0
      <4>1. n \in 1 .. N
        BY <3>2, <1>3
      <4> QED BY <3>2, <4>1, <1>5, <1>6
    <3> QED BY <3>1, <3>2
  <2>2. \A n \in 0 .. N : f[n] = IF n = 0 THEN start ELSE Collect(f[n - 1], actions[n])
    BY <2>1
  <2> HIDE <2>1
  <2> QED BY <2>2
<1> DEFINE collected == CHOOSE g : g = [n \in 0 .. N |-> IF n = 0 THEN start ELSE Collect(g[n - 1], actions[n])]
<1>8. collected = [n \in 0 .. N |-> IF n = 0 THEN start ELSE Collect(collected[n - 1], actions[n])]
  <2> HIDE DEF start, N
  <2> QED BY <1>7, Zenon
<1>9. NormalizeActions(actions) = Flush(collected[N])
  BY DEF NormalizeActions
<1> DEFINE T == {n \in Nat : n <= N => collected[n] \in S}
<1>10. \A n \in Nat : n \in T
  <2> HIDE DEF S, start, collected, N
  <2>1. 0 \in T
    BY <1>3, <1>8
  <2>2. ASSUME NEW n \in Nat, n \in T PROVE n + 1 \in T
    <3>1. ASSUME n + 1 <= N PROVE collected[n + 1] \in S
      <4>1. collected[n + 1] = Collect(collected[n], actions[n + 1])
        BY <1>3, <1>8, <3>1
      <4>2. collected[n] \in S /\ actions[n + 1] \in A
        BY <1>3, <2>2, <3>1
      <4> QED BY <1>2, <4>1, <4>2
    <3> QED BY <3>1
  <2> HIDE DEF T
  <2> QED BY <2>1, <2>2, InductiveSet
<1>11. collected[N] \in S
  <2> HIDE DEF S, collected
  <2> QED BY <1>3, <1>10
<1> QED
  <2> HIDE DEF S, collected, N
  <2> QED BY <1>1, <1>9, <1>11

(* The kinds of actions there are after normalisation. *)
ActionKinds == {"Assign", "FieldAssign", "Delta", "Append", "Extend", "Reset", "Read", "Write"}

LEMMA CreatedActions ==
  ASSUME NEW s \in CreatedStates, NEW i \in DOMAIN s.actions
  PROVE  s.actions[i].kind \in ActionKinds
<1>1. CASE s = FinalState
  BY <1>1 DEF FinalState
<1>2. ASSUME NEW m \in Machines, NEW t \in ToSet(m.states), s = Created(t)
      PROVE  s.actions[i].kind \in ActionKinds
  <2> DEFINE A == ToSet(t.actions)
             D == {CollectMessageFieldAssignments(g) : g \in Seq(A)}
  <2>1. /\ {"name", "transitions", "exception", "actions", "declarations"} \subseteq DOMAIN t
        /\ t.actions \in Seq(A)
        /\ \A a \in A : a.kind \in ActionKinds
    BY MachinesAssumption DEF ActionKinds
  <2>2. s.actions = NormalizeActions(t.actions)
    BY <1>2, <2>1 DEF Created, NormalizeTransitions
  <2>3. s.actions \in Seq(A \union D)
    BY <2>1, <2>2, NormalizedActions
  <2>4. \A d \in D : d.kind = "Delta"
    <3>1. \A g : CollectMessageFieldAssignments(g).kind = "Delta"
      BY DEF CollectMessageFieldAssignments
    <3> QED BY <3>1
  <2>5. s.actions[i] \in A \union D
    <3> HIDE DEF A, D
    <3> QED BY <2>3
  <2> HIDE DEF A, D
  <2> QED BY <2>1, <2>4, <2>5 DEF ActionKinds
<1> QED BY <1>1, <1>2 DEF CreatedStates

(* Names of states, and the errors of the graph, depend on the states only. *)
LEMMA AppendFinal ==
  ASSUME states \in Seq(CreatedStates), states' = Append(states, FinalState)
  PROVE  /\ states' \in Seq(CreatedStates) /\ Len(states') > 0
         /\ StateNames' = StateNames \union {Final}
         /\ \A i \in DOMAIN states' : \/ i \in DOMAIN states /\ states'[i] = states[i]
                                    \/ states'[i] = FinalState
<1>1. FinalState \in CreatedStates
  BY DEF CreatedStates
<1>2. /\ states' \in Seq(CreatedStates) /\ Len(states') = Len(states) + 1 /\ Len(states) \in Nat
      /\ DOMAIN states = 1 .. Len(states) /\ DOMAIN states' = 1 .. Len(states')
      /\ \A i \in 1 .. Len(states) : states'[i] = states[i]
      /\ states'[Len(states) + 1] = FinalState
  BY <1>1
<1>3. FinalState.name = Final
  BY DEF FinalState
<1>4. StateNames' = StateNames \union {Final}
  <2>1. ASSUME NEW n \in StateNames' PROVE n \in StateNames \union {Final}
    <3>1. PICK i \in 1 .. Len(states') : n = states'[i].name
      BY <1>2 DEF StateNames
    <3> QED BY <1>2, <1>3, <3>1 DEF StateNames
  <2>2. StateNames \subseteq StateNames'
    BY <1>2 DEF StateNames
  <2>3. Final \in StateNames'
    BY <1>2, <1>3 DEF StateNames
  <2> QED BY <2>1, <2>2, <2>3
<1> QED BY <1>2, <1>4

(* Creation and normalisation. *)
LEMMA CreateStep == ASSUME ModelInvariant, CreateState \/ CreateMachine PROVE ModelInvariant'
<1>1. CASE CreateState
  <2>1. phase = "create" /\ phase' = "create" /\ machine' = machine /\ index' = index + 1
        /\ outcome' = outcome /\ current' = current
    BY <1>1 DEF CreateState, running
  <2>2. states' = Append(states, Created(machine.states[index]))
    BY <1>1 DEF CreateState, Created
  <2>3. machine.states[index] \in ToSet(machine.states)
    <3>1. machine.states \in Seq(ToSet(machine.states)) /\ index \in Nat \ {0} /\ index <= Len(machine.states)
      BY <1>1, MachinesAssumption DEF CreateState, ModelInvariant, StatesInvariant
    <3> QED BY <3>1 DEF ToSet
  <2>4. states' \in Seq(CreatedStates)
    BY <2>2, <2>3 DEF ModelInvariant, StatesInvariant, CreatedStates
  <2> QED BY <2>1, <2>4 DEF ModelInvariant, StatesInvariant, ErrorsInvariant, RunInvariant,
                            Validating, Accepted
<1>2. CASE CreateMachine
  <2>1. /\ phase = "create" /\ phase' \in {"KeyError", "states"}
        /\ UNCHANGED <<machine, index, outcome, current>>
    BY <1>2 DEF CreateMachine, running
  <2>2. states \in Seq(CreatedStates) /\ states' = Append(states, FinalState)
    BY <1>2 DEF CreateMachine, ModelInvariant, StatesInvariant
  <2>3. ASSUME phase' = "states" PROVE Looked'
    <3>1. \A i \in DOMAIN states : ~LookupFails(states[i], StateNames \union {Final})
      BY <1>2, <2>3 DEF CreateMachine
    <3>2. ~LookupFails(FinalState, StateNames \union {Final})
      BY DEF LookupFails, FinalState
    <3>3. ASSUME NEW i \in DOMAIN states' PROVE ~LookupFails(states'[i], StateNames \union {Final})
      BY <2>2, <3>1, <3>2, AppendFinal
    <3>4. StateNames' = StateNames \union {Final}
      BY <2>2, AppendFinal
    <3> QED BY <3>3, <3>4 DEF Looked, LookupFails
  <2>4. states' \in Seq(CreatedStates) /\ Len(states') > 0
    BY <2>2, AppendFinal
  <2> QED BY <2>1, <2>3, <2>4 DEF ModelInvariant, StatesInvariant, ErrorsInvariant, RunInvariant,
                                  Validating, Accepted
<1> QED BY <1>1, <1>2

(* What was derived from the states stays as it is. *)
LEMMA SameStates ==
  ASSUME UNCHANGED <<machine, states>>
  PROVE  /\ StateNames' = StateNames /\ GraphErrors' = GraphErrors /\ (Looked <=> Looked')
         /\ \A s : StateErrors(s)' = StateErrors(s)
<1>1. StateNames' = StateNames
  BY DEF StateNames
<1>2. GraphErrors' = GraphErrors
  BY <1>1 DEF GraphErrors, ValidateStateExistence, ValidateDuplicateStates, ValidateStateReachability
<1>3. Looked <=> Looked'
  BY <1>1 DEF Looked
<1>4. Globals' = Globals
  BY DEF Globals
<1>5. \A s : StateErrors(s)' = StateErrors(s)
  BY <1>4 DEF StateErrors
<1> QED BY <1>1, <1>2, <1>3, <1>5

(* The checks of the graph of states, and of the declarations. *)
LEMMA ValidateGraphStep ==
  ASSUME ModelInvariant, ValidateStates \/ ValidateDeclarations PROVE ModelInvariant'
<1>1. /\ UNCHANGED <<machine, states, outcome, current>>
      /\ phase \in {"states", "declarations"}
      /\ phase' \in {"declarations", "validate"} /\ index' \in Nat \ {0}
      /\ (phase' = "validate" => index' = 1)
  <2>1. index \in Nat \ {0}
    BY DEF ModelInvariant, StatesInvariant
  <2>2. CASE ValidateStates
    BY <2>1, <2>2 DEF ValidateStates, running
  <2>3. CASE ValidateDeclarations
    BY <2>1, <2>3 DEF ValidateDeclarations, running
  <2> QED BY <2>2, <2>3
<1>2. StatesInvariant'
  BY <1>1, SameStates DEF ModelInvariant, StatesInvariant, Validating, Accepted
<1>3. GraphErrors \subseteq errors'
  <2>1. CASE ValidateStates
    BY <2>1 DEF ValidateStates, GraphErrors
  <2>2. CASE ValidateDeclarations
    BY <2>2 DEF ValidateDeclarations, ModelInvariant, ErrorsInvariant, Validating
  <2> QED BY <2>1, <2>2
<1>4. phase' = "validate" => \A i \in DOMAIN states : ~(i < index')
  <2>1. states \in Seq(CreatedStates)
    BY DEF ModelInvariant, StatesInvariant
  <2> QED BY <1>1, <2>1
<1>5. ErrorsInvariant'
  BY <1>1, <1>3, <1>4, SameStates DEF ErrorsInvariant, Accepted
<1>6. RunInvariant'
  BY <1>1 DEF ModelInvariant, RunInvariant
<1> QED BY <1>2, <1>5, <1>6 DEF ModelInvariant

(* The checks of one state. *)
LEMMA ValidateStateStep == ASSUME ModelInvariant, ValidateState PROVE ModelInvariant'
<1>1. /\ UNCHANGED <<machine, states, phase, outcome, current>> /\ phase = "validate"
      /\ index' = index + 1 /\ index <= Len(states) /\ index \in Nat \ {0} /\ states \in Seq(CreatedStates)
  BY DEF ValidateState, running, ModelInvariant, StatesInvariant
<1>2. StatesInvariant'
  BY <1>1, SameStates DEF ModelInvariant, StatesInvariant
<1>3. errors \subseteq errors' /\ StateErrors(states[index]) \subseteq errors'
  BY DEF ValidateState, StateErrors
<1>4. ASSUME NEW i \in DOMAIN states, i < index' PROVE StateErrors(states[i]) \subseteq errors'
  <2>1. CASE i = index
    BY <2>1, <1>3
  <2>2. CASE i # index
    <3>1. i < index
      BY <1>1, <1>4, <2>2
    <3> QED BY <1>1, <1>3, <3>1 DEF ModelInvariant, ErrorsInvariant
  <2> QED BY <2>1, <2>2
<1>5. GraphErrors \subseteq errors'
  BY <1>1, <1>3 DEF ModelInvariant, ErrorsInvariant, Validating
<1>6. ErrorsInvariant'
  BY <1>1, <1>4, <1>5, SameStates DEF ErrorsInvariant, Accepted
<1>7. RunInvariant'
  BY <1>1 DEF ModelInvariant, RunInvariant
<1> QED BY <1>2, <1>6, <1>7 DEF ModelInvariant

(* The machine is accepted if no error was found. *)
LEMMA ValidateUsageStep == ASSUME ModelInvariant, ValidateUsage PROVE ModelInvariant'
<1>1. /\ UNCHANGED <<machine, states, outcome, current>> /\ phase = "validate"
      /\ phase' \in {"optimize", "rejected"} /\ (phase' = "optimize" => errors' = {})
      /\ errors \subseteq errors'
      /\ index > Len(states) /\ index \in Nat \ {0} /\ index' \in Nat \ {0} /\ states \in Seq(CreatedStates)
  BY DEF ValidateUsage, running, ModelInvariant, StatesInvariant
<1>2. StatesInvariant'
  BY <1>1, SameStates DEF ModelInvariant, StatesInvariant, Validating, Accepted
<1>3. ASSUME NEW i \in DOMAIN states PROVE StateErrors(states[i]) \subseteq errors'
  <2>1. i < index
    BY <1>1
  <2> QED BY <1>1, <2>1 DEF ModelInvariant, ErrorsInvariant
<1>4. GraphErrors \subseteq errors'
  BY <1>1 DEF ModelInvariant, ErrorsInvariant, Validating
<1>5. ErrorsInvariant'
  BY <1>1, <1>3, <1>4, SameStates DEF ErrorsInvariant, Accepted, Validating
<1>6. RunInvariant'
  BY <1>1 DEF ModelInvariant, RunInvariant
<1> QED BY <1>2, <1>5, <1>6 DEF ModelInvariant

(* The optimisation, and the start of the generated machine. *)
LEMMA GenerateStep == ASSUME ModelInvariant, Optimize \/ Generate PROVE ModelInvariant'
<1>1. /\ UNCHANGED <<machine, states, errors, outcome>> /\ index' \in Nat \ {0}
      /\ phase \in {"optimize", "generate"} /\ phase' \in {"generate", "failed", "unsupported", "run"}
  BY DEF Optimize, Generate, Obstacles, checking, running, ModelInvariant, StatesInvariant
<1>2. StatesInvariant'
  BY <1>1, SameStates DEF ModelInvariant, StatesInvariant, Validating, Accepted
<1>3. errors = {} /\ GraphErrors \subseteq errors /\ \A i \in DOMAIN states : StateErrors(states[i]) \subseteq errors
  BY <1>1 DEF ModelInvariant, ErrorsInvariant, Accepted, Validating
<1>4. phase' \in {"generate", "failed"} =>
        structures' = UNION {OptimizeStructures(states[i]) : i \in DOMAIN states}
  BY <1>1 DEF Optimize, Generate, checking, ModelInvariant, ErrorsInvariant
<1>5. ErrorsInvariant'
  BY <1>1, <1>3, <1>4, SameStates DEF ErrorsInvariant, Accepted, Validating
<1>6. CASE Optimize
  BY <1>2, <1>5, <1>6 DEF Optimize, running, ModelInvariant, RunInvariant
<1>7. CASE Generate
  <2>1. phase = "generate" /\ outcome.code = "ok" /\ outcome' = outcome /\ pc' = 0
        /\ states \in Seq(CreatedStates) /\ Len(states) > 0 /\ UNCHANGED <<states, structures>>
    BY <1>7 DEF Generate, checking, ModelInvariant, RunInvariant, StatesInvariant, Accepted
  <2>2. current' \in StateNames'
    BY <1>7, <2>1 DEF Generate, StateNames
  <2>3. phase' = "failed" => \E i \in DOMAIN states : GenerationFails(states[i])'
    <3>1. phase' = "failed" => \E i \in DOMAIN states : GenerationFails(states[i])
      BY <1>7 DEF Generate, Obstacles
    <3> QED BY <1>7, <2>1, <3>1 DEF Generate, GenerationFails, UntranslatableAttribute, UntranslatableArgument,
                                    StateRaises, Globals, ActionRaises, checking
  <2> QED BY <1>2, <1>5, <2>1, <2>2, <2>3 DEF ModelInvariant, RunInvariant
<1> QED BY <1>6, <1>7

-----------------------------------------------------------------------------
(* The state that is executed is one of the machine. *)
LEMMA CurrentState ==
  ASSUME current \in StateNames, states \in Seq(CreatedStates)
  PROVE  \E i \in DOMAIN states : Current = states[i] /\ states[i].name = current
<1>1. PICK i \in DOMAIN states : states[i].name = current
  BY DEF StateNames
<1>2. states[i] \in Range(states)
  BY DEF Range
<1>3. Current \in Range(states) /\ Current.name = current
  BY <1>1, <1>2 DEF Current
<1> QED BY <1>3 DEF Range

(* Every target of an accepted machine is one of its states: the validation of the regular
   targets makes the lookup of the exception target effective. *)
LEMMA TargetKnown ==
  ASSUME ModelInvariant, phase = "run", current # Final
  PROVE  /\ \A i \in DOMAIN Current.transitions : Current.transitions[i].target \in StateNames
         /\ Current.exception # None => Current.exception \in StateNames
<1>1. current \in StateNames /\ states \in Seq(CreatedStates) /\ GraphErrors = {} /\ Looked
  BY DEF ModelInvariant, RunInvariant, StatesInvariant, ErrorsInvariant, Accepted
<1>2. PICK i \in DOMAIN states : Current = states[i] /\ states[i].name = current
  BY <1>1, CurrentState
<1> DEFINE s == states[i]
<1>3. \A j \in DOMAIN s.transitions : s.transitions[j].target \in StateNames
  <2>1. ValidateStateExistence = {}
    BY <1>1 DEF GraphErrors
  <2> QED BY <2>1 DEF ValidateStateExistence
<1>4. s.transitions # <<>>
  <2>1. ValidateStateReachability = {}
    BY <1>1 DEF GraphErrors
  <2> QED BY <1>2, <2>1 DEF ValidateStateReachability
<1>5. s.transitions \in Seq(ToSet(s.transitions))
  BY <1>1, CreatedState
<1>6. Len(s.transitions) \in DOMAIN s.transitions
  <2> DEFINE t == s.transitions
  <2>1. t \in Seq(ToSet(t)) /\ t # <<>>
    BY <1>4, <1>5
  <2> HIDE DEF t
  <2>2. Len(t) \in DOMAIN t
    BY <2>1
  <2> QED BY <2>2 DEF t
<1>7. s.exception # None => s.exception \in StateNames
  BY <1>1, <1>3, <1>4, <1>6 DEF Looked, LookupFails
<1> QED BY <1>2, <1>3, <1>7

(* Steps of a run that stay in a state. *)
LEMMA StayStep ==
  ASSUME ModelInvariant, Declare \/ Act \/ ConditionRaises PROVE ModelInvariant'
<1>1. UNCHANGED <<machine, states, phase, index, errors, structures, current>> /\ phase = "run" /\ current # Final
  <2>1. phase = "run" /\ current = Final => ~(pc > 0)
    BY DEF ModelInvariant, RunInvariant
  <2>2. CASE Declare
    BY <2>2 DEF Declare, checking
  <2>3. CASE Act
    BY <2>1, <2>3 DEF Act, checking
  <2>4. CASE ConditionRaises
    BY <2>4 DEF ConditionRaises, AtEnd, checking
  <2> QED BY <2>2, <2>3, <2>4
<1>2. StatesInvariant'
  BY <1>1, SameStates DEF ModelInvariant, StatesInvariant
<1>3. ErrorsInvariant'
  BY <1>1, SameStates DEF ModelInvariant, ErrorsInvariant
<1>4. RunInvariant'
  BY <1>1, SameStates DEF ModelInvariant, RunInvariant
<1> QED BY <1>2, <1>3, <1>4 DEF ModelInvariant

(* Steps of a run that leave a state. *)
LEMMA LeaveStep ==
  ASSUME ModelInvariant, phase = "run", NEW t \in StateNames, Leave(t) PROVE ModelInvariant'
<1>1. /\ UNCHANGED <<machine, states, phase, index, errors, structures>> /\ current' = t
      /\ pc' = 0 /\ outcome'.code = "ok"
  BY DEF Leave, checking
<1>2. StatesInvariant'
  BY <1>1, SameStates DEF ModelInvariant, StatesInvariant
<1>3. ErrorsInvariant'
  BY <1>1, SameStates DEF ModelInvariant, ErrorsInvariant
<1>4. RunInvariant'
  BY <1>1, SameStates DEF RunInvariant
<1> QED BY <1>2, <1>3, <1>4 DEF ModelInvariant

(* Every step keeps the invariant. *)
LEMMA ModelStep == ASSUME ModelInvariant, [Next]_vars PROVE ModelInvariant'
<1>1. CASE Transition
  <2>1. phase = "run" /\ current # Final
    BY <1>1 DEF Transition, AtEnd
  <2> QED BY <1>1, <2>1, TargetKnown, LeaveStep DEF Transition
<1>2. CASE TakeException
  <2>1. phase = "run" /\ current # Final /\ Current.exception # None
    BY <1>2 DEF TakeException, ModelInvariant, RunInvariant
  <2> QED BY <1>2, <2>1, TargetKnown, LeaveStep DEF TakeException
<1>3. CASE UNCHANGED vars
  <2>1. UNCHANGED <<machine, states, phase, index, errors, structures, current, pc, outcome>>
    BY <1>3 DEF vars
  <2>2. StatesInvariant'
    BY <2>1, SameStates DEF ModelInvariant, StatesInvariant
  <2>3. ErrorsInvariant'
    BY <2>1, SameStates DEF ModelInvariant, ErrorsInvariant
  <2>4. RunInvariant'
    BY <2>1, SameStates DEF ModelInvariant, RunInvariant, GenerationFails, UntranslatableAttribute,
                            UntranslatableArgument, StateRaises, Globals
  <2> QED BY <2>2, <2>3, <2>4 DEF ModelInvariant
<1>4. CASE Ended
  BY <1>3, <1>4 DEF Ended
<1> QED BY <1>1, <1>2, <1>3, <1>4, CreateStep, ValidateGraphStep, ValidateStateStep, ValidateUsageStep,
           GenerateStep, StayStep DEF Next

(* The invariant of construction, validation, generation and run of a machine. *)
THEOREM ModelInductive == Spec => []ModelInvariant
<1>1. Init => ModelInvariant
  BY DEF Init, ModelInvariant, StatesInvariant, ErrorsInvariant, RunInvariant, Validating, Accepted
<1>2. ModelInvariant /\ [Next]_vars => ModelInvariant'
  BY ModelStep
<1> QED BY <1>1, <1>2, PTL DEF Spec

(* Whatever machine is declared, a machine that is accepted never goes to a state it does not
   have, although no check looks at the targets of exception transitions. *)
THEOREM MachineTargetsExist == Spec => []TargetsExist
<1>1. ModelInvariant => TargetsExist
  BY DEF ModelInvariant, RunInvariant, TargetsExist
<1> QED BY <1>1, ModelInductive, PTL

-----------------------------------------------------------------------------
(* Every check that is generated for an expression was expected. *)
LEMMA ExpectedChecks == ASSUME NEW e, Checked(e) PROVE HasExpressionExceptions(e)
BY DEF Checked, HasExpressionExceptions, ExceptionNodes, Arithmetic

(* Only variables are received from and sent to channels. *)
LEMMA ChannelVariables ==
  ASSUME NEW s, IOErrors(s) = {}, NEW i \in DOMAIN s.actions, s.actions[i].kind \in {"Read", "Write"}
  PROVE  s.actions[i].expr.node = "Variable"
<1> DEFINE io == {j \in DOMAIN s.actions : s.actions[j].kind \in {"Read", "Write"}}
<1>1. i \in io
  OBVIOUS
<1>2. {<<"channel parameter", s.name>> : j \in {j \in io : s.actions[j].expr.node # "Variable"}} \subseteq IOErrors(s)
  BY DEF IOErrors
<1> QED BY <1>1, <1>2

(* has_exceptions finds every action of a valid state, whose arguments of Reset need no check, for which
   a check is generated. *)
LEMMA ExpectedAction ==
  ASSUME NEW s, NEW decls, IOErrors(s) = {}, NEW i \in DOMAIN s.actions,
         s.actions[i].kind \in ActionKinds, ActionErrors(s.actions[i], decls) = {},
         s.actions[i].kind = "Reset" => ~Checked(s.actions[i].expr),
         ActionRaises(s.actions[i], decls)
  PROVE  HasExceptions(s, decls)
<1> DEFINE a == s.actions[i]
<1>1. CASE a.kind \in {"Append", "Extend", "FieldAssign"}
  BY <1>1 DEF HasExceptions
<1>2. CASE a.kind = "Delta"
  <2>1. a.target \in DOMAIN decls /\ decls[a.target].type \in MessageTypes
    BY <1>2 DEF ActionErrors, MessageTypes
  <2> QED BY <1>2, <2>1 DEF HasExceptions
<1>3. CASE a.kind = "Assign"
  <2>1. CASE decls[a.target].type \in MessageTypes
    <3>1. a.target \in DOMAIN decls
      BY <1>3 DEF ActionErrors
    <3> QED BY <1>3, <2>1, <3>1 DEF HasExceptions
  <2>2. CASE \E e \in Expressions(a) : Checked(e)
    BY <1>3, <2>2, ExpectedChecks DEF HasExceptions
  <2> QED BY <1>3, <2>1, <2>2 DEF ActionRaises
<1>4. CASE a.kind = "Reset"
  <2>1. Expressions(a) \subseteq {a.expr}
    BY <1>4 DEF Expressions
  <2> QED BY <1>4, <2>1 DEF ActionRaises
<1>5. CASE a.kind \in {"Read", "Write"}
  <2>1. a.expr.node = "Variable"
    BY <1>5, ChannelVariables
  <2>2. ASSUME NEW e \in Expressions(a) PROVE ~Checked(e)
    <3>1. e = a.expr
      BY <1>5 DEF Expressions
    <3>2. Nodes(e) \subseteq {"Variable"}
      BY <2>1, <3>1 DEF Nodes
    <3> QED BY <3>2 DEF Checked, Arithmetic
  <2> QED BY <1>5, <2>2 DEF ActionRaises
<1> QED BY <1>1, <1>2, <1>3, <1>4, <1>5 DEF ActionKinds

(* A message becomes a structure only if no action of a valid state asks for an attribute of
   it that has no translation. *)
LEMMA TranslatableAttributes ==
  ASSUME NEW s, NEW decls, IOErrors(s) = {}, NEW i \in DOMAIN s.actions,
         s.actions[i].kind \in ActionKinds, ActionErrors(s.actions[i], decls) = {},
         s.actions[i].kind # "Reset",
         NEW e \in Expressions(s.actions[i]), <<s.name, e.name>> \in OptimizeStructures(s)
  PROVE  e.node \notin {"Size", "Has_Data", "Valid"}
<1> DEFINE a == s.actions[i]
<1>0. SUFFICES ASSUME e.node \in {"Size", "Has_Data", "Valid"} PROVE FALSE
  OBVIOUS
<1>1. ~ContainsUnsupportedFeature(e.name, a)
  BY DEF OptimizeStructures, Scoped
<1>2. CASE a.kind \in {"Assign", "FieldAssign", "Delta"}
  BY <1>0, <1>1, <1>2 DEF ContainsUnsupportedFeature, Attributes
<1>3. CASE a.kind = "Append"
  <2>1. e = a.expr
    BY <1>3 DEF Expressions
  <2> QED BY <1>1, <1>3, <2>1 DEF ContainsUnsupportedFeature
<1>4. CASE a.kind = "Extend"
  <2>1. e = a.expr
    BY <1>4 DEF Expressions
  <2>2. TypeErrors(e, "Sequence", decls) = {}
    BY <1>4, <2>1 DEF ActionErrors
  <2>3. TypeOf(e, decls) = "Sequence"
    BY <2>2 DEF TypeErrors
  <2>4. TypeOf(e, decls) \in {"Boolean", "Scalar", "Undefined"}
    BY <1>0 DEF TypeOf, Arithmetic
  <2> QED BY <2>3, <2>4
<1>6. CASE a.kind \in {"Read", "Write"}
  <2>1. e = a.expr
    BY <1>6 DEF Expressions
  <2>2. a.expr.node = "Variable"
    BY <1>6, ChannelVariables
  <2> QED BY <1>0, <2>1, <2>2
<1> QED BY <1>2, <1>3, <1>4, <1>6 DEF ActionKinds

(* Without an overlooked construct, code is generated for every accepted machine. *)
LEMMA Generated ==
  ASSUME ModelInvariant, phase = "failed"
  PROVE  \E i \in DOMAIN states : Overlooked(states[i])
<1>1. PICK i \in DOMAIN states : GenerationFails(states[i])
  BY DEF ModelInvariant, RunInvariant
<1> DEFINE s == states[i]
           decls == s.declarations @@ Globals
<1>2. /\ states \in Seq(CreatedStates) /\ GraphErrors = {} /\ StateErrors(s) = {}
      /\ structures = UNION {OptimizeStructures(states[j]) : j \in DOMAIN states}
  BY DEF ModelInvariant, StatesInvariant, ErrorsInvariant, Accepted
<1>3. SUFFICES ASSUME ~Overlooked(s) PROVE FALSE
  OBVIOUS
<1>4. /\ IOErrors(s) = {} /\ TransitionErrors(s, decls) = {}
      /\ \A j \in DOMAIN s.actions : ActionErrors(s.actions[j], decls) = {}
  BY <1>2 DEF StateErrors
<1>5. s.exception = None => ~HasExceptions(s, decls)
  <2>1. ASSUME s.exception = None, HasExceptions(s, decls)
        PROVE  <<"missing exception transition", s.name>> \in TransitionErrors(s, decls)
    BY <2>1 DEF TransitionErrors
  <2> QED BY <1>4, <2>1
<1>6. \A j \in DOMAIN s.actions : s.actions[j].kind \in ActionKinds
  BY <1>2, CreatedActions
<1>7. \A j \in DOMAIN s.actions : s.actions[j].kind = "Reset" =>
        ~Checked(s.actions[j].expr) /\ ~UntranslatableArgument(s, s.actions[j].expr)
  BY <1>3 DEF Overlooked
<1>8. StateRaises(s) => HasExceptions(s, decls)
  <2>1. ASSUME NEW j \in DOMAIN s.actions, ActionRaises(s.actions[j], decls) PROVE HasExceptions(s, decls)
    BY <1>4, <1>6, <1>7, <2>1, ExpectedAction
  <2>2. ASSUME NEW j \in DOMAIN s.transitions, Checked(s.transitions[j].condition) PROVE HasExceptions(s, decls)
    BY <2>2, ExpectedChecks DEF HasExceptions
  <2> QED BY <2>1, <2>2 DEF StateRaises
<1>9. ASSUME NEW x, <<s.name, x>> \in structures PROVE <<s.name, x>> \in OptimizeStructures(s)
  <2>1. PICK j \in DOMAIN states : <<s.name, x>> \in OptimizeStructures(states[j])
    BY <1>2, <1>9
  <2>2. states[j].name = s.name
    BY <2>1 DEF OptimizeStructures, Scoped
  <2>3. ValidateDuplicateStates = {}
    BY <1>2 DEF GraphErrors
  <2>4. i = j
    <3>1. \A k, l \in DOMAIN states : l \in 1 .. (k - 1) => states[l].name # states[k].name
      BY <2>3 DEF ValidateDuplicateStates
    <3>2. i \in 1 .. (j - 1) \/ j \in 1 .. (i - 1) \/ i = j
      BY <1>2
    <3> QED BY <2>2, <3>1, <3>2
  <2> QED BY <2>1, <2>4
<1>10. ASSUME NEW j \in DOMAIN s.actions, s.actions[j].kind # "Reset", NEW e \in Expressions(s.actions[j]), UntranslatableAttribute(s, e)
       PROVE  FALSE
  <2>1. <<s.name, e.name>> \in OptimizeStructures(s) /\ e.node \in {"Size", "Has_Data", "Valid"}
    BY <1>9, <1>10 DEF UntranslatableAttribute
  <2> QED BY <1>4, <1>6, <1>10, <2>1, TranslatableAttributes
<1>11. ~\E j \in DOMAIN s.transitions : UntranslatableAttribute(s, s.transitions[j].condition)
  BY <1>3 DEF Overlooked
<1> QED BY <1>1, <1>5, <1>7, <1>8, <1>10, <1>11 DEF GenerationFails

(* For every machine: what the model accepts, the generator can translate, unless a state
   has a construct that has_exceptions or _optimize_structures overlook. *)
THEOREM AcceptedMachinesGenerate == Spec => []GenerationSucceeds
<1>1. ModelInvariant => GenerationSucceeds
  BY Generated DEF GenerationSucceeds
<1> QED BY <1>1, ModelInductive, PTL
=============================================================================
