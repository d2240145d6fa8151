------------------------- MODULE StateMachine_proofs -------------------------
(***************************************************************************)
(* For every machine, every integration and whatever check fails: every    *)
(* buffer of a generated state machine has exactly one owner, the machine  *)
(* is initialized between two calls or not at all, and it keeps the safety *)
(* part of the promise of its interface.                                   *)
(***************************************************************************)
EXTENDS StateMachine, Induction, FiniteSetTheorems

-----------------------------------------------------------------------------
(* Code is a sequence of statements. *)

IsCode(c) == \E A : c \in Seq(A)

LEMMA SeqMonotone == ASSUME NEW A, NEW B, A \subseteq B, NEW c \in Seq(A) PROVE c \in Seq(B)
OBVIOUS

LEMMA SequenceIsCode == ASSUME NEW c, IsSequence(c) PROVE IsCode(c)
BY DEF IsSequence, IsCode

LEMMA EmptyCode == IsCode(<<>>) /\ \A k : IsCode(k) => <<>> \o k = k /\ k \o <<>> = k
<1>1. <<>> \in Seq({})
  OBVIOUS
<1>2. ASSUME NEW k, IsCode(k) PROVE <<>> \o k = k /\ k \o <<>> = k
  <2>1. PICK A : k \in Seq(A)
    BY <1>2 DEF IsCode
  <2> QED BY <2>1
<1> QED BY <1>1, <1>2 DEF IsCode

LEMMA Code1 == ASSUME NEW i PROVE IsCode(<<i>>)
<1>1. <<i>> \in Seq({i})
  OBVIOUS
<1> QED BY <1>1 DEF IsCode

LEMMA CodeConcat == ASSUME NEW a, NEW b, IsCode(a), IsCode(b) PROVE IsCode(a \o b)
<1>1. PICK A : a \in Seq(A)
  BY DEF IsCode
<1>2. PICK B : b \in Seq(B)
  BY DEF IsCode
<1>3. a \in Seq(A \cup B) /\ b \in Seq(A \cup B)
  BY <1>1, <1>2, SeqMonotone
<1>4. a \o b \in Seq(A \cup B)
  BY <1>3
<1> QED BY <1>4 DEF IsCode

LEMMA CodeAssoc ==
  ASSUME NEW a, NEW b, NEW c, IsCode(a), IsCode(b), IsCode(c)
  PROVE  (a \o b) \o c = a \o (b \o c)
<1>1. PICK A : a \in Seq(A)
  BY DEF IsCode
<1>2. PICK B : b \in Seq(B)
  BY DEF IsCode
<1>3. PICK C : c \in Seq(C)
  BY DEF IsCode
<1> DEFINE S == (A \cup B) \cup C
<1>4. a \in Seq(S) /\ b \in Seq(S) /\ c \in Seq(S)
  <2>1. A \subseteq S /\ B \subseteq S /\ C \subseteq S
    OBVIOUS
  <2> HIDE DEF S
  <2> QED BY <1>1, <1>2, <1>3, <2>1, SeqMonotone
<1> HIDE DEF S
<1> QED BY <1>4

LEMMA CodeHead ==
  ASSUME NEW i, NEW k, IsCode(k)
  PROVE  /\ <<i>> \o k # <<>> /\ Head(<<i>> \o k) = i /\ Tail(<<i>> \o k) = k
<1>1. PICK A : k \in Seq(A)
  BY DEF IsCode
<1>2. k \in Seq(A \cup {i}) /\ <<i>> \in Seq(A \cup {i})
  BY <1>1, SeqMonotone
<1>3. Len(<<i>> \o k) = 1 + Len(k) /\ Len(k) \in Nat /\ (<<i>> \o k)[1] = i /\ <<i>> \o k \in Seq(A \cup {i})
  BY <1>2
<1>4. <<i>> \o k # <<>> /\ Head(<<i>> \o k) = i
  BY <1>3
<1>5. Tail(<<i>> \o k) = k
  <2>1. Tail(<<i>> \o k) \in Seq(A \cup {i}) /\ Len(Tail(<<i>> \o k)) = Len(k)
    BY <1>3, <1>4
  <2>2. ASSUME NEW j \in 1 .. Len(k) PROVE Tail(<<i>> \o k)[j] = k[j]
    <3>1. Tail(<<i>> \o k)[j] = (<<i>> \o k)[j + 1]
      BY <1>3, <1>4
    <3>2. (<<i>> \o k)[j + 1] = k[j]
      BY <1>2, <1>3
    <3> QED BY <3>1, <3>2
  <2> QED BY <2>1, <2>2, <1>2
<1> QED BY <1>4, <1>5

Unfolds(F, q, n) ==
    /\ FlattenSeq(q) = F[n] /\ F[1] = q[1]
    /\ \A i \in 1 .. n : i # 1 => F[i] = F[i - 1] \o q[i]

(* The concatenation of codes is built up from the first one. *)
LEMMA FlattenUnfold ==
  ASSUME NEW n \in Nat, n > 0, NEW q, DOMAIN q = 1 .. n, Len(q) = n, \A i \in 1 .. n : IsCode(q[i])
  PROVE  \E F : Unfolds(F, q, n)
<1> DEFINE A == UNION {ToSet(q[i]) : i \in 1 .. n}
           step == [i \in 1 .. n |-> [c \in Seq(A) |-> c \o q[i]]]
           Flattens(g) == g = [i \in 1 .. n |-> IF i = 1 THEN q[i] ELSE g[i - 1] \o q[i]]
           F == CHOOSE g : Flattens(g)
<1>1. ASSUME NEW i \in 1 .. n PROVE q[i] \in Seq(A)
  <2>1. PICK B : q[i] \in Seq(B)
    BY DEF IsCode
  <2>2. q[i] \in Seq(ToSet(q[i]))
    BY <2>1 DEF ToSet
  <2>3. ToSet(q[i]) \subseteq A
    OBVIOUS
  <2> HIDE DEF A
  <2> QED BY <2>2, <2>3, SeqMonotone
<1> HIDE DEF A
<1>2. step \in [1 .. n -> [Seq(A) -> Seq(A)]]
  BY <1>1
<1>3. <<>> \in Seq(A)
  OBVIOUS
<1>4. PICK f : Recursion(f, n, Seq(A), <<>>, step)
  <2> HIDE DEF step
  <2> QED BY <1>2, <1>3, RecursiveFunction
<1>5. f \in [0 .. n -> Seq(A)] /\ f[0] = <<>> /\ \A i \in 1 .. n : f[i] = f[i - 1] \o q[i]
  <2>1. f \in [0 .. n -> Seq(A)] /\ f[0] = <<>> /\ \A i \in 1 .. n : f[i] = step[i][f[i - 1]]
    BY <1>4 DEF Recursion
  <2>2. ASSUME NEW i \in 1 .. n PROVE f[i] = f[i - 1] \o q[i]
    <3>1. f[i - 1] \in Seq(A)
      BY <2>1
    <3> QED BY <2>1, <3>1
  <2> QED BY <2>1, <2>2
<1>6. Flattens([i \in 1 .. n |-> f[i]])
  <2> DEFINE g == [i \in 1 .. n |-> f[i]]
  <2>1. ASSUME NEW i \in 1 .. n PROVE g[i] = IF i = 1 THEN q[i] ELSE g[i - 1] \o q[i]
    <3>1. CASE i = 1
      <4>1. 1 \in 1 .. n /\ 1 - 1 = 0
        OBVIOUS
      <4>2. f[1] = f[1 - 1] \o q[1] /\ f[0] = <<>>
        BY <1>5, <4>1
      <4>3. q[1] \in Seq(A)
        BY <1>1, <4>1
      <4>4. f[1] = q[1]
        BY <4>1, <4>2, <4>3
      <4> QED BY <3>1, <4>4
    <3>2. CASE i # 1
      <4>1. i - 1 \in 1 .. n
        BY <3>2
      <4> QED BY <1>5, <3>2, <4>1
    <3> QED BY <3>1, <3>2
  <2> QED BY <2>1
<1>7. Flattens(F)
  <2> HIDE DEF Flattens
  <2> QED BY <1>6
<1>8. FlattenSeq(q) = F[n]
  BY DEF FlattenSeq
<1>9. F[1] = q[1] /\ \A i \in 1 .. n : i # 1 => F[i] = F[i - 1] \o q[i]
  <2> DEFINE h == [i \in 1 .. n |-> IF i = 1 THEN q[i] ELSE F[i - 1] \o q[i]]
  <2>1. F = h
    BY <1>7
  <2> HIDE DEF F
  <2>2. \A i \in 1 .. n : h[i] = IF i = 1 THEN q[i] ELSE F[i - 1] \o q[i]
    OBVIOUS
  <2> HIDE DEF h
  <2>3. \A i \in 1 .. n : F[i] = IF i = 1 THEN q[i] ELSE F[i - 1] \o q[i]
    BY <2>1, <2>2, Zenon
  <2>4. 1 \in 1 .. n
    OBVIOUS
  <2>5. F[1] = q[1]
    BY <2>3, <2>4
  <2>6. ASSUME NEW i \in 1 .. n, i # 1 PROVE F[i] = F[i - 1] \o q[i]
    BY <2>3, <2>6
  <2> QED BY <2>5, <2>6
<1> HIDE DEF F
<1>10. Unfolds(F, q, n)
  BY <1>8, <1>9 DEF Unfolds
<1> QED BY <1>10

-----------------------------------------------------------------------------
(* Who may hold a buffer.  A configuration <<m, P, C, k>> stands for all    *)
(* states in which at most the pointers P and the contexts C hold a buffer  *)
(* and the code k remains; m tells the kind of call: "start" before the     *)
(* memory is initialized, "tick" in a state, "stop" in Finalize, "call".    *)

(* What belongs to a variable whose buffer the application provides. *)
Foreign(n) == n[1] \in {"Ctx", "Tmp", "Target"} /\ n[2] \in external_io_buffers

GlobalContexts == {Ctx(v) : v \in ToSet(Globals)}

(* Statements that leave all buffers where they are. *)
Quiet == {"Reset", "Verify_Message", "Read", "Copy", "Append_Element", "Set", "Generic_Set",
          "Assign", "Call", "To_Context", "Copy_Field", "To_Structure", "Get",
          "Assert_Invariant", "Assert_Global_Initialized", "Found", "Not_Found"}

(* No buffer is overwritten or dropped by the next statement i of the configuration, and the
   configurations after it are in Y.  A statement whose source holds no buffer is not executed,
   because the precondition of the called subprogram would not hold.                       *)
SafeStatement(m, P, C, i, k, Y) ==
    /\ (m = "start") = (i.op = "Allocator_Initialize")
    /\ CASE i.op = "Allocate" ->
                /\ i.ptr \notin P /\ ~Foreign(i.ptr) /\ i.slot \in DOMAIN SlotSize
                /\ <<m, P \cup {i.ptr}, C, Tail(k)>> \in Y
         [] i.op = "Free" ->
                i.ptr \in P => /\ ~Foreign(i.ptr) /\ i.slot \in DOMAIN SlotSize
                               /\ <<m, P \ {i.ptr}, C, Tail(k)>> \in Y
         [] i.op = "Initialize" ->
                i.ptr \in P => /\ i.ctx \notin C /\ (Foreign(i.ctx) <=> Foreign(i.ptr))
                               /\ <<m, P \ {i.ptr}, C \cup {i.ctx}, Tail(k)>> \in Y
         [] i.op = "Take" ->
                i.ctx \in C => /\ i.ptr \notin P /\ (Foreign(i.ctx) <=> Foreign(i.ptr))
                               /\ <<m, P \cup {i.ptr}, C \ {i.ctx}, Tail(k)>> \in Y
         [] i.op = "Switch" ->
                i.seq \in C => /\ i.ctx \notin C /\ (Foreign(i.ctx) <=> Foreign(i.seq))
                               /\ <<m, P, (C \ {i.seq}) \cup {i.ctx}, Tail(k)>> \in Y
         [] i.op = "Update" ->
                i.ctx \in C => /\ i.ctx # i.seq /\ (Foreign(i.ctx) <=> Foreign(i.seq))
                               /\ <<m, P, (C \ {i.ctx}) \cup {i.seq}, Tail(k)>> \in Y
         [] i.op = "Move" ->
                i.from \in C => /\ i.to \notin C /\ (Foreign(i.from) <=> Foreign(i.to))
                                /\ <<m, P, (C \ {i.from}) \cup {i.to}, Tail(k)>> \in Y
         [] i.op = "Raise" ->
                m = "tick" /\ {<<m, P, C, Tail(k)>>, <<m, P, C, i.handler \o EndOfTick>>} \subseteq Y
         [] i.op = "While" -> {<<m, P, C, i.body \o k>>, <<m, P, C, Tail(k)>>} \subseteq Y
         [] i.op = "If" -> {<<m, P, C, i.body \o Tail(k)>>, <<m, P, C, Tail(k)>>} \subseteq Y
         [] i.op = "Exit" ->
                <<m, P, C, SubSeq(k, SelectInSeq(k, LAMBDA j : j.op = "While") + 1, Len(k))>> \in Y
         [] i.op = "Next_State" -> i.targets \subseteq States /\ <<m, P, C, Tail(k)>> \in Y
         [] i.op = "End_Of_Tick" ->
                P = {} /\ C \subseteq GlobalContexts /\ <<"call", P, C, Tail(k)>> \in Y
         [] i.op = "Allocator_Initialize" ->
                (\A n \in P : Foreign(n)) /\ C = {} /\ <<"call", P, C, Tail(k)>> \in Y
         [] i.op = "Allocator_Finalize" ->
                m = "stop" /\ (\A n \in P : Foreign(n)) /\ C = {} /\ <<"call", {}, C, Tail(k)>> \in Y
         [] OTHER -> i.op \in Quiet /\ <<m, P, C, Tail(k)>> \in Y

Safe(u, Y) ==
    IF u[4] = <<>> THEN u[1] # "start" /\ u[2] = {} /\ u[3] \subseteq GlobalContexts
    ELSE SafeStatement(u[1], u[2], u[3], Head(u[4]), u[4], Y)

(* From the configuration u only safe ones are reached, or one of X. *)
Closed(W, X) == \A u \in W : Safe(u, W \cup X)
Clean(u, X) == \E W : u \in W \cup X /\ Closed(W, X)

LEMMA SafeMonotone ==
  ASSUME NEW u, NEW Y, NEW Z, Y \subseteq Z, Safe(u, Y) PROVE Safe(u, Z)
<1> DEFINE i == Head(u[4])
<1>1. CASE u[4] = <<>>
  BY <1>1 DEF Safe
<1>2. CASE u[4] # <<>>
  <2>1. SafeStatement(u[1], u[2], u[3], i, u[4], Y)
    BY <1>2 DEF Safe
  <2> HIDE DEF i
  <2>2. SafeStatement(u[1], u[2], u[3], i, u[4], Z)
    BY <2>1 DEF SafeStatement
  <2> QED BY <1>2, <2>2 DEF Safe, i
<1> QED BY <1>1, <1>2

LEMMA CleanMonotone ==
  ASSUME NEW u, NEW X, NEW Z, X \subseteq Z, Clean(u, X) PROVE Clean(u, Z)
<1>1. PICK W : u \in W \cup X /\ Closed(W, X)
  BY DEF Clean
<1>2. W \cup X \subseteq W \cup Z
  OBVIOUS
<1>3. Closed(W, Z)
  BY <1>1, <1>2, SafeMonotone DEF Closed
<1> QED BY <1>1, <1>3 DEF Clean

(* A configuration is clean if its successors are, where they may come back to it. *)
LEMMA CleanStep ==
  ASSUME NEW u, NEW X, NEW Y, Safe(u, Y), \A y \in Y : Clean(y, X \cup {u})
  PROVE  Clean(u, X)
<1> DEFINE Z == X \cup {u}
           V(y) == CHOOSE W : y \in W \cup Z /\ Closed(W, Z)
           W == {u} \cup UNION {V(y) : y \in Y}
<1>1. ASSUME NEW y \in Y PROVE y \in V(y) \cup Z /\ Closed(V(y), Z)
  <2>1. Clean(y, Z)
    OBVIOUS
  <2> HIDE DEF Z
  <2> QED BY <2>1 DEF Clean
<1> HIDE DEF V
<1>2. Y \subseteq W \cup X
  BY <1>1
<1>3. Safe(u, W \cup X)
  <2> HIDE DEF W
  <2> QED BY <1>2, SafeMonotone
<1>4. ASSUME NEW y \in Y, NEW w \in V(y) PROVE Safe(w, W \cup X)
  <2>1. Safe(w, V(y) \cup Z)
    BY <1>1 DEF Closed
  <2>2. V(y) \cup Z \subseteq W \cup X
    OBVIOUS
  <2> HIDE DEF W, Z
  <2> QED BY <2>1, <2>2, SafeMonotone
<1>5. Closed(W, X)
  <2>1. \A w \in W : Safe(w, W \cup X)
    BY <1>3, <1>4
  <2> HIDE DEF W
  <2> QED BY <2>1 DEF Closed
<1> HIDE DEF W
<1>6. u \in W
  BY DEF W
<1> QED BY <1>5, <1>6 DEF Clean

-----------------------------------------------------------------------------
(* What code does to the holders: behind c, which is executed with the      *)
(* holders P and C, the holders are P1 and C1.  Handles: h gives back all   *)
(* that the state holds.                                                    *)

Does(c, m, P, C, P1, C1) ==
    /\ IsCode(c)
    /\ \A k, X : IsCode(k) /\ Clean(<<m, P1, C1, k>>, X) => Clean(<<m, P, C, c \o k>>, X)

Handles(h, P, C) == IsCode(h) /\ \A X : Clean(<<"tick", P, C, h \o EndOfTick>>, X)

LEMMA DoesNothing == ASSUME NEW m, NEW P, NEW C PROVE Does(<<>>, m, P, C, P, C)
BY EmptyCode DEF Does

LEMMA DoesConcat ==
  ASSUME NEW a, NEW b, NEW m, NEW P, NEW C, NEW P1, NEW C1, NEW P2, NEW C2,
         Does(a, m, P, C, P1, C1), Does(b, m, P1, C1, P2, C2)
  PROVE  Does(a \o b, m, P, C, P2, C2)
<1>1. IsCode(a) /\ IsCode(b) /\ IsCode(a \o b)
  BY CodeConcat DEF Does
<1>2. ASSUME NEW k, NEW X, IsCode(k), Clean(<<m, P2, C2, k>>, X)
      PROVE  Clean(<<m, P, C, (a \o b) \o k>>, X)
  <2>1. Clean(<<m, P1, C1, b \o k>>, X) /\ IsCode(b \o k)
    BY <1>1, <1>2, CodeConcat DEF Does
  <2>2. Clean(<<m, P, C, a \o (b \o k)>>, X)
    BY <2>1 DEF Does
  <2>3. (a \o b) \o k = a \o (b \o k)
    BY <1>1, <1>2, CodeAssoc
  <2> QED BY <2>2, <2>3
<1> QED BY <1>1, <1>2 DEF Does

LEMMA HandlesConcat ==
  ASSUME NEW c, NEW h, NEW P, NEW C, NEW P1, NEW C1, Does(c, "tick", P, C, P1, C1), Handles(h, P1, C1)
  PROVE  Handles(c \o h, P, C)
<1>1. IsCode(c) /\ IsCode(h) /\ IsCode(EndOfTick) /\ IsCode(c \o h) /\ IsCode(h \o EndOfTick)
  BY CodeConcat, Code1 DEF Does, Handles, EndOfTick
<1>2. ASSUME NEW X PROVE Clean(<<"tick", P, C, (c \o h) \o EndOfTick>>, X)
  <2>1. Clean(<<"tick", P, C, c \o (h \o EndOfTick)>>, X)
    BY <1>1 DEF Does, Handles
  <2>2. (c \o h) \o EndOfTick = c \o (h \o EndOfTick)
    BY <1>1, CodeAssoc
  <2> QED BY <2>1, <2>2
<1> QED BY <1>1, <1>2 DEF Handles

(* A concatenation of codes that lead from one pair of holders to the next. *)
LEMMA DoesFlatten ==
  ASSUME NEW q, IsCode(q), NEW n, n = Len(q), NEW m, NEW P, NEW C,
         \A i \in 1 .. n : Does(q[i], m, P[i - 1], C[i - 1], P[i], C[i])
  PROVE  Does(FlattenSeq(q), m, P[0], C[0], P[n], C[n])
<1> n \in Nat /\ DOMAIN q = 1 .. n /\ (n = 0 => q = <<>>)
  <2>1. PICK A : q \in Seq(A)
    BY DEF IsCode
  <2> QED BY <2>1
<1>1. CASE n = 0
  <2>1. q = <<>> /\ FlattenSeq(q) = q
    BY <1>1 DEF FlattenSeq
  <2> QED BY <1>1, <2>1, DoesNothing
<1>2. CASE n > 0
  <2>1. \A i \in 1 .. n : IsCode(q[i])
    BY DEF Does
  <2>2. PICK F : Unfolds(F, q, n)
    BY <1>2, <2>1, FlattenUnfold
  <2> DEFINE T == {i \in Nat : i \in 1 .. n => Does(F[i], m, P[0], C[0], P[i], C[i])}
  <2>3. 0 \in T
    OBVIOUS
  <2>4. ASSUME NEW i \in Nat, i \in T PROVE i + 1 \in T
    <3> SUFFICES ASSUME i + 1 \in 1 .. n PROVE Does(F[i + 1], m, P[0], C[0], P[i + 1], C[i + 1])
      OBVIOUS
    <3>1. (i + 1) - 1 = i
      OBVIOUS
    <3>2. Does(q[i + 1], m, P[i], C[i], P[i + 1], C[i + 1])
      BY <3>1
    <3>3. CASE i = 0
      <4>1. i + 1 = 1
        BY <3>3
      <4>2. Does(q[1], m, P[0], C[0], P[1], C[1])
        BY <3>2, <3>3, <4>1
      <4> QED BY <2>2, <4>1, <4>2 DEF Unfolds
    <3>4. CASE i # 0
      <4>1. Does(F[i], m, P[0], C[0], P[i], C[i])
        BY <2>4, <3>4
      <4>2. F[i + 1] = F[i] \o q[i + 1]
        <5>1. F[i + 1] = F[(i + 1) - 1] \o q[i + 1]
          <6>1. i + 1 # 1
            BY <3>4
          <6> QED BY <2>2, <6>1, Zenon DEF Unfolds
        <5> QED BY <3>1, <5>1
      <4> QED BY <3>2, <4>1, <4>2, DoesConcat
    <3> QED BY <3>3, <3>4
  <2>5. n \in T
    <3> HIDE DEF T
    <3> QED BY <2>3, <2>4, InductiveSet
  <2> QED BY <1>2, <2>2, <2>5 DEF Unfolds
<1> QED BY <1>1, <1>2

LEMMA DoesEach ==
  ASSUME NEW q, IsCode(q), NEW n, n = Len(q), NEW m, NEW P, NEW C,
         \A i \in 1 .. n : Does(q[i], m, P, C, P, C)
  PROVE  Does(FlattenSeq(q), m, P, C, P, C)
<1> n \in Nat
  <2>1. PICK A : q \in Seq(A)
    BY DEF IsCode
  <2> QED BY <2>1
<1> DEFINE Ps == [i \in 0 .. n |-> P]
           Cs == [i \in 0 .. n |-> C]
<1>1. \A i \in 0 .. n : Ps[i] = P /\ Cs[i] = C
  OBVIOUS
<1> HIDE DEF Ps, Cs
<1>2. \A i \in 1 .. n : Does(q[i], m, Ps[i - 1], Cs[i - 1], Ps[i], Cs[i])
  BY <1>1
<1>3. Does(FlattenSeq(q), m, Ps[0], Cs[0], Ps[n], Cs[n])
  BY <1>2, DoesFlatten
<1> QED BY <1>1, <1>3

-----------------------------------------------------------------------------
(* Single statements. *)

LEMMA CleanStatement ==
  ASSUME NEW i, NEW k, IsCode(k), NEW m, NEW P, NEW C, NEW X, NEW Y,
         SafeStatement(m, P, C, i, <<i>> \o k, Y),
         \A y \in Y : Clean(y, X \cup {<<m, P, C, <<i>> \o k>>})
  PROVE  Clean(<<m, P, C, <<i>> \o k>>, X)
<1> DEFINE u == <<m, P, C, <<i>> \o k>>
<1>1. /\ u[1] = m /\ u[2] = P /\ u[3] = C /\ u[4] = <<i>> \o k
      /\ u[4] # <<>> /\ Head(u[4]) = i
  BY CodeHead
<1>2. \A y \in Y : Clean(y, X \cup {u})
  OBVIOUS
<1> SUFFICES Clean(u, X)
  OBVIOUS
<1> HIDE DEF u
<1>3. Safe(u, Y)
  BY <1>1 DEF Safe
<1> QED BY <1>2, <1>3, CleanStep

(* A statement with one successor. *)
LEMMA DoesStatement ==
  ASSUME NEW i, NEW m, NEW P, NEW C, NEW P1, NEW C1,
         \A k : IsCode(k) => SafeStatement(m, P, C, i, <<i>> \o k, {<<m, P1, C1, k>>})
  PROVE  Does(<<i>>, m, P, C, P1, C1)
<1>1. ASSUME NEW k, NEW X, IsCode(k), Clean(<<m, P1, C1, k>>, X)
      PROVE  Clean(<<m, P, C, <<i>> \o k>>, X)
  <2> DEFINE Y == {<<m, P1, C1, k>>}
             Z == X \cup {<<m, P, C, <<i>> \o k>>}
  <2>1. SafeStatement(m, P, C, i, <<i>> \o k, Y)
    BY <1>1
  <2>2. ASSUME NEW y \in Y PROVE Clean(y, Z)
    <3>1. X \subseteq Z /\ Clean(y, X)
      BY <1>1
    <3> HIDE DEF Z
    <3> QED BY <3>1, CleanMonotone
  <2> HIDE DEF Y
  <2> QED BY <1>1, <2>1, <2>2, CleanStatement
<1> QED BY <1>1, Code1 DEF Does

(* A statement that is not executed because its source holds no buffer. *)
LEMMA DoesStuck ==
  ASSUME NEW i, NEW m, NEW P, NEW C, NEW P1, NEW C1,
         \A k : IsCode(k) => SafeStatement(m, P, C, i, <<i>> \o k, {})
  PROVE  Does(<<i>>, m, P, C, P1, C1)
<1>1. ASSUME NEW k, NEW X, IsCode(k) PROVE Clean(<<m, P, C, <<i>> \o k>>, X)
  <2> DEFINE Y == {}
  <2>1. SafeStatement(m, P, C, i, <<i>> \o k, Y) /\ ~\E y : y \in Y
    BY <1>1
  <2> HIDE DEF Y
  <2> QED BY <1>1, <2>1, CleanStatement
<1> QED BY <1>1, Code1 DEF Does

LEMMA DoesQuiet ==
  ASSUME NEW i, NEW m, NEW P, NEW C, m # "start", i.op \in Quiet PROVE Does(<<i>>, m, P, C, P, C)
<1>1. \A k : IsCode(k) => SafeStatement(m, P, C, i, <<i>> \o k, {<<m, P, C, k>>})
  BY CodeHead DEF SafeStatement, Quiet
<1> QED BY <1>1, DoesStatement

LEMMA DoesNextState ==
  ASSUME NEW m, NEW P, NEW C, m # "start", NEW T \in SUBSET States
  PROVE  Does(<<[op |-> "Next_State", targets |-> T]>>, m, P, C, P, C)
<1> DEFINE i == [op |-> "Next_State", targets |-> T]
<1>1. i.op = "Next_State" /\ i.targets = T
  OBVIOUS
<1> HIDE DEF i
<1>2. \A k : IsCode(k) => SafeStatement(m, P, C, i, <<i>> \o k, {<<m, P, C, k>>})
  BY <1>1, CodeHead DEF SafeStatement
<1>3. Does(<<i>>, m, P, C, P, C)
  BY <1>2, DoesStatement
<1> QED BY <1>3 DEF i

LEMMA DoesAllocate ==
  ASSUME NEW n, NEW at, NEW m, NEW P, NEW C, m # "start", at \notin external_io_buffers,
         n \notin P, ~Foreign(n), slot_ptr[at] \in DOMAIN SlotSize
  PROVE  Does(allocate_buffer(n, at), m, P, C, P \cup {n}, C)
<1> DEFINE i == [op |-> "Allocate", ptr |-> n, slot |-> slot_ptr[at]]
<1>1. i.op = "Allocate" /\ i.ptr = n /\ i.slot \in DOMAIN SlotSize
  OBVIOUS
<1>2. allocate_buffer(n, at) = <<i>>
  BY DEF allocate_buffer, is_externally_managed
<1> HIDE DEF i
<1>3. \A k : IsCode(k) => SafeStatement(m, P, C, i, <<i>> \o k, {<<m, P \cup {n}, C, k>>})
  BY <1>1, CodeHead DEF SafeStatement
<1> QED BY <1>2, <1>3, DoesStatement

LEMMA DoesFree ==
  ASSUME NEW n, NEW at, NEW m, NEW P, NEW C, m # "start", ~Foreign(n),
         slot_ptr[at] \in DOMAIN SlotSize
  PROVE  Does(free_buffer(n, at), m, P, C, P \ {n}, C)
<1> DEFINE i == [op |-> "Free", ptr |-> n, slot |-> slot_ptr[at]]
<1>1. i.op = "Free" /\ i.ptr = n /\ i.slot \in DOMAIN SlotSize
  OBVIOUS
<1>2. free_buffer(n, at) = <<i>>
  BY DEF free_buffer
<1> HIDE DEF i
<1>3. \A k : IsCode(k) => SafeStatement(m, P, C, i, <<i>> \o k, {<<m, P \ {n}, C, k>>})
  BY <1>1, CodeHead DEF SafeStatement
<1> QED BY <1>2, <1>3, DoesStatement

(* For statements with a source, nothing has to hold if the source has no buffer. *)
LEMMA DoesTake ==
  ASSUME NEW n, NEW ptr, NEW m, NEW P, NEW C, m # "start", NEW P1, NEW C1,
         n \in C => /\ ptr \notin P /\ (Foreign(n) <=> Foreign(ptr))
                    /\ P1 = P \cup {ptr} /\ C1 = C \ {n}
  PROVE  Does(take_buffer(n, ptr), m, P, C, P1, C1)
<1> DEFINE i == [op |-> "Take", ctx |-> n, ptr |-> ptr]
<1>1. i.op = "Take" /\ i.ctx = n /\ i.ptr = ptr
  OBVIOUS
<1>2. take_buffer(n, ptr) = <<i>>
  BY DEF take_buffer
<1> HIDE DEF i
<1>3. CASE n \in C
  <2>1. \A k : IsCode(k) => SafeStatement(m, P, C, i, <<i>> \o k, {<<m, P1, C1, k>>})
    BY <1>1, <1>3, CodeHead DEF SafeStatement
  <2> QED BY <1>2, <2>1, DoesStatement
<1>4. CASE n \notin C
  <2>1. \A k : IsCode(k) => SafeStatement(m, P, C, i, <<i>> \o k, {})
    BY <1>1, <1>4, CodeHead DEF SafeStatement
  <2> QED BY <1>2, <2>1, DoesStuck
<1> QED BY <1>3, <1>4

LEMMA DoesInitialize ==
  ASSUME NEW n, NEW ptr, NEW bounds, NEW of, NEW m, NEW P, NEW C, m # "start", NEW P1, NEW C1,
         ptr \in P => /\ n \notin C /\ (Foreign(n) <=> Foreign(ptr))
                      /\ P1 = P \ {ptr} /\ C1 = C \cup {n}
  PROVE  Does(initialize_context(n, ptr, bounds, of), m, P, C, P1, C1)
<1> DEFINE i == [op |-> "Initialize", ctx |-> n, ptr |-> ptr, bounds |-> bounds, of |-> of]
<1>1. i.op = "Initialize" /\ i.ctx = n /\ i.ptr = ptr
  OBVIOUS
<1>2. initialize_context(n, ptr, bounds, of) = <<i>>
  BY DEF initialize_context
<1> HIDE DEF i
<1>3. CASE ptr \in P
  <2>1. \A k : IsCode(k) => SafeStatement(m, P, C, i, <<i>> \o k, {<<m, P1, C1, k>>})
    BY <1>1, <1>3, CodeHead DEF SafeStatement
  <2> QED BY <1>2, <2>1, DoesStatement
<1>4. CASE ptr \notin P
  <2>1. \A k : IsCode(k) => SafeStatement(m, P, C, i, <<i>> \o k, {})
    BY <1>1, <1>4, CodeHead DEF SafeStatement
  <2> QED BY <1>2, <2>1, DoesStuck
<1> QED BY <1>3, <1>4

LEMMA DoesSwitch ==
  ASSUME NEW seq, NEW n, NEW m, NEW P, NEW C, m # "start", NEW P1, NEW C1,
         seq \in C => /\ n \notin C /\ (Foreign(n) <=> Foreign(seq))
                      /\ P1 = P /\ C1 = (C \ {seq}) \cup {n}
  PROVE  Does(Switch(seq, n), m, P, C, P1, C1)
<1> DEFINE i == [op |-> "Switch", seq |-> seq, ctx |-> n]
<1>1. i.op = "Switch" /\ i.ctx = n /\ i.seq = seq
  OBVIOUS
<1>2. Switch(seq, n) = <<i>>
  BY DEF Switch
<1> HIDE DEF i
<1>3. CASE seq \in C
  <2>1. \A k : IsCode(k) => SafeStatement(m, P, C, i, <<i>> \o k, {<<m, P1, C1, k>>})
    BY <1>1, <1>3, CodeHead DEF SafeStatement
  <2> QED BY <1>2, <2>1, DoesStatement
<1>4. CASE seq \notin C
  <2>1. \A k : IsCode(k) => SafeStatement(m, P, C, i, <<i>> \o k, {})
    BY <1>1, <1>4, CodeHead DEF SafeStatement
  <2> QED BY <1>2, <2>1, DoesStuck
<1> QED BY <1>3, <1>4

LEMMA DoesUpdate ==
  ASSUME NEW seq, NEW n, NEW m, NEW P, NEW C, m # "start", NEW P1, NEW C1,
         n \in C => /\ n # seq /\ (Foreign(n) <=> Foreign(seq))
                    /\ P1 = P /\ C1 = (C \ {n}) \cup {seq}
  PROVE  Does(update_context(seq, n), m, P, C, P1, C1)
<1> DEFINE i == [op |-> "Update", seq |-> seq, ctx |-> n]
<1>1. i.op = "Update" /\ i.ctx = n /\ i.seq = seq
  OBVIOUS
<1>2. update_context(seq, n) = <<i>>
  BY DEF update_context
<1> HIDE DEF i
<1>3. CASE n \in C
  <2>1. \A k : IsCode(k) => SafeStatement(m, P, C, i, <<i>> \o k, {<<m, P1, C1, k>>})
    BY <1>1, <1>3, CodeHead DEF SafeStatement
  <2> QED BY <1>2, <2>1, DoesStatement
<1>4. CASE n \notin C
  <2>1. \A k : IsCode(k) => SafeStatement(m, P, C, i, <<i>> \o k, {})
    BY <1>1, <1>4, CodeHead DEF SafeStatement
  <2> QED BY <1>2, <2>1, DoesStuck
<1> QED BY <1>3, <1>4

LEMMA DoesMove ==
  ASSUME NEW from, NEW to, NEW m, NEW P, NEW C, m # "start", NEW P1, NEW C1,
         from \in C => /\ to \notin C /\ (Foreign(from) <=> Foreign(to))
                       /\ P1 = P /\ C1 = (C \ {from}) \cup {to}
  PROVE  Does(<<[op |-> "Move", from |-> from, to |-> to]>>, m, P, C, P1, C1)
<1> DEFINE i == [op |-> "Move", from |-> from, to |-> to]
<1>1. i.op = "Move" /\ i.from = from /\ i.to = to
  OBVIOUS
<1> SUFFICES Does(<<i>>, m, P, C, P1, C1)
  OBVIOUS
<1> HIDE DEF i
<1>3. CASE from \in C
  <2>1. \A k : IsCode(k) => SafeStatement(m, P, C, i, <<i>> \o k, {<<m, P1, C1, k>>})
    BY <1>1, <1>3, CodeHead DEF SafeStatement
  <2> QED BY <2>1, DoesStatement
<1>4. CASE from \notin C
  <2>1. \A k : IsCode(k) => SafeStatement(m, P, C, i, <<i>> \o k, {})
    BY <1>1, <1>4, CodeHead DEF SafeStatement
  <2> QED BY <2>1, DoesStuck
<1> QED BY <1>3, <1>4

(* A check: the handler is executed with the holders at the check. *)
LEMMA DoesRaise ==
  ASSUME NEW conditions, NEW h, NEW P, NEW C, Handles(h, P, C)
  PROVE  Does(raise_exception_if_not(conditions, h), "tick", P, C, P, C)
<1> DEFINE i == [op |-> "Raise", unless |-> conditions, handler |-> h]
<1>1. i.op = "Raise" /\ i.handler = h
  OBVIOUS
<1>2. raise_exception_if_not(conditions, h) = <<i>>
  BY DEF raise_exception_if_not
<1> HIDE DEF i
<1>3. ASSUME NEW k, NEW X, IsCode(k), Clean(<<"tick", P, C, k>>, X)
      PROVE  Clean(<<"tick", P, C, <<i>> \o k>>, X)
  <2> DEFINE Y == {<<"tick", P, C, k>>, <<"tick", P, C, h \o EndOfTick>>}
             Z == X \cup {<<"tick", P, C, <<i>> \o k>>}
  <2>1. SafeStatement("tick", P, C, i, <<i>> \o k, Y)
    BY <1>1, <1>3, CodeHead DEF SafeStatement
  <2>2. X \subseteq Z
    OBVIOUS
  <2> HIDE DEF Z
  <2>3. Clean(<<"tick", P, C, k>>, Z) /\ Clean(<<"tick", P, C, h \o EndOfTick>>, Z)
    BY <1>3, <2>2, CleanMonotone DEF Handles
  <2>4. ASSUME NEW y \in Y PROVE Clean(y, Z)
    BY <2>3
  <2> HIDE DEF Y
  <2> QED BY <1>3, <2>1, <2>4, CleanStatement DEF Z
<1> QED BY <1>2, <1>3, Code1 DEF Does

LEMMA DoesIf ==
  ASSUME NEW body, NEW m, NEW P, NEW C, m # "start", Does(body, m, P, C, P, C)
  PROVE  Does(<<[op |-> "If", body |-> body]>>, m, P, C, P, C)
<1> DEFINE i == [op |-> "If", body |-> body]
<1>1. i.op = "If" /\ i.body = body
  OBVIOUS
<1> SUFFICES Does(<<i>>, m, P, C, P, C)
  OBVIOUS
<1> HIDE DEF i
<1>2. ASSUME NEW k, NEW X, IsCode(k), Clean(<<m, P, C, k>>, X)
      PROVE  Clean(<<m, P, C, <<i>> \o k>>, X)
  <2>1. Clean(<<m, P, C, body \o k>>, X)
    BY <1>2 DEF Does
  <2> DEFINE Y == {<<m, P, C, k>>, <<m, P, C, body \o k>>}
             Z == X \cup {<<m, P, C, <<i>> \o k>>}
  <2>2. SafeStatement(m, P, C, i, <<i>> \o k, Y)
    BY <1>1, <1>2, CodeHead DEF SafeStatement
  <2>3. X \subseteq Z
    OBVIOUS
  <2> HIDE DEF Z
  <2>4. ASSUME NEW y \in Y PROVE Clean(y, Z)
    BY <1>2, <2>1, <2>3, CleanMonotone
  <2> HIDE DEF Y
  <2> QED BY <1>2, <2>2, <2>4, CleanStatement DEF Z
<1> QED BY <1>2, Code1 DEF Does

(* The body of a loop leads back to the loop or behind it. *)
LEMMA DoesWhile ==
  ASSUME NEW w, w.op = "While", NEW m, NEW P, NEW C, m # "start", IsCode(w.body),
         \A k, X : /\ IsCode(k)
                   /\ Clean(<<m, P, C, k>>, X) /\ Clean(<<m, P, C, <<w>> \o k>>, X)
                   => Clean(<<m, P, C, w.body \o (<<w>> \o k)>>, X)
  PROVE  Does(<<w>>, m, P, C, P, C)
<1>1. ASSUME NEW k, NEW X, IsCode(k), Clean(<<m, P, C, k>>, X)
      PROVE  Clean(<<m, P, C, <<w>> \o k>>, X)
  <2> DEFINE u == <<m, P, C, <<w>> \o k>>
             Y == {<<m, P, C, w.body \o (<<w>> \o k)>>, <<m, P, C, k>>}
             Z == X \cup {u}
  <2>1. SafeStatement(m, P, C, w, <<w>> \o k, Y)
    BY <1>1, CodeHead DEF SafeStatement
  <2>2. X \subseteq Z /\ u \in Z
    OBVIOUS
  <2>3. Clean(u, Z)
    <3> HIDE DEF u, Z
    <3>1. Closed({}, Z) /\ u \in {} \cup Z
      BY <2>2 DEF Closed
    <3> QED BY <3>1 DEF Clean
  <2>4. Clean(<<m, P, C, k>>, Z)
    <3> HIDE DEF Z
    <3> QED BY <1>1, <2>2, CleanMonotone
  <2>5. Clean(<<m, P, C, w.body \o (<<w>> \o k)>>, Z)
    <3> HIDE DEF Z
    <3> QED BY <1>1, <2>3, <2>4
  <2>6. ASSUME NEW y \in Y PROVE Clean(y, Z)
    <3> HIDE DEF Z
    <3> QED BY <2>4, <2>5
  <2> HIDE DEF Y
  <2> QED BY <1>1, <2>1, <2>6, CleanStatement
<1> QED BY <1>1, Code1 DEF Does

(* Exit from a loop whose remaining statement is j. *)
LEMMA CleanExit ==
  ASSUME NEW w, w.op = "While", NEW j, j.op # "While", NEW k, IsCode(k), NEW m, NEW P, NEW C,
         m # "start", NEW X, Clean(<<m, P, C, k>>, X)
  PROVE  Clean(<<m, P, C, <<[op |-> "Exit"]>> \o (<<j>> \o (<<w>> \o k))>>, X)
<1> DEFINE i == [op |-> "Exit"]
           r == <<j>> \o (<<w>> \o k)
           c == <<i>> \o r
<1>1. i.op = "Exit"
  OBVIOUS
<1> SUFFICES Clean(<<m, P, C, <<i>> \o r>>, X)
  OBVIOUS
<1> HIDE DEF i
<1>2. IsCode(r)
  BY Code1, CodeConcat
<1>3. /\ Len(c) \in Nat /\ Len(c) >= 3 /\ c[1] = i /\ c[2] = j /\ c[3] = w
      /\ SubSeq(c, 4, Len(c)) = k
  <2>1. PICK A : k \in Seq(A)
    BY DEF IsCode
  <2> DEFINE B == A \cup {i, j, w}
  <2>2. k \in Seq(B) /\ <<i>> \in Seq(B) /\ <<j>> \in Seq(B) /\ <<w>> \in Seq(B)
    <3>1. A \subseteq B /\ i \in B /\ j \in B /\ w \in B
      OBVIOUS
    <3> HIDE DEF B
    <3> QED BY <2>1, <3>1, SeqMonotone
  <2> HIDE DEF B
  <2>3. /\ <<w>> \o k \in Seq(B) /\ Len(<<w>> \o k) = 1 + Len(k) /\ (<<w>> \o k)[1] = w
        /\ \A x \in 1 .. Len(k) : (<<w>> \o k)[x + 1] = k[x]
    BY <2>2
  <2>4. /\ r \in Seq(B) /\ Len(r) = 2 + Len(k) /\ r[1] = j /\ r[2] = w
        /\ \A x \in 1 .. Len(k) : r[x + 2] = k[x]
    BY <2>2, <2>3
  <2> HIDE DEF r
  <2>5. /\ c \in Seq(B) /\ Len(c) = 3 + Len(k) /\ c[1] = i /\ c[2] = j /\ c[3] = w
        /\ \A x \in 1 .. Len(k) : c[x + 3] = k[x]
    BY <2>2, <2>4
  <2> HIDE DEF c
  <2>6. SubSeq(c, 4, Len(c)) \in Seq(B) /\ Len(SubSeq(c, 4, Len(c))) = Len(k)
    BY <2>2, <2>5
  <2>7. \A x \in 1 .. Len(k) : SubSeq(c, 4, Len(c))[x] = k[x]
    BY <2>2, <2>5
  <2>8. SubSeq(c, 4, Len(c)) = k
    BY <2>2, <2>6, <2>7
  <2> QED BY <2>2, <2>5, <2>8
<1>4. SelectInSeq(c, LAMBDA x : x.op = "While") = 3
  <2> HIDE DEF c
  <2> DEFINE I == {x \in 1 .. Len(c) : c[x].op = "While"}
  <2>1. 3 \in I /\ 1 \notin I /\ 2 \notin I
    BY <1>1, <1>3
  <2>2. I \subseteq Nat /\ 0 \notin I
    BY <1>3
  <2>3. SelectInSeq(c, LAMBDA x : x.op = "While") = IF I # {} THEN Min(I) ELSE 0
    BY DEF SelectInSeq
  <2> HIDE DEF I
  <2>4. \A y \in I : 3 <= y
    BY <2>1, <2>2
  <2>5. \A x \in I : (\A y \in I : x <= y) => x = 3
    BY <2>1, <2>2, <2>4
  <2>6. Min(I) = 3
    BY <2>1, <2>4, <2>5 DEF Min
  <2> QED BY <2>1, <2>3, <2>6
<1>5. SafeStatement(m, P, C, i, c, {<<m, P, C, k>>})
  <2> HIDE DEF c
  <2>1. SubSeq(c, SelectInSeq(c, LAMBDA x : x.op = "While") + 1, Len(c)) = k
    BY <1>3, <1>4
  <2> QED BY <1>1, <2>1 DEF SafeStatement
<1> DEFINE Z == X \cup {<<m, P, C, <<i>> \o r>>}
           Y == {<<m, P, C, k>>}
<1>6. X \subseteq Z
  OBVIOUS
<1>7. ASSUME NEW y \in Y PROVE Clean(y, Z)
  <2> HIDE DEF Z
  <2> QED BY <1>6, CleanMonotone
<1>8. SafeStatement(m, P, C, i, <<i>> \o r, Y)
  BY <1>5
<1> HIDE DEF Y, r
<1> QED BY <1>2, <1>7, <1>8, CleanStatement

-----------------------------------------------------------------------------
(* What the generator emits.  n stands for the context of a message, v for  *)
(* a value, a for an action and h for the exception handler.                *)

LEMMA Names ==
  ASSUME NEW v
  PROVE  /\ (Foreign(Ctx(v)) <=> v \in external_io_buffers)
         /\ (Foreign(Tmp(Ctx(v))) <=> Foreign(Ctx(v))) /\ (Foreign(Target(v)) <=> Foreign(Ctx(v)))
         /\ ~Foreign(Copy(v)) /\ ~Foreign(FieldSequence(v)) /\ ~Foreign(Element(v))
         /\ Ctx(v)[1] = "Ctx" /\ Tmp(Ctx(v))[1] = "Tmp" /\ Target(v)[1] = "Target"
         /\ Copy(v)[1] = "Copy" /\ FieldSequence(v)[1] = "Field" /\ Element(v)[1] = "Element"
BY DEF Foreign, Ctx, Tmp, Target, Copy, FieldSequence, Element

LEMMA DoesCopy ==
  ASSUME NEW kind, NEW n, NEW ptr, NEW check, NEW h, NEW P, NEW C, Handles(h, P, C)
  PROVE  Does(copy_to_buffer(kind, n, ptr, check, h), "tick", P, C, P, C)
<1> DEFINE a == raise_exception_if_not({<<"Index", n, "">>}, h)
           b == raise_exception_if_not({<<"Fits", n, ptr>>}, h)
           i == [op |-> "Copy", kind |-> kind, ctx |-> n, ptr |-> ptr]
<1>1. Does(a, "tick", P, C, P, C) /\ Does(b, "tick", P, C, P, C) /\ Does(<<>>, "tick", P, C, P, C)
  BY DoesRaise, DoesNothing
<1>2. i.op \in Quiet
  BY DEF Quiet
<1>3. copy_to_buffer(kind, n, ptr, check, h) = a \o (IF check THEN b ELSE <<>>) \o <<i>>
  BY DEF copy_to_buffer
<1> HIDE DEF a, b, i
<1>4. Does(<<i>>, "tick", P, C, P, C)
  BY <1>2, DoesQuiet
<1>5. Does(IF check THEN b ELSE <<>>, "tick", P, C, P, C)
  BY <1>1
<1>6. Does(a \o (IF check THEN b ELSE <<>>), "tick", P, C, P, C)
  BY <1>1, <1>5, DoesConcat
<1>7. Does(a \o (IF check THEN b ELSE <<>>) \o <<i>>, "tick", P, C, P, C)
  BY <1>4, <1>6, DoesConcat
<1> QED BY <1>3, <1>7

LEMMA DoesSetOpaque ==
  ASSUME NEW n, NEW f, NEW pre, NEW h, NEW post, NEW P, NEW C, NEW P1, NEW C1, Handles(h, P, C),
         Does(post, "tick", P, C, P1, C1)
  PROVE  Does(set_opaque_field(n, f, pre, h, post), "tick", P, C, P1, C1)
<1> DEFINE a == raise_exception_if_not({<<"Valid_Next", n, f>>, <<"Available_Space", n, f>>}, h)
           b == raise_exception_if_not({<<"Valid_Length", n, f>>}, h)
           i == [op |-> "Generic_Set", ctx |-> n, field |-> f, needs |-> pre]
<1>1. Does(a, "tick", P, C, P, C) /\ Does(b, "tick", P, C, P, C)
  BY DoesRaise
<1>2. i.op \in Quiet
  BY DEF Quiet
<1>3. set_opaque_field(n, f, pre, h, post) = a \o b \o <<i>> \o post
  BY DEF set_opaque_field
<1> HIDE DEF a, b, i
<1>4. Does(<<i>>, "tick", P, C, P, C)
  BY <1>2, DoesQuiet
<1>5. Does(a \o b, "tick", P, C, P, C)
  BY <1>1, DoesConcat
<1>6. Does(a \o b \o <<i>>, "tick", P, C, P, C)
  BY <1>4, <1>5, DoesConcat
<1>7. Does(a \o b \o <<i>> \o post, "tick", P, C, P1, C1)
  BY <1>6, DoesConcat
<1> QED BY <1>3, <1>7

NoTmp(C) == \A n \in C : n[1] # "Tmp"

(* The source is moved away and comes back, also if a check fails in between. *)
LEMMA DoesMoved ==
  ASSUME NEW n, NEW f, NEW pre, NEW v, NEW h, NEW P, NEW C, NoTmp(C), Handles(h, P, C)
  PROVE  Does(move_context(Ctx(v))
              \o set_opaque_field(n, f, pre, move_context_back(Ctx(v)) \o h, move_context_back(Ctx(v))),
              "tick", P, C, P, C)
<1> DEFINE src == Ctx(v)
           tmp == Tmp(src)
           D == IF src \in C THEN (C \ {src}) \cup {tmp} ELSE C
           back == move_context_back(src)
<1>1. tmp \notin C /\ tmp # src /\ (Foreign(src) <=> Foreign(tmp))
  BY Names DEF NoTmp
<1>2. Does(move_context(src), "tick", P, C, P, D)
  <2> HIDE DEF src, tmp
  <2>1. src \in C => tmp \notin C /\ (Foreign(src) <=> Foreign(tmp)) /\ D = (C \ {src}) \cup {tmp}
    BY <1>1
  <2>2. move_context(src) = <<[op |-> "Move", from |-> src, to |-> tmp]>>
    BY DEF move_context, tmp
  <2> HIDE DEF D
  <2> QED BY <2>1, <2>2, DoesMove
<1>3. Does(back, "tick", P, D, P, C)
  <2> HIDE DEF src, tmp
  <2>1. tmp \in D => src \notin D /\ (Foreign(tmp) <=> Foreign(src)) /\ C = (D \ {tmp}) \cup {src}
    BY <1>1
  <2>2. back = <<[op |-> "Move", from |-> tmp, to |-> src]>>
    BY DEF move_context_back, tmp
  <2> HIDE DEF D
  <2> QED BY <2>1, <2>2, DoesMove
<1> HIDE DEF D
<1>4. Handles(back \o h, P, D)
  BY <1>3, HandlesConcat
<1>5. Does(set_opaque_field(n, f, pre, back \o h, back), "tick", P, D, P, C)
  BY <1>3, <1>4, DoesSetOpaque
<1> HIDE DEF back
<1>6. Does(move_context(src) \o set_opaque_field(n, f, pre, back \o h, back), "tick", P, C, P, C)
  BY <1>2, <1>5, DoesConcat
<1> QED BY <1>6 DEF back

LEMMA DoesSetField ==
  ASSUME NEW n, NEW f, NEW needs, NEW P, NEW C PROVE Does(SetField(n, f, needs), "tick", P, C, P, C)
<1> DEFINE i == [op |-> "Set", ctx |-> n, field |-> f, needs |-> needs]
<1>1. i.op \in Quiet
  BY DEF Quiet
<1>2. SetField(n, f, needs) = <<i>>
  BY DEF SetField
<1> HIDE DEF i
<1> QED BY <1>1, <1>2, DoesQuiet

LEMMA DoesSetMessageField ==
  ASSUME NEW n, NEW v, NEW h, NEW P, NEW C, NoTmp(C), Handles(h, P, C)
  PROVE  Does(set_message_field(n, v, h), "tick", P, C, P, C)
<1> DEFINE f == v.field
           Ok(c) == Does(c, "tick", P, C, P, C)
<1>1. \A c : Ok(raise_exception_if_not(c, h))
  BY DoesRaise
<1>2. \A c : Ok(SetField(n, f, c))
  BY DoesSetField
<1>3. \A a, b : Ok(a) /\ Ok(b) => Ok(a \o b)
  BY DoesConcat
<1>4. Ok(set_opaque_field_to_message_field(n, v, h))
  BY DoesMoved DEF set_opaque_field_to_message_field
<1>5. Ok(set_opaque_field_to_message(n, v, h))
  BY DoesMoved DEF set_opaque_field_to_message
<1>6. Ok(set_opaque_field_to_message_field_from_structure(n, v, h))
  BY DoesSetOpaque, DoesNothing DEF set_opaque_field_to_message_field_from_structure
<1> HIDE DEF Ok, f
<1>7. Ok(set_message_field(n, v, h))
  BY <1>1, <1>2, <1>3, <1>4, <1>5, <1>6 DEF set_message_field, f
<1> QED BY <1>7 DEF Ok

(* A sequence of values or actions is translated one after the other. *)
LEMMA MapIsCode == ASSUME NEW s, IsSequence(s), NEW q, q = [k \in 1 .. Len(s) |-> q[k]]
                   PROVE  IsCode(q) /\ Len(q) = Len(s)
<1>1. Len(s) \in Nat
  BY DEF IsSequence
<1>2. q \in Seq({q[k] : k \in 1 .. Len(s)})
  BY <1>1
<1>3. Len(q) = Len(s)
  BY <1>1
<1> QED BY <1>2, <1>3 DEF IsCode

LEMMA DoesSetMessageFields ==
  ASSUME NEW n, NEW values, IsSequence(values), NEW h, NEW P, NEW C, NoTmp(C), Handles(h, P, C)
  PROVE  Does(set_message_fields(n, values, h), "tick", P, C, P, C)
<1> DEFINE q == [k \in 1 .. Len(values) |-> set_message_field(n, values[k], h)]
<1>1. set_message_fields(n, values, h) = FlattenSeq(q)
  BY DEF set_message_fields, ConcatMap
<1>2. \A k \in 1 .. Len(values) : Does(q[k], "tick", P, C, P, C)
  BY DoesSetMessageField
<1>3. q = [k \in 1 .. Len(values) |-> q[k]]
  OBVIOUS
<1> HIDE DEF q
<1>4. IsCode(q) /\ Len(q) = Len(values)
  BY <1>3, MapIsCode
<1> QED BY <1>1, <1>2, <1>4, DoesEach

(* Only holders of buffers matter to a location that is not external. *)
Located(at) == at \notin external_io_buffers /\ slot_ptr[at] \in DOMAIN SlotSize

LEMMA DoesFreeCopy ==
  ASSUME NEW n, NEW at, Located(at), ~Foreign(n), NEW P, NEW C, n \notin P, n \notin C
  PROVE  Does(free_copy(n, at), "tick", P, C \cup {n}, P, C)
<1>1. Does(take_buffer(n, n), "tick", P, C \cup {n}, P \cup {n}, C)
  <2>1. C = (C \cup {n}) \ {n}
    OBVIOUS
  <2> QED BY <2>1, DoesTake
<1>2. Does(free_buffer(n, at), "tick", P \cup {n}, C, P, C)
  <2>1. (P \cup {n}) \ {n} = P
    OBVIOUS
  <2>2. Does(free_buffer(n, at), "tick", P \cup {n}, C, (P \cup {n}) \ {n}, C)
    BY DoesFree DEF Located
  <2> QED BY <2>1, <2>2
<1> QED BY <1>1, <1>2, DoesConcat DEF free_copy

LEMMA DoesSequenceCopy ==
  ASSUME NEW v, NEW at, Located(at), NEW statements, NEW h, NEW P, NEW C,
         Copy(v) \notin P, Copy(v) \notin C, Handles(h, P, C),
         Does(statements, "tick", P, C \cup {Copy(v)}, P, C \cup {Copy(v)})
  PROVE  Does(declare_sequence_copy(v, at, statements, h), "tick", P, C, P, C)
<1> DEFINE n == Copy(v)
           D == C \cup {n}
           Q == P \cup {n}
           a == raise_exception_if_not({<<"Valid_Sequence", Ctx(v), "">>}, h)
           b == allocate_buffer(n, at)
           c == copy_to_buffer("Sequence", Ctx(v), n, FALSE, free_buffer(n, at) \o h)
           d == initialize_context(n, n, "Sequence", Ctx(v))
<1>1. ~Foreign(n)
  BY Names
<1> HIDE DEF n
<1>2. declare_sequence_copy(v, at, statements, h) = a \o b \o c \o d \o statements \o free_copy(n, at)
  BY DEF declare_sequence_copy, n
<1>3. n \notin P /\ n \notin C /\ Does(statements, "tick", P, D, P, D)
  BY DEF n
<1>4. Does(a, "tick", P, C, P, C)
  BY DoesRaise
<1>5. Does(b, "tick", P, C, Q, C)
  BY <1>1, <1>3, DoesAllocate DEF Located
<1>6. Does(c, "tick", Q, C, Q, C)
  <2>1. Q \ {n} = P
    BY <1>3
  <2>2. Does(free_buffer(n, at), "tick", Q, C, P, C)
    BY <1>1, <2>1, DoesFree DEF Located
  <2>3. Handles(free_buffer(n, at) \o h, Q, C)
    BY <2>2, HandlesConcat
  <2> HIDE DEF Q
  <2> QED BY <2>3, DoesCopy
<1>7. Does(d, "tick", Q, C, P, D)
  <2>1. Q \ {n} = P
    BY <1>3
  <2> QED BY <1>3, <2>1, DoesInitialize
<1>8. Does(free_copy(n, at), "tick", P, D, P, C)
  BY <1>1, <1>3, DoesFreeCopy
<1> HIDE DEF D, Q, a, b, c, d
<1>9. Does(a \o b, "tick", P, C, Q, C)
  BY <1>4, <1>5, DoesConcat
<1>10. Does(a \o b \o c, "tick", P, C, Q, C)
  BY <1>6, <1>9, DoesConcat
<1>11. Does(a \o b \o c \o d, "tick", P, C, P, D)
  BY <1>7, <1>10, DoesConcat
<1>12. Does(a \o b \o c \o d \o statements, "tick", P, C, P, D)
  BY <1>3, <1>11, DoesConcat
<1>13. Does(a \o b \o c \o d \o statements \o free_copy(n, at), "tick", P, C, P, C)
  BY <1>8, <1>12, DoesConcat
<1> QED BY <1>2, <1>13

LEMMA DoesFieldCopy ==
  ASSUME NEW v, NEW f, NEW at, Located(at), NEW smaller, NEW statements, NEW h, NEW P, NEW C,
         FieldSequence(v) \notin P, FieldSequence(v) \notin C, Handles(h, P, C),
         Does(statements, "tick", P, C \cup {FieldSequence(v)}, P, C \cup {FieldSequence(v)})
  PROVE  Does(declare_message_field_sequence_copy(v, f, at, smaller, statements, h), "tick", P, C, P, C)
<1> DEFINE n == FieldSequence(v)
           D == C \cup {n}
           Q == P \cup {n}
           g == free_buffer(n, at) \o h
           a == allocate_buffer(n, at)
           b == copy_to_buffer("Message", Ctx(v), n, smaller, g)
           c == raise_exception_if_not({<<"Valid", Ctx(v), f>>}, g)
           d == initialize_context(n, n, "Field", Ctx(v))
<1>1. ~Foreign(n)
  BY Names
<1>2. declare_message_field_sequence_copy(v, f, at, smaller, statements, h)
        = a \o b \o c \o d \o statements \o free_copy(n, at)
  BY DEF declare_message_field_sequence_copy
<1> HIDE DEF n
<1>3. n \notin P /\ n \notin C /\ Does(statements, "tick", P, D, P, D)
  BY DEF n
<1>4. Does(a, "tick", P, C, Q, C)
  BY <1>1, <1>3, DoesAllocate DEF Located
<1>5. Handles(g, Q, C)
  <2>1. Q \ {n} = P
    BY <1>3
  <2>2. Does(free_buffer(n, at), "tick", Q, C, P, C)
    BY <1>1, <2>1, DoesFree DEF Located
  <2> QED BY <2>2, HandlesConcat
<1>6. Does(d, "tick", Q, C, P, D)
  <2>1. Q \ {n} = P
    BY <1>3
  <2> QED BY <1>3, <2>1, DoesInitialize
<1>7. Does(free_copy(n, at), "tick", P, D, P, C)
  BY <1>1, <1>3, DoesFreeCopy
<1> HIDE DEF D, Q, g
<1>8. Does(b, "tick", Q, C, Q, C) /\ Does(c, "tick", Q, C, Q, C)
  BY <1>5, DoesCopy, DoesRaise
<1> HIDE DEF a, b, c, d
<1>9. Does(a \o b, "tick", P, C, Q, C)
  BY <1>4, <1>8, DoesConcat
<1>10. Does(a \o b \o c, "tick", P, C, Q, C)
  BY <1>8, <1>9, DoesConcat
<1>11. Does(a \o b \o c \o d, "tick", P, C, P, D)
  BY <1>6, <1>10, DoesConcat
<1>12. Does(a \o b \o c \o d \o statements, "tick", P, C, P, D)
  BY <1>3, <1>11, DoesConcat
<1>13. Does(a \o b \o c \o d \o statements \o free_copy(n, at), "tick", P, C, P, C)
  BY <1>7, <1>12, DoesConcat
<1> QED BY <1>2, <1>13

LEMMA DoesScalarAction ==
  ASSUME NEW a, NEW it, NEW e, NEW h, NEW P, NEW C, Handles(h, P, C)
  PROVE  Does(ScalarAction(a, it, e, h), "tick", P, C, P, C)
<1> DEFINE Ok(c) == Does(c, "tick", P, C, P, C)
           set(needs) == [op |-> "Assign", target |-> <<"Scalar", a.target>>, needs |-> needs]
<1>1. \A c : Ok(raise_exception_if_not(c, h))
  BY DoesRaise
<1>2. \A needs : set(needs).op \in Quiet
  BY DEF Quiet
<1>3. \A needs : Ok(<<set(needs)>>)
  <2> HIDE DEF set
  <2> QED BY <1>2, DoesQuiet
<1>4. Ok(<<>>)
  BY DoesNothing
<1> HIDE DEF Ok
<1>5. Ok(ScalarAction(a, it, e, h))
  BY <1>1, <1>3, <1>4 DEF ScalarAction
<1> QED BY <1>5 DEF Ok

ScalarActions(s, it, e, h) == FlattenSeq([k \in 1 .. Len(s) |-> ScalarAction(s[k], it, e, h)])

LEMMA DoesScalarActions ==
  ASSUME NEW s, IsSequence(s), NEW it, NEW e, NEW h, NEW P, NEW C, Handles(h, P, C)
  PROVE  Does(ScalarActions(s, it, e, h), "tick", P, C, P, C)
<1> DEFINE q == [k \in 1 .. Len(s) |-> ScalarAction(s[k], it, e, h)]
<1>1. ScalarActions(s, it, e, h) = FlattenSeq(q)
  BY DEF ScalarActions
<1>2. \A k \in 1 .. Len(s) : Does(q[k], "tick", P, C, P, C)
  BY DoesScalarAction
<1>3. q = [k \in 1 .. Len(s) |-> q[k]]
  OBVIOUS
<1> HIDE DEF q
<1>4. IsCode(q) /\ Len(q) = Len(s)
  BY <1>3, MapIsCode
<1>5. Does(FlattenSeq(q), "tick", P, C, P, C)
  BY <1>2, <1>4, DoesEach
<1> QED BY <1>1, <1>5

LEMMA DoesVerify ==
  ASSUME NEW n, NEW m, m # "start", NEW P, NEW C PROVE Does(VerifyMessage(n), m, P, C, P, C)
<1> DEFINE i == [op |-> "Verify_Message", ctx |-> n]
<1>1. i.op \in Quiet /\ VerifyMessage(n) = <<i>>
  BY DEF Quiet, VerifyMessage
<1> HIDE DEF i
<1> QED BY <1>1, DoesQuiet

LEMMA DoesReset ==
  ASSUME NEW n, NEW m, m # "start", NEW P, NEW C PROVE Does(Reset(n), m, P, C, P, C)
<1> DEFINE i == [op |-> "Reset", ctx |-> n]
<1>1. i.op \in Quiet /\ Reset(n) = <<i>>
  BY DEF Quiet, Reset
<1> HIDE DEF i
<1> QED BY <1>1, DoesQuiet

(* The buffer of the target is in a pointer while it is overwritten. *)
LEMMA DoesAssignMessage ==
  ASSUME NEW target, NEW n, NEW check, NEW h, NEW P, NEW C, Target(target) \notin P, Handles(h, P, C)
  PROVE  Does(assign_message(target, n, check, h), "tick", P, C, P, C)
<1> DEFINE t == Ctx(target)
           ptr == Target(target)
           Q == IF t \in C THEN P \cup {ptr} ELSE P
           D == C \ {t}
           a == take_buffer(t, ptr)
           g == initialize_context(t, ptr, "Buffer", n) \o h
           b == copy_to_buffer("Message", n, ptr, check, g)
           c == initialize_context(t, ptr, "Message", n)
           d == VerifyMessage(t)
<1>1. (Foreign(t) <=> Foreign(ptr)) /\ ptr \notin P
  BY Names
<1>2. assign_message(target, n, check, h) = a \o b \o c \o d
  BY DEF assign_message
<1> HIDE DEF t, ptr
<1>3. Does(a, "tick", P, C, Q, D)
  <2>1. t \in C => ptr \notin P /\ (Foreign(t) <=> Foreign(ptr)) /\ Q = P \cup {ptr} /\ D = C \ {t}
    BY <1>1
  <2> HIDE DEF Q, D
  <2> QED BY <2>1, DoesTake
<1>4. ptr \in Q => t \notin D /\ (Foreign(t) <=> Foreign(ptr)) /\ P = Q \ {ptr} /\ C = D \cup {t}
  BY <1>1
<1> HIDE DEF Q, D
<1>5. \A bounds : Does(initialize_context(t, ptr, bounds, n), "tick", Q, D, P, C)
  BY <1>4, DoesInitialize
<1>6. Does(c, "tick", Q, D, P, C) /\ Handles(g, Q, D)
  BY <1>5, HandlesConcat
<1> HIDE DEF g
<1>7. Does(b, "tick", Q, D, Q, D)
  BY <1>6, DoesCopy
<1>8. Does(d, "tick", P, C, P, C)
  BY DoesVerify
<1> HIDE DEF a, b, c, d
<1>9. Does(a \o b, "tick", P, C, Q, D)
  BY <1>3, <1>7, DoesConcat
<1>10. Does(a \o b \o c, "tick", P, C, P, C)
  BY <1>6, <1>9, DoesConcat
<1>11. Does(a \o b \o c \o d, "tick", P, C, P, C)
  BY <1>8, <1>10, DoesConcat
<1> QED BY <1>2, <1>11

LEMMA DoesAppendElement ==
  ASSUME NEW a, IsSequence(a.selector), NEW e, NEW h, NEW P, NEW C, Handles(h, P, C)
  PROVE  Does(comprehension_append_element(a, e, h), "tick", P, C, P, C)
<1> DEFINE Ok(c) == Does(c, "tick", P, C, P, C)
           seq == Ctx(a.target)
           fits == IF a.elements = "Message" THEN {<<"Fits_Sequence", seq, e>>} ELSE {}
           checked == IF a.elements = "Message"
                      THEN <<{<<"Well_Formed_Message", e, "">>}, {<<"Not_Empty", e, "">>}>>
                      ELSE <<>>
           x == ScalarActions(a.selector, a.iterator, e, h)
           y == raise_exception_if_not({<<"Has_Element", seq, "">>} \cup fits, h)
           q == [k \in 1 .. Len(checked) |-> raise_exception_if_not(checked[k], h)]
           i == [op |-> "Append_Element", seq |-> seq, ctx |-> e, kind |-> a.elements,
                 needs |-> fits \cup UNION ToSet(checked)]
<1>1. comprehension_append_element(a, e, h) = x \o y \o FlattenSeq(q) \o <<i>>
  BY DEF comprehension_append_element, ConcatMap, ScalarActions
<1>2. Ok(x)
  BY DoesScalarActions
<1>3. \A c : Ok(raise_exception_if_not(c, h))
  BY DoesRaise
<1>4. i.op \in Quiet
  BY DEF Quiet
<1>5. IsSequence(checked)
  <2>1. \A y1, y2 : <<y1, y2>> \in Seq(ToSet(<<y1, y2>>))
    BY DEF ToSet
  <2>2. <<>> \in Seq(ToSet(<<>>))
    OBVIOUS
  <2> QED BY <2>1, <2>2 DEF IsSequence
<1> HIDE DEF checked, fits, seq
<1>6. \A k \in 1 .. Len(checked) : Ok(q[k])
  BY <1>3
<1>7. q = [k \in 1 .. Len(checked) |-> q[k]]
  OBVIOUS
<1> HIDE DEF q, x
<1>8. IsCode(q) /\ Len(q) = Len(checked)
  BY <1>5, <1>7, MapIsCode
<1>9. Ok(FlattenSeq(q))
  BY <1>6, <1>8, DoesEach
<1>10. Ok(y)
  BY <1>3
<1> HIDE DEF i, y
<1>11. Ok(<<i>>)
  BY <1>4, DoesQuiet
<1>12. Ok(x \o y)
  BY <1>2, <1>10, DoesConcat
<1>13. Ok(x \o y \o FlattenSeq(q))
  BY <1>9, <1>12, DoesConcat
<1>14. Ok(x \o y \o FlattenSeq(q) \o <<i>>)
  BY <1>11, <1>13, DoesConcat
<1> QED BY <1>1, <1>14

(* The element that was found is assigned before the loop is left. *)
LEMMA DoesAssignElement ==
  ASSUME NEW a, IsSequence(a.selector), NEW e, NEW h, NEW update, NEW P, NEW C,
         Target(a.target) \notin P, Handles(h, P, C), NEW P1, NEW C1, Does(update, "tick", P, C, P1, C1)
  PROVE  \E x : /\ Does(x, "tick", P, C, P1, C1)
                /\ comprehension_assign_element(a, e, update, h) = x \o <<[op |-> "Exit"]>>
<1> DEFINE Ok(c) == Does(c, "tick", P, C, P, C)
           s == ScalarActions(a.selector, a.iterator, e, h)
           r == raise_exception_if_not({<<"Well_Formed_Message", e, "">>}, h)
           t == assign_message(a.target, e, TRUE, h)
           c == IF a.target \in Composite THEN r \o t ELSE <<>>
           i == [op |-> "Found"]
<1>1. comprehension_assign_element(a, e, update, h) = s \o c \o <<i>> \o update \o <<[op |-> "Exit"]>>
  BY DEF comprehension_assign_element, ConcatMap, ScalarActions
<1>2. Ok(s) /\ Ok(r) /\ Ok(t) /\ Ok(<<>>)
  BY DoesScalarActions, DoesRaise, DoesAssignMessage, DoesNothing
<1>3. i.op \in Quiet
  BY DEF Quiet
<1> HIDE DEF s, r, t, i
<1>4. Ok(c)
  <2>1. Ok(r \o t)
    BY <1>2, DoesConcat
  <2> QED BY <1>2, <2>1
<1>5. Ok(<<i>>)
  BY <1>3, DoesQuiet
<1> HIDE DEF c
<1>6. Ok(s \o c)
  BY <1>2, <1>4, DoesConcat
<1>7. Ok(s \o c \o <<i>>)
  BY <1>5, <1>6, DoesConcat
<1>8. Does(s \o c \o <<i>> \o update, "tick", P, C, P1, C1)
  BY <1>7, DoesConcat
<1> QED BY <1>1, <1>8

(* Each element is taken from the sequence and given back, also if a check fails. *)
LEMMA DoesComprehension ==
  ASSUME NEW a, IsSequence(a.selector), IsSequence(a.condition), NEW seq, NEW h, NEW P, NEW C,
         Target(a.target) \notin P, seq \in C, Element(a.iterator) \notin C, ~Foreign(seq), Handles(h, P, C)
  PROVE  Does(comprehension(seq, a, h), "tick", P, C, P, C)
<1> DEFINE e == Element(a.iterator)
           D == (C \ {seq}) \cup {e}
           up == update_context(seq, e)
           g == up \o h
           handle == IF a.kind = "Find" THEN comprehension_assign_element(a, e, up, g)
                     ELSE comprehension_append_element(a, e, g)
           s == Switch(seq, e)
           t == VerifyMessage(e)
           c == ScalarActions(a.condition, a.iterator, e, g)
           f == IF a.conditional THEN <<[op |-> "If", body |-> handle]>> ELSE handle
           targets == {Ctx(a.target)} \cap {Ctx(v) : v \in Composite}
           w == [op |-> "While", seq |-> seq, slot |-> slot_ptr[a.at], targets |-> targets,
                 body |-> s \o t \o c \o f \o up]
           j == [op |-> "Update", seq |-> seq, ctx |-> e]
<1>1. comprehension(seq, a, h) = <<w>>
  BY DEF comprehension, ConcatMap, ScalarActions
<1>2. ~Foreign(e) /\ e # seq /\ e \notin C
  BY Names
<1>3. w.op = "While" /\ w.body = s \o t \o c \o f \o up /\ up = <<j>> /\ j.op # "While"
  BY DEF update_context
<1> HIDE DEF e, w, j
<1>4. Does(s, "tick", P, C, P, D)
  BY <1>2, DoesSwitch
<1>5. Does(up, "tick", P, D, P, C)
  <2>1. e \in D /\ C = (D \ {e}) \cup {seq}
    BY <1>2
  <2> HIDE DEF D
  <2> QED BY <1>2, <2>1, DoesUpdate
<1> HIDE DEF D, up
<1>6. Handles(g, P, D)
  BY <1>5, HandlesConcat
<1> HIDE DEF g
<1>7. Does(t, "tick", P, D, P, D) /\ Does(c, "tick", P, D, P, D)
  BY <1>6, DoesVerify, DoesScalarActions
<1> HIDE DEF s, t, c
<1>8. Does(s \o t, "tick", P, C, P, D)
  BY <1>4, <1>7, DoesConcat
<1>9. Does(s \o t \o c, "tick", P, C, P, D)
  BY <1>7, <1>8, DoesConcat
<1> SUFFICES /\ IsCode(w.body)
             /\ \A k, X : /\ IsCode(k)
                          /\ Clean(<<"tick", P, C, k>>, X) /\ Clean(<<"tick", P, C, <<w>> \o k>>, X)
                          => Clean(<<"tick", P, C, w.body \o (<<w>> \o k)>>, X)
  BY <1>1, <1>3, DoesWhile
<1>10. CASE a.kind # "Find"
  <2>1. Does(handle, "tick", P, D, P, D)
    BY <1>6, <1>10, DoesAppendElement
  <2> HIDE DEF handle
  <2>2. Does(f, "tick", P, D, P, D)
    BY <2>1, DoesIf
  <2> HIDE DEF f
  <2>3. Does(s \o t \o c \o f, "tick", P, C, P, D)
    BY <1>9, <2>2, DoesConcat
  <2>4. Does(s \o t \o c \o f \o up, "tick", P, C, P, C)
    BY <1>5, <2>3, DoesConcat
  <2>5. Does(w.body, "tick", P, C, P, C)
    BY <1>3, <2>4
  <2>6. ASSUME NEW k, IsCode(k) PROVE IsCode(<<w>> \o k)
    BY <2>6, Code1, CodeConcat
  <2> QED BY <2>5, <2>6 DEF Does
<1>11. CASE a.kind = "Find"
  <2> DEFINE exit == <<[op |-> "Exit"]>>
  <2>1. PICK x : Does(x, "tick", P, D, P, C) /\ comprehension_assign_element(a, e, up, g) = x \o exit
    BY <1>5, <1>6, DoesAssignElement
  <2>2. handle = x \o exit
    BY <1>11, <2>1
  <2>3. IsCode(x) /\ IsCode(exit) /\ IsCode(handle)
    BY <2>1, <2>2, Code1, CodeConcat DEF Does
  <2> HIDE DEF handle
  <2>4. IsCode(f)
    BY <2>3, Code1
  <2>5. IsCode(up) /\ IsCode(s \o t \o c)
    BY <1>5, <1>9 DEF Does
  <2>6. IsCode(w.body)
    BY <1>3, <2>4, <2>5, CodeConcat
  <2>7. ASSUME NEW k, NEW X, IsCode(k), Clean(<<"tick", P, C, k>>, X), Clean(<<"tick", P, C, <<w>> \o k>>, X)
        PROVE  Clean(<<"tick", P, C, w.body \o (<<w>> \o k)>>, X)
    <3> DEFINE l == <<w>> \o k
               r == up \o l
    <3>1. IsCode(l) /\ IsCode(r)
      BY <2>5, <2>7, Code1, CodeConcat
    <3>2. Clean(<<"tick", P, C, exit \o r>>, X)
      BY <1>3, <2>7, CleanExit
    <3>3. Clean(<<"tick", P, D, r>>, X)
      BY <1>5, <2>7, <3>1 DEF Does
    <3> HIDE DEF l, r, exit
    <3>4. Clean(<<"tick", P, D, handle \o r>>, X)
      <4>1. Clean(<<"tick", P, D, x \o (exit \o r)>>, X)
        <5>1. IsCode(exit \o r)
          BY <2>3, <3>1, CodeConcat
        <5> QED BY <2>1, <3>2, <5>1 DEF Does
      <4>2. (x \o exit) \o r = x \o (exit \o r)
        <5>1. IsCode(x) /\ IsCode(exit) /\ IsCode(r)
          BY <2>3, <3>1
        <5> HIDE DEF f
        <5> QED BY <5>1, CodeAssoc
      <4> QED BY <2>2, <4>1, <4>2
    <3>5. Clean(<<"tick", P, D, f \o r>>, X)
      <4>1. CASE a.conditional
        <5> DEFINE i == [op |-> "If", body |-> handle]
                   Y == {<<"tick", P, D, r>>, <<"tick", P, D, handle \o r>>}
                   Z == X \cup {<<"tick", P, D, <<i>> \o r>>}
        <5>1. i.op = "If" /\ i.body = handle /\ f = <<i>>
          BY <4>1
        <5> HIDE DEF i
        <5>2. SafeStatement("tick", P, D, i, <<i>> \o r, Y)
          BY <3>1, <5>1, CodeHead DEF SafeStatement
        <5>3. X \subseteq Z
          OBVIOUS
        <5>4. ASSUME NEW y \in Y PROVE Clean(y, Z)
          <6> HIDE DEF Z
          <6> QED BY <3>3, <3>4, <5>3, CleanMonotone
        <5> HIDE DEF Y
        <5>5. Clean(<<"tick", P, D, <<i>> \o r>>, X)
          BY <3>1, <5>2, <5>4, CleanStatement
        <5> QED BY <5>1, <5>5
      <4>2. CASE ~a.conditional
        BY <3>4, <4>2
      <4> QED BY <4>1, <4>2
    <3> HIDE DEF f
    <3>6. Clean(<<"tick", P, C, (s \o t \o c) \o (f \o r)>>, X)
      BY <1>9, <2>4, <3>1, <3>5, CodeConcat DEF Does
    <3>7. w.body \o l = (s \o t \o c) \o (f \o r)
      <4>1. ((s \o t \o c) \o f) \o up = (s \o t \o c) \o (f \o up)
        BY <2>4, <2>5, CodeAssoc
      <4>2. ((s \o t \o c) \o (f \o up)) \o l = (s \o t \o c) \o ((f \o up) \o l)
        <5>1. IsCode(s \o t \o c) /\ IsCode(f \o up)
          BY <2>4, <2>5, CodeConcat
        <5> QED BY <3>1, <5>1, CodeAssoc
      <4>3. (f \o up) \o l = f \o r
        BY <2>4, <2>5, <3>1, CodeAssoc DEF r
      <4> QED BY <1>3, <4>1, <4>2, <4>3
    <3> QED BY <3>6, <3>7 DEF l
  <2> QED BY <2>6, <2>7
<1> QED BY <1>10, <1>11

(* The contexts between two statements of a state. *)
Plain(C) == \A n \in C : n[1] = "Ctx"

LEMMA DoesHead ==
  ASSUME NEW s, NEW a, a.elements = "Message" => Located(a.at), NEW h, NEW C, Plain(C), Handles(h, {}, C)
  PROVE  Does(assign_to_head(s, a, h), "tick", {}, C, {}, C)
<1> DEFINE seq == Copy(a.of)
           e == Element("RFLX_Head")
           B == C \cup {seq}
           D == (B \ {seq}) \cup {e}
           up == update_context(seq, e)
           g == free_copy(seq, a.at) \o h
           i1 == raise_exception_if_not({<<"Has_Element", seq, "">>}, g)
           i2 == Switch(seq, e)
           i3 == VerifyMessage(e)
           i4 == raise_exception_if_not({<<"Well_Formed_Message", e, "">>}, up \o g)
           i5 == assign_message(a.target, e, buffer_is_smaller(s, a.target, a.of), up \o g)
           st == i1 \o i2 \o i3 \o i4 \o i5 \o up
<1>1. CASE a.elements = "Message"
  <2>1. assign_to_head(s, a, h) = declare_sequence_copy(a.of, a.at, st, h)
    BY <1>1 DEF assign_to_head
  <2>2. seq \notin C /\ e \notin C /\ e # seq /\ ~Foreign(seq) /\ ~Foreign(e)
    BY Names DEF Plain
  <2> HIDE DEF seq, e
  <2>3. Does(free_copy(seq, a.at), "tick", {}, B, {}, C)
    BY <1>1, <2>2, DoesFreeCopy
  <2>4. Handles(g, {}, B)
    BY <2>3, HandlesConcat
  <2>5. seq \in B /\ e \notin B
    BY <2>2
  <2> HIDE DEF B, g
  <2>6. Does(i2, "tick", {}, B, {}, D)
    BY <2>2, <2>5, DoesSwitch
  <2>7. Does(up, "tick", {}, D, {}, B)
    <3>1. e \in D /\ B = (D \ {e}) \cup {seq}
      BY <2>2, <2>5
    <3> HIDE DEF D
    <3> QED BY <2>2, <3>1, DoesUpdate
  <2> HIDE DEF D, up
  <2>8. Handles(up \o g, {}, D)
    BY <2>4, <2>7, HandlesConcat
  <2>9. Does(i3, "tick", {}, D, {}, D) /\ Does(i4, "tick", {}, D, {}, D) /\ Does(i5, "tick", {}, D, {}, D)
    BY <2>8, DoesVerify, DoesRaise, DoesAssignMessage
  <2>10. Does(i1, "tick", {}, B, {}, B)
    BY <2>4, DoesRaise
  <2> HIDE DEF i1, i2, i3, i4, i5
  <2>11. Does(i1 \o i2, "tick", {}, B, {}, D)
    BY <2>6, <2>10, DoesConcat
  <2>12. Does(i1 \o i2 \o i3, "tick", {}, B, {}, D)
    BY <2>9, <2>11, DoesConcat
  <2>13. Does(i1 \o i2 \o i3 \o i4, "tick", {}, B, {}, D)
    BY <2>9, <2>12, DoesConcat
  <2>14. Does(i1 \o i2 \o i3 \o i4 \o i5, "tick", {}, B, {}, D)
    BY <2>9, <2>13, DoesConcat
  <2>15. Does(st, "tick", {}, B, {}, B)
    BY <2>7, <2>14, DoesConcat
  <2> HIDE DEF st
  <2> QED BY <1>1, <2>1, <2>2, <2>15, DoesSequenceCopy DEF seq, B
<1>2. CASE a.elements # "Message"
  <2> DEFINE hd == {<<"Valid_Sequence", Ctx(a.of), "">>, <<"Has_Element", Ctx(a.of), "">>,
                    <<"Holds_Element", Ctx(a.of), "">>}
             i == [op |-> "Assign", target |-> <<"Scalar", a.target>>, needs |-> hd]
             r == raise_exception_if_not(hd, h)
  <2>1. assign_to_head(s, a, h) = r \o <<i>>
    BY <1>2 DEF assign_to_head
  <2>2. i.op \in Quiet
    BY DEF Quiet
  <2> HIDE DEF i
  <2>3. Does(r, "tick", {}, C, {}, C) /\ Does(<<i>>, "tick", {}, C, {}, C)
    BY <2>2, DoesRaise, DoesQuiet
  <2> QED BY <2>1, <2>3, DoesConcat
<1> QED BY <1>1, <1>2

LEMMA DoesAssignComprehension ==
  ASSUME NEW s, NEW a, Located(a.at), IsSequence(a.selector), IsSequence(a.condition),
         NEW h, NEW C, Plain(C), Handles(h, {}, C)
  PROVE  Does(assign_to_comprehension(s, a, h), "tick", {}, C, {}, C)
<1> DEFINE Loop(seq) == comprehension(seq, a, free_copy(seq, a.at) \o h)
           reset == Reset(Ctx(a.target))
           r == raise_exception_if_not({<<"Well_Formed_Message", Ctx(a.of), "">>}, h)
           seq1 == Copy(a.of)
           seq2 == FieldSequence(a.of)
<1>1. ASSUME NEW seq, seq \in {seq1, seq2}
      PROVE  seq \notin C /\ Does(Loop(seq), "tick", {}, C \cup {seq}, {}, C \cup {seq})
  <2>1. seq \notin C /\ ~Foreign(seq) /\ Element(a.iterator) \notin C \cup {seq}
    BY <1>1, Names DEF Plain
  <2>2. Does(free_copy(seq, a.at), "tick", {}, C \cup {seq}, {}, C)
    BY <2>1, DoesFreeCopy
  <2>3. Handles(free_copy(seq, a.at) \o h, {}, C \cup {seq})
    BY <2>2, HandlesConcat
  <2> DEFINE B == C \cup {seq}
  <2>4. seq \in B
    OBVIOUS
  <2> HIDE DEF B
  <2>5. Does(Loop(seq), "tick", {}, B, {}, B)
    BY <2>1, <2>3, <2>4, DoesComprehension DEF B
  <2> QED BY <2>1, <2>5 DEF B
<1>2. \A B : Does(reset, "tick", {}, B, {}, B)
  BY DoesReset
<1>3. CASE a.field = ""
  <2>1. assign_to_comprehension(s, a, h) = declare_sequence_copy(a.of, a.at, reset \o Loop(seq1), h)
    BY <1>3 DEF assign_to_comprehension
  <2>2. seq1 \notin C /\ Does(Loop(seq1), "tick", {}, C \cup {seq1}, {}, C \cup {seq1})
    BY <1>1
  <2> HIDE DEF reset, Loop
  <2>3. Does(reset \o Loop(seq1), "tick", {}, C \cup {seq1}, {}, C \cup {seq1})
    BY <1>2, <2>2, DoesConcat
  <2> QED BY <2>1, <2>2, <2>3, DoesSequenceCopy
<1>4. CASE a.field # ""
  <2> DEFINE b == buffer_is_smaller(s, a.target, a.of)
             c == declare_message_field_sequence_copy(a.of, a.field, a.at, b, Loop(seq2), h)
  <2>1. assign_to_comprehension(s, a, h) = reset \o r \o c
    BY <1>4 DEF assign_to_comprehension
  <2>2. seq2 \notin C /\ Does(Loop(seq2), "tick", {}, C \cup {seq2}, {}, C \cup {seq2})
    BY <1>1
  <2> HIDE DEF b, Loop
  <2>3. Does(c, "tick", {}, C, {}, C)
    BY <2>2, DoesFieldCopy
  <2>4. Does(r, "tick", {}, C, {}, C)
    BY DoesRaise
  <2> HIDE DEF reset, r, c
  <2>5. Does(reset \o r, "tick", {}, C, {}, C)
    BY <1>2, <2>4, DoesConcat
  <2> QED BY <2>1, <2>3, <2>5, DoesConcat
<1> QED BY <1>3, <1>4

LEMMA DoesFind ==
  ASSUME NEW s, NEW a, Located(a.at), IsSequence(a.selector), IsSequence(a.condition),
         NEW h, NEW C, Plain(C), Handles(h, {}, C)
  PROVE  Does(assign_to_find(s, a, h), "tick", {}, C, {}, C)
<1> DEFINE g(seq) == free_copy(seq, a.at) \o h
           i == [op |-> "Not_Found"]
           Statements(seq) == <<i>> \o comprehension(seq, a, g(seq))
                              \o raise_exception_if_not({<<"Found", seq, "">>}, g(seq))
           r == raise_exception_if_not({<<"Well_Formed_Message", Ctx(a.of), "">>}, h)
           seq1 == Copy(a.of)
           seq2 == FieldSequence(a.of)
<1>1. i.op \in Quiet
  BY DEF Quiet
<1>2. ASSUME NEW seq, seq \in {seq1, seq2}
      PROVE  seq \notin C /\ Does(Statements(seq), "tick", {}, C \cup {seq}, {}, C \cup {seq})
  <2>1. seq \notin C /\ ~Foreign(seq) /\ Element(a.iterator) \notin C \cup {seq}
    BY <1>2, Names DEF Plain
  <2>2. Does(free_copy(seq, a.at), "tick", {}, C \cup {seq}, {}, C)
    BY <2>1, DoesFreeCopy
  <2>3. Handles(g(seq), {}, C \cup {seq})
    BY <2>2, HandlesConcat
  <2> DEFINE B == C \cup {seq}
             c == comprehension(seq, a, g(seq))
             d == raise_exception_if_not({<<"Found", seq, "">>}, g(seq))
  <2>4. seq \in B
    OBVIOUS
  <2> HIDE DEF B, i, g
  <2>5. Does(c, "tick", {}, B, {}, B)
    BY <2>1, <2>3, <2>4, DoesComprehension DEF B
  <2>6. Does(d, "tick", {}, B, {}, B) /\ Does(<<i>>, "tick", {}, B, {}, B)
    BY <1>1, <2>3, DoesRaise, DoesQuiet DEF B
  <2> HIDE DEF c, d
  <2>7. Does(<<i>> \o c, "tick", {}, B, {}, B)
    BY <2>5, <2>6, DoesConcat
  <2>8. Does(<<i>> \o c \o d, "tick", {}, B, {}, B)
    BY <2>6, <2>7, DoesConcat
  <2> QED BY <2>1, <2>8 DEF B, c, d
<1>3. CASE a.field = ""
  <2>1. assign_to_find(s, a, h) = declare_sequence_copy(a.of, a.at, Statements(seq1), h)
    BY <1>3 DEF assign_to_find
  <2>2. seq1 \notin C /\ Does(Statements(seq1), "tick", {}, C \cup {seq1}, {}, C \cup {seq1})
    BY <1>2
  <2> HIDE DEF Statements
  <2> QED BY <2>1, <2>2, DoesSequenceCopy
<1>4. CASE a.field # ""
  <2> DEFINE b == buffer_is_smaller(s, a.target, a.of)
             c == declare_message_field_sequence_copy(a.of, a.field, a.at, b, Statements(seq2), h)
  <2>1. assign_to_find(s, a, h) = r \o c
    BY <1>4 DEF assign_to_find
  <2>2. seq2 \notin C /\ Does(Statements(seq2), "tick", {}, C \cup {seq2}, {}, C \cup {seq2})
    BY <1>2
  <2> HIDE DEF b, Statements
  <2>3. Does(c, "tick", {}, C, {}, C)
    BY <2>2, DoesFieldCopy
  <2>4. Does(r, "tick", {}, C, {}, C)
    BY DoesRaise
  <2> HIDE DEF r, c
  <2> QED BY <2>1, <2>3, <2>4, DoesConcat
<1> QED BY <1>3, <1>4

LEMMA PlainNoTmp == ASSUME NEW C, Plain(C) PROVE NoTmp(C)
BY DEF Plain, NoTmp

LEMMA DoesMessageAggregate ==
  ASSUME NEW a, IsSequence(a.values), NEW h, NEW C, Plain(C), Handles(h, {}, C)
  PROVE  /\ Does(assign_to_message_aggregate(a, h), "tick", {}, C, {}, C)
         /\ Does(assign_to_delta_message_aggregate(a, h), "tick", {}, C, {}, C)
<1>1. Does(Reset(Ctx(a.target)), "tick", {}, C, {}, C)
  BY DoesReset
<1>2. Does(set_message_fields(Ctx(a.target), a.values, h), "tick", {}, C, {}, C)
  BY DoesSetMessageFields, PlainNoTmp
<1>3. Does(raise_exception_if_not({<<"Valid_Next", Ctx(a.target), a.values[1].field>>}, h), "tick", {}, C, {}, C)
  BY DoesRaise
<1>4. Does(assign_to_message_aggregate(a, h), "tick", {}, C, {}, C)
  BY <1>1, <1>2, DoesConcat DEF assign_to_message_aggregate
<1>5. Does(assign_to_delta_message_aggregate(a, h), "tick", {}, C, {}, C)
  BY <1>2, <1>3, DoesConcat DEF assign_to_delta_message_aggregate
<1> QED BY <1>4, <1>5

LEMMA DoesFieldAssign ==
  ASSUME NEW a, NEW h, NEW C, Plain(C), Handles(h, {}, C)
  PROVE  Does(message_field_assign(a, h), "tick", {}, C, {}, C)
<1> DEFINE n == Ctx(a.target)
           f == a.values[1].field
           r == raise_exception_if_not({<<"Valid_Next", n, f>>}, h)
           t == raise_exception_if_not({<<"Sufficient_Space", n, f>>}, h)
           c == set_message_field(n, a.values[1], h)
<1>1. message_field_assign(a, h) = r \o t \o c
  BY DEF message_field_assign
<1>2. Does(r, "tick", {}, C, {}, C) /\ Does(t, "tick", {}, C, {}, C)
  BY DoesRaise
<1>3. Does(c, "tick", {}, C, {}, C)
  BY DoesSetMessageField, PlainNoTmp
<1> HIDE DEF r, t, c
<1>4. Does(r \o t, "tick", {}, C, {}, C)
  BY <1>2, DoesConcat
<1> QED BY <1>1, <1>3, <1>4, DoesConcat

LEMMA DoesCallArgument ==
  ASSUME NEW v, NEW h, NEW P, NEW C, Handles(h, P, C)
  PROVE  Does(CallArgument(v, h), "tick", P, C, P, C)
<1> DEFINE Ok(c) == Does(c, "tick", P, C, P, C)
           get(needs) == [op |-> "Get", needs |-> needs]
           to == [op |-> "To_Structure", ctx |-> Ctx(v.of)]
<1>1. \A c : Ok(raise_exception_if_not(c, h))
  BY DoesRaise
<1>2. to.op \in Quiet /\ \A needs : get(needs).op \in Quiet
  BY DEF Quiet
<1>3. Ok(<<to>>) /\ \A needs : Ok(<<get(needs)>>)
  <2> HIDE DEF get, to
  <2> QED BY <1>2, DoesQuiet
<1>4. Ok(<<>>) /\ \A c, d : Ok(c) /\ Ok(d) => Ok(c \o d)
  BY DoesNothing, DoesConcat
<1> HIDE DEF Ok
<1>5. Ok(CallArgument(v, h))
  BY <1>1, <1>3, <1>4 DEF CallArgument
<1> QED BY <1>5 DEF Ok

LEMMA DoesCall ==
  ASSUME NEW a, IsSequence(a.values), NEW h, NEW P, NEW C, Handles(h, P, C)
  PROVE  Does(assign_to_call(a, h), "tick", P, C, P, C)
<1> DEFINE Ok(c) == Does(c, "tick", P, C, P, C)
           q == [k \in 1 .. Len(a.values) |-> CallArgument(a.values[k], h)]
           valid == {<<"Valid_Structure", Structure(a.target), "">>}
           length == {<<"Sufficient_Buffer_Length", Structure(a.target), "">>}
           i == [op |-> "Call", target |-> Structure(a.target)]
           j == [op |-> "To_Context", ctx |-> Ctx(a.target), needs |-> valid \cup length]
           c == IF a.returns \in {"Message", "Structure"} THEN raise_exception_if_not(valid, h) ELSE <<>>
           d == IF a.returns = "Message" THEN raise_exception_if_not(length, h) \o <<j>> ELSE <<>>
<1>1. assign_to_call(a, h) = FlattenSeq(q) \o <<i>> \o c \o d
  BY DEF assign_to_call, ConcatMap
<1>2. Ok(FlattenSeq(q))
  <2>1. \A k \in 1 .. Len(a.values) : Does(q[k], "tick", P, C, P, C)
    BY DoesCallArgument
  <2>2. q = [k \in 1 .. Len(a.values) |-> q[k]]
    OBVIOUS
  <2> HIDE DEF q
  <2>3. IsCode(q) /\ Len(q) = Len(a.values)
    BY <2>2, MapIsCode
  <2> QED BY <2>1, <2>3, DoesEach
<1>3. i.op \in Quiet /\ j.op \in Quiet
  BY DEF Quiet
<1> HIDE DEF i, j, q
<1>4. Ok(<<i>>) /\ Ok(<<j>>) /\ Ok(<<>>)
  BY <1>3, DoesQuiet, DoesNothing
<1>5. Ok(raise_exception_if_not(valid, h)) /\ Ok(raise_exception_if_not(length, h))
  BY DoesRaise
<1>6. \A x, y : Ok(x) /\ Ok(y) => Ok(x \o y)
  BY DoesConcat
<1> HIDE DEF Ok, valid, length
<1>7. Ok(c) /\ Ok(d)
  BY <1>4, <1>5, <1>6
<1> HIDE DEF c, d
<1>8. Ok(FlattenSeq(q) \o <<i>> \o c \o d)
  BY <1>2, <1>4, <1>6, <1>7
<1> QED BY <1>1, <1>8 DEF Ok

LEMMA DoesConversion ==
  ASSUME NEW a, NEW h, NEW P, NEW C, Handles(h, P, C)
  PROVE  Does(assign_to_conversion(a, h), "tick", P, C, P, C)
<1> DEFINE Ok(c) == Does(c, "tick", P, C, P, C)
           contains == {<<"Contains", Ctx(a.of), a.field>>}
           space == {<<"Sufficient_Space_For", Ctx(a.of), a.target>>}
           i == [op |-> "Copy_Field", ctx |-> Ctx(a.target), of |-> Ctx(a.of), needs |-> contains \cup space]
           r == raise_exception_if_not(contains, h)
           t == raise_exception_if_not(space, h)
           v == VerifyMessage(Ctx(a.target))
<1>1. assign_to_conversion(a, h) = r \o t \o <<i>> \o v \o <<i>> \o v
  BY DEF assign_to_conversion
<1>2. i.op \in Quiet
  BY DEF Quiet
<1> HIDE DEF i
<1>3. Ok(<<i>>) /\ Ok(r) /\ Ok(t) /\ Ok(v)
  BY <1>2, DoesQuiet, DoesRaise, DoesVerify
<1>4. \A x, y : Ok(x) /\ Ok(y) => Ok(x \o y)
  BY DoesConcat
<1> HIDE DEF Ok, r, t, v
<1>5. Ok(r \o t \o <<i>> \o v \o <<i>> \o v)
  BY <1>3, <1>4
<1> QED BY <1>1, <1>5 DEF Ok

(* The new element takes the buffer of the sequence and gives it back. *)
LEMMA DoesAppend ==
  ASSUME NEW a, IsSequence(a.values), a.target \notin external_io_buffers,
         NEW h, NEW C, Plain(C), Handles(h, {}, C)
  PROVE  Does(append(a, h), "tick", {}, C, {}, C)
<1> DEFINE seq == Ctx(a.target)
           e == Element(a.target)
           D == IF seq \in C THEN (C \ {seq}) \cup {e} ELSE C
           up == update_context(seq, e)
           r == raise_exception_if_not({<<"Has_Element", seq, "">>}, h)
           f == set_message_fields(e, a.values, up \o h)
           i == [op |-> "Append_Element", seq |-> seq, ctx |-> e, kind |-> "Scalar", needs |-> {}]
<1>1. append(a, h) = IF a.elements = "Message" THEN r \o Switch(seq, e) \o f \o up ELSE r \o <<i>>
  BY DEF append
<1>2. i.op \in Quiet
  BY DEF Quiet
<1>3. e \notin C /\ e # seq /\ ~Foreign(e) /\ ~Foreign(seq) /\ NoTmp(D)
  BY Names DEF Plain, NoTmp
<1> HIDE DEF seq, e, i
<1>4. Does(r, "tick", {}, C, {}, C) /\ Does(<<i>>, "tick", {}, C, {}, C)
  BY <1>2, DoesRaise, DoesQuiet
<1>5. Does(Switch(seq, e), "tick", {}, C, {}, D)
  <2>1. seq \in C => D = (C \ {seq}) \cup {e}
    OBVIOUS
  <2> HIDE DEF D
  <2> QED BY <1>3, <2>1, DoesSwitch
<1>6. Does(up, "tick", {}, D, {}, C)
  <2>1. e \in D => C = (D \ {e}) \cup {seq}
    BY <1>3
  <2> HIDE DEF D
  <2> QED BY <1>3, <2>1, DoesUpdate
<1> HIDE DEF D, up
<1>7. Handles(up \o h, {}, D)
  BY <1>6, HandlesConcat
<1>8. Does(f, "tick", {}, D, {}, D)
  BY <1>3, <1>7, DoesSetMessageFields
<1> HIDE DEF r, f
<1>9. Does(r \o Switch(seq, e), "tick", {}, C, {}, D)
  BY <1>4, <1>5, DoesConcat
<1>10. Does(r \o Switch(seq, e) \o f, "tick", {}, C, {}, D)
  BY <1>8, <1>9, DoesConcat
<1>11. Does(r \o Switch(seq, e) \o f \o up, "tick", {}, C, {}, C)
  BY <1>6, <1>10, DoesConcat
<1>12. Does(r \o <<i>>, "tick", {}, C, {}, C)
  BY <1>4, DoesConcat
<1> QED BY <1>1, <1>11, <1>12

LEMMA DoesChannel ==
  ASSUME NEW a, NEW C
  PROVE  Does(read(a), "tick", {}, C, {}, C) /\ Does(write(a), "tick", {}, C, {}, C)
<1> DEFINE i == [op |-> "Read", ctx |-> Ctx(a.var)]
<1>1. i.op \in Quiet /\ read(a) = <<i>>
  BY DEF Quiet, read
<1> HIDE DEF i
<1>2. Does(read(a), "tick", {}, C, {}, C)
  BY <1>1, DoesQuiet
<1>3. Does(write(a), "tick", {}, C, {}, C)
  BY DoesVerify, DoesNothing DEF write
<1> QED BY <1>2, <1>3

(* What the translation of a statement relies on. *)
StatementOk(a) ==
    /\ a.kind \in {"MsgAgg", "DeltaMsgAgg", "Call", "Append"} => IsSequence(a.values)
    /\ a.kind \in {"Comprehension", "Find"} =>
           IsSequence(a.selector) /\ IsSequence(a.condition) /\ Located(a.at)
    /\ a.kind = "Head" => Located(a.at)
    /\ a.kind = "Append" => a.target \notin external_io_buffers

(* Every statement leaves the buffers where they are, or raises an exception with them there. *)
LEMMA DoesStateAction ==
  ASSUME NEW s, NEW a, StatementOk(a), NEW h, NEW C, Plain(C), Handles(h, {}, C)
  PROVE  Does(state_action(s, a, h), "tick", {}, C, {}, C)
<1> DEFINE Ok(c) == Does(c, "tick", {}, C, {}, C)
<1>1. a.kind \in {"MsgAgg", "DeltaMsgAgg"} =>
          Ok(assign_to_message_aggregate(a, h)) /\ Ok(assign_to_delta_message_aggregate(a, h))
  BY DoesMessageAggregate DEF StatementOk
<1>2. a.kind = "Head" => Ok(assign_to_head(s, a, h))
  BY DoesHead DEF StatementOk
<1>3. a.kind = "Comprehension" => Ok(assign_to_comprehension(s, a, h))
  BY DoesAssignComprehension DEF StatementOk
<1>4. a.kind = "Find" => Ok(assign_to_find(s, a, h))
  BY DoesFind DEF StatementOk
<1>5. a.kind = "Call" => Ok(assign_to_call(a, h))
  BY DoesCall DEF StatementOk
<1>6. Ok(assign_to_conversion(a, h)) /\ Ok(ScalarAction(a, "", Ctx(""), h))
  BY DoesConversion, DoesScalarAction
<1>7. Ok(message_field_assign(a, h))
  BY DoesFieldAssign
<1>8. a.kind = "Append" => Ok(append(a, h))
  BY DoesAppend DEF StatementOk
<1>9. Ok(Reset(Ctx(a.target))) /\ Ok(read(a)) /\ Ok(write(a))
  BY DoesReset, DoesChannel
<1> HIDE DEF Ok
<1>10. Ok(assign(s, a, h)) \/ a.kind \in {"FieldAssign", "Append", "Reset", "Read", "Write"}
  BY <1>1, <1>2, <1>3, <1>4, <1>5, <1>6 DEF assign
<1>11. Ok(state_action(s, a, h))
  BY <1>7, <1>8, <1>9, <1>10 DEF state_action
<1> QED BY <1>11 DEF Ok

-----------------------------------------------------------------------------
(* The statements of a state. *)

LEMMA CodeIsSequence == ASSUME NEW c, IsCode(c) PROVE IsSequence(c)
<1>1. PICK A : c \in Seq(A)
  BY DEF IsCode
<1> QED BY <1>1 DEF IsSequence, ToSet

LEMMA FlattenInSeq ==
  ASSUME NEW A, NEW q, IsCode(q), \A i \in 1 .. Len(q) : q[i] \in Seq(A)
  PROVE  FlattenSeq(q) \in Seq(A)
<1> DEFINE n == Len(q)
<1>1. n \in Nat /\ DOMAIN q = 1 .. n /\ (n = 0 => q = <<>>)
  <2>1. PICK B : q \in Seq(B)
    BY DEF IsCode
  <2> QED BY <2>1
<1>2. \A i \in 1 .. n : q[i] \in Seq(A) /\ IsCode(q[i])
  BY DEF IsCode
<1>3. Len(q) = n
  OBVIOUS
<1> HIDE DEF n
<1>4. CASE n = 0
  <2>1. q = <<>> /\ FlattenSeq(q) = q
    BY <1>1, <1>4 DEF FlattenSeq
  <2>2. <<>> \in Seq(A)
    OBVIOUS
  <2> QED BY <2>1, <2>2
<1>5. CASE n > 0
  <2>1. PICK F : Unfolds(F, q, n)
    BY <1>1, <1>2, <1>3, <1>5, FlattenUnfold
  <2> DEFINE T == {i \in Nat : i \in 1 .. n => F[i] \in Seq(A)}
  <2>2. 0 \in T
    OBVIOUS
  <2>3. ASSUME NEW i \in Nat, i \in T PROVE i + 1 \in T
    <3> SUFFICES ASSUME i + 1 \in 1 .. n PROVE F[i + 1] \in Seq(A)
      OBVIOUS
    <3>1. (i + 1) - 1 = i /\ q[i + 1] \in Seq(A)
      BY <1>2
    <3>2. CASE i = 0
      <4>1. i + 1 = 1 /\ q[1] \in Seq(A)
        BY <3>1, <3>2
      <4> QED BY <2>1, <4>1 DEF Unfolds
    <3>3. CASE i # 0
      <4>1. F[i] \in Seq(A)
        BY <2>3, <3>3, <1>1
      <4>2. F[i + 1] = F[(i + 1) - 1] \o q[i + 1]
        <5>1. i + 1 # 1
          BY <3>3
        <5> QED BY <2>1, <5>1, Zenon DEF Unfolds
      <4>3. F[i + 1] = F[i] \o q[i + 1]
        BY <3>1, <4>2
      <4> QED BY <3>1, <4>1, <4>3
    <3> QED BY <3>2, <3>3
  <2>4. n \in T
    <3> HIDE DEF T
    <3> QED BY <1>1, <2>2, <2>3, InductiveSet
  <2>5. n \in 1 .. n
    BY <1>1, <1>5
  <2> QED BY <2>1, <2>4, <2>5 DEF Unfolds
<1> QED BY <1>1, <1>4, <1>5

(* The concatenation of codes is code. *)
LEMMA FlattenIsCode ==
  ASSUME NEW q, IsCode(q), \A i \in 1 .. Len(q) : IsCode(q[i])
  PROVE  IsCode(FlattenSeq(q))
<1> DEFINE A == UNION {ToSet(q[i]) : i \in 1 .. Len(q)}
<1>1. ASSUME NEW i \in 1 .. Len(q) PROVE q[i] \in Seq(A)
  <2>1. q[i] \in Seq(ToSet(q[i]))
    BY CodeIsSequence DEF IsSequence
  <2>2. ToSet(q[i]) \subseteq A
    OBVIOUS
  <2> HIDE DEF A
  <2> QED BY <2>1, <2>2, SeqMonotone
<1> HIDE DEF A
<1>2. FlattenSeq(q) \in Seq(A)
  BY <1>1, FlattenInSeq
<1> QED BY <1>2 DEF IsCode

LEMMA NestedChecks == ASSUME NEW stmts, IsSequence(stmts) PROVE IsSequence(add_nested_checks(stmts))
<1> DEFINE q == [k \in 1 .. Len(stmts) |-> Check(stmts[k])]
<1>1. add_nested_checks(stmts) = FlattenSeq(q) \o stmts
  BY DEF add_nested_checks, ConcatMap
<1>2. \A k \in 1 .. Len(stmts) : IsCode(q[k])
  BY EmptyCode, Code1 DEF Check
<1>3. q = [k \in 1 .. Len(stmts) |-> q[k]]
  OBVIOUS
<1> HIDE DEF q
<1>4. IsCode(q) /\ Len(q) = Len(stmts)
  BY <1>3, MapIsCode
<1>5. IsCode(FlattenSeq(q)) /\ IsCode(stmts)
  BY <1>2, <1>4, FlattenIsCode, SequenceIsCode
<1> QED BY <1>1, <1>5, CodeConcat, CodeIsSequence

(* What add_checks makes of one statement. *)
Checked(a) == Check(a) \o IF a.kind \in {"Comprehension", "Find"}
                          THEN <<[a EXCEPT !.selector = add_nested_checks(@),
                                           !.condition = add_nested_checks(@)]>>
                          ELSE <<a>>

(* A statement that the checks of the model leave, with memory where it needs some. *)
Accepted(a) ==
    /\ StatementOk(a)
    /\ a.kind \in {"Comprehension", "Find"} => {"kind", "selector", "condition", "at"} \subseteq DOMAIN a

LEMMA CheckedOk ==
  ASSUME NEW a, Accepted(a)
  PROVE  \E A : (\A x \in A : StatementOk(x)) /\ Checked(a) \in Seq(A)
<1> DEFINE c == [kind |-> "Check", conditions |-> preconditions(a)]
           b == [a EXCEPT !.selector = add_nested_checks(@), !.condition = add_nested_checks(@)]
           d == IF a.kind \in {"Comprehension", "Find"} THEN b ELSE a
<1>1. Check(a) = <<>> \/ Check(a) = <<c>>
  BY DEF Check
<1>2. Checked(a) = Check(a) \o <<d>>
  BY DEF Checked
<1>3. StatementOk(c)
  BY DEF StatementOk
<1>4. StatementOk(d)
  <2>1. CASE a.kind \in {"Comprehension", "Find"}
    <3>1. /\ b.kind = a.kind /\ b.at = a.at
          /\ b.selector = add_nested_checks(a.selector) /\ b.condition = add_nested_checks(a.condition)
      BY <2>1 DEF Accepted
    <3>2. IsSequence(a.selector) /\ IsSequence(a.condition) /\ Located(a.at)
      BY <2>1 DEF Accepted, StatementOk
    <3>3. IsSequence(b.selector) /\ IsSequence(b.condition) /\ Located(b.at)
      BY <3>1, <3>2, NestedChecks
    <3>4. b.kind \in {"Comprehension", "Find"} /\ d = b
      BY <2>1, <3>1
    <3> HIDE DEF b, d
    <3>5. StatementOk(b)
      BY <3>3, <3>4 DEF StatementOk
    <3> QED BY <3>4, <3>5
  <2>2. CASE a.kind \notin {"Comprehension", "Find"}
    BY <2>2 DEF Accepted
  <2> QED BY <2>1, <2>2
<1> HIDE DEF c, d
<1> DEFINE A == {c, d}
<1>5. c \in A /\ d \in A /\ \A x \in A : StatementOk(x)
  BY <1>3, <1>4
<1> HIDE DEF A
<1>6. Checked(a) \in Seq(A)
  <2>1. <<>> \in Seq(A) /\ <<c>> \in Seq(A) /\ <<d>> \in Seq(A)
    BY <1>5
  <2>2. Check(a) \in Seq(A)
    BY <1>1, <2>1
  <2>3. Check(a) \o <<d>> \in Seq(A)
    BY <2>1, <2>2
  <2> QED BY <1>2, <2>3
<1> QED BY <1>5, <1>6

LEMMA ChecksOk ==
  ASSUME NEW stmts, IsSequence(stmts), \A a \in ToSet(stmts) : Accepted(a)
  PROVE  IsSequence(add_checks(stmts)) /\ \A x \in ToSet(add_checks(stmts)) : StatementOk(x)
<1> DEFINE q == [k \in 1 .. Len(stmts) |-> Checked(stmts[k])]
           U == UNION {ToSet(q[k]) : k \in 1 .. Len(stmts)}
           A == {x \in U : StatementOk(x)}
<1>1. add_checks(stmts) = FlattenSeq(q)
  BY DEF add_checks, ConcatMap, Checked
<1>2. ASSUME NEW k \in 1 .. Len(stmts) PROVE q[k] \in Seq(A)
  <2>1. stmts[k] \in ToSet(stmts)
    BY DEF IsSequence, ToSet
  <2>2. PICK B : (\A x \in B : StatementOk(x)) /\ Checked(stmts[k]) \in Seq(B)
    BY <2>1, CheckedOk
  <2>3. q[k] = Checked(stmts[k])
    OBVIOUS
  <2>4. ToSet(q[k]) \subseteq U
    OBVIOUS
  <2> HIDE DEF q, U
  <2>5. q[k] \in Seq(ToSet(q[k])) /\ ToSet(q[k]) \subseteq B
    BY <2>2, <2>3 DEF ToSet
  <2>6. ToSet(q[k]) \subseteq A
    BY <2>2, <2>4, <2>5
  <2> HIDE DEF A
  <2> QED BY <2>5, <2>6, SeqMonotone
<1>3. q = [k \in 1 .. Len(stmts) |-> q[k]]
  OBVIOUS
<1> HIDE DEF q
<1>4. IsCode(q) /\ Len(q) = Len(stmts)
  BY <1>3, MapIsCode
<1>5. \A x \in A : StatementOk(x)
  OBVIOUS
<1> HIDE DEF A
<1>6. FlattenSeq(q) \in Seq(A)
  BY <1>2, <1>4, FlattenInSeq
<1>7. add_checks(stmts) \in Seq(A)
  BY <1>1, <1>6
<1> QED BY <1>5, <1>7 DEF IsSequence, ToSet

StateActions(s, stmts, h) ==
    FlattenSeq([k \in 1 .. Len(add_checks(stmts)) |-> state_action(s, add_checks(stmts)[k], h)])

LEMMA DoesStateActions ==
  ASSUME NEW s, NEW stmts, IsSequence(stmts), \A a \in ToSet(stmts) : Accepted(a),
         NEW h, NEW C, Plain(C), Handles(h, {}, C)
  PROVE  Does(StateActions(s, stmts, h), "tick", {}, C, {}, C)
<1> DEFINE t == add_checks(stmts)
           q == [k \in 1 .. Len(t) |-> state_action(s, t[k], h)]
<1>1. StateActions(s, stmts, h) = FlattenSeq(q)
  BY DEF StateActions
<1>2. IsSequence(t) /\ \A k \in 1 .. Len(t) : StatementOk(t[k])
  <2>1. IsSequence(t) /\ \A x \in ToSet(t) : StatementOk(x)
    BY ChecksOk
  <2> HIDE DEF t
  <2>2. \A k \in 1 .. Len(t) : t[k] \in ToSet(t)
    BY <2>1 DEF IsSequence, ToSet
  <2> QED BY <2>1, <2>2
<1> HIDE DEF t
<1>3. \A k \in 1 .. Len(t) : Does(q[k], "tick", {}, C, {}, C)
  BY <1>2, DoesStateAction
<1>4. q = [k \in 1 .. Len(t) |-> q[k]]
  OBVIOUS
<1> HIDE DEF q
<1>5. IsCode(q) /\ Len(q) = Len(t)
  BY <1>2, <1>4, MapIsCode
<1> QED BY <1>1, <1>3, <1>5, DoesEach

-----------------------------------------------------------------------------
(* The slots that the allocator assigns exist. *)

LEMMA ConcatElements ==
  ASSUME NEW a, NEW b, IsCode(a), IsCode(b) PROVE ToSet(a \o b) = ToSet(a) \cup ToSet(b)
<1>1. PICK A : a \in Seq(A)
  BY DEF IsCode
<1>2. PICK B : b \in Seq(B)
  BY DEF IsCode
<1> DEFINE S == A \cup B
<1>3. a \in Seq(S) /\ b \in Seq(S)
  BY <1>1, <1>2, SeqMonotone
<1> HIDE DEF S
<1>4. /\ a \o b \in Seq(S) /\ Len(a \o b) = Len(a) + Len(b) /\ Len(a) \in Nat /\ Len(b) \in Nat
      /\ \A i \in 1 .. Len(a) : (a \o b)[i] = a[i]
      /\ \A i \in Len(a) + 1 .. Len(a) + Len(b) : (a \o b)[i] = b[i - Len(a)]
  BY <1>3
<1>5. DOMAIN a = 1 .. Len(a) /\ DOMAIN b = 1 .. Len(b) /\ DOMAIN (a \o b) = 1 .. Len(a) + Len(b)
  BY <1>3, <1>4
<1>6. ASSUME NEW x \in ToSet(a) PROVE x \in ToSet(a \o b)
  BY <1>4, <1>5 DEF ToSet
<1>7. ASSUME NEW x \in ToSet(b) PROVE x \in ToSet(a \o b)
  <2>1. PICK i \in 1 .. Len(b) : x = b[i]
    BY <1>5 DEF ToSet
  <2>2. Len(a) + i \in Len(a) + 1 .. Len(a) + Len(b) /\ (Len(a) + i) - Len(a) = i
    BY <1>4
  <2>3. (a \o b)[Len(a) + i] = x /\ Len(a) + i \in DOMAIN (a \o b)
    BY <1>4, <1>5, <2>1, <2>2
  <2> QED BY <2>3 DEF ToSet
<1>8. ASSUME NEW x \in ToSet(a \o b) PROVE x \in ToSet(a) \cup ToSet(b)
  <2>1. PICK i \in 1 .. Len(a) + Len(b) : x = (a \o b)[i]
    BY <1>5 DEF ToSet
  <2>2. CASE i <= Len(a)
    BY <1>4, <1>5, <2>1, <2>2 DEF ToSet
  <2>3. CASE i > Len(a)
    <3>1. i \in Len(a) + 1 .. Len(a) + Len(b) /\ i - Len(a) \in 1 .. Len(b)
      BY <1>4, <2>3
    <3> QED BY <1>4, <1>5, <2>1, <3>1 DEF ToSet
  <2> QED BY <1>4, <2>2, <2>3
<1> QED BY <1>6, <1>7, <1>8

LEMMA FlattenElements ==
  ASSUME NEW q, IsCode(q), \A i \in 1 .. Len(q) : IsCode(q[i]), NEW j \in 1 .. Len(q), NEW x \in ToSet(q[j])
  PROVE  x \in ToSet(FlattenSeq(q))
<1> DEFINE n == Len(q)
<1>1. n \in Nat /\ DOMAIN q = 1 .. n /\ j \in 1 .. n
  <2>1. PICK B : q \in Seq(B)
    BY DEF IsCode
  <2> QED BY <2>1
<1>2. Len(q) = n /\ \A i \in 1 .. n : IsCode(q[i])
  OBVIOUS
<1> HIDE DEF n
<1>3. n > 0
  BY <1>1
<1>4. PICK F : Unfolds(F, q, n)
  BY <1>1, <1>2, <1>3, FlattenUnfold
<1> DEFINE T == {i \in Nat : i \in 1 .. n => IsCode(F[i]) /\ (j <= i => x \in ToSet(F[i]))}
<1>5. 0 \in T
  OBVIOUS
<1>6. ASSUME NEW i \in Nat, i \in T PROVE i + 1 \in T
  <2> SUFFICES ASSUME i + 1 \in 1 .. n
               PROVE  IsCode(F[i + 1]) /\ (j <= i + 1 => x \in ToSet(F[i + 1]))
    OBVIOUS
  <2>1. (i + 1) - 1 = i /\ IsCode(q[i + 1])
    BY <1>2
  <2>2. CASE i = 0
    <3>1. i + 1 = 1 /\ (j <= i + 1 => j = 1)
      BY <1>1, <2>2
    <3>2. F[1] = q[1]
      BY <1>4 DEF Unfolds
    <3> QED BY <2>1, <3>1, <3>2
  <2>3. CASE i # 0
    <3>1. IsCode(F[i]) /\ (j <= i => x \in ToSet(F[i]))
      BY <1>1, <1>6, <2>3
    <3>2. F[i + 1] = F[(i + 1) - 1] \o q[i + 1]
      <4>1. i + 1 # 1
        BY <2>3
      <4> QED BY <1>4, <4>1, Zenon DEF Unfolds
    <3>3. F[i + 1] = F[i] \o q[i + 1]
      BY <2>1, <3>2
    <3>4. IsCode(F[i + 1]) /\ ToSet(F[i + 1]) = ToSet(F[i]) \cup ToSet(q[i + 1])
      BY <2>1, <3>1, <3>3, CodeConcat, ConcatElements
    <3>5. j <= i + 1 => j <= i \/ j = i + 1
      BY <1>1
    <3> QED BY <3>1, <3>4, <3>5
  <2> QED BY <2>2, <2>3
<1>7. n \in T
  <2> HIDE DEF T
  <2> QED BY <1>1, <1>5, <1>6, InductiveSet
<1>8. n \in 1 .. n /\ j <= n
  BY <1>1, <1>3
<1> QED BY <1>4, <1>7, <1>8 DEF Unfolds

(* Max is the largest element of a finite set. *)
LEMMA FiniteMax ==
  ASSUME NEW S \in SUBSET Nat, IsFiniteSet(S), S # {}
  PROVE  Max(S) \in Nat /\ \A y \in S : y <= Max(S)
<1> DEFINE T == {n \in Nat : \A U \in SUBSET Nat : IsFiniteSet(U) /\ Cardinality(U) = n /\ U # {} =>
                                 \E m \in U : \A y \in U : m >= y}
<1>1. 0 \in T
  BY FS_EmptySet
<1>2. ASSUME NEW n \in Nat, n \in T PROVE n + 1 \in T
  <2> SUFFICES ASSUME NEW U \in SUBSET Nat, IsFiniteSet(U), Cardinality(U) = n + 1, U # {}
               PROVE  \E m \in U : \A y \in U : m >= y
    OBVIOUS
  <2>1. PICK x : x \in U
    OBVIOUS
  <2> DEFINE V == U \ {x}
  <2>2. IsFiniteSet(V) /\ Cardinality(V) = n /\ V \in SUBSET Nat
    <3>1. IsFiniteSet(V) /\ Cardinality(V) = Cardinality(U) - 1
      BY <2>1, FS_RemoveElement
    <3>2. V \in SUBSET Nat
      OBVIOUS
    <3> HIDE DEF V, T
    <3>3. (n + 1) - 1 = n
      OBVIOUS
    <3> QED BY <3>1, <3>2, <3>3
  <2>3. CASE V = {}
    <3>1. x \in Nat /\ \A y \in U : y = x
      BY <2>1, <2>3
    <3> QED BY <2>1, <3>1
  <2>4. CASE V # {}
    <3>1. PICK m \in V : \A y \in V : m >= y
      BY <1>2, <2>2, <2>4
    <3>2. CASE m >= x
      BY <3>1, <3>2
    <3>3. CASE ~(m >= x)
      <4>1. x \in Nat /\ m \in Nat /\ x >= m
        BY <2>1, <3>1, <3>3
      <4>2. \A y \in U : y = x \/ (y \in V /\ m >= y /\ y \in Nat)
        BY <3>1
      <4> HIDE DEF V
      <4>3. \A y \in U : x >= y
        BY <4>1, <4>2
      <4> QED BY <2>1, <4>3
    <3> QED BY <3>2, <3>3
  <2> QED BY <2>3, <2>4
<1>3. Cardinality(S) \in T
  <2> HIDE DEF T
  <2>1. Cardinality(S) \in Nat
    BY FS_CardinalityType
  <2> QED BY <1>1, <1>2, <2>1, InductiveSet
<1>4. \E m \in S : \A y \in S : m >= y
  BY <1>3
<1>5. Max(S) \in S /\ \A y \in S : Max(S) >= y
  BY <1>4 DEF Max
<1> QED BY <1>5

LEMMA RequirementIsCode ==
  ASSUME NEW s, NEW a, a.kind \in {"Comprehension", "Find"} => IsSequence(a.selector) /\ IsSequence(a.condition)
  PROVE  /\ IsCode(Requirement(s, a))
         /\ a.kind \in Slotted => \E r \in ToSet(Requirement(s, a)) : r.at = a.at
         /\ a.kind \in {"Comprehension", "Find"} =>
                \A b \in ToSet(a.selector \o a.condition) :
                    b.kind = "VarDecl" => \E r \in ToSet(Requirement(s, a)) : r.at = b.at
<1> DEFINE r1 == [at |-> a.at, size |-> get_size(a.var, s)]
           r2 == [at |-> a.at, size |-> get_size(a.of, Scope(s, a.of))]
           t == a.selector \o a.condition
           Decl(b) == [at |-> b.at, size |-> get_size(b.var, s)]
           q == [k \in 1 .. Len(t) |-> IF t[k].kind = "VarDecl" THEN <<Decl(t[k])>> ELSE <<>>]
<1>1. r1.at = a.at /\ r2.at = a.at /\ \A b : Decl(b).at = b.at
  OBVIOUS
<1>2. \A x : ToSet(<<x>>) = {x}
  BY DEF ToSet
<1>3. CASE a.kind \in {"Comprehension", "Find"}
  <2>1. Requirement(s, a) = <<r2>> \o FlattenSeq(q)
    BY <1>3 DEF Requirement, ConcatMap
  <2>2. IsCode(t)
    BY <1>3, CodeConcat, SequenceIsCode
  <2>3. q = [k \in 1 .. Len(t) |-> q[k]]
    OBVIOUS
  <2>4. \A k \in 1 .. Len(t) : IsCode(q[k]) /\ (t[k].kind = "VarDecl" => q[k] = <<Decl(t[k])>>)
    BY Code1, EmptyCode
  <2>5. \A b \in ToSet(t) : \E k \in 1 .. Len(t) : b = t[k]
    <3> HIDE DEF t
    <3> QED BY <2>2, CodeIsSequence DEF IsSequence, ToSet
  <2> HIDE DEF q, Decl, r2
  <2>6. IsCode(q) /\ Len(q) = Len(t)
    BY <2>2, <2>3, CodeIsSequence, MapIsCode
  <2>7. IsCode(FlattenSeq(q)) /\ IsCode(<<r2>>)
    BY <2>4, <2>6, FlattenIsCode, Code1
  <2>8. IsCode(Requirement(s, a)) /\ ToSet(Requirement(s, a)) = {r2} \cup ToSet(FlattenSeq(q))
    BY <1>2, <2>1, <2>7, CodeConcat, ConcatElements
  <2>9. ASSUME NEW b \in ToSet(t), b.kind = "VarDecl" PROVE Decl(b) \in ToSet(FlattenSeq(q))
    <3>1. PICK k \in 1 .. Len(t) : b = t[k]
      BY <2>5
    <3>2. Decl(b) \in ToSet(q[k])
      BY <1>2, <2>4, <2>9, <3>1
    <3> QED BY <2>4, <2>6, <3>1, <3>2, FlattenElements
  <2> HIDE DEF t
  <2>10. r2 \in ToSet(Requirement(s, a)) /\ \A b \in ToSet(t) : b.kind = "VarDecl" => Decl(b) \in ToSet(Requirement(s, a))
    BY <2>8, <2>9
  <2> QED BY <1>1, <2>8, <2>10 DEF t
<1>4. CASE a.kind \notin {"Comprehension", "Find"}
  <2>1. Requirement(s, a) = IF a.kind = "VarDecl" THEN <<r1>> ELSE IF a.kind = "Head" THEN <<r2>> ELSE <<>>
    BY <1>4 DEF Requirement
  <2> HIDE DEF r1, r2
  <2>2. IsCode(Requirement(s, a))
    BY <2>1, Code1, EmptyCode
  <2>3. a.kind \in Slotted => a.kind = "VarDecl" \/ a.kind = "Head"
    BY <1>4 DEF Slotted
  <2>4. a.kind \in Slotted => r1 \in ToSet(Requirement(s, a)) \/ r2 \in ToSet(Requirement(s, a))
    BY <1>2, <2>1, <2>3
  <2> QED BY <1>1, <1>4, <2>2, <2>4
<1> QED BY <1>3, <1>4

LEMMA RequirementsInSlots ==
  ASSUME NEW s \in States
  PROVE  /\ IsCode(Requirements(s)) /\ Len(Requirements(s)) \in Nat
         /\ LocalSlotCount \in Nat /\ Len(Requirements(s)) <= LocalSlotCount
<1>1. ASSUME NEW u \in States PROVE IsCode(Requirements(u)) /\ Len(Requirements(u)) \in Nat
  <2> DEFINE A == Machine[u].actions
             q == [k \in 1 .. Len(A) |-> Requirement(u, A[k])]
  <2>1. Requirements(u) = FlattenSeq(q)
    BY DEF Requirements, ConcatMap
  <2>2. IsSequence(A) /\ \A a \in ToSet(A) : a.kind \in {"Comprehension", "Find"} =>
                                                 IsSequence(a.selector) /\ IsSequence(a.condition)
    BY MachineAssumption DEF StatementsAssumption
  <2> HIDE DEF A
  <2>3. \A k \in 1 .. Len(A) : A[k] \in ToSet(A)
    BY <2>2 DEF IsSequence, ToSet
  <2>4. \A k \in 1 .. Len(A) : IsCode(q[k])
    BY <2>2, <2>3, RequirementIsCode
  <2>5. q = [k \in 1 .. Len(A) |-> q[k]]
    OBVIOUS
  <2> HIDE DEF q
  <2>6. IsCode(q) /\ Len(q) = Len(A)
    BY <2>2, <2>5, MapIsCode
  <2>7. IsCode(Requirements(u))
    BY <2>1, <2>4, <2>6, FlattenIsCode
  <2>8. PICK B : Requirements(u) \in Seq(B)
    BY <2>7 DEF IsCode
  <2> QED BY <2>7, <2>8
<1> DEFINE T == {Len(Requirements(u)) : u \in States}
           f == [u \in States |-> Len(Requirements(u))]
<1>2. f \in Surjection(States, T)
  BY DEF Surjection
<1>3. IsFiniteSet(T) /\ T \in SUBSET Nat /\ Len(Requirements(s)) \in T
  <2>1. IsFiniteSet(States)
    BY MachineAssumption
  <2>2. IsFiniteSet(T)
    <3> HIDE DEF T, f
    <3> QED BY <1>2, <2>1, FS_Surjection
  <2> QED BY <1>1, <2>2
<1>4. LocalSlotCount = Max(T)
  BY DEF LocalSlotCount
<1> HIDE DEF T
<1>5. Max(T) \in Nat /\ \A y \in T : y <= Max(T)
  BY <1>3, FiniteMax
<1> QED BY <1>1, <1>3, <1>4, <1>5

LEMMA RankInBounds ==
  ASSUME NEW r, NEW n \in Nat, n = Len(r), NEW k \in 1 .. n
  PROVE  Rank(r, k) \in 1 .. n
<1> DEFINE R == {j \in 1 .. Len(r) : \/ r[j].size > r[k].size
                                     \/ r[j].size = r[k].size /\ j <= k}
<1>1. Rank(r, k) = Cardinality(R)
  BY DEF Rank
<1>2. k \in R /\ R \in SUBSET (1 .. n)
  <2>1. k \in 1 .. Len(r) /\ k <= k
    OBVIOUS
  <2> QED BY <2>1
<1> HIDE DEF R
<1>3. IsFiniteSet(1 .. n) /\ Cardinality(1 .. n) = n
  <2>1. 1 \in Int /\ n \in Int /\ ~(1 > n) /\ (n - 1) + 1 = n
    OBVIOUS
  <2>2. IsFiniteSet(1 .. n) /\ Cardinality(1 .. n) = (n - 1) + 1
    BY <2>1, FS_Interval
  <2> QED BY <2>1, <2>2
<1>4. IsFiniteSet(R) /\ Cardinality(R) <= n /\ Cardinality(R) \in Nat
  BY <1>2, <1>3, FS_Subset, FS_CardinalityType
<1>5. Cardinality(R) # 0
  BY <1>2, <1>4, FS_EmptySet
<1> QED BY <1>1, <1>4, <1>5

LEMMA GlobalSlotsElements ==
  /\ IsCode(GlobalSlots) /\ Len(GlobalSlots) \in Nat /\ DOMAIN GlobalSlots = 1 .. Len(GlobalSlots)
  /\ ToSet(GlobalSlots) = ToSet(Globals) \ external_io_buffers
<1> DEFINE q == [k \in 1 .. Len(Globals) |-> IF Globals[k] \in external_io_buffers THEN <<>> ELSE <<Globals[k]>>]
           A == ToSet(Globals) \ external_io_buffers
<1>1. GlobalSlots = FlattenSeq(q)
  BY DEF GlobalSlots, ConcatMap
<1>2. IsSequence(Globals)
  BY MachineAssumption
<1>3. \A k \in 1 .. Len(Globals) : Globals[k] \in ToSet(Globals)
  BY <1>2 DEF IsSequence, ToSet
<1>4. ASSUME NEW v \in ToSet(Globals) PROVE \E k \in 1 .. Len(Globals) : v = Globals[k]
  BY <1>2 DEF IsSequence, ToSet
<1>5. ASSUME NEW k \in 1 .. Len(Globals) PROVE q[k] \in Seq(A) /\ IsCode(q[k])
  <2>1. q[k] = <<>> \/ (q[k] = <<Globals[k]>> /\ Globals[k] \in A)
    BY <1>3
  <2> HIDE DEF A, q
  <2>2. q[k] \in Seq(A)
    <3>1. CASE q[k] = <<>>
      <4>1. <<>> \in Seq(A)
        OBVIOUS
      <4> QED BY <3>1, <4>1
    <3>2. CASE q[k] = <<Globals[k]>> /\ Globals[k] \in A
      <4>1. <<Globals[k]>> \in Seq(A)
        BY <3>2
      <4> QED BY <3>2, <4>1
    <3> QED BY <2>1, <3>1, <3>2
  <2> QED BY <2>2 DEF IsCode
<1>6. ASSUME NEW v \in A PROVE \E k \in 1 .. Len(Globals) : v \in ToSet(q[k])
  <2>1. PICK k \in 1 .. Len(Globals) : v = Globals[k]
    BY <1>4
  <2>2. q[k] = <<v>>
    BY <2>1
  <2>3. v \in ToSet(<<v>>)
    BY DEF ToSet
  <2> QED BY <2>2, <2>3
<1>7. q = [k \in 1 .. Len(Globals) |-> q[k]]
  OBVIOUS
<1> HIDE DEF q
<1>8. IsCode(q) /\ Len(q) = Len(Globals)
  BY <1>2, <1>7, MapIsCode
<1> HIDE DEF A
<1>9. GlobalSlots \in Seq(A)
  BY <1>1, <1>5, <1>8, FlattenInSeq
<1>10. ASSUME NEW v \in A PROVE v \in ToSet(GlobalSlots)
  BY <1>1, <1>5, <1>6, <1>8, FlattenElements
<1>11. IsCode(GlobalSlots) /\ ToSet(GlobalSlots) = A
  BY <1>9, <1>10 DEF IsCode, ToSet
<1> QED BY <1>9, <1>11 DEF A

(* The slot of every location exists. *)
LEMMA SlotsExist ==
  ASSUME NEW at \in Locations
  PROVE  slot_ptr[at] \in DOMAIN SlotSize
<1> DEFINE n == Len(GlobalSlots)
           st == CHOOSE t \in States : \E k \in 1 .. Len(Requirements(t)) : Requirements(t)[k].at = at
           r == Requirements(st)
           k == CHOOSE j \in 1 .. Len(r) : r[j].at = at
           i == CHOOSE j \in 1 .. Len(GlobalSlots) : GlobalSlots[j] = at
<1>1. slot_ptr[at] = IF at \in ToSet(GlobalSlots) THEN i ELSE n + Rank(r, k)
  BY SlotAssumption DEF get_slot_ptr
<1>2. n \in Nat /\ InitialState \in States
  BY GlobalSlotsElements, MachineAssumption
<1>3. LocalSlotCount \in Nat
  BY <1>2, RequirementsInSlots
<1>4. DOMAIN SlotSize = 1 .. n + LocalSlotCount
  BY DEF SlotSize, SlotCount
<1>5. CASE at \in ToSet(GlobalSlots)
  <2>1. \E j \in 1 .. Len(GlobalSlots) : GlobalSlots[j] = at
    BY <1>5, GlobalSlotsElements DEF ToSet
  <2>2. i \in 1 .. n
    BY <2>1
  <2> HIDE DEF i
  <2>3. slot_ptr[at] = i
    BY <1>1, <1>5
  <2> HIDE DEF n
  <2> QED BY <1>2, <1>3, <1>4, <2>2, <2>3
<1>6. CASE at \notin ToSet(GlobalSlots)
  <2>1. PICK t \in States : \E x \in ToSet(Requirements(t)) : x.at = at
    BY <1>6 DEF Locations
  <2>2. IsSequence(Requirements(t))
    BY RequirementsInSlots, CodeIsSequence
  <2>3. \E j \in 1 .. Len(Requirements(t)) : Requirements(t)[j].at = at
    BY <2>1, <2>2 DEF IsSequence, ToSet
  <2>4. st \in States /\ \E j \in 1 .. Len(r) : r[j].at = at
    BY <2>3
  <2> HIDE DEF st
  <2>5. Len(r) \in Nat /\ Len(r) <= LocalSlotCount
    BY <2>4, RequirementsInSlots
  <2> HIDE DEF r
  <2>6. k \in 1 .. Len(r)
    BY <2>4
  <2> HIDE DEF k
  <2>7. Rank(r, k) \in 1 .. Len(r)
    BY <2>5, <2>6, RankInBounds
  <2>8. slot_ptr[at] = n + Rank(r, k)
    BY <1>1, <1>6
  <2> HIDE DEF n
  <2> QED BY <1>2, <1>3, <1>4, <2>5, <2>7, <2>8
<1> QED BY <1>5, <1>6

LEMMA RequirementLocated ==
  ASSUME NEW s \in States, NEW a \in ToSet(Machine[s].actions), NEW r \in ToSet(Requirement(s, a))
  PROVE  r.at \in Locations
<1> DEFINE A == Machine[s].actions
           q == [k \in 1 .. Len(A) |-> Requirement(s, A[k])]
<1>1. Requirements(s) = FlattenSeq(q)
  BY DEF Requirements, ConcatMap
<1>2. IsSequence(A) /\ a \in ToSet(A) /\ \A b \in ToSet(A) : b.kind \in {"Comprehension", "Find"} =>
                                                 IsSequence(b.selector) /\ IsSequence(b.condition)
  BY MachineAssumption DEF StatementsAssumption
<1> HIDE DEF A
<1>3. \A k \in 1 .. Len(A) : A[k] \in ToSet(A)
  BY <1>2 DEF IsSequence, ToSet
<1>4. PICK k \in 1 .. Len(A) : a = A[k]
  BY <1>2 DEF IsSequence, ToSet
<1>5. \A j \in 1 .. Len(A) : IsCode(q[j])
  BY <1>2, <1>3, RequirementIsCode
<1>6. q[k] = Requirement(s, a)
  BY <1>4
<1>7. q = [j \in 1 .. Len(A) |-> q[j]]
  OBVIOUS
<1> HIDE DEF q
<1>8. IsCode(q) /\ Len(q) = Len(A)
  BY <1>2, <1>7, MapIsCode
<1>9. r \in ToSet(Requirements(s))
  BY <1>1, <1>5, <1>6, <1>8, FlattenElements
<1> QED BY <1>9 DEF Locations

LEMMA ExternalGlobals ==
  external_io_buffers \subseteq ToSet(Globals) /\ \A v \in external_io_buffers : Kind[v] = "Message"
<1> SUFFICES ASSUME NEW v \in external_io_buffers PROVE v \in ToSet(Globals) /\ Kind[v] = "Message"
  OBVIOUS
<1>1. PICK s \in States : \E a \in ToSet(Machine[s].actions) : a.kind \in {"Read", "Write"} /\ v = a.var
  BY DEF external_io_buffers
<1>2. StatementsAssumption(s)
  BY MachineAssumption
<1> QED BY <1>1, <1>2 DEF StatementsAssumption

(* The checks of the model leave what the generator relies on. *)
LEMMA StatementsAccepted ==
  ASSUME NEW s \in States
  PROVE  /\ \A a \in ToSet(Machine[s].actions) : Accepted(a)
         /\ \A t \in ToSet(Machine[s].transitions) : \A a \in ToSet(t.stmts) : Accepted(a)
<1> DEFINE stmts == UNION {ToSet(t.stmts) : t \in ToSet(Machine[s].transitions)}
           All == ToSet(Machine[s].actions) \cup stmts
<1>1. /\ \A a \in stmts : a.kind \notin Slotted
      /\ \A a \in All :
             /\ a.kind \in {"MsgAgg", "DeltaMsgAgg", "Call", "Append"} => IsSequence(a.values)
             /\ a.kind \in {"Comprehension", "Find"} =>
                    /\ IsSequence(a.selector) /\ IsSequence(a.condition)
                    /\ {"kind", "selector", "condition", "at"} \subseteq DOMAIN a
             /\ a.kind \in Slotted => a.at \notin ToSet(Globals)
             /\ a.kind = "Append" => Kind[a.target] = "Sequence"
  BY MachineAssumption DEF StatementsAssumption
<1> HIDE DEF stmts
<1>2. ASSUME NEW a \in ToSet(Machine[s].actions), a.kind \in Slotted PROVE Located(a.at)
  <2>1. PICK r \in ToSet(Requirement(s, a)) : r.at = a.at
    BY <1>1, <1>2, RequirementIsCode
  <2>2. a.at \in Locations /\ a.at \notin ToSet(Globals)
    BY <1>1, <1>2, <2>1, RequirementLocated
  <2> QED BY <2>2, SlotsExist, ExternalGlobals DEF Located
<1>3. ASSUME NEW a \in All PROVE Accepted(a)
  <2>1. a.kind \in Slotted => Located(a.at)
    BY <1>1, <1>2
  <2>2. a.kind = "Append" => a.target \notin external_io_buffers
    <3>1. "Sequence" # "Message"
      OBVIOUS
    <3> QED BY <1>1, <3>1, ExternalGlobals
  <2>3. {"Comprehension", "Find", "Head"} \subseteq Slotted
    BY DEF Slotted
  <2> HIDE DEF All
  <2> QED BY <1>1, <2>1, <2>2, <2>3 DEF Accepted, StatementOk
<1> QED BY <1>3 DEF stmts

(* Local variables have a slot of their own and do not shadow global ones. *)
LEMMA DeclarationsOk ==
  ASSUME NEW s \in States
  PROVE  /\ IsSequence(declarations(s))
         /\ \A d \in ToSet(declarations(s)) : /\ Located(d.at) /\ d.var \notin ToSet(Globals)
                                              /\ d.at \in Locations /\ d.at \notin ToSet(Globals)
<1> DEFINE A == Machine[s].actions
           G(a) == IF a.kind \in {"Comprehension", "Find"} THEN a.selector \o a.condition ELSE <<>>
           g == [k \in 1 .. Len(A) |-> G(A[k])]
           t == A \o FlattenSeq(g)
           q == [k \in 1 .. Len(t) |-> IF t[k].kind = "VarDecl" THEN <<t[k]>> ELSE <<>>]
           V == {x \in ToSet(t) : x.kind = "VarDecl"}
           U == UNION {ToSet(G(a)) : a \in ToSet(A)}
<1>1. declarations(s) = FlattenSeq(q)
  BY DEF declarations, ConcatMap
<1>2. IsSequence(A) /\ \A a \in ToSet(A) : a.kind \in {"Comprehension", "Find"} =>
                                                 IsSequence(a.selector) /\ IsSequence(a.condition)
  BY MachineAssumption DEF StatementsAssumption
<1>3. \A k \in 1 .. Len(A) : A[k] \in ToSet(A)
  <2> HIDE DEF A
  <2> QED BY <1>2 DEF IsSequence, ToSet
<1>4. ASSUME NEW a \in ToSet(A) PROVE IsCode(G(a)) /\ G(a) \in Seq(U)
  <2>1. IsCode(G(a))
    BY <1>2, CodeConcat, SequenceIsCode, EmptyCode
  <2>2. ToSet(G(a)) \subseteq U
    OBVIOUS
  <2> HIDE DEF G, U
  <2> QED BY <2>1, <2>2, CodeIsSequence, SeqMonotone DEF IsSequence
<1>5. \A k \in 1 .. Len(A) : IsCode(g[k]) /\ g[k] \in Seq(U)
  <2> HIDE DEF A, G, U
  <2> QED BY <1>3, <1>4
<1>6. g = [k \in 1 .. Len(A) |-> g[k]]
  OBVIOUS
<1> HIDE DEF g, U, A
<1>7. IsCode(g) /\ Len(g) = Len(A)
  BY <1>2, <1>6, MapIsCode
<1>8. FlattenSeq(g) \in Seq(U) /\ IsCode(FlattenSeq(g)) /\ IsCode(A)
  BY <1>2, <1>5, <1>7, FlattenInSeq, FlattenIsCode, SequenceIsCode
<1>9. IsSequence(t) /\ ToSet(t) = ToSet(A) \cup ToSet(FlattenSeq(g))
  BY <1>8, CodeConcat, CodeIsSequence, ConcatElements
<1>10. ToSet(FlattenSeq(g)) \subseteq U
  BY <1>8 DEF ToSet
<1>11. q = [k \in 1 .. Len(t) |-> q[k]]
  OBVIOUS
<1> HIDE DEF t
<1>12. ASSUME NEW k \in 1 .. Len(t) PROVE q[k] \in Seq(V)
  <2>1. t[k] \in ToSet(t)
    BY <1>9 DEF IsSequence, ToSet
  <2>2. q[k] = <<>> \/ (q[k] = <<t[k]>> /\ t[k] \in V)
    BY <2>1
  <2> HIDE DEF V, q
  <2>3. CASE q[k] = <<>>
    <3>1. <<>> \in Seq(V)
      OBVIOUS
    <3> QED BY <2>3, <3>1
  <2>4. CASE q[k] = <<t[k]>> /\ t[k] \in V
    <3>1. <<t[k]>> \in Seq(V)
      BY <2>4
    <3> QED BY <2>4, <3>1
  <2> QED BY <2>2, <2>3, <2>4
<1> HIDE DEF q
<1>13. IsCode(q) /\ Len(q) = Len(t)
  BY <1>9, <1>11, MapIsCode
<1>14. declarations(s) \in Seq(V)
  <2> HIDE DEF V
  <2> QED BY <1>1, <1>12, <1>13, FlattenInSeq
<1>15. IsSequence(declarations(s)) /\ ToSet(declarations(s)) \subseteq V
  <2> HIDE DEF V
  <2> QED BY <1>14 DEF IsSequence, ToSet
<1>16. ASSUME NEW d \in V PROVE d.at \in Locations
  <2>1. d.kind = "VarDecl" /\ (d \in ToSet(A) \/ d \in U)
    BY <1>9, <1>10
  <2>2. CASE d \in ToSet(A)
    <3>1. d.kind \in Slotted /\ ~(d.kind \in {"Comprehension", "Find"})
      BY <2>1 DEF Slotted
    <3>2. PICK r \in ToSet(Requirement(s, d)) : r.at = d.at
      BY <3>1, RequirementIsCode
    <3> QED BY <2>2, <3>2, RequirementLocated DEF A
  <2>3. CASE d \in U
    <3>1. PICK a \in ToSet(A) : d \in ToSet(G(a))
      BY <2>3 DEF U
    <3>2. ToSet(<<>>) = {}
      BY DEF ToSet
    <3>3. a.kind \in {"Comprehension", "Find"} /\ d \in ToSet(a.selector \o a.condition)
      BY <3>1, <3>2
    <3>4. PICK r \in ToSet(Requirement(s, a)) : r.at = d.at
      BY <1>2, <2>1, <3>1, <3>3, RequirementIsCode
    <3> QED BY <3>1, <3>4, RequirementLocated DEF A
  <2> QED BY <2>1, <2>2, <2>3
<1>17. \A d \in ToSet(declarations(s)) : d.var \notin ToSet(Globals) /\ d.at \notin ToSet(Globals)
  BY MachineAssumption DEF DeclarationsAssumption
<1> HIDE DEF V
<1> QED BY <1>15, <1>16, <1>17, SlotsExist, ExternalGlobals DEF Located

-----------------------------------------------------------------------------
(* The procedures of the package. *)

LEMMA CleanReturn ==
  ASSUME NEW m, m # "start", NEW C, C \subseteq GlobalContexts, NEW X
  PROVE  Clean(<<m, {}, C, <<>>>>, X)
<1> DEFINE u == <<m, {}, C, <<>>>>
<1>1. u[1] = m /\ u[2] = {} /\ u[3] = C /\ u[4] = <<>>
  OBVIOUS
<1> SUFFICES Clean(u, X)
  OBVIOUS
<1> HIDE DEF u
<1>2. Safe(u, {})
  BY <1>1 DEF Safe
<1>3. \A y \in {} : Clean(y, X \cup {u})
  OBVIOUS
<1> DEFINE Y == {}
<1>4. Safe(u, Y) /\ \A y \in Y : Clean(y, X \cup {u})
  BY <1>2
<1> HIDE DEF Y
<1> QED BY <1>4, CleanStep

LEMMA HandlesNothing == Handles(<<>>, {}, GlobalContexts)
<1> DEFINE i == [op |-> "End_Of_Tick"]
           Y == {<<"call", {}, GlobalContexts, <<>>>>}
<1>1. i.op = "End_Of_Tick" /\ EndOfTick = <<i>>
  BY DEF EndOfTick
<1>2. IsCode(<<>>)
  BY EmptyCode
<1> HIDE DEF i
<1>3. <<>> \o EndOfTick = <<i>> \o <<>>
  BY <1>1, EmptyCode, Code1
<1>4. SafeStatement("tick", {}, GlobalContexts, i, <<i>> \o <<>>, Y)
  BY <1>1, <1>2, CodeHead DEF SafeStatement
<1>5. ASSUME NEW X PROVE Clean(<<"tick", {}, GlobalContexts, <<i>> \o <<>>>>, X)
  <2> DEFINE Z == X \cup {<<"tick", {}, GlobalContexts, <<i>> \o <<>>>>}
  <2>1. ASSUME NEW y \in Y PROVE Clean(y, Z)
    <3> HIDE DEF Z
    <3> QED BY CleanReturn
  <2> HIDE DEF Y
  <2> QED BY <1>2, <1>4, <2>1, CleanStatement
<1> QED BY <1>2, <1>3, <1>5 DEF Handles

(* A context is declared and gets its buffer, or gives it back. *)
LEMMA DoesDeclare ==
  ASSUME NEW v, NEW at, Located(at), v \notin external_io_buffers, NEW m, m # "start", NEW P, NEW C,
         Ctx(v) \notin P, Ctx(v) \notin C
  PROVE  /\ Does(declare(Ctx(v), at), m, P, C, P, C \cup {Ctx(v)})
         /\ Does(free_context_buffer(Ctx(v), at), m, P, C \cup {Ctx(v)}, P, C)
<1> DEFINE n == Ctx(v)
<1>1. ~Foreign(n) /\ n \notin P /\ n \notin C
  BY Names
<1> SUFFICES /\ Does(declare(n, at), m, P, C, P, C \cup {n})
             /\ Does(free_context_buffer(n, at), m, P, C \cup {n}, P, C)
  OBVIOUS
<1> HIDE DEF n
<1>2. Does(allocate_buffer(n, at), m, P, C, P \cup {n}, C)
  BY <1>1, DoesAllocate DEF Located
<1>3. Does(initialize_context(n, n, "Buffer", n), m, P \cup {n}, C, P, C \cup {n})
  <2>1. P = (P \cup {n}) \ {n}
    BY <1>1
  <2> QED BY <1>1, <2>1, DoesInitialize
<1>4. Does(take_buffer(n, n), m, P, C \cup {n}, P \cup {n}, C)
  <2>1. C = (C \cup {n}) \ {n}
    BY <1>1
  <2> QED BY <1>1, <2>1, DoesTake
<1>5. Does(free_buffer(n, at), m, P \cup {n}, C, P, C)
  <2>1. (P \cup {n}) \ {n} = P
    BY <1>1
  <2>2. Does(free_buffer(n, at), m, P \cup {n}, C, (P \cup {n}) \ {n}, C)
    BY <1>1, DoesFree DEF Located
  <2> QED BY <2>1, <2>2
<1>6. free_context_buffer(n, at) = take_buffer(n, n) \o free_buffer(n, at)
  BY DEF free_context_buffer, is_externally_managed, Located
<1> QED BY <1>2, <1>3, <1>4, <1>5, <1>6, DoesConcat DEF declare

LEMMA DoesDeclareExternal ==
  ASSUME NEW v \in external_io_buffers, NEW m, m # "start", NEW P, NEW C, Ctx(v) \notin P, Ctx(v) \notin C
  PROVE  /\ Does(declare(Ctx(v), v), m, P \cup {Ctx(v)}, C, P, C \cup {Ctx(v)})
         /\ Does(free_context_buffer(Ctx(v), v), m, P, C \cup {Ctx(v)}, P \cup {Ctx(v)}, C)
<1> DEFINE n == Ctx(v)
<1> SUFFICES /\ Does(declare(n, v), m, P \cup {n}, C, P, C \cup {n})
             /\ Does(free_context_buffer(n, v), m, P, C \cup {n}, P \cup {n}, C)
  OBVIOUS
<1>1. n \notin P /\ n \notin C
  OBVIOUS
<1> HIDE DEF n
<1>2. Does(initialize_context(n, n, "Buffer", n), m, P \cup {n}, C, P, C \cup {n})
  <2>1. P = (P \cup {n}) \ {n}
    BY <1>1
  <2> QED BY <1>1, <2>1, DoesInitialize
<1>3. Does(take_buffer(n, n), m, P, C \cup {n}, P \cup {n}, C)
  <2>1. C = (C \cup {n}) \ {n}
    BY <1>1
  <2> QED BY <1>1, <2>1, DoesTake
<1>4. \A A, B : Does(<<>>, m, A, B, A, B)
  BY DoesNothing
<1>5. allocate_buffer(n, v) = <<>> /\ free_context_buffer(n, v) = take_buffer(n, n) \o <<>>
  BY DEF allocate_buffer, free_context_buffer, is_externally_managed
<1>6. Does(<<>> \o initialize_context(n, n, "Buffer", n), m, P \cup {n}, C, P, C \cup {n})
  BY <1>2, <1>4, DoesConcat
<1>7. Does(take_buffer(n, n) \o <<>>, m, P, C \cup {n}, P \cup {n}, C)
  BY <1>3, <1>4, DoesConcat
<1> QED BY <1>5, <1>6, <1>7 DEF declare

Locals(s) == {Ctx(d.var) : d \in ToSet(declarations(s))}

LEMMA DoesDeclarations ==
  ASSUME NEW s \in States
  PROVE  /\ Does(initialization(s), "tick", {}, GlobalContexts, {}, GlobalContexts \cup Locals(s))
         /\ Does(finalization(s), "tick", {}, GlobalContexts \cup Locals(s), {}, GlobalContexts)
<1> DEFINE d == declarations(s)
           n == Len(d)
           Gl == GlobalContexts
           P == [i \in 0 .. n |-> {}]
           L == [i \in 0 .. n |-> Gl \cup {Ctx(d[j].var) : j \in 1 .. i}]
           F == [i \in 0 .. n |-> Gl \cup {Ctx(d[j].var) : j \in i + 1 .. n}]
           q == [k \in 1 .. n |-> declare(Ctx(d[k].var), d[k].at)]
           r == [k \in 1 .. n |-> free_context_buffer(Ctx(d[k].var), d[k].at)]
           i1 == [op |-> "Assert_Global_Initialized"]
<1>1. initialization(s) = FlattenSeq(q) /\ finalization(s) = FlattenSeq(r) \o <<i1>>
  BY DEF initialization, finalization, ConcatMap
<1>2. i1.op \in Quiet
  BY DEF Quiet
<1>3. IsSequence(d) /\ \A x \in ToSet(d) : Located(x.at) /\ x.var \notin ToSet(Globals)
  BY DeclarationsOk
<1>4. \A i, j \in DOMAIN d : d[i].var = d[j].var => i = j
  BY MachineAssumption DEF DeclarationsAssumption
<1>5. Locals(s) = {Ctx(x.var) : x \in ToSet(d)}
  BY DEF Locals
<1> HIDE DEF d, i1
<1>6. n \in Nat /\ DOMAIN d = 1 .. n /\ ToSet(d) = {d[k] : k \in 1 .. n}
  BY <1>3 DEF IsSequence, ToSet
<1> HIDE DEF n
<1>7. ASSUME NEW k \in 1 .. n
      PROVE  /\ Located(d[k].at) /\ d[k].var \notin external_io_buffers /\ Ctx(d[k].var) \notin Gl
             /\ \A j \in 1 .. n : j # k => Ctx(d[j].var) # Ctx(d[k].var)
  <2>1. d[k] \in ToSet(d)
    BY <1>6
  <2>2. d[k].var \notin ToSet(Globals)
    BY <1>3, <2>1
  <2>3. Ctx(d[k].var) \notin Gl
    BY <2>2 DEF GlobalContexts, Ctx
  <2>4. \A j \in 1 .. n : j # k => Ctx(d[j].var) # Ctx(d[k].var)
    BY <1>4, <1>6 DEF Ctx
  <2> QED BY <1>3, <2>1, <2>2, <2>3, <2>4, ExternalGlobals
<1>8. ASSUME NEW k \in 1 .. n
      PROVE  Does(q[k], "tick", P[k - 1], L[k - 1], P[k], L[k]) /\ Does(r[k], "tick", P[k - 1], F[k - 1], P[k], F[k])
  <2> DEFINE x == Ctx(d[k].var)
  <2>1. k - 1 \in 0 .. n /\ k \in 0 .. n
    BY <1>6
  <2>2. P[k - 1] = {} /\ P[k] = {} /\ L[k - 1] = Gl \cup {Ctx(d[j].var) : j \in 1 .. k - 1}
        /\ L[k] = Gl \cup {Ctx(d[j].var) : j \in 1 .. k} /\ F[k] = Gl \cup {Ctx(d[j].var) : j \in k + 1 .. n}
        /\ F[k - 1] = Gl \cup {Ctx(d[j].var) : j \in (k - 1) + 1 .. n}
    BY <2>1
  <2>3. x \notin L[k - 1] /\ x \notin F[k]
    BY <1>6, <1>7, <2>2
  <2>4. 1 .. k = (1 .. k - 1) \cup {k} /\ (k - 1) + 1 .. n = {k} \cup (k + 1 .. n)
    BY <1>6
  <2>5. L[k] = L[k - 1] \cup {x} /\ F[k - 1] = F[k] \cup {x}
    <3>1. {Ctx(d[j].var) : j \in (1 .. k - 1) \cup {k}} = {Ctx(d[j].var) : j \in 1 .. k - 1} \cup {x}
      OBVIOUS
    <3>2. {Ctx(d[j].var) : j \in {k} \cup (k + 1 .. n)} = {x} \cup {Ctx(d[j].var) : j \in k + 1 .. n}
      OBVIOUS
    <3> QED BY <2>2, <2>4, <3>1, <3>2
  <2>6. q[k] = declare(x, d[k].at) /\ r[k] = free_context_buffer(x, d[k].at)
    OBVIOUS
  <2> HIDE DEF q, r, L, F, P
  <2>7. x \notin P[k] /\ P[k - 1] = P[k]
    BY <2>2
  <2>8. Does(declare(x, d[k].at), "tick", P[k], L[k - 1], P[k], L[k - 1] \cup {x})
    BY <1>7, <2>3, <2>7, DoesDeclare
  <2>9. Does(free_context_buffer(x, d[k].at), "tick", P[k], F[k] \cup {x}, P[k], F[k])
    BY <1>7, <2>3, <2>7, DoesDeclare
  <2> QED BY <2>5, <2>6, <2>7, <2>8, <2>9
<1>9. q = [k \in 1 .. n |-> q[k]] /\ r = [k \in 1 .. n |-> r[k]]
  OBVIOUS
<1>10. P[0] = {} /\ P[n] = {}
  BY <1>6
<1>11. L[0] = Gl /\ F[n] = Gl /\ L[n] = Gl \cup Locals(s) /\ F[0] = Gl \cup Locals(s)
  <2>1. 0 \in 0 .. n /\ n \in 0 .. n /\ 1 .. 0 = {} /\ n + 1 .. n = {} /\ 0 + 1 .. n = 1 .. n
    BY <1>6
  <2>2. L[0] = Gl \cup {Ctx(d[j].var) : j \in 1 .. 0} /\ L[n] = Gl \cup {Ctx(d[j].var) : j \in 1 .. n}
        /\ F[0] = Gl \cup {Ctx(d[j].var) : j \in 0 + 1 .. n} /\ F[n] = Gl \cup {Ctx(d[j].var) : j \in n + 1 .. n}
    BY <2>1
  <2>3. {Ctx(d[j].var) : j \in 1 .. n} = Locals(s)
    BY <1>5, <1>6
  <2>4. {Ctx(d[j].var) : j \in {}} = {}
    OBVIOUS
  <2> HIDE DEF L, F
  <2> QED BY <2>1, <2>2, <2>3, <2>4
<1> HIDE DEF q, r, L, F, P, Gl
<1>12. IsCode(q) /\ Len(q) = n /\ IsCode(r) /\ Len(r) = n
  BY <1>3, <1>9, MapIsCode DEF n
<1>13. Does(FlattenSeq(q), "tick", P[0], L[0], P[n], L[n])
  BY <1>8, <1>12, DoesFlatten
<1>14. Does(FlattenSeq(r), "tick", P[0], F[0], P[n], F[n])
  BY <1>8, <1>12, DoesFlatten
<1>15. Does(FlattenSeq(q), "tick", {}, Gl, {}, Gl \cup Locals(s))
  BY <1>10, <1>11, <1>13
<1>16. Does(FlattenSeq(r), "tick", {}, Gl \cup Locals(s), {}, Gl)
  BY <1>10, <1>11, <1>14
<1>17. Does(<<i1>>, "tick", {}, Gl, {}, Gl)
  BY <1>2, DoesQuiet
<1>18. Does(FlattenSeq(r) \o <<i1>>, "tick", {}, Gl \cup Locals(s), {}, Gl)
  BY <1>16, <1>17, DoesConcat
<1> QED BY <1>1, <1>15, <1>18 DEF Gl

LEMMA DoesInvariant ==
  ASSUME NEW s, NEW P, NEW C PROVE Does(Invariant(s), "tick", P, C, P, C)
<1> DEFINE l == {[var |-> d.var, slot |-> slot_ptr[d.at], size |-> get_size(d.var, s)] :
                     d \in ToSet(declarations(s))}
           i == [op |-> "Assert_Invariant", local |-> l]
<1>1. Invariant(s) = <<i>>
  BY DEF Invariant
<1>2. i.op \in Quiet
  BY DEF Quiet
<1> HIDE DEF i
<1> QED BY <1>1, <1>2, DoesQuiet

LEMMA DoesNextStates ==
  ASSUME NEW s \in States, NEW h, NEW C, Plain(C), Handles(h, {}, C), h = exception_handler(s)
  PROVE  Does(determine_next_state(s), "tick", {}, C, {}, C)
<1> DEFINE t == Machine[s].transitions
           q == [k \in 1 .. Len(t) |-> StateActions(s, t[k].stmts, h)]
           T == {x.target : x \in ToSet(t)}
           i == <<[op |-> "Next_State", targets |-> T]>>
<1>1. determine_next_state(s) = FlattenSeq(q) \o i
  BY DEF determine_next_state, ConcatMap, StateActions
<1>2. IsSequence(t) /\ \A x \in ToSet(t) : x.target \in States /\ IsSequence(x.stmts)
  BY MachineAssumption DEF StatementsAssumption
<1>3. \A x \in ToSet(t) : \A a \in ToSet(x.stmts) : Accepted(a)
  BY StatementsAccepted
<1> HIDE DEF t
<1>4. \A k \in 1 .. Len(t) : t[k] \in ToSet(t)
  BY <1>2 DEF IsSequence, ToSet
<1>5. \A k \in 1 .. Len(t) : Does(q[k], "tick", {}, C, {}, C)
  BY <1>2, <1>3, <1>4, DoesStateActions
<1>6. q = [k \in 1 .. Len(t) |-> q[k]]
  OBVIOUS
<1> HIDE DEF q
<1>7. IsCode(q) /\ Len(q) = Len(t)
  BY <1>2, <1>6, MapIsCode
<1>8. Does(FlattenSeq(q), "tick", {}, C, {}, C)
  BY <1>5, <1>7, DoesEach
<1>9. Does(i, "tick", {}, C, {}, C)
  <2>1. T \in SUBSET States
    BY <1>2
  <2> HIDE DEF T
  <2> QED BY <2>1, DoesNextState
<1> HIDE DEF i
<1> QED BY <1>1, <1>8, <1>9, DoesConcat

(* The procedure of a state gives back what it takes, with and without exceptions. *)
LEMMA DoesStateBody ==
  ASSUME NEW s \in States
  PROVE  Does(state_body(s), "tick", {}, GlobalContexts, {}, GlobalContexts)
<1> DEFINE Gl == GlobalContexts
           C == Gl \cup Locals(s)
           h == exception_handler(s)
           A == Machine[s].actions
           x == StateActions(s, A, h)
           i == initialization(s)
           v == Invariant(s)
           d == determine_next_state(s)
           f == finalization(s)
<1>1. state_body(s) = i \o v \o x \o d \o v \o f
  BY DEF state_body, ConcatMap, StateActions
<1>2. Does(i, "tick", {}, Gl, {}, C) /\ Does(f, "tick", {}, C, {}, Gl)
  BY DoesDeclarations
<1>3. Plain(C)
  BY Names DEF Plain, GlobalContexts, Locals
<1>4. Handles(<<>>, {}, Gl)
  BY HandlesNothing
<1>5. h = v \o f
  BY DEF exception_handler
<1>6. IsSequence(A) /\ \A a \in ToSet(A) : Accepted(a)
  BY MachineAssumption, StatementsAccepted DEF StatementsAssumption
<1>7. Does(v, "tick", {}, C, {}, C)
  BY DoesInvariant
<1> HIDE DEF C, Gl
<1>8. Does(v \o f, "tick", {}, C, {}, Gl)
  BY <1>2, <1>7, DoesConcat
<1>9. Handles((v \o f) \o <<>>, {}, C)
  BY <1>4, <1>8, HandlesConcat
<1>10. Handles(h, {}, C)
  <2>1. IsCode(v \o f)
    BY <1>8 DEF Does
  <2>2. (v \o f) \o <<>> = v \o f
    BY <2>1, EmptyCode
  <2> QED BY <1>5, <1>9, <2>2
<1>11. Does(d, "tick", {}, C, {}, C)
  BY <1>3, <1>10, DoesNextStates
<1> HIDE DEF h, A
<1>12. Does(x, "tick", {}, C, {}, C)
  BY <1>3, <1>6, <1>10, DoesStateActions
<1> HIDE DEF x, i, v, d, f
<1>13. Does(i \o v, "tick", {}, Gl, {}, C)
  BY <1>2, <1>7, DoesConcat
<1>14. Does(i \o v \o x, "tick", {}, Gl, {}, C)
  BY <1>12, <1>13, DoesConcat
<1>15. Does(i \o v \o x \o d, "tick", {}, Gl, {}, C)
  BY <1>11, <1>14, DoesConcat
<1>16. Does(i \o v \o x \o d \o v, "tick", {}, Gl, {}, C)
  BY <1>7, <1>15, DoesConcat
<1>17. Does(i \o v \o x \o d \o v \o f, "tick", {}, Gl, {}, Gl)
  BY <1>2, <1>16, DoesConcat
<1> QED BY <1>1, <1>17 DEF Gl

(* What Tick and Run execute. *)
LEMMA CleanTick ==
  ASSUME NEW c, c = <<>> \/ \E s \in States : c = fsm.states[s]
  PROVE  Clean(<<"tick", {}, GlobalContexts, c \o EndOfTick>>, {})
<1>1. Does(c, "tick", {}, GlobalContexts, {}, GlobalContexts)
  <2>1. CASE c = <<>>
    BY <2>1, DoesNothing
  <2>2. CASE c # <<>>
    <3>1. PICK s \in States : c = fsm.states[s]
      BY <2>2
    <3>2. c = state_body(s)
      BY <3>1 DEF fsm
    <3> QED BY <3>2, DoesStateBody
  <2> QED BY <2>1, <2>2
<1>2. Handles(c \o <<>>, {}, GlobalContexts)
  BY <1>1, HandlesNothing, HandlesConcat
<1>3. c \o <<>> = c
  BY <1>1, EmptyCode DEF Does
<1> QED BY <1>2, <1>3 DEF Handles

ExternalContexts == {Ctx(v) : v \in external_io_buffers}

(* Global variables get their buffers from slots or from the application, and give them back. *)
LEMMA DoesGlobals ==
  ASSUME NEW m, m # "start", NEW q, NEW r,
         q = [k \in 1 .. Len(Globals) |-> declare(Ctx(Globals[k]), Globals[k])],
         r = [k \in 1 .. Len(Globals) |-> free_context_buffer(Ctx(Globals[k]), Globals[k])]
  PROVE  /\ Does(FlattenSeq(q), m, ExternalContexts, {}, {}, GlobalContexts)
         /\ Does(FlattenSeq(r), m, {}, GlobalContexts, ExternalContexts, {})
<1> DEFINE n == Len(Globals)
           A == [i \in 0 .. n |-> {Ctx(Globals[j]) : j \in 1 .. i}]
           B == [i \in 0 .. n |-> {Ctx(Globals[j]) : j \in i + 1 .. n}]
           E == ExternalContexts
           EA == [i \in 0 .. n |-> A[i] \cap E]
           EB == [i \in 0 .. n |-> B[i] \cap E]
<1>1. IsSequence(Globals) /\ \A i, j \in DOMAIN Globals : Globals[i] = Globals[j] => i = j
  BY MachineAssumption
<1>2. n \in Nat /\ DOMAIN Globals = 1 .. n /\ ToSet(Globals) = {Globals[k] : k \in 1 .. n}
  BY <1>1 DEF IsSequence, ToSet
<1>3. /\ \A k \in 1 .. n : q[k] = declare(Ctx(Globals[k]), Globals[k])
      /\ \A k \in 1 .. n : r[k] = free_context_buffer(Ctx(Globals[k]), Globals[k])
  OBVIOUS
<1>4. IsCode(q) /\ Len(q) = n /\ IsCode(r) /\ Len(r) = n
  <2>1. q = [k \in 1 .. Len(Globals) |-> q[k]] /\ r = [k \in 1 .. Len(Globals) |-> r[k]]
    OBVIOUS
  <2> QED BY <1>1, <2>1, MapIsCode
<1> HIDE DEF n
<1>5. ASSUME NEW k \in 1 .. n
      PROVE  Does(q[k], m, EB[k - 1], A[k - 1], EB[k], A[k]) /\ Does(r[k], m, EA[k - 1], B[k - 1], EA[k], B[k])
  <2> DEFINE v == Globals[k]
             x == Ctx(v)
  <2>1. k - 1 \in 0 .. n /\ k \in 0 .. n
    BY <1>2
  <2>2. /\ A[k - 1] = {Ctx(Globals[j]) : j \in 1 .. k - 1} /\ A[k] = {Ctx(Globals[j]) : j \in 1 .. k}
        /\ B[k] = {Ctx(Globals[j]) : j \in k + 1 .. n}
        /\ B[k - 1] = {Ctx(Globals[j]) : j \in (k - 1) + 1 .. n}
    BY <2>1
  <2>3. \A j \in 1 .. n : j # k => Ctx(Globals[j]) # x
    BY <1>1, <1>2 DEF Ctx
  <2>4. x \notin A[k - 1] /\ x \notin B[k]
    BY <1>2, <2>2, <2>3
  <2>5. 1 .. k = (1 .. k - 1) \cup {k} /\ (k - 1) + 1 .. n = {k} \cup (k + 1 .. n)
    BY <1>2
  <2>6. A[k] = A[k - 1] \cup {x} /\ B[k - 1] = B[k] \cup {x}
    <3>1. {Ctx(Globals[j]) : j \in (1 .. k - 1) \cup {k}} = {Ctx(Globals[j]) : j \in 1 .. k - 1} \cup {x}
      OBVIOUS
    <3>2. {Ctx(Globals[j]) : j \in {k} \cup (k + 1 .. n)} = {x} \cup {Ctx(Globals[j]) : j \in k + 1 .. n}
      OBVIOUS
    <3> QED BY <2>2, <2>5, <3>1, <3>2
  <2>7. EA[k] = A[k] \cap E /\ EB[k] = B[k] \cap E /\ EA[k - 1] = A[k - 1] \cap E /\ EB[k - 1] = B[k - 1] \cap E
    BY <2>1
  <2>8. x \in E <=> v \in external_io_buffers
    BY DEF ExternalContexts, Ctx
  <2>9. v \in ToSet(Globals)
    BY <1>2
  <2>10. q[k] = declare(x, v) /\ r[k] = free_context_buffer(x, v)
    BY <1>3
  <2> HIDE DEF A, B, E, EA, EB, v
  <2>11. x \notin EB[k] /\ x \notin EA[k - 1]
    <3> HIDE DEF x
    <3> QED BY <2>4, <2>7
  <2>12. CASE v \in external_io_buffers
    <3>1. EB[k - 1] = EB[k] \cup {x} /\ EA[k] = EA[k - 1] \cup {x}
      <4> HIDE DEF x
      <4> QED BY <2>6, <2>7, <2>8, <2>12
    <3>2. Does(declare(x, v), m, EB[k] \cup {x}, A[k - 1], EB[k], A[k - 1] \cup {x})
      BY <2>4, <2>11, <2>12, DoesDeclareExternal
    <3>3. Does(free_context_buffer(x, v), m, EA[k - 1], B[k] \cup {x}, EA[k - 1] \cup {x}, B[k])
      BY <2>4, <2>11, <2>12, DoesDeclareExternal
    <3> HIDE DEF x
    <3> QED BY <2>6, <2>10, <3>1, <3>2, <3>3
  <2>13. CASE v \notin external_io_buffers
    <3>1. EB[k - 1] = EB[k] /\ EA[k] = EA[k - 1]
      <4> HIDE DEF x
      <4> QED BY <2>6, <2>7, <2>8, <2>13
    <3>2. Located(v)
      <4>1. v \in Locations
        BY <2>9, <2>13, GlobalSlotsElements DEF Locations
      <4> QED BY <2>13, <4>1, SlotsExist DEF Located
    <3>3. Does(declare(x, v), m, EB[k], A[k - 1], EB[k], A[k - 1] \cup {x})
      BY <2>4, <2>11, <2>13, <3>2, DoesDeclare
    <3>4. Does(free_context_buffer(x, v), m, EA[k - 1], B[k] \cup {x}, EA[k - 1], B[k])
      BY <2>4, <2>11, <2>13, <3>2, DoesDeclare
    <3> HIDE DEF x
    <3> QED BY <2>6, <2>10, <3>1, <3>3, <3>4
  <2> QED BY <2>12, <2>13
<1>6. A[0] = {} /\ B[n] = {} /\ A[n] = GlobalContexts /\ B[0] = GlobalContexts
  <2>1. 0 \in 0 .. n /\ n \in 0 .. n /\ 1 .. 0 = {} /\ n + 1 .. n = {} /\ 0 + 1 .. n = 1 .. n
    BY <1>2
  <2>2. /\ A[0] = {Ctx(Globals[j]) : j \in 1 .. 0} /\ A[n] = {Ctx(Globals[j]) : j \in 1 .. n}
        /\ B[0] = {Ctx(Globals[j]) : j \in 0 + 1 .. n} /\ B[n] = {Ctx(Globals[j]) : j \in n + 1 .. n}
    BY <2>1
  <2>3. {Ctx(Globals[j]) : j \in 1 .. n} = GlobalContexts
    BY <1>2 DEF GlobalContexts
  <2>4. {Ctx(Globals[j]) : j \in {}} = {}
    OBVIOUS
  <2> HIDE DEF A, B
  <2> QED BY <2>1, <2>2, <2>3, <2>4
<1>7. E \subseteq GlobalContexts
  BY ExternalGlobals DEF GlobalContexts, ExternalContexts
<1>8. EA[0] = {} /\ EB[n] = {} /\ EA[n] = E /\ EB[0] = E
  <2>1. 0 \in 0 .. n /\ n \in 0 .. n
    BY <1>2
  <2>2. EA[0] = A[0] \cap E /\ EB[n] = B[n] \cap E /\ EA[n] = A[n] \cap E /\ EB[0] = B[0] \cap E
    BY <2>1
  <2> HIDE DEF A, B, E, EA, EB
  <2> QED BY <1>6, <1>7, <2>2
<1> HIDE DEF A, B, E, EA, EB
<1>9. Does(FlattenSeq(q), m, EB[0], A[0], EB[n], A[n])
  BY <1>4, <1>5, DoesFlatten
<1>10. Does(FlattenSeq(r), m, EA[0], B[0], EA[n], B[n])
  BY <1>4, <1>5, DoesFlatten
<1> QED BY <1>6, <1>8, <1>9, <1>10 DEF E

LEMMA ExternalForeign == \A n \in ExternalContexts : Foreign(n)
BY Names DEF ExternalContexts

LEMMA CleanInitialize == Clean(<<"start", ExternalContexts, {}, fsm.initialize>>, {})
<1> DEFINE i == [op |-> "Allocator_Initialize"]
           q == [k \in 1 .. Len(Globals) |-> declare(Ctx(Globals[k]), Globals[k])]
           r == [k \in 1 .. Len(Globals) |-> free_context_buffer(Ctx(Globals[k]), Globals[k])]
           j == <<[op |-> "Next_State", targets |-> {InitialState}]>>
           E == ExternalContexts
           Gl == GlobalContexts
<1>1. fsm.initialize = <<i>> \o FlattenSeq(q) \o j
  BY DEF fsm, initialize, ConcatMap
<1>2. i.op = "Allocator_Initialize"
  OBVIOUS
<1> HIDE DEF i
<1>3. Does(FlattenSeq(q), "call", E, {}, {}, Gl)
  <2>1. q = [k \in 1 .. Len(Globals) |-> declare(Ctx(Globals[k]), Globals[k])] /\
        r = [k \in 1 .. Len(Globals) |-> free_context_buffer(Ctx(Globals[k]), Globals[k])]
    OBVIOUS
  <2> HIDE DEF q, r
  <2> QED BY <2>1, DoesGlobals
<1> HIDE DEF q, r
<1>4. Does(j, "call", {}, Gl, {}, Gl)
  <2> DEFINE T == {InitialState}
  <2>1. T \in SUBSET States
    BY MachineAssumption
  <2> HIDE DEF T
  <2>2. Does(<<[op |-> "Next_State", targets |-> T]>>, "call", {}, Gl, {}, Gl)
    BY <2>1, DoesNextState
  <2> QED BY <2>2 DEF T
<1> HIDE DEF j
<1>5. Does(FlattenSeq(q) \o j, "call", E, {}, {}, Gl)
  BY <1>3, <1>4, DoesConcat
<1> DEFINE k == FlattenSeq(q) \o j
<1>6. IsCode(k) /\ fsm.initialize = <<i>> \o k
  <2>1. IsCode(<<i>>) /\ IsCode(FlattenSeq(q)) /\ IsCode(j) /\ IsCode(k)
    BY <1>3, <1>4, <1>5, Code1 DEF Does
  <2> QED BY <1>1, <2>1, CodeAssoc
<1> HIDE DEF k
<1>7. ASSUME NEW X PROVE Clean(<<"call", E, {}, k>>, X)
  <2>1. Clean(<<"call", {}, Gl, <<>>>>, X)
    BY CleanReturn
  <2>2. Clean(<<"call", E, {}, k \o <<>>>>, X)
    BY <1>5, <2>1, EmptyCode DEF Does, k
  <2> QED BY <1>6, <2>2, EmptyCode
<1> DEFINE Y == {<<"call", E, {}, k>>}
           X == {}
<1>8. SafeStatement("start", E, {}, i, <<i>> \o k, Y)
  BY <1>2, <1>6, CodeHead, ExternalForeign DEF SafeStatement
<1>9. \A y \in Y : Clean(y, X \cup {<<"start", E, {}, <<i>> \o k>>})
  <2> DEFINE Z == X \cup {<<"start", E, {}, <<i>> \o k>>}
  <2> HIDE DEF Z
  <2>1. \A y \in Y : Clean(y, Z)
    BY <1>7
  <2> QED BY <2>1 DEF Z
<1> HIDE DEF Y, X
<1>10. Clean(<<"start", E, {}, <<i>> \o k>>, X)
  BY <1>6, <1>8, <1>9, CleanStatement
<1> QED BY <1>6, <1>10 DEF X

LEMMA CleanFinalize == Clean(<<"stop", {}, GlobalContexts, fsm.finalize>>, {})
<1> DEFINE i == [op |-> "Allocator_Finalize"]
           q == [k \in 1 .. Len(Globals) |-> declare(Ctx(Globals[k]), Globals[k])]
           r == [k \in 1 .. Len(Globals) |-> free_context_buffer(Ctx(Globals[k]), Globals[k])]
           j == [op |-> "Next_State", targets |-> {"Final"}]
           E == ExternalContexts
           Gl == GlobalContexts
<1>1. fsm.finalize = FlattenSeq(r) \o (<<i>> \o <<j>>)
  <2>1. fsm.finalize = FlattenSeq(r) \o <<i, j>>
    BY DEF fsm, finalize, ConcatMap
  <2> HIDE DEF i, j
  <2>2. <<i, j>> = <<i>> \o <<j>>
    <3> DEFINE S == {i, j}
    <3>1. <<i>> \in Seq(S) /\ <<j>> \in Seq(S) /\ <<i, j>> \in Seq(S)
      OBVIOUS
    <3> HIDE DEF S
    <3>2. /\ <<i>> \o <<j>> \in Seq(S) /\ Len(<<i>> \o <<j>>) = 2
          /\ (<<i>> \o <<j>>)[1] = i /\ (<<i>> \o <<j>>)[2] = j
      BY <3>1
    <3>3. Len(<<i, j>>) = 2 /\ <<i, j>>[1] = i /\ <<i, j>>[2] = j
      OBVIOUS
    <3> DEFINE a == <<i, j>>
               b == <<i>> \o <<j>>
    <3>4. a \in Seq(S) /\ b \in Seq(S) /\ Len(a) = 2 /\ Len(b) = 2
      BY <3>1, <3>2, <3>3
    <3>5. \A x \in 1 .. 2 : x = 1 \/ x = 2
      OBVIOUS
    <3>6. \A x \in 1 .. 2 : a[x] = b[x]
      BY <3>2, <3>3, <3>5
    <3> HIDE DEF a, b
    <3>7. a = b
      BY <3>4, <3>6
    <3> QED BY <3>7 DEF a, b
  <2> QED BY <2>1, <2>2
<1>2. i.op = "Allocator_Finalize"
  OBVIOUS
<1> HIDE DEF i
<1>3. Does(FlattenSeq(r), "stop", {}, Gl, E, {})
  <2>1. q = [k \in 1 .. Len(Globals) |-> declare(Ctx(Globals[k]), Globals[k])] /\
        r = [k \in 1 .. Len(Globals) |-> free_context_buffer(Ctx(Globals[k]), Globals[k])]
    OBVIOUS
  <2> HIDE DEF q, r
  <2> QED BY <2>1, DoesGlobals
<1> HIDE DEF q, r
<1>4. Does(<<j>>, "call", {}, {}, {}, {})
  <2> DEFINE T == {"Final"}
  <2>1. T \in SUBSET States
    BY MachineAssumption
  <2> HIDE DEF T
  <2>2. Does(<<[op |-> "Next_State", targets |-> T]>>, "call", {}, {}, {}, {})
    BY <2>1, DoesNextState
  <2> QED BY <2>2 DEF T
<1> HIDE DEF j
<1>5. IsCode(<<j>>) /\ IsCode(<<i>> \o <<j>>) /\ <<j>> \o <<>> = <<j>>
  BY Code1, CodeConcat, EmptyCode
<1>6. ASSUME NEW X PROVE Clean(<<"call", {}, {}, <<j>>>>, X)
  <2>1. Clean(<<"call", {}, {}, <<>>>>, X)
    BY CleanReturn
  <2>2. Clean(<<"call", {}, {}, <<j>> \o <<>>>>, X)
    BY <1>4, <2>1, EmptyCode DEF Does
  <2> QED BY <1>5, <2>2
<1> DEFINE Y == {<<"call", {}, {}, <<j>>>>}
           X == {}
<1>7. SafeStatement("stop", E, {}, i, <<i>> \o <<j>>, Y)
  BY <1>2, <1>5, CodeHead, ExternalForeign DEF SafeStatement
<1>8. \A y \in Y : Clean(y, X \cup {<<"stop", E, {}, <<i>> \o <<j>>>>})
  <2> DEFINE Z == X \cup {<<"stop", E, {}, <<i>> \o <<j>>>>}
  <2> HIDE DEF Z
  <2>1. \A y \in Y : Clean(y, Z)
    BY <1>6
  <2> QED BY <2>1 DEF Z
<1> HIDE DEF Y, X
<1>9. Clean(<<"stop", E, {}, <<i>> \o <<j>>>>, X)
  BY <1>5, <1>7, <1>8, CleanStatement
<1>10. Clean(<<"stop", {}, Gl, FlattenSeq(r) \o (<<i>> \o <<j>>)>>, X)
  BY <1>3, <1>5, <1>9 DEF Does
<1> QED BY <1>1, <1>10 DEF X

-----------------------------------------------------------------------------
(* The places that hold buffers. *)

SlotMemory == {Memory(i) : i \in DOMAIN SlotSize}

(* The buffers that n may hold. *)
Owned(n) == IF Foreign(n) THEN ExternalBuffers ELSE SlotMemory

SlotsHeld == {j \in DOMAIN slots : slots[j] # Null}
HeldContexts == {n \in DOMAIN contexts : contexts[n].buffer # Null}

(* External buffers are where the application gave them to, memory everywhere else. *)
Kinds ==
    /\ slots \in [DOMAIN SlotSize -> {Null} \cup SlotMemory]
    /\ \A n \in DOMAIN pointers : pointers[n] \in Owned(n)
    /\ \A n \in DOMAIN contexts : "buffer" \in DOMAIN contexts[n] /\ contexts[n].buffer \in {Null} \cup Owned(n)
    /\ outside \subseteq ExternalBuffers

LEMMA BufferKinds ==
  /\ \A b \in SlotMemory : b.id > 0 /\ b # Null
  /\ \A b \in ExternalBuffers : ~(b.id > 0) /\ b # Null
  /\ SlotMemory \cap ExternalBuffers = {}
<1>1. ASSUME NEW b \in SlotMemory PROVE b.id \in Int /\ b.id > 0
  <2>1. PICK i \in DOMAIN SlotSize : b = Memory(i)
    BY DEF SlotMemory
  <2>2. DOMAIN SlotSize = 1 .. SlotCount
    BY DEF SlotSize
  <2>3. b.id = i
    BY <2>1 DEF Memory
  <2> QED BY <2>2, <2>3
<1>2. ASSUME NEW b \in ExternalBuffers PROVE b.id \in Int /\ b.id < 0
  <2>1. PICK k \in 1 .. Cardinality(external_io_buffers) : b = [id |-> -k, length |-> ExternalLength]
    BY DEF ExternalBuffers
  <2>2. b.id = -k
    BY <2>1
  <2> QED BY <2>2
<1>3. Null.id = 0
  BY DEF Null
<1> QED BY <1>1, <1>2, <1>3

HeldPlaces ==
  /\ \A x : x \in Held <=> \/ \E j \in SlotsHeld : x = <<"slot", j>>
                           \/ \E n \in DOMAIN pointers : x = <<"pointer", n>>
                           \/ \E n \in HeldContexts : x = <<"context", n>>
                           \/ \E b \in outside : x = <<"outside", b>>
  /\ \A j : BufferOf(<<"slot", j>>) = slots[j]
  /\ \A n : BufferOf(<<"pointer", n>>) = pointers[n]
  /\ \A n : BufferOf(<<"context", n>>) = contexts[n].buffer
  /\ \A b : BufferOf(<<"outside", b>>) = b

LEMMA PlacesNow == HeldPlaces
BY DEF HeldPlaces, Held, BufferOf, SlotsHeld, HeldContexts

LEMMA PlacesNext == HeldPlaces'
BY PlacesNow, PTL

(* The places are the same up to one that gives its buffer to another one. *)
LEMMA MoveConserves ==
  ASSUME BuffersConserved, NEW g \in Held, NEW h, h \notin Held,
         \A x : x \in Held' <=> (x \in Held /\ x # g) \/ x = h,
         BufferOf(h)' = BufferOf(g), \A x \in Held : x # g => BufferOf(x)' = BufferOf(x)
  PROVE  BuffersConserved'
<1>1. (\A x, y \in Held : BufferOf(x) = BufferOf(y) => x = y)'
  BY DEF BuffersConserved
<1>2. {BufferOf(x) : x \in Held}' = {BufferOf(x) : x \in Held}
  OBVIOUS
<1>3. (\E x \in Held : BufferOf(x).id > 0)' <=> \E x \in Held : BufferOf(x).id > 0
  OBVIOUS
<1> QED BY <1>1, <1>2, <1>3 DEF BuffersConserved

LEMMA KeepConserves ==
  ASSUME BuffersConserved, slots' = slots, pointers' = pointers, outside' = outside,
         HeldContexts' = HeldContexts, \A n \in HeldContexts : contexts'[n].buffer = contexts[n].buffer
  PROVE  BuffersConserved'
<1>1. SlotsHeld' = SlotsHeld
  BY DEF SlotsHeld
<1>2. \A x : x \in Held' <=> x \in Held
  BY <1>1, PlacesNow, PlacesNext DEF HeldPlaces
<1>3. \A x \in Held : BufferOf(x)' = BufferOf(x)
  BY PlacesNow, PlacesNext DEF HeldPlaces
<1>4. (\A x, y \in Held : BufferOf(x) = BufferOf(y) => x = y)'
  BY <1>2, <1>3 DEF BuffersConserved
<1>5. {BufferOf(x) : x \in Held}' = {BufferOf(x) : x \in Held}
  BY <1>2, <1>3
<1>6. (\E x \in Held : BufferOf(x).id > 0)' <=> \E x \in Held : BufferOf(x).id > 0
  BY <1>2, <1>3
<1> QED BY <1>4, <1>5, <1>6 DEF BuffersConserved

LEMMA SlotToPointer ==
  ASSUME BuffersConserved, NEW j \in SlotsHeld, NEW n, n \notin DOMAIN pointers,
         slots' = [slots EXCEPT ![j] = Null], pointers' = Put(pointers, n, slots[j]),
         contexts' = contexts, outside' = outside
  PROVE  BuffersConserved'
<1>1. \A i : i \in SlotsHeld' <=> i \in SlotsHeld /\ i # j
  BY DEF SlotsHeld
<1>2. \A i : i \in DOMAIN pointers' <=> i \in DOMAIN pointers \/ i = n
  BY DEF Put
<1>3. HeldContexts' = HeldContexts
  BY DEF HeldContexts
<1>4. pointers'[n] = slots[j] /\ \A i \in DOMAIN pointers : pointers'[i] = pointers[i]
  BY DEF Put
<1>5. \A i \in SlotsHeld : i # j => slots'[i] = slots[i]
  BY DEF SlotsHeld
<1> DEFINE g == <<"slot", j>>
           h == <<"pointer", n>>
<1>6. g \in Held /\ h \notin Held
  BY PlacesNow DEF HeldPlaces
<1>7. \A x : x \in Held' <=> (x \in Held /\ x # g) \/ x = h
  BY <1>1, <1>2, <1>3, PlacesNow, PlacesNext DEF HeldPlaces
<1>8. BufferOf(h)' = BufferOf(g)
  BY <1>4, PlacesNow, PlacesNext DEF HeldPlaces
<1>9. \A x \in Held : x # g => BufferOf(x)' = BufferOf(x)
  BY <1>4, <1>5, PlacesNow, PlacesNext DEF HeldPlaces
<1> HIDE DEF g, h
<1> QED BY <1>6, <1>7, <1>8, <1>9, MoveConserves

LEMMA PointerToSlot ==
  ASSUME BuffersConserved, NEW n \in DOMAIN pointers, pointers[n] # Null, NEW j \in DOMAIN slots, slots[j] = Null,
         slots' = [slots EXCEPT ![j] = pointers[n]], pointers' = Without(pointers, n),
         contexts' = contexts, outside' = outside
  PROVE  BuffersConserved'
<1>1. \A i : i \in SlotsHeld' <=> i \in SlotsHeld \/ i = j
  BY DEF SlotsHeld
<1>2. \A i : i \in DOMAIN pointers' <=> i \in DOMAIN pointers /\ i # n
  BY DEF Without
<1>3. HeldContexts' = HeldContexts
  BY DEF HeldContexts
<1>4. \A i \in DOMAIN pointers : i # n => pointers'[i] = pointers[i]
  BY DEF Without
<1>5. j \notin SlotsHeld /\ slots'[j] = pointers[n] /\ \A i \in SlotsHeld : slots'[i] = slots[i]
  BY DEF SlotsHeld
<1> DEFINE g == <<"pointer", n>>
           h == <<"slot", j>>
<1>6. g \in Held /\ h \notin Held
  BY <1>5, PlacesNow DEF HeldPlaces
<1>7. \A x : x \in Held' <=> (x \in Held /\ x # g) \/ x = h
  BY <1>1, <1>2, <1>3, PlacesNow, PlacesNext DEF HeldPlaces
<1>8. BufferOf(h)' = BufferOf(g)
  BY <1>5, PlacesNow, PlacesNext DEF HeldPlaces
<1>9. \A x \in Held : x # g => BufferOf(x)' = BufferOf(x)
  BY <1>4, <1>5, PlacesNow, PlacesNext DEF HeldPlaces
<1> HIDE DEF g, h
<1> QED BY <1>6, <1>7, <1>8, <1>9, MoveConserves

LEMMA PointerToContext ==
  ASSUME BuffersConserved, NEW n \in DOMAIN pointers, NEW c, c \notin HeldContexts,
         \A m : m \in HeldContexts' <=> m \in HeldContexts \/ m = c,
         contexts'[c].buffer = pointers[n], \A m \in HeldContexts : contexts'[m].buffer = contexts[m].buffer,
         slots' = slots, pointers' = Without(pointers, n), outside' = outside
  PROVE  BuffersConserved'
<1>1. SlotsHeld' = SlotsHeld
  BY DEF SlotsHeld
<1>2. \A i : i \in DOMAIN pointers' <=> i \in DOMAIN pointers /\ i # n
  BY DEF Without
<1>3. \A i \in DOMAIN pointers : i # n => pointers'[i] = pointers[i]
  BY DEF Without
<1> DEFINE g == <<"pointer", n>>
           h == <<"context", c>>
<1>4. g \in Held /\ h \notin Held
  BY PlacesNow DEF HeldPlaces
<1>5. \A x : x \in Held' <=> (x \in Held /\ x # g) \/ x = h
  BY <1>1, <1>2, PlacesNow, PlacesNext DEF HeldPlaces
<1>6. BufferOf(h)' = BufferOf(g)
  BY PlacesNow, PlacesNext DEF HeldPlaces
<1>7. \A x \in Held : x # g => BufferOf(x)' = BufferOf(x)
  BY <1>3, PlacesNow, PlacesNext DEF HeldPlaces
<1> HIDE DEF g, h
<1> QED BY <1>4, <1>5, <1>6, <1>7, MoveConserves

LEMMA ContextToPointer ==
  ASSUME BuffersConserved, NEW c \in HeldContexts, NEW n, n \notin DOMAIN pointers,
         slots' = slots, pointers' = Put(pointers, n, contexts[c].buffer),
         contexts' = Without(contexts, c), outside' = outside
  PROVE  BuffersConserved'
<1>1. SlotsHeld' = SlotsHeld
  BY DEF SlotsHeld
<1>2. \A i : i \in DOMAIN pointers' <=> i \in DOMAIN pointers \/ i = n
  BY DEF Put
<1>3. \A m : m \in HeldContexts' <=> m \in HeldContexts /\ m # c
  BY DEF HeldContexts, Without
<1>4. pointers'[n] = contexts[c].buffer /\ \A i \in DOMAIN pointers : pointers'[i] = pointers[i]
  BY DEF Put
<1>5. \A m \in HeldContexts : m # c => contexts'[m].buffer = contexts[m].buffer
  BY DEF HeldContexts, Without
<1> DEFINE g == <<"context", c>>
           h == <<"pointer", n>>
<1>6. g \in Held /\ h \notin Held
  BY PlacesNow DEF HeldPlaces
<1>7. \A x : x \in Held' <=> (x \in Held /\ x # g) \/ x = h
  BY <1>1, <1>2, <1>3, PlacesNow, PlacesNext DEF HeldPlaces
<1>8. BufferOf(h)' = BufferOf(g)
  BY <1>4, PlacesNow, PlacesNext DEF HeldPlaces
<1>9. \A x \in Held : x # g => BufferOf(x)' = BufferOf(x)
  BY <1>4, <1>5, PlacesNow, PlacesNext DEF HeldPlaces
<1> HIDE DEF g, h
<1> QED BY <1>6, <1>7, <1>8, <1>9, MoveConserves

LEMMA ContextToContext ==
  ASSUME BuffersConserved, NEW c \in HeldContexts, NEW d, d \notin HeldContexts,
         \A m : m \in HeldContexts' <=> (m \in HeldContexts /\ m # c) \/ m = d,
         contexts'[d].buffer = contexts[c].buffer,
         \A m \in HeldContexts : m # c => contexts'[m].buffer = contexts[m].buffer,
         slots' = slots, pointers' = pointers, outside' = outside
  PROVE  BuffersConserved'
<1>1. SlotsHeld' = SlotsHeld
  BY DEF SlotsHeld
<1> DEFINE g == <<"context", c>>
           h == <<"context", d>>
<1>2. g \in Held /\ h \notin Held
  BY PlacesNow DEF HeldPlaces
<1>3. \A x : x \in Held' <=> (x \in Held /\ x # g) \/ x = h
  BY <1>1, PlacesNow, PlacesNext DEF HeldPlaces
<1>4. BufferOf(h)' = BufferOf(g)
  BY PlacesNow, PlacesNext DEF HeldPlaces
<1>5. \A x \in Held : x # g => BufferOf(x)' = BufferOf(x)
  BY PlacesNow, PlacesNext DEF HeldPlaces
<1> HIDE DEF g, h
<1> QED BY <1>2, <1>3, <1>4, <1>5, MoveConserves

LEMMA OutsideToContext ==
  ASSUME BuffersConserved, NEW b \in outside, NEW c, c \notin HeldContexts,
         \A m : m \in HeldContexts' <=> m \in HeldContexts \/ m = c,
         contexts'[c].buffer = b, \A m \in HeldContexts : contexts'[m].buffer = contexts[m].buffer,
         slots' = slots, pointers' = pointers, outside' = outside \ {b}
  PROVE  BuffersConserved'
<1>1. SlotsHeld' = SlotsHeld
  BY DEF SlotsHeld
<1> DEFINE g == <<"outside", b>>
           h == <<"context", c>>
<1>2. g \in Held /\ h \notin Held
  BY PlacesNow DEF HeldPlaces
<1>3. \A x : x \in Held' <=> (x \in Held /\ x # g) \/ x = h
  BY <1>1, PlacesNow, PlacesNext DEF HeldPlaces
<1>4. BufferOf(h)' = BufferOf(g)
  BY PlacesNow, PlacesNext DEF HeldPlaces
<1>5. \A x \in Held : x # g => BufferOf(x)' = BufferOf(x)
  BY PlacesNow, PlacesNext DEF HeldPlaces
<1> HIDE DEF g, h
<1> QED BY <1>2, <1>3, <1>4, <1>5, MoveConserves

LEMMA ContextToOutside ==
  ASSUME BuffersConserved, NEW c \in HeldContexts, NEW CONSTANT b, b = contexts[c].buffer,
         slots' = slots, pointers' = pointers, contexts' = Without(contexts, c),
         outside' = outside \cup {b}
  PROVE  BuffersConserved'
<1>1. SlotsHeld' = SlotsHeld
  BY DEF SlotsHeld
<1>2. \A m : m \in HeldContexts' <=> m \in HeldContexts /\ m # c
  BY DEF HeldContexts, Without
<1>3. \A m \in HeldContexts : m # c => contexts'[m].buffer = contexts[m].buffer
  BY DEF HeldContexts, Without
<1> DEFINE g == <<"context", c>>
           h == <<"outside", b>>
<1>4. g \in Held /\ g # h /\ BufferOf(g) = BufferOf(h)
  BY PlacesNow DEF HeldPlaces
<1>5. h \notin Held
  <2> HIDE DEF g, h
  <2> QED BY <1>4 DEF BuffersConserved
<1>6. \A x : x \in Held' <=> (x \in Held /\ x # g) \/ x = h
  BY <1>1, <1>2, PlacesNow, PlacesNext DEF HeldPlaces
<1>7. BufferOf(h)' = BufferOf(g)
  BY PlacesNow, PlacesNext DEF HeldPlaces
<1>8. \A x \in Held : x # g => BufferOf(x)' = BufferOf(x)
  BY <1>3, PlacesNow, PlacesNext DEF HeldPlaces
<1> HIDE DEF g, h
<1> QED BY <1>4, <1>5, <1>6, <1>7, <1>8, MoveConserves

-----------------------------------------------------------------------------
(* The inductive invariant. *)

(* The state is one of those that the configuration <<m, P, C, code>> stands for. *)
Covers(m, P, C) ==
    /\ DOMAIN pointers \subseteq P /\ HeldContexts \subseteq C
    /\ m = "start" => SlotsHeld = {}
    /\ m = "stop" => outside = {}
    /\ m = "tick" => current \in States

CodeClean == \E m, P, C : Clean(<<m, P, C, code>>, {}) /\ Covers(m, P, C)

Ownership == Kinds /\ BuffersConserved /\ next_state \in States /\ CodeClean

(* The next statement is safe, and what is left of the code after it is clean again. *)
Next1(m, P, C, k, Y) == SafeStatement(m, P, C, Head(k), k, Y) /\ \A y \in Y : Clean(y, {})

LEMMA CleanNext ==
  ASSUME NEW m, NEW P, NEW C, NEW k, k # <<>>, Clean(<<m, P, C, k>>, {})
  PROVE  \E Y : Next1(m, P, C, k, Y)
<1> DEFINE u == <<m, P, C, k>>
           X == {}
<1>1. u[1] = m /\ u[2] = P /\ u[3] = C /\ u[4] = k
  OBVIOUS
<1>2. PICK W : u \in W \cup X /\ Closed(W, X)
  BY DEF Clean
<1>3. W \cup X = W
  OBVIOUS
<1> HIDE DEF u, X
<1>4. Safe(u, W)
  BY <1>2, <1>3 DEF Closed
<1>5. SafeStatement(m, P, C, Head(k), k, W)
  BY <1>1, <1>4 DEF Safe
<1>6. \A y \in W : Clean(y, {})
  BY <1>2, <1>3 DEF Clean, X
<1> QED BY <1>5, <1>6 DEF Next1

LEMMA CodeNext ==
  ASSUME CodeClean, code # <<>>
  PROVE  \E m, P, C : Covers(m, P, C) /\ \E Y : Next1(m, P, C, code, Y)
<1>1. PICK m, P, C : Clean(<<m, P, C, code>>, {}) /\ Covers(m, P, C)
  BY DEF CodeClean
<1> QED BY <1>1, CleanNext

(* Between two calls only global contexts hold buffers. *)
LEMMA CodeIdle ==
  ASSUME CodeClean, code = <<>>
  PROVE  DOMAIN pointers = {} /\ HeldContexts \subseteq GlobalContexts
<1>1. PICK m, P, C : Clean(<<m, P, C, code>>, {}) /\ Covers(m, P, C)
  BY DEF CodeClean
<1> DEFINE u == <<m, P, C, code>>
           X == {}
<1>2. u[1] = m /\ u[2] = P /\ u[3] = C /\ u[4] = <<>>
  OBVIOUS
<1>3. PICK W : u \in W \cup X /\ Closed(W, X)
  BY <1>1 DEF Clean
<1>4. W \cup X = W
  OBVIOUS
<1> HIDE DEF u, X
<1>5. Safe(u, W)
  BY <1>3, <1>4 DEF Closed
<1>6. P = {} /\ C \subseteq GlobalContexts
  BY <1>2, <1>5 DEF Safe
<1> QED BY <1>1, <1>6 DEF Covers

SameContexts ==
    /\ DOMAIN contexts' = DOMAIN contexts
    /\ \A n \in DOMAIN contexts : "buffer" \in DOMAIN contexts'[n] /\ contexts'[n].buffer = contexts[n].buffer

SameMemory == slots' = slots /\ pointers' = pointers /\ outside' = outside /\ SameContexts

LEMMA MemoryKept ==
  ASSUME Kinds, BuffersConserved, SameMemory
  PROVE  Kinds' /\ BuffersConserved' /\ HeldContexts' = HeldContexts /\ SlotsHeld' = SlotsHeld
<1>1. HeldContexts' = HeldContexts /\ SlotsHeld' = SlotsHeld
  BY DEF HeldContexts, SlotsHeld, SameMemory, SameContexts
<1>2. \A n \in HeldContexts : contexts'[n].buffer = contexts[n].buffer
  BY DEF HeldContexts, SameMemory, SameContexts
<1>3. BuffersConserved'
  BY <1>1, <1>2, KeepConserves DEF SameMemory
<1>4. Kinds'
  BY DEF Kinds, SameMemory, SameContexts
<1> QED BY <1>1, <1>3, <1>4

(* A step that leaves all buffers where they are. *)
LEMMA KeepStep ==
  ASSUME Ownership, SameMemory, next_state' \in States, current' = current,
         NEW m, NEW P, NEW C, Covers(m, P, C), Clean(<<m, P, C, code'>>, {})
  PROVE  Ownership'
<1>1. Kinds' /\ BuffersConserved' /\ HeldContexts' = HeldContexts /\ SlotsHeld' = SlotsHeld
  BY MemoryKept DEF Ownership
<1>2. Covers(m, P, C)'
  BY <1>1 DEF Covers, SameMemory
<1>3. CodeClean'
  BY <1>2 DEF CodeClean
<1> QED BY <1>1, <1>3 DEF Ownership

LEMMA QuietStep ==
  ASSUME Ownership, SameMemory, next_state' = next_state, current' = current,
         code # <<>>, Head(code).op \in Quiet, code' = Tail(code)
  PROVE  Ownership'
<1>1. PICK m, P, C, Y : Covers(m, P, C) /\ Next1(m, P, C, code, Y)
  BY CodeNext DEF Ownership
<1>2. <<m, P, C, Tail(code)>> \in Y
  BY <1>1 DEF Next1, SafeStatement, Quiet
<1>3. Clean(<<m, P, C, code'>>, {})
  BY <1>1, <1>2 DEF Next1
<1> QED BY <1>1, <1>3, KeepStep DEF Ownership

(* A change of one context that leaves its buffer. *)
LEMMA SameContextsUnchanged == ASSUME Kinds, contexts' = contexts PROVE SameContexts
BY DEF SameContexts, Kinds

LEMMA SameContextsReplaced ==
  ASSUME Kinds, NEW c, NEW last, NEW used, NEW written,
         contexts' = [contexts EXCEPT ![c] = Context(contexts[c].buffer, last, used, written)]
  PROVE  SameContexts
<1> DEFINE x == Context(contexts[c].buffer, last, used, written)
<1>1. "buffer" \in DOMAIN x /\ x.buffer = contexts[c].buffer
  BY DEF Context
<1> HIDE DEF x
<1> QED BY <1>1 DEF SameContexts, Kinds, x

LEMMA SameContextsUsed ==
  ASSUME Kinds, NEW c, NEW used, contexts' = [contexts EXCEPT ![c] = [contexts[c] EXCEPT !.used = used]]
  PROVE  SameContexts
BY DEF SameContexts, Kinds

LEMMA QuietActions ==
  ASSUME Ownership, NEW i,
         \/ ResetContext(i) \/ Verify(i) \/ CopyData(i) \/ AppendElement(i) \/ Set(i) \/ Assign(i)
         \/ Call(i) \/ ToContext(i) \/ CopyField(i) \/ ToStructure(i) \/ GetField(i)
         \/ AssertInvariant(i) \/ SetFound(i)
  PROVE  Ownership'
<1>1. Kinds
  BY DEF Ownership
<1>2. ASSUME SameContexts, code # <<>>, Head(code).op \in Quiet, code' = Tail(code),
             UNCHANGED <<slots, pointers, Control>>
      PROVE  Ownership'
  <2>1. slots' = slots /\ pointers' = pointers /\ outside' = outside /\ next_state' = next_state /\ current' = current
    BY <1>2 DEF Control
  <2> QED BY <1>2, <2>1, QuietStep DEF SameMemory
<1>3. CASE ResetContext(i)
  <2>1. /\ code # <<>> /\ i = Head(code) /\ i.op = "Reset" /\ code' = Tail(code)
        /\ UNCHANGED <<slots, pointers, Control>>
        /\ contexts' = [contexts EXCEPT ![i.ctx] = Context(contexts[i.ctx].buffer, contexts[i.ctx].buffer.length, 0, 0)]
    BY <1>3 DEF ResetContext, Op, Done
  <2>2. SameContexts
    BY <1>1, <2>1, SameContextsReplaced
  <2> QED BY <1>2, <2>1, <2>2 DEF Quiet
<1>4. CASE Verify(i)
  <2>1. /\ code # <<>> /\ i = Head(code) /\ i.op \in {"Verify_Message", "Read"} /\ code' = Tail(code)
        /\ UNCHANGED <<slots, pointers, Control>>
        /\ \E size \in 0 .. contexts[i.ctx].written :
               contexts' = [contexts EXCEPT ![i.ctx] = [contexts[i.ctx] EXCEPT !.used = size]]
    BY <1>4 DEF Verify, Op, Done
  <2>2. SameContexts
    BY <1>1, <2>1, SameContextsUsed
  <2> QED BY <1>2, <2>1, <2>2 DEF Quiet
<1>5. CASE CopyData(i)
  <2>1. /\ code # <<>> /\ i = Head(code) /\ i.op = "Copy" /\ code' = Tail(code)
        /\ UNCHANGED <<slots, pointers, Control>> /\ contexts' = contexts
    BY <1>5 DEF CopyData, Op, Done, Memories
  <2> QED BY <1>1, <1>2, <2>1, SameContextsUnchanged DEF Quiet
<1>6. CASE AppendElement(i)
  <2> DEFINE size == IF i.kind = "Message" THEN contexts[i.ctx].used ELSE 1
             used == contexts[i.seq].used + size
  <2>1. /\ code # <<>> /\ i = Head(code) /\ i.op = "Append_Element" /\ code' = Tail(code)
        /\ UNCHANGED <<slots, pointers, Control>>
        /\ contexts' = [contexts EXCEPT ![i.seq] = [contexts[i.seq] EXCEPT !.used = used]]
    BY <1>6 DEF AppendElement, Op, Done
  <2> HIDE DEF used
  <2>2. SameContexts
    BY <1>1, <2>1, SameContextsUsed
  <2> QED BY <1>2, <2>1, <2>2 DEF Quiet
<1>7. CASE Set(i)
  <2>1. /\ code # <<>> /\ i = Head(code) /\ i.op \in {"Set", "Generic_Set"} /\ code' = Tail(code)
        /\ UNCHANGED <<slots, pointers, Control>>
        /\ \E size \in 0 .. contexts[i.ctx].last :
               contexts' = [contexts EXCEPT ![i.ctx].used = size, ![i.ctx].written = size]
    BY <1>7 DEF Set, Op, Done
  <2>2. SameContexts
    BY <1>1, <2>1 DEF SameContexts, Kinds
  <2> QED BY <1>2, <2>1, <2>2 DEF Quiet
<1>8. CASE Assign(i)
  <2>1. /\ code # <<>> /\ i = Head(code) /\ i.op = "Assign" /\ code' = Tail(code)
        /\ UNCHANGED <<slots, pointers, Control>> /\ contexts' = contexts
    BY <1>8 DEF Assign, Op, Done, Memories
  <2> QED BY <1>1, <1>2, <2>1, SameContextsUnchanged DEF Quiet
<1>9. CASE Call(i)
  <2>1. /\ code # <<>> /\ i = Head(code) /\ i.op = "Call" /\ code' = Tail(code)
        /\ UNCHANGED <<slots, pointers, Control>> /\ contexts' = contexts
    BY <1>9 DEF Call, Op, Done, Memories
  <2> QED BY <1>1, <1>2, <2>1, SameContextsUnchanged DEF Quiet
<1>10. CASE ToContext(i)
  <2>1. /\ code # <<>> /\ i = Head(code) /\ i.op = "To_Context" /\ code' = Tail(code)
        /\ UNCHANGED <<slots, pointers, Control>>
        /\ \E size \in 1 .. contexts[i.ctx].buffer.length :
               contexts' = [contexts EXCEPT ![i.ctx] = Context(contexts[i.ctx].buffer, contexts[i.ctx].buffer.length, size, size)]
    BY <1>10 DEF ToContext, Op, Done
  <2>2. SameContexts
    <3> DEFINE last == contexts[i.ctx].buffer.length
    <3>1. PICK size : contexts' = [contexts EXCEPT ![i.ctx] = Context(contexts[i.ctx].buffer, last, size, size)]
      BY <2>1
    <3> HIDE DEF last
    <3> QED BY <1>1, <3>1, SameContextsReplaced
  <2> QED BY <1>2, <2>1, <2>2 DEF Quiet
<1>11. CASE CopyField(i)
  <2>1. /\ code # <<>> /\ i = Head(code) /\ i.op = "Copy_Field" /\ code' = Tail(code)
        /\ UNCHANGED <<slots, pointers, Control>>
        /\ \E size \in 1 .. contexts[i.ctx].buffer.length :
               contexts' = [contexts EXCEPT ![i.ctx] = Context(contexts[i.ctx].buffer, contexts[i.ctx].buffer.length, 0, size)]
    BY <1>11 DEF CopyField, Op, Done
  <2>2. SameContexts
    <3> DEFINE last == contexts[i.ctx].buffer.length
    <3>1. PICK size : contexts' = [contexts EXCEPT ![i.ctx] = Context(contexts[i.ctx].buffer, last, 0, size)]
      BY <2>1
    <3> HIDE DEF last
    <3> QED BY <1>1, <3>1, SameContextsReplaced
  <2> QED BY <1>2, <2>1, <2>2 DEF Quiet
<1>12. CASE ToStructure(i) \/ GetField(i) \/ AssertInvariant(i)
  <2>1. /\ code # <<>> /\ i = Head(code) /\ code' = Tail(code)
        /\ i.op \in {"To_Structure", "Get", "Assert_Invariant", "Assert_Global_Initialized"}
        /\ UNCHANGED <<slots, pointers, Control>> /\ contexts' = contexts
    BY <1>12 DEF ToStructure, GetField, AssertInvariant, Op, Done, Memories
  <2> QED BY <1>1, <1>2, <2>1, SameContextsUnchanged DEF Quiet
<1>13. CASE SetFound(i)
  <2>1. /\ code # <<>> /\ i = Head(code) /\ i.op \in {"Found", "Not_Found"} /\ code' = Tail(code)
        /\ UNCHANGED <<slots, pointers, Control>> /\ contexts' = contexts
    BY <1>13 DEF SetFound, Op, Done, Memories
  <2> QED BY <1>1, <1>2, <2>1, SameContextsUnchanged DEF Quiet
<1> QED BY <1>3, <1>4, <1>5, <1>6, <1>7, <1>8, <1>9, <1>10, <1>11, <1>12, <1>13

(* Checks, loops and the choice of the next state. *)
LEMMA ControlActions ==
  ASSUME Ownership, NEW i, Pass(i) \/ Raise(i) \/ While(i) \/ If(i) \/ Exit(i) \/ SetNextState(i)
  PROVE  Ownership'
<1>1. Kinds /\ next_state \in States /\ CodeClean
  BY DEF Ownership
<1>2. code # <<>> /\ i = Head(code) /\ slots' = slots /\ pointers' = pointers /\ contexts' = contexts
      /\ outside' = outside /\ current' = current
  BY DEF Pass, Raise, While, If, Exit, SetNextState, Op, Memories, Control
<1>3. SameMemory
  BY <1>1, <1>2, SameContextsUnchanged DEF SameMemory
<1>4. PICK m, P, C, Y : Covers(m, P, C) /\ Next1(m, P, C, code, Y)
  BY <1>1, <1>2, CodeNext
<1>5. SafeStatement(m, P, C, i, code, Y) /\ \A y \in Y : Clean(y, {})
  BY <1>2, <1>4 DEF Next1
<1>6. next_state' \in States /\ <<m, P, C, code'>> \in Y
  <2>1. CASE Pass(i)
    <3>1. i.op = "Raise" /\ code' = Tail(code) /\ next_state' = next_state
      BY <2>1 DEF Pass, Op, Done, Control
    <3> QED BY <1>1, <1>5, <3>1 DEF SafeStatement
  <2>2. CASE Raise(i)
    <3>1. i.op = "Raise" /\ code' = i.handler \o EndOfTick /\ next_state' = Machine[current].exception
      BY <2>2 DEF Raise, Op
    <3>2. m = "tick" /\ <<m, P, C, code'>> \in Y
      BY <1>5, <3>1 DEF SafeStatement
    <3>3. current \in States
      BY <1>4, <3>2 DEF Covers
    <3>4. Machine[current].exception \in States
      BY <3>3, MachineAssumption DEF StatementsAssumption
    <3> QED BY <3>1, <3>2, <3>4
  <2>3. CASE While(i)
    <3>1. i.op = "While" /\ code' \in {i.body \o code, Tail(code)} /\ next_state' = next_state
      BY <2>3 DEF While, Op, Control
    <3> QED BY <1>1, <1>5, <3>1 DEF SafeStatement
  <2>4. CASE If(i)
    <3>1. i.op = "If" /\ code' \in {i.body \o Tail(code), Tail(code)} /\ next_state' = next_state
      BY <2>4 DEF If, Op, Control
    <3> QED BY <1>1, <1>5, <3>1 DEF SafeStatement
  <2>5. CASE Exit(i)
    <3> DEFINE c == SubSeq(code, SelectInSeq(code, LAMBDA j : j.op = "While") + 1, Len(code))
    <3>1. i.op = "Exit" /\ code' = c /\ next_state' = next_state
      BY <2>5 DEF Exit, Op, Control
    <3>2. <<m, P, C, c>> \in Y
      BY <1>5, <3>1 DEF SafeStatement
    <3> HIDE DEF c
    <3> QED BY <1>1, <3>1, <3>2
  <2>6. CASE SetNextState(i)
    <3>1. i.op = "Next_State" /\ code' = Tail(code) /\ next_state' \in i.targets
      BY <2>6 DEF SetNextState, Op, Done
    <3> QED BY <1>5, <3>1 DEF SafeStatement
  <2> QED BY <2>1, <2>2, <2>3, <2>4, <2>5, <2>6
<1>7. Clean(<<m, P, C, code'>>, {})
  BY <1>5, <1>6
<1> QED BY <1>2, <1>3, <1>4, <1>6, <1>7, KeepStep

(* What a step that moves a buffer has to establish. *)
LEMMA MovedStep ==
  ASSUME Ownership, Kinds', BuffersConserved', next_state' = next_state, current' = current, outside' = outside,
         NEW m, NEW P, NEW C, NEW P1, NEW C1, m # "start", Covers(m, P, C), NEW Y, \A y \in Y : Clean(y, {}),
         <<m, P1, C1, code'>> \in Y, DOMAIN pointers' \subseteq P1, HeldContexts' \subseteq C1
  PROVE  Ownership'
<1>1. Clean(<<m, P1, C1, code'>>, {})
  OBVIOUS
<1>2. Covers(m, P1, C1)'
  BY DEF Covers
<1>3. CodeClean'
  BY <1>1, <1>2 DEF CodeClean
<1> QED BY <1>3 DEF Ownership

LEMMA AllocateStep == ASSUME Ownership, NEW i, Allocate(i) PROVE Ownership'
<1>1. Kinds /\ BuffersConserved /\ CodeClean
  BY DEF Ownership
<1>2. /\ code # <<>> /\ i = Head(code) /\ i.op = "Allocate" /\ code' = Tail(code) /\ contexts' = contexts
      /\ next_state' = next_state /\ current' = current /\ outside' = outside
      /\ slots' = [slots EXCEPT ![i.slot] = Null]
      /\ pointers' = IF slots[i.slot] = Null THEN Without(pointers, i.ptr) ELSE Put(pointers, i.ptr, slots[i.slot])
  BY DEF Allocate, Op, Done, Control
<1>3. PICK m, P, C, Y : Covers(m, P, C) /\ Next1(m, P, C, code, Y)
  BY <1>1, <1>2, CodeNext
<1>4. SafeStatement(m, P, C, i, code, Y) /\ \A y \in Y : Clean(y, {})
  BY <1>2, <1>3 DEF Next1
<1>5. /\ i.ptr \notin P /\ ~Foreign(i.ptr) /\ i.slot \in DOMAIN SlotSize /\ m # "start"
      /\ <<m, P \cup {i.ptr}, C, Tail(code)>> \in Y
  BY <1>2, <1>4 DEF SafeStatement
<1>6. HeldContexts' = HeldContexts /\ HeldContexts \subseteq C /\ DOMAIN pointers \subseteq P
  BY <1>2, <1>3 DEF HeldContexts, Covers
<1>7. CASE slots[i.slot] = Null
  <2>1. DOMAIN pointers' = DOMAIN pointers /\ \A n \in DOMAIN pointers : pointers'[n] = pointers[n]
    BY <1>2, <1>5, <1>6, <1>7 DEF Without
  <2>2. slots' = slots
    BY <1>1, <1>2, <1>7 DEF Kinds
  <2>3. SlotsHeld' = SlotsHeld
    BY <2>2 DEF SlotsHeld
  <2>4. Kinds'
    BY <1>1, <1>2, <2>1, <2>2 DEF Kinds
  <2>5. BuffersConserved'
    <3>1. \A x : x \in Held' <=> x \in Held
      BY <1>6, <2>1, <2>3, <1>2, PlacesNow, PlacesNext DEF HeldPlaces
    <3>2. \A x \in Held : BufferOf(x)' = BufferOf(x)
      BY <1>2, <2>1, <2>2, PlacesNow, PlacesNext DEF HeldPlaces
    <3>3. (\A x, y \in Held : BufferOf(x) = BufferOf(y) => x = y)'
      BY <1>1, <3>1, <3>2 DEF BuffersConserved
    <3>4. {BufferOf(x) : x \in Held}' = {BufferOf(x) : x \in Held}
      BY <3>1, <3>2
    <3>5. (\E x \in Held : BufferOf(x).id > 0)' <=> \E x \in Held : BufferOf(x).id > 0
      BY <3>1, <3>2
    <3> QED BY <1>1, <3>3, <3>4, <3>5 DEF BuffersConserved
  <2>6. DOMAIN pointers' \subseteq P \cup {i.ptr} /\ HeldContexts' \subseteq C
    BY <1>6, <2>1
  <2> QED BY <1>2, <1>3, <1>4, <1>5, <2>4, <2>5, <2>6, MovedStep
<1>8. CASE slots[i.slot] # Null
  <2>1. i.slot \in SlotsHeld /\ i.ptr \notin DOMAIN pointers
    BY <1>1, <1>5, <1>6, <1>8 DEF SlotsHeld, Kinds
  <2>2. pointers' = Put(pointers, i.ptr, slots[i.slot])
    BY <1>2, <1>8
  <2>3. BuffersConserved'
    BY <1>1, <1>2, <2>1, <2>2, SlotToPointer
  <2>4. slots[i.slot] \in Owned(i.ptr)
    BY <1>1, <1>5, <1>8 DEF Kinds, Owned
  <2>5. Kinds'
    <3>1. slots' \in [DOMAIN SlotSize -> {Null} \cup SlotMemory]
      BY <1>1, <1>2 DEF Kinds
    <3>2. \A n \in DOMAIN pointers' : pointers'[n] \in Owned(n)
      BY <1>1, <2>2, <2>4 DEF Kinds, Put
    <3> QED BY <1>1, <1>2, <3>1, <3>2 DEF Kinds
  <2>6. DOMAIN pointers' \subseteq P \cup {i.ptr} /\ HeldContexts' \subseteq C
    BY <1>6, <2>2 DEF Put
  <2> QED BY <1>2, <1>3, <1>4, <1>5, <2>3, <2>5, <2>6, MovedStep
<1> QED BY <1>7, <1>8

LEMMA FreeStep == ASSUME Ownership, NEW i, Free(i) PROVE Ownership'
<1>1. Kinds /\ BuffersConserved /\ CodeClean
  BY DEF Ownership
<1>2. /\ code # <<>> /\ i = Head(code) /\ i.op = "Free" /\ code' = Tail(code) /\ contexts' = contexts
      /\ next_state' = next_state /\ current' = current /\ outside' = outside
      /\ slots' = [slots EXCEPT ![i.slot] = pointers[i.ptr]] /\ pointers' = Without(pointers, i.ptr)
  BY DEF Free, Op, Done, Control
<1>3. slots[i.slot] = Null /\ i.ptr \in DOMAIN pointers
  BY <1>2 DEF Free, Op, Precondition, Pointer
<1>4. PICK m, P, C, Y : Covers(m, P, C) /\ Next1(m, P, C, code, Y)
  BY <1>1, <1>2, CodeNext
<1>5. SafeStatement(m, P, C, i, code, Y) /\ \A y \in Y : Clean(y, {})
  BY <1>2, <1>4 DEF Next1
<1>6. HeldContexts' = HeldContexts /\ HeldContexts \subseteq C /\ DOMAIN pointers \subseteq P
  BY <1>2, <1>4 DEF HeldContexts, Covers
<1>7. /\ ~Foreign(i.ptr) /\ i.slot \in DOMAIN SlotSize /\ m # "start"
      /\ <<m, P \ {i.ptr}, C, Tail(code)>> \in Y
  BY <1>2, <1>3, <1>5, <1>6 DEF SafeStatement
<1>8. pointers[i.ptr] \in SlotMemory /\ pointers[i.ptr] # Null
  BY <1>1, <1>3, <1>7, BufferKinds DEF Kinds, Owned
<1>9. BuffersConserved'
  <2>1. i.slot \in DOMAIN slots
    BY <1>1, <1>7 DEF Kinds
  <2> QED BY <1>1, <1>2, <1>3, <1>8, <2>1, PointerToSlot
<1>10. Kinds'
  <2>1. slots' \in [DOMAIN SlotSize -> {Null} \cup SlotMemory]
    BY <1>1, <1>2, <1>8 DEF Kinds
  <2>2. \A n \in DOMAIN pointers' : pointers'[n] \in Owned(n)
    BY <1>1, <1>2 DEF Kinds, Without
  <2> QED BY <1>1, <1>2, <2>1, <2>2 DEF Kinds
<1>11. DOMAIN pointers' \subseteq P \ {i.ptr} /\ HeldContexts' \subseteq C
  BY <1>2, <1>6 DEF Without
<1> QED BY <1>2, <1>4, <1>5, <1>7, <1>9, <1>10, <1>11, MovedStep

LEMMA InitializeStep == ASSUME Ownership, NEW i, InitializeContext(i) PROVE Ownership'
<1>1. Kinds /\ BuffersConserved /\ CodeClean
  BY DEF Ownership
<1> DEFINE b == pointers[i.ptr]
<1>2. /\ code # <<>> /\ i = Head(code) /\ i.op = "Initialize" /\ code' = Tail(code) /\ slots' = slots
      /\ next_state' = next_state /\ current' = current /\ outside' = outside
      /\ pointers' = Without(pointers, i.ptr)
      /\ \E last, written : contexts' = Put(contexts, i.ctx, Context(b, last, 0, written))
  BY DEF InitializeContext, Op, Done, Control
<1>3. i.ptr \in DOMAIN pointers
  BY <1>2 DEF InitializeContext, Op, Precondition, Pointer
<1>4. PICK m, P, C, Y : Covers(m, P, C) /\ Next1(m, P, C, code, Y)
  BY <1>1, <1>2, CodeNext
<1>5. SafeStatement(m, P, C, i, code, Y) /\ \A y \in Y : Clean(y, {})
  BY <1>2, <1>4 DEF Next1
<1>6. HeldContexts \subseteq C /\ DOMAIN pointers \subseteq P
  BY <1>4 DEF Covers
<1>7. /\ i.ctx \notin C /\ (Foreign(i.ctx) <=> Foreign(i.ptr)) /\ m # "start"
      /\ <<m, P \ {i.ptr}, C \cup {i.ctx}, Tail(code)>> \in Y
  BY <1>2, <1>3, <1>5, <1>6 DEF SafeStatement
<1>8. b \in Owned(i.ctx) /\ b # Null
  BY <1>1, <1>3, <1>7, BufferKinds DEF Kinds, Owned
<1>9. /\ DOMAIN contexts' = DOMAIN contexts \cup {i.ctx}
      /\ "buffer" \in DOMAIN contexts'[i.ctx] /\ contexts'[i.ctx].buffer = b
      /\ \A n \in DOMAIN contexts : n # i.ctx => contexts'[n] = contexts[n]
  BY <1>2 DEF Put, Context
<1> HIDE DEF b
<1>10. \A n : n \in HeldContexts' <=> n \in HeldContexts \/ n = i.ctx
  BY <1>6, <1>7, <1>8, <1>9 DEF HeldContexts
<1>11. i.ctx \notin HeldContexts /\ \A n \in HeldContexts : contexts'[n].buffer = contexts[n].buffer
  BY <1>6, <1>7, <1>9 DEF HeldContexts
<1>12. BuffersConserved'
  BY <1>1, <1>2, <1>3, <1>9, <1>10, <1>11, PointerToContext DEF b
<1>13. Kinds'
  <2>1. \A n \in DOMAIN pointers' : pointers'[n] \in Owned(n)
    BY <1>1, <1>2 DEF Kinds, Without
  <2>2. \A n \in DOMAIN contexts' : "buffer" \in DOMAIN contexts'[n] /\ contexts'[n].buffer \in {Null} \cup Owned(n)
    BY <1>1, <1>8, <1>9 DEF Kinds
  <2> QED BY <1>1, <1>2, <2>1, <2>2 DEF Kinds
<1>14. DOMAIN pointers' \subseteq P \ {i.ptr} /\ HeldContexts' \subseteq C \cup {i.ctx}
  BY <1>2, <1>6, <1>10 DEF Without
<1> QED BY <1>2, <1>4, <1>5, <1>7, <1>12, <1>13, <1>14, MovedStep

LEMMA TakeStep == ASSUME Ownership, NEW i, Take(i) PROVE Ownership'
<1>1. Kinds /\ BuffersConserved /\ CodeClean
  BY DEF Ownership
<1>2. /\ code # <<>> /\ i = Head(code) /\ i.op = "Take" /\ code' = Tail(code) /\ slots' = slots
      /\ next_state' = next_state /\ current' = current /\ outside' = outside
      /\ pointers' = Put(pointers, i.ptr, contexts[i.ctx].buffer) /\ contexts' = Without(contexts, i.ctx)
  BY DEF Take, Op, Done, Control
<1>3. i.ctx \in HeldContexts
  BY <1>2 DEF Take, Op, Precondition, HasBuffer, HeldContexts
<1>4. PICK m, P, C, Y : Covers(m, P, C) /\ Next1(m, P, C, code, Y)
  BY <1>1, <1>2, CodeNext
<1>5. SafeStatement(m, P, C, i, code, Y) /\ \A y \in Y : Clean(y, {})
  BY <1>2, <1>4 DEF Next1
<1>6. HeldContexts \subseteq C /\ DOMAIN pointers \subseteq P
  BY <1>4 DEF Covers
<1>7. /\ i.ptr \notin P /\ (Foreign(i.ctx) <=> Foreign(i.ptr)) /\ m # "start"
      /\ <<m, P \cup {i.ptr}, C \ {i.ctx}, Tail(code)>> \in Y
  BY <1>2, <1>3, <1>5, <1>6 DEF SafeStatement
<1>8. contexts[i.ctx].buffer \in Owned(i.ptr)
  BY <1>1, <1>3, <1>7 DEF Kinds, Owned, HeldContexts
<1>9. BuffersConserved'
  <2>1. i.ptr \notin DOMAIN pointers
    BY <1>6, <1>7
  <2> QED BY <1>1, <1>2, <1>3, <2>1, ContextToPointer
<1>10. Kinds'
  <2>1. \A n \in DOMAIN pointers' : pointers'[n] \in Owned(n)
    BY <1>1, <1>2, <1>8 DEF Kinds, Put
  <2>2. \A n \in DOMAIN contexts' : "buffer" \in DOMAIN contexts'[n] /\ contexts'[n].buffer \in {Null} \cup Owned(n)
    BY <1>1, <1>2 DEF Kinds, Without
  <2> QED BY <1>1, <1>2, <2>1, <2>2 DEF Kinds
<1>11. DOMAIN pointers' \subseteq P \cup {i.ptr} /\ HeldContexts' \subseteq C \ {i.ctx}
  BY <1>2, <1>6 DEF Put, Without, HeldContexts
<1> QED BY <1>2, <1>4, <1>5, <1>7, <1>9, <1>10, <1>11, MovedStep

LEMMA SwitchStep == ASSUME Ownership, NEW i, SwitchToElement(i) PROVE Ownership'
<1>1. Kinds /\ BuffersConserved /\ CodeClean
  BY DEF Ownership
<1> DEFINE space == contexts[i.seq].last - contexts[i.seq].used
           element == Context(contexts[i.seq].buffer, space, 0, space)
           emptied == [contexts EXCEPT ![i.seq].buffer = Null]
<1>2. /\ code # <<>> /\ i = Head(code) /\ i.op = "Switch" /\ code' = Tail(code) /\ slots' = slots
      /\ next_state' = next_state /\ current' = current /\ outside' = outside /\ pointers' = pointers
      /\ contexts' = Put(emptied, i.ctx, element)
  BY DEF SwitchToElement, Op, Done, Control
<1>3. i.seq \in HeldContexts
  BY <1>2 DEF SwitchToElement, Op, Precondition, HasBuffer, HeldContexts
<1>4. PICK m, P, C, Y : Covers(m, P, C) /\ Next1(m, P, C, code, Y)
  BY <1>1, <1>2, CodeNext
<1>5. SafeStatement(m, P, C, i, code, Y) /\ \A y \in Y : Clean(y, {})
  BY <1>2, <1>4 DEF Next1
<1>6. HeldContexts \subseteq C /\ DOMAIN pointers \subseteq P
  BY <1>4 DEF Covers
<1>7. /\ i.ctx \notin C /\ (Foreign(i.ctx) <=> Foreign(i.seq)) /\ m # "start"
      /\ <<m, P, (C \ {i.seq}) \cup {i.ctx}, Tail(code)>> \in Y
  BY <1>2, <1>3, <1>5, <1>6 DEF SafeStatement
<1> DEFINE b == contexts[i.seq].buffer
<1>8. b \in Owned(i.ctx) /\ b # Null
  BY <1>1, <1>3, <1>7 DEF Kinds, Owned, HeldContexts
<1>9. /\ DOMAIN emptied = DOMAIN contexts
      /\ "buffer" \in DOMAIN emptied[i.seq] /\ emptied[i.seq].buffer = Null
      /\ \A n \in DOMAIN contexts : n # i.seq => emptied[n] = contexts[n]
  BY <1>1, <1>3 DEF Kinds, HeldContexts
<1>10. "buffer" \in DOMAIN element /\ element.buffer = b
  BY DEF Context
<1> HIDE DEF emptied, element
<1>11. /\ DOMAIN contexts' = DOMAIN contexts \cup {i.ctx} /\ contexts'[i.ctx] = element
       /\ \A n \in DOMAIN contexts : n # i.ctx => contexts'[n] = emptied[n]
  BY <1>2, <1>9 DEF Put
<1>12. i.ctx \notin HeldContexts /\ i.ctx # i.seq
  BY <1>3, <1>6, <1>7
<1> HIDE DEF b
<1>13. \A n : n \in HeldContexts' <=> (n \in HeldContexts /\ n # i.seq) \/ n = i.ctx
  BY <1>3, <1>8, <1>9, <1>10, <1>11, <1>12 DEF HeldContexts
<1>14. \A n \in HeldContexts : n # i.seq => contexts'[n].buffer = contexts[n].buffer
  BY <1>9, <1>11, <1>12 DEF HeldContexts
<1>15. BuffersConserved'
  <2>1. contexts'[i.ctx].buffer = contexts[i.seq].buffer
    BY <1>10, <1>11 DEF b
  <2> QED BY <1>1, <1>2, <1>3, <1>12, <1>13, <1>14, <2>1, ContextToContext
<1>16. Kinds'
  <2>1. \A n \in DOMAIN contexts' : "buffer" \in DOMAIN contexts'[n] /\ contexts'[n].buffer \in {Null} \cup Owned(n)
    BY <1>1, <1>8, <1>9, <1>10, <1>11 DEF Kinds
  <2> QED BY <1>1, <1>2, <2>1 DEF Kinds
<1>17. DOMAIN pointers' \subseteq P /\ HeldContexts' \subseteq (C \ {i.seq}) \cup {i.ctx}
  BY <1>2, <1>6, <1>13
<1> QED BY <1>2, <1>4, <1>5, <1>7, <1>15, <1>16, <1>17, MovedStep

LEMMA UpdateStep == ASSUME Ownership, NEW i, Update(i) PROVE Ownership'
<1>1. Kinds /\ BuffersConserved /\ CodeClean
  BY DEF Ownership
<1> DEFINE b == contexts[i.ctx].buffer
           back == [contexts EXCEPT ![i.seq].buffer = b]
           used == back[i.seq].used + contexts[i.ctx].used
           longer == [back EXCEPT ![i.seq].used = used]
           invalid == [back EXCEPT ![i.seq].valid = FALSE]
<1>2. /\ code # <<>> /\ i = Head(code) /\ i.op = "Update" /\ code' = Tail(code) /\ slots' = slots
      /\ next_state' = next_state /\ current' = current /\ outside' = outside /\ pointers' = pointers
      /\ contexts' = Without(longer, i.ctx) \/ contexts' = Without(invalid, i.ctx)
  BY DEF Update, Op, Done, Control
<1>3. i.ctx \in HeldContexts /\ i.seq \in DOMAIN contexts /\ i.seq \notin HeldContexts
  BY <1>2 DEF Update, Op, Precondition, HasBuffer, HeldContexts
<1>4. PICK m, P, C, Y : Covers(m, P, C) /\ Next1(m, P, C, code, Y)
  BY <1>1, <1>2, CodeNext
<1>5. SafeStatement(m, P, C, i, code, Y) /\ \A y \in Y : Clean(y, {})
  BY <1>2, <1>4 DEF Next1
<1>6. HeldContexts \subseteq C /\ DOMAIN pointers \subseteq P
  BY <1>4 DEF Covers
<1>7. /\ i.ctx # i.seq /\ (Foreign(i.ctx) <=> Foreign(i.seq)) /\ m # "start"
      /\ <<m, P, (C \ {i.ctx}) \cup {i.seq}, Tail(code)>> \in Y
  BY <1>2, <1>3, <1>5, <1>6 DEF SafeStatement
<1>8. b \in Owned(i.seq) /\ b # Null
  BY <1>1, <1>3, <1>7 DEF Kinds, Owned, HeldContexts
<1>9. "buffer" \in DOMAIN contexts[i.seq]
  BY <1>1, <1>3 DEF Kinds
<1> HIDE DEF b
<1>10. /\ DOMAIN back = DOMAIN contexts
       /\ "buffer" \in DOMAIN back[i.seq] /\ back[i.seq].buffer = b
       /\ \A n \in DOMAIN contexts : n # i.seq => back[n] = contexts[n]
  BY <1>3, <1>9
<1> HIDE DEF back, used
<1>11. /\ DOMAIN longer = DOMAIN contexts
       /\ "buffer" \in DOMAIN longer[i.seq] /\ longer[i.seq].buffer = b
       /\ \A n \in DOMAIN contexts : n # i.seq => longer[n] = contexts[n]
  BY <1>3, <1>10
<1>12. /\ DOMAIN invalid = DOMAIN contexts
       /\ "buffer" \in DOMAIN invalid[i.seq] /\ invalid[i.seq].buffer = b
       /\ \A n \in DOMAIN contexts : n # i.seq => invalid[n] = contexts[n]
  BY <1>3, <1>10
<1> HIDE DEF longer, invalid
<1>13. /\ DOMAIN contexts' = DOMAIN contexts \ {i.ctx}
       /\ "buffer" \in DOMAIN contexts'[i.seq] /\ contexts'[i.seq].buffer = b
       /\ \A n \in DOMAIN contexts : n # i.seq /\ n # i.ctx => contexts'[n] = contexts[n]
  <2>1. CASE contexts' = Without(longer, i.ctx)
    BY <1>3, <1>7, <1>11, <2>1 DEF Without
  <2>2. CASE contexts' = Without(invalid, i.ctx)
    BY <1>3, <1>7, <1>12, <2>2 DEF Without
  <2> QED BY <1>2, <2>1, <2>2
<1>14. \A n : n \in HeldContexts' <=> (n \in HeldContexts /\ n # i.ctx) \/ n = i.seq
  BY <1>3, <1>7, <1>8, <1>13 DEF HeldContexts
<1>15. \A n \in HeldContexts : n # i.ctx => contexts'[n].buffer = contexts[n].buffer
  BY <1>3, <1>13 DEF HeldContexts
<1>16. BuffersConserved'
  <2>1. contexts'[i.seq].buffer = contexts[i.ctx].buffer
    BY <1>13 DEF b
  <2> QED BY <1>1, <1>2, <1>3, <1>14, <1>15, <2>1, ContextToContext
<1>17. Kinds'
  <2>1. \A n \in DOMAIN contexts' : "buffer" \in DOMAIN contexts'[n] /\ contexts'[n].buffer \in {Null} \cup Owned(n)
    BY <1>1, <1>8, <1>13 DEF Kinds
  <2> QED BY <1>1, <1>2, <2>1 DEF Kinds
<1>18. DOMAIN pointers' \subseteq P /\ HeldContexts' \subseteq (C \ {i.ctx}) \cup {i.seq}
  BY <1>2, <1>6, <1>14
<1> QED BY <1>2, <1>4, <1>5, <1>7, <1>16, <1>17, <1>18, MovedStep

LEMMA MoveStep == ASSUME Ownership, NEW i, Move(i) PROVE Ownership'
<1>1. Kinds /\ BuffersConserved /\ CodeClean
  BY DEF Ownership
<1>2. /\ code # <<>> /\ i = Head(code) /\ i.op = "Move" /\ code' = Tail(code) /\ slots' = slots
      /\ next_state' = next_state /\ current' = current /\ outside' = outside /\ pointers' = pointers
      /\ contexts' = Put(Without(contexts, i.from), i.to, contexts[i.from])
  BY DEF Move, Op, Done, Control
<1>3. i.from \in HeldContexts
  BY <1>2 DEF Move, Op, Precondition, HasBuffer, HeldContexts
<1>4. PICK m, P, C, Y : Covers(m, P, C) /\ Next1(m, P, C, code, Y)
  BY <1>1, <1>2, CodeNext
<1>5. SafeStatement(m, P, C, i, code, Y) /\ \A y \in Y : Clean(y, {})
  BY <1>2, <1>4 DEF Next1
<1>6. HeldContexts \subseteq C /\ DOMAIN pointers \subseteq P
  BY <1>4 DEF Covers
<1>7. /\ i.to \notin C /\ (Foreign(i.from) <=> Foreign(i.to)) /\ m # "start"
      /\ <<m, P, (C \ {i.from}) \cup {i.to}, Tail(code)>> \in Y
  BY <1>2, <1>3, <1>5, <1>6 DEF SafeStatement
<1>8. i.to \notin HeldContexts /\ i.to # i.from
  BY <1>3, <1>6, <1>7
<1>9. /\ DOMAIN contexts' = (DOMAIN contexts \ {i.from}) \cup {i.to} /\ contexts'[i.to] = contexts[i.from]
      /\ \A n \in DOMAIN contexts : n # i.from /\ n # i.to => contexts'[n] = contexts[n]
  BY <1>2 DEF Put, Without
<1>10. /\ "buffer" \in DOMAIN contexts[i.from] /\ contexts[i.from].buffer \in Owned(i.to)
       /\ contexts[i.from].buffer # Null
  BY <1>1, <1>3, <1>7 DEF Kinds, Owned, HeldContexts
<1>11. \A n : n \in HeldContexts' <=> (n \in HeldContexts /\ n # i.from) \/ n = i.to
  BY <1>3, <1>8, <1>9, <1>10 DEF HeldContexts
<1>12. \A n \in HeldContexts : n # i.from => contexts'[n].buffer = contexts[n].buffer
  BY <1>8, <1>9 DEF HeldContexts
<1>13. BuffersConserved'
  <2>1. contexts'[i.to].buffer = contexts[i.from].buffer
    BY <1>9
  <2> QED BY <1>1, <1>2, <1>3, <1>8, <1>11, <1>12, <2>1, ContextToContext
<1>14. Kinds'
  <2>1. \A n \in DOMAIN contexts' : "buffer" \in DOMAIN contexts'[n] /\ contexts'[n].buffer \in {Null} \cup Owned(n)
    BY <1>1, <1>9, <1>10 DEF Kinds
  <2> QED BY <1>1, <1>2, <2>1 DEF Kinds
<1>15. DOMAIN pointers' \subseteq P /\ HeldContexts' \subseteq (C \ {i.from}) \cup {i.to}
  BY <1>2, <1>6, <1>11
<1> QED BY <1>2, <1>4, <1>5, <1>7, <1>13, <1>14, <1>15, MovedStep

LEMMA EndOfTickStep == ASSUME Ownership, NEW i, ResetMessagesBeforeWrite(i) PROVE Ownership'
<1>1. Kinds /\ BuffersConserved /\ CodeClean /\ next_state \in States
  BY DEF Ownership
<1> DEFINE kept == DOMAIN contexts \cap GlobalContexts
<1>2. /\ code # <<>> /\ i = Head(code) /\ i.op = "End_Of_Tick" /\ code' = Tail(code) /\ slots' = slots
      /\ next_state' = next_state /\ current' = "" /\ outside' = outside /\ pointers' = pointers
      /\ \E reads : contexts' = [n \in kept |->
                        IF n \in reads THEN Context(contexts[n].buffer, 0, 0, 0) ELSE contexts[n]]
  BY DEF ResetMessagesBeforeWrite, Op, Done, GlobalContexts
<1>3. PICK m, P, C, Y : Covers(m, P, C) /\ Next1(m, P, C, code, Y)
  BY <1>1, <1>2, CodeNext
<1>4. SafeStatement(m, P, C, i, code, Y) /\ \A y \in Y : Clean(y, {})
  BY <1>2, <1>3 DEF Next1
<1>5. C \subseteq GlobalContexts /\ <<"call", P, C, Tail(code)>> \in Y
  BY <1>2, <1>4 DEF SafeStatement
<1>6. HeldContexts \subseteq kept /\ HeldContexts \subseteq C /\ DOMAIN pointers \subseteq P
  BY <1>3, <1>5 DEF Covers, HeldContexts
<1>7. /\ DOMAIN contexts' = kept
      /\ \A n \in kept : "buffer" \in DOMAIN contexts'[n] /\ contexts'[n].buffer = contexts[n].buffer
  <2>1. PICK reads : contexts' = [n \in kept |->
                        IF n \in reads THEN Context(contexts[n].buffer, 0, 0, 0) ELSE contexts[n]]
    BY <1>2
  <2>2. \A b : "buffer" \in DOMAIN Context(b, 0, 0, 0) /\ Context(b, 0, 0, 0).buffer = b
    BY DEF Context
  <2>3. \A n \in kept : "buffer" \in DOMAIN contexts[n]
    BY <1>1 DEF Kinds
  <2> HIDE DEF kept
  <2>4. DOMAIN contexts' = kept
    BY <2>1
  <2>5. ASSUME NEW n \in kept PROVE "buffer" \in DOMAIN contexts'[n] /\ contexts'[n].buffer = contexts[n].buffer
    <3>1. CASE n \in reads
      <4>1. contexts'[n] = Context(contexts[n].buffer, 0, 0, 0)
        BY <2>1, <3>1
      <4> QED BY <2>2, <4>1
    <3>2. CASE n \notin reads
      BY <2>1, <2>3, <3>2
    <3> QED BY <3>1, <3>2
  <2> QED BY <2>4, <2>5
<1>8. HeldContexts' = HeldContexts /\ \A n \in HeldContexts : contexts'[n].buffer = contexts[n].buffer
  BY <1>6, <1>7 DEF HeldContexts
<1>9. BuffersConserved'
  BY <1>1, <1>2, <1>8, KeepConserves
<1>10. Kinds'
  BY <1>1, <1>2, <1>7 DEF Kinds
<1>11. Clean(<<"call", P, C, code'>>, {})
  BY <1>2, <1>4, <1>5
<1>12. Covers("call", P, C)'
  BY <1>2, <1>6, <1>8 DEF Covers
<1>13. CodeClean'
  BY <1>11, <1>12 DEF CodeClean
<1> QED BY <1>1, <1>2, <1>9, <1>10, <1>13 DEF Ownership

(* Only external buffers are held before the memory is set up. *)
LEMMA AllocatorInitializeStep == ASSUME Ownership, NEW i, AllocatorInitialize(i) PROVE Ownership'
<1>1. Kinds /\ BuffersConserved /\ CodeClean /\ next_state \in States
  BY DEF Ownership
<1>2. /\ code # <<>> /\ i = Head(code) /\ i.op = "Allocator_Initialize" /\ code' = Tail(code)
      /\ slots' = [k \in DOMAIN SlotSize |-> Memory(k)] /\ contexts' = contexts
      /\ next_state' = next_state /\ current' = current /\ outside' = outside /\ pointers' = pointers
  BY DEF AllocatorInitialize, Op, Done, Control
<1>3. PICK m, P, C, Y : Covers(m, P, C) /\ Next1(m, P, C, code, Y)
  BY <1>1, <1>2, CodeNext
<1>4. SafeStatement(m, P, C, i, code, Y) /\ \A y \in Y : Clean(y, {})
  BY <1>2, <1>3 DEF Next1
<1>5. m = "start" /\ (\A n \in P : Foreign(n)) /\ C = {} /\ <<"call", P, C, Tail(code)>> \in Y
  BY <1>2, <1>4 DEF SafeStatement
<1>6. SlotsHeld = {} /\ HeldContexts = {} /\ \A n \in DOMAIN pointers : pointers[n] \in ExternalBuffers
  BY <1>1, <1>3, <1>5 DEF Covers, Kinds, Owned
<1>7. \A h \in Held : BufferOf(h) \in ExternalBuffers
  BY <1>1, <1>6, PlacesNow DEF HeldPlaces, Kinds
<1>8. {BufferOf(h) : h \in Held} = ExternalBuffers
  <2>1. ~ \E h \in Held : BufferOf(h).id > 0
    BY <1>7, BufferKinds
  <2> QED BY <1>1, <2>1 DEF BuffersConserved
<1>9. HeldContexts' = {} /\ \A k \in DOMAIN SlotSize : slots'[k] = Memory(k) /\ Memory(k) \in SlotMemory
  BY <1>2, <1>6 DEF HeldContexts, SlotMemory
<1>10. SlotsHeld' = DOMAIN SlotSize
  BY <1>2, <1>9, BufferKinds DEF SlotsHeld
<1>11. Kinds'
  BY <1>1, <1>2, <1>9 DEF Kinds
<1>12. BuffersConserved'
  <2>1. \A x : x \in Held' <=> x \in Held \/ \E k \in DOMAIN SlotSize : x = <<"slot", k>>
    BY <1>2, <1>6, <1>9, <1>10, PlacesNow, PlacesNext DEF HeldPlaces
  <2>2. \A x \in Held : BufferOf(x)' = BufferOf(x)
    BY <1>2, <1>6, PlacesNow, PlacesNext DEF HeldPlaces
  <2>3. \A k \in DOMAIN SlotSize : BufferOf(<<"slot", k>>)' = Memory(k)
    BY <1>9, PlacesNext DEF HeldPlaces
  <2>4. \A j, k \in DOMAIN SlotSize : Memory(j) = Memory(k) => j = k
    BY DEF Memory
  <2>5. SlotMemory \cap ExternalBuffers = {} /\ \A b \in SlotMemory : b.id > 0
    BY BufferKinds
  <2>6. ASSUME NEW g \in Held', NEW h \in Held', BufferOf(g)' = BufferOf(h)' PROVE g = h
    <3>1. CASE g \in Held /\ h \in Held
      BY <1>1, <2>2, <2>6, <3>1 DEF BuffersConserved
    <3>2. CASE g \notin Held /\ h \notin Held
      BY <2>1, <2>3, <2>4, <2>6, <3>2
    <3>3. CASE g \in Held /\ h \notin Held
      BY <1>7, <1>9, <2>1, <2>2, <2>3, <2>5, <2>6, <3>3
    <3>4. CASE g \notin Held /\ h \in Held
      BY <1>7, <1>9, <2>1, <2>2, <2>3, <2>5, <2>6, <3>4
    <3> QED BY <3>1, <3>2, <3>3, <3>4
  <2>7. {BufferOf(h) : h \in Held}' = ExternalBuffers \cup SlotMemory
    <3>1. ASSUME NEW b \in {BufferOf(h) : h \in Held}' PROVE b \in ExternalBuffers \cup SlotMemory
      BY <1>7, <1>9, <2>1, <2>2, <2>3
    <3>2. ASSUME NEW b \in ExternalBuffers PROVE b \in {BufferOf(h) : h \in Held}'
      <4>1. PICK h \in Held : b = BufferOf(h)
        BY <1>8
      <4> QED BY <2>1, <2>2, <4>1
    <3>3. ASSUME NEW b \in SlotMemory PROVE b \in {BufferOf(h) : h \in Held}'
      <4>1. PICK k \in DOMAIN SlotSize : b = Memory(k)
        BY DEF SlotMemory
      <4>2. <<"slot", k>> \in Held'
        BY <2>1
      <4> QED BY <2>3, <4>1, <4>2
    <3> QED BY <3>1, <3>2, <3>3
  <2>8. (\E h \in Held : BufferOf(h).id > 0)' \/ SlotMemory = {}
    <3>1. ASSUME NEW b \in SlotMemory PROVE (\E h \in Held : BufferOf(h).id > 0)'
      <4>1. PICK k \in DOMAIN SlotSize : b = Memory(k)
        BY DEF SlotMemory
      <4>2. <<"slot", k>> \in Held' /\ BufferOf(<<"slot", k>>)'.id > 0
        BY <2>1, <2>3, <2>5, <4>1
      <4> QED BY <4>2
    <3> QED BY <3>1
  <2> QED BY <2>6, <2>7, <2>8 DEF BuffersConserved, SlotMemory
<1>13. Clean(<<"call", P, C, code'>>, {})
  BY <1>2, <1>4, <1>5
<1>14. Covers("call", P, C)'
  BY <1>2, <1>3, <1>9 DEF Covers
<1>15. CodeClean'
  BY <1>13, <1>14 DEF CodeClean
<1> QED BY <1>1, <1>2, <1>11, <1>12, <1>15 DEF Ownership

(* The external buffers are all in pointers when the memory goes away. *)
LEMMA AllocatorFinalizeStep == ASSUME Ownership, NEW i, AllocatorFinalize(i) PROVE Ownership'
<1>1. Kinds /\ BuffersConserved /\ CodeClean /\ next_state \in States
  BY DEF Ownership
<1>2. /\ code # <<>> /\ i = Head(code) /\ i.op = "Allocator_Finalize" /\ code' = Tail(code)
      /\ slots' = [k \in DOMAIN SlotSize |-> Null] /\ contexts' = contexts
      /\ next_state' = next_state /\ current' = current
      /\ outside' = {pointers[n] : n \in DOMAIN pointers} /\ pointers' = <<>>
  BY DEF AllocatorFinalize, Op, Done
<1>3. PICK m, P, C, Y : Covers(m, P, C) /\ Next1(m, P, C, code, Y)
  BY <1>1, <1>2, CodeNext
<1>4. SafeStatement(m, P, C, i, code, Y) /\ \A y \in Y : Clean(y, {})
  BY <1>2, <1>3 DEF Next1
<1>5. m = "stop" /\ (\A n \in P : Foreign(n)) /\ C = {} /\ <<"call", {}, C, Tail(code)>> \in Y
  BY <1>2, <1>4 DEF SafeStatement
<1>6. outside = {} /\ HeldContexts = {} /\ \A n \in DOMAIN pointers : pointers[n] \in ExternalBuffers
  BY <1>1, <1>3, <1>5 DEF Covers, Kinds, Owned
<1>7. outside' = ExternalBuffers
  <2>1. ASSUME NEW b \in ExternalBuffers PROVE \E n \in DOMAIN pointers : b = pointers[n]
    <3>1. PICK h \in Held : b = BufferOf(h)
      BY <1>1, <2>1 DEF BuffersConserved
    <3>2. CASE \E j \in SlotsHeld : h = <<"slot", j>>
      <4>1. PICK j \in SlotsHeld : h = <<"slot", j>>
        BY <3>2
      <4>2. b = slots[j] /\ slots[j] \in SlotMemory
        BY <1>1, <3>1, <4>1, PlacesNow DEF HeldPlaces, Kinds, SlotsHeld
      <4> QED BY <4>2, BufferKinds
    <3>3. CASE \E n \in DOMAIN pointers : h = <<"pointer", n>>
      BY <3>1, <3>3, PlacesNow DEF HeldPlaces
    <3> QED BY <1>6, <3>2, <3>3, PlacesNow DEF HeldPlaces
  <2> QED BY <1>2, <1>6, <2>1
<1>8. SlotsHeld' = {} /\ HeldContexts' = {} /\ DOMAIN pointers' = {}
  BY <1>2, <1>6 DEF SlotsHeld, HeldContexts
<1>9. Kinds'
  BY <1>1, <1>2, <1>7, <1>8 DEF Kinds
<1>10. BuffersConserved'
  <2>1. \A x : x \in Held' <=> \E b \in ExternalBuffers : x = <<"outside", b>>
    BY <1>7, <1>8, PlacesNext DEF HeldPlaces
  <2>2. \A b : BufferOf(<<"outside", b>>)' = b
    BY PlacesNext DEF HeldPlaces
  <2>3. {BufferOf(h) : h \in Held}' = ExternalBuffers
    BY <2>1, <2>2
  <2>4. ~(\E h \in Held : BufferOf(h).id > 0)'
    BY <2>1, <2>2, BufferKinds
  <2>5. (\A g, h \in Held : BufferOf(g) = BufferOf(h) => g = h)'
    BY <2>1, <2>2
  <2> QED BY <2>3, <2>4, <2>5 DEF BuffersConserved
<1>11. Clean(<<"call", {}, C, code'>>, {})
  BY <1>2, <1>4, <1>5
<1>12. Covers("call", {}, C)'
  BY <1>8 DEF Covers
<1>13. CodeClean'
  BY <1>11, <1>12 DEF CodeClean
<1> QED BY <1>1, <1>2, <1>9, <1>10, <1>13 DEF Ownership

-----------------------------------------------------------------------------
(* The calls of the application. *)

LEMMA ExecuteStep ==
  ASSUME Ownership, code = <<>>, ExecuteState PROVE Ownership'
<1>1. Kinds /\ BuffersConserved /\ next_state \in States /\ CodeClean
  BY DEF Ownership
<1> DEFINE c == IF Active THEN fsm.states[next_state] ELSE <<>>
<1>2. /\ code' = c \o EndOfTick /\ current' = next_state /\ next_state' = next_state /\ slots' = slots
      /\ pointers' = pointers /\ contexts' = contexts /\ outside' = outside
  BY DEF ExecuteState, Memories
<1>3. c = <<>> \/ \E s \in States : c = fsm.states[s]
  BY <1>1
<1> HIDE DEF c
<1>4. SameMemory
  BY <1>1, <1>2, SameContextsUnchanged DEF SameMemory
<1>5. Kinds' /\ BuffersConserved' /\ HeldContexts' = HeldContexts
  BY <1>1, <1>4, MemoryKept
<1>6. DOMAIN pointers = {} /\ HeldContexts \subseteq GlobalContexts
  BY <1>1, CodeIdle
<1>7. Clean(<<"tick", {}, GlobalContexts, code'>>, {})
  BY <1>2, <1>3, CleanTick
<1>8. Covers("tick", {}, GlobalContexts)'
  BY <1>1, <1>2, <1>5, <1>6 DEF Covers, GlobalContexts
<1>9. CodeClean'
  BY <1>7, <1>8 DEF CodeClean
<1> QED BY <1>1, <1>2, <1>5, <1>9 DEF Ownership

(* A call that returns at once. *)
LEMMA ReturnStep ==
  ASSUME Kinds', BuffersConserved', next_state' \in States, code' = <<>>,
         DOMAIN pointers' = {}, HeldContexts' \subseteq GlobalContexts
  PROVE  Ownership'
<1>1. Clean(<<"call", {}, GlobalContexts, code'>>, {})
  BY CleanReturn
<1>2. Covers("call", {}, GlobalContexts)'
  BY DEF Covers, GlobalContexts
<1>3. CodeClean'
  BY <1>1, <1>2 DEF CodeClean
<1> QED BY <1>3 DEF Ownership

LEMMA WriteStep ==
  ASSUME Ownership, NEW c, NEW v, NEW offset, NEW size, Write(c, v, offset, size) PROVE Ownership'
<1>1. Kinds /\ BuffersConserved /\ next_state \in States /\ CodeClean
  BY DEF Ownership
<1>2. /\ code = <<>> /\ code' = code /\ next_state' = next_state /\ slots' = slots /\ pointers' = pointers
      /\ outside' = outside
      /\ contexts' = [contexts EXCEPT ![Ctx(v)] = Context(contexts[Ctx(v)].buffer, contexts[Ctx(v)].buffer.length, 0, offset + size)]
  BY DEF Write, Idle
<1>3. SameMemory
  BY <1>1, <1>2, SameContextsReplaced DEF SameMemory
<1>4. Kinds' /\ BuffersConserved' /\ HeldContexts' = HeldContexts
  BY <1>1, <1>3, MemoryKept
<1>5. DOMAIN pointers = {} /\ HeldContexts \subseteq GlobalContexts
  BY <1>1, <1>2, CodeIdle
<1> QED BY <1>1, <1>2, <1>4, <1>5, ReturnStep

LEMMA ExternalIsGlobal == \A v \in external_io_buffers : Ctx(v) \in GlobalContexts /\ Foreign(Ctx(v))
BY ExternalGlobals, ExternalForeign DEF GlobalContexts, ExternalContexts

LEMMA AddBufferStep ==
  ASSUME Ownership, NEW v \in external_io_buffers, NEW b \in outside, NEW size, AddBuffer(v, b, size)
  PROVE  Ownership'
<1>1. Kinds /\ BuffersConserved /\ next_state \in States /\ CodeClean
  BY DEF Ownership
<1> DEFINE n == Ctx(v)
           x == Context(b, b.length, 0, size)
<1>2. /\ code = <<>> /\ code' = code /\ next_state' = next_state /\ slots' = slots /\ pointers' = pointers
      /\ outside' = outside \ {b} /\ contexts' = Put(contexts, n, x) /\ n \notin HeldContexts
  BY DEF AddBuffer, Idle, HasBuffer, HeldContexts
<1>3. "buffer" \in DOMAIN x /\ x.buffer = b
  BY DEF Context
<1>4. n \in GlobalContexts /\ b \in Owned(n) /\ b # Null
  BY <1>1, ExternalIsGlobal, BufferKinds DEF Kinds, Owned
<1> HIDE DEF n, x
<1>5. /\ DOMAIN contexts' = DOMAIN contexts \cup {n} /\ contexts'[n] = x
      /\ \A m \in DOMAIN contexts : m # n => contexts'[m] = contexts[m]
  BY <1>2 DEF Put
<1>6. \A m : m \in HeldContexts' <=> m \in HeldContexts \/ m = n
  BY <1>2, <1>3, <1>4, <1>5 DEF HeldContexts
<1>7. \A m \in HeldContexts : contexts'[m].buffer = contexts[m].buffer
  BY <1>2, <1>5 DEF HeldContexts
<1>8. BuffersConserved'
  <2>1. contexts'[n].buffer = b
    BY <1>3, <1>5
  <2> QED BY <1>1, <1>2, <1>6, <1>7, <2>1, OutsideToContext
<1>9. Kinds'
  <2>1. \A m \in DOMAIN contexts' : "buffer" \in DOMAIN contexts'[m] /\ contexts'[m].buffer \in {Null} \cup Owned(m)
    BY <1>1, <1>3, <1>4, <1>5 DEF Kinds
  <2> QED BY <1>1, <1>2, <2>1 DEF Kinds
<1>10. DOMAIN pointers = {} /\ HeldContexts \subseteq GlobalContexts
  BY <1>1, <1>2, CodeIdle
<1> QED BY <1>1, <1>2, <1>4, <1>6, <1>8, <1>9, <1>10, ReturnStep

LEMMA RemoveBufferStep ==
  ASSUME Ownership, NEW v \in external_io_buffers, RemoveBuffer(v) PROVE Ownership'
<1>1. Kinds /\ BuffersConserved /\ next_state \in States /\ CodeClean
  BY DEF Ownership
<1> DEFINE n == Ctx(v)
<1>2. /\ code = <<>> /\ code' = code /\ next_state' = next_state /\ slots' = slots /\ pointers' = pointers
      /\ outside' = outside \cup {contexts[n].buffer} /\ contexts' = Without(contexts, n) /\ n \in HeldContexts
  BY DEF RemoveBuffer, Idle, HasBuffer, HeldContexts
<1>3. contexts[n].buffer \in ExternalBuffers
  BY <1>1, <1>2, ExternalIsGlobal DEF Kinds, Owned, HeldContexts
<1> HIDE DEF n
<1>4. BuffersConserved'
  <2>1. PICK b : b = contexts[n].buffer
    OBVIOUS
  <2> QED BY <1>1, <1>2, <2>1, ContextToOutside
<1>5. Kinds'
  <2>1. \A m \in DOMAIN contexts' : "buffer" \in DOMAIN contexts'[m] /\ contexts'[m].buffer \in {Null} \cup Owned(m)
    BY <1>1, <1>2 DEF Kinds, Without
  <2> QED BY <1>1, <1>2, <1>3, <2>1 DEF Kinds
<1>6. HeldContexts' \subseteq HeldContexts
  BY <1>2 DEF HeldContexts, Without
<1>7. DOMAIN pointers = {} /\ HeldContexts \subseteq GlobalContexts
  BY <1>1, <1>2, CodeIdle
<1> QED BY <1>1, <1>2, <1>4, <1>5, <1>6, <1>7, ReturnStep

(* The application hands over one of its buffers for each external message. *)
LEMMA InitializeCall == ASSUME Ownership, Initialize PROVE Ownership'
<1>1. Kinds /\ BuffersConserved /\ next_state \in States /\ CodeClean
  BY DEF Ownership
<1>2. /\ code = <<>> /\ code' = fsm.initialize /\ next_state' = next_state /\ slots' = slots
      /\ contexts' = contexts /\ Uninitialized
  BY DEF Initialize, Idle
<1>3. PICK f \in [external_io_buffers -> outside] :
           /\ \A v, w \in external_io_buffers : f[v] = f[w] => v = w
           /\ pointers' = [n \in ExternalContexts |-> f[n[2]]]
           /\ outside' = outside \ {f[v] : v \in external_io_buffers}
  BY DEF Initialize, ExternalContexts
<1>4. DOMAIN pointers = {} /\ SlotsHeld = {} /\ HeldContexts = {}
  <2>1. DOMAIN pointers = {} /\ HeldContexts \subseteq GlobalContexts
    BY <1>1, <1>2, CodeIdle
  <2>2. HeldContexts = {}
    BY <1>2, <2>1 DEF Uninitialized, HasBuffer, HeldContexts, GlobalContexts
  <2> QED BY <1>2, <2>1, <2>2 DEF Uninitialized, SlotsHeld
<1>5. SlotsHeld' = {} /\ HeldContexts' = {}
  BY <1>2, <1>4 DEF SlotsHeld, HeldContexts
<1>6. outside = ExternalBuffers
  <2>1. \A x : x \in Held <=> \E b \in outside : x = <<"outside", b>>
    BY <1>4, PlacesNow DEF HeldPlaces
  <2>2. \A b : BufferOf(<<"outside", b>>) = b
    BY PlacesNow DEF HeldPlaces
  <2>3. {BufferOf(h) : h \in Held} = outside
    BY <2>1, <2>2
  <2>4. ~ \E h \in Held : BufferOf(h).id > 0
    BY <1>1, <2>1, <2>2, BufferKinds DEF Kinds
  <2> QED BY <1>1, <2>3, <2>4 DEF BuffersConserved
<1>7. \A v \in external_io_buffers : /\ Ctx(v) \in ExternalContexts /\ Foreign(Ctx(v))
                                     /\ pointers'[Ctx(v)] = f[v] /\ f[v] \in ExternalBuffers
  BY <1>3, <1>6, ExternalIsGlobal DEF ExternalContexts, Ctx
<1>8. DOMAIN pointers' = ExternalContexts /\ \A n \in ExternalContexts : \E v \in external_io_buffers : n = Ctx(v)
  BY <1>3 DEF ExternalContexts
<1>9. Kinds'
  <2>1. \A n \in DOMAIN pointers' : pointers'[n] \in Owned(n)
    BY <1>7, <1>8 DEF Owned
  <2> QED BY <1>1, <1>2, <1>3, <2>1 DEF Kinds
<1>10. BuffersConserved'
  <2>1. \A x : x \in Held' <=> \/ \E v \in external_io_buffers : x = <<"pointer", Ctx(v)>>
                               \/ \E b \in outside' : x = <<"outside", b>>
    BY <1>5, <1>7, <1>8, PlacesNext DEF HeldPlaces
  <2>2. /\ \A v \in external_io_buffers : BufferOf(<<"pointer", Ctx(v)>>)' = f[v]
        /\ \A b : BufferOf(<<"outside", b>>)' = b
    BY <1>7, PlacesNext DEF HeldPlaces
  <2>3. \A b : b \in outside' <=> b \in ExternalBuffers /\ \A v \in external_io_buffers : b # f[v]
    BY <1>3, <1>6
  <2>4. \A x \in Held' : BufferOf(x)' \in ExternalBuffers
    BY <1>7, <2>1, <2>2, <2>3
  <2>5. ASSUME NEW b \in ExternalBuffers PROVE \E x \in Held' : BufferOf(x)' = b
    <3>1. CASE b \in outside'
      BY <2>1, <2>2, <3>1
    <3>2. CASE b \notin outside'
      <4>1. PICK v \in external_io_buffers : b = f[v]
        BY <2>3, <3>2
      <4>2. <<"pointer", Ctx(v)>> \in Held'
        BY <2>1
      <4> QED BY <2>2, <4>1, <4>2
    <3> QED BY <3>1, <3>2
  <2>6. ASSUME NEW g \in Held', NEW h \in Held', BufferOf(g)' = BufferOf(h)' PROVE g = h
    <3>1. CASE (\E v \in external_io_buffers : g = <<"pointer", Ctx(v)>>) /\
               (\E v \in external_io_buffers : h = <<"pointer", Ctx(v)>>)
      BY <1>3, <2>2, <2>6, <3>1
    <3>2. CASE (\E b \in outside' : g = <<"outside", b>>) /\ (\E b \in outside' : h = <<"outside", b>>)
      BY <2>2, <2>6, <3>2
    <3>3. CASE (\E v \in external_io_buffers : g = <<"pointer", Ctx(v)>>) /\ (\E b \in outside' : h = <<"outside", b>>)
      BY <2>2, <2>3, <2>6, <3>3
    <3>4. CASE (\E b \in outside' : g = <<"outside", b>>) /\ (\E v \in external_io_buffers : h = <<"pointer", Ctx(v)>>)
      BY <2>2, <2>3, <2>6, <3>4
    <3> QED BY <2>1, <3>1, <3>2, <3>3, <3>4
  <2>7. {BufferOf(x) : x \in Held}' = ExternalBuffers
    BY <2>4, <2>5
  <2>8. ~(\E x \in Held : BufferOf(x).id > 0)'
    BY <2>4, BufferKinds
  <2> QED BY <2>6, <2>7, <2>8 DEF BuffersConserved
<1>11. Clean(<<"start", ExternalContexts, {}, code'>>, {})
  BY <1>2, CleanInitialize
<1>12. Covers("start", ExternalContexts, {})'
  BY <1>5, <1>8 DEF Covers, ExternalContexts
<1>13. CodeClean'
  BY <1>11, <1>12 DEF CodeClean
<1> QED BY <1>1, <1>2, <1>9, <1>10, <1>13 DEF Ownership

LEMMA ExternalFinite ==
  /\ IsFiniteSet(external_io_buffers) /\ Cardinality(external_io_buffers) \in Nat
  /\ IsFiniteSet(ExternalBuffers) /\ Cardinality(ExternalBuffers) \in Nat
  /\ Cardinality(ExternalBuffers) <= Cardinality(external_io_buffers)
<1> DEFINE E == external_io_buffers
           n == Len(Globals)
           f == [v \in E |-> CHOOSE j \in 1 .. n : Globals[j] = v]
<1>1. n \in Nat /\ IsFiniteSet(1 .. n)
  <2>1. n \in Nat
    BY MachineAssumption DEF IsSequence
  <2> HIDE DEF n
  <2> QED BY <2>1, FS_Interval
<1>2. \A v \in E : f[v] \in 1 .. n /\ Globals[f[v]] = v
  <2>1. \A v \in E : \E j \in 1 .. n : Globals[j] = v
    BY ExternalGlobals, MachineAssumption DEF IsSequence, ToSet
  <2> QED BY <2>1
<1>3. f \in [E -> 1 .. n] /\ \A v, w \in E : f[v] = f[w] => v = w
  <2>1. f = [v \in E |-> f[v]]
    OBVIOUS
  <2> HIDE DEF f, n, E
  <2> QED BY <1>2, <2>1
<1> DEFINE S == 1 .. n
<1>4. IsFiniteSet(E)
  <2>1. f \in Injection(E, S)
    <3> HIDE DEF f, E
    <3> QED BY <1>3 DEF Injection, IsInjective
  <2>2. IsFiniteSet(S)
    BY <1>1
  <2> HIDE DEF f, E, S
  <2> QED BY <2>1, <2>2, FS_Injection
<1>5. Cardinality(E) \in Nat
  BY <1>4, FS_CardinalityType
<1> DEFINE T == 1 .. Cardinality(E)
           g == [b \in ExternalBuffers |-> -b.id]
<1>6. g \in Injection(ExternalBuffers, T)
  <2>1. \A b \in ExternalBuffers : \E k \in T : b = [id |-> -k, length |-> ExternalLength]
    BY DEF ExternalBuffers
  <2>2. \A b \in ExternalBuffers : g[b] \in T /\ b = [id |-> -g[b], length |-> ExternalLength]
    BY <1>5, <2>1
  <2>3. g = [b \in ExternalBuffers |-> g[b]]
    OBVIOUS
  <2> HIDE DEF g, T
  <2> QED BY <2>2, <2>3 DEF Injection, IsInjective
<1>7. IsFiniteSet(T) /\ Cardinality(T) = Cardinality(E)
  <2> HIDE DEF E
  <2> QED BY <1>5, FS_Interval
<1> HIDE DEF g, T
<1>8. IsFiniteSet(ExternalBuffers) /\ Cardinality(ExternalBuffers) <= Cardinality(T)
  BY <1>6, <1>7, FS_Injection
<1> QED BY <1>4, <1>5, <1>7, <1>8, FS_CardinalityType

(* When all external messages have a buffer, the application has none left. *)
LEMMA NoneOutside == ASSUME Kinds, BuffersConserved, Buffers_Initialized PROVE outside = {}
<1> DEFINE E == external_io_buffers
           f == [v \in E |-> contexts[Ctx(v)].buffer]
<1> SUFFICES ASSUME NEW b \in outside PROVE FALSE
  OBVIOUS
<1>1. \A v \in E : Ctx(v) \in HeldContexts
  BY DEF Buffers_Initialized, HasBuffer, HeldContexts
<1>2. b \in ExternalBuffers
  BY DEF Kinds
<1>3. \A v \in E : f[v] \in ExternalBuffers
  BY <1>1, ExternalIsGlobal DEF Kinds, Owned, HeldContexts
<1>4. \A v \in E : f[v] # b
  <2> SUFFICES ASSUME NEW v \in E, f[v] = b PROVE FALSE
    OBVIOUS
  <2>1. <<"context", Ctx(v)>> \in Held /\ <<"outside", b>> \in Held
    BY <1>1, PlacesNow DEF HeldPlaces
  <2>2. BufferOf(<<"context", Ctx(v)>>) = BufferOf(<<"outside", b>>)
    BY PlacesNow DEF HeldPlaces
  <2>3. <<"context", Ctx(v)>> = <<"outside", b>>
    BY <2>1, <2>2 DEF BuffersConserved
  <2> QED BY <2>3
<1>5. ASSUME NEW v \in E, NEW w \in E, f[v] = f[w] PROVE v = w
  <2>1. <<"context", Ctx(v)>> \in Held /\ <<"context", Ctx(w)>> \in Held
    BY <1>1, PlacesNow DEF HeldPlaces
  <2>2. BufferOf(<<"context", Ctx(v)>>) = BufferOf(<<"context", Ctx(w)>>)
    BY <1>5, PlacesNow DEF HeldPlaces
  <2>3. <<"context", Ctx(v)>> = <<"context", Ctx(w)>>
    BY <2>1, <2>2 DEF BuffersConserved
  <2> QED BY <2>3 DEF Ctx
<1> DEFINE T == ExternalBuffers \ {b}
<1>6. f \in Injection(E, T)
  <2>1. f = [v \in E |-> f[v]]
    OBVIOUS
  <2> HIDE DEF f, E
  <2> QED BY <1>3, <1>4, <1>5, <2>1 DEF Injection, IsInjective
<1>7. IsFiniteSet(T) /\ Cardinality(T) = Cardinality(ExternalBuffers) - 1
  BY <1>2, ExternalFinite, FS_RemoveElement
<1>8. Cardinality(E) <= Cardinality(T)
  <2> HIDE DEF f, E, T
  <2> QED BY <1>6, <1>7, FS_Injection
<1> HIDE DEF T
<1> QED BY <1>7, <1>8, ExternalFinite

LEMMA FinalizeCall == ASSUME Ownership, Finalize PROVE Ownership'
<1>1. Kinds /\ BuffersConserved /\ next_state \in States /\ CodeClean
  BY DEF Ownership
<1>2. /\ code = <<>> /\ code' = fsm.finalize /\ next_state' = next_state /\ current' = current
      /\ slots' = slots /\ pointers' = pointers /\ contexts' = contexts /\ outside' = outside /\ Buffers_Initialized
  BY DEF Finalize, Idle, Memories, Initialized
<1>3. SameMemory
  BY <1>1, <1>2, SameContextsUnchanged DEF SameMemory
<1>4. outside = {}
  BY <1>1, <1>2, NoneOutside
<1>5. DOMAIN pointers = {} /\ HeldContexts \subseteq GlobalContexts
  BY <1>1, <1>2, CodeIdle
<1>6. Covers("stop", {}, GlobalContexts)
  BY <1>4, <1>5 DEF Covers
<1>7. Clean(<<"stop", {}, GlobalContexts, code'>>, {})
  BY <1>2, CleanFinalize
<1> QED BY <1>1, <1>2, <1>3, <1>6, <1>7, KeepStep

-----------------------------------------------------------------------------
LEMMA OwnershipInit == Init => Ownership
<1> SUFFICES ASSUME Init PROVE Ownership
  OBVIOUS
<1>1. /\ code = <<>> /\ next_state = InitialState /\ outside = ExternalBuffers
      /\ slots = [i \in DOMAIN SlotSize |-> Null] /\ DOMAIN pointers = {} /\ DOMAIN contexts = {}
  <2>1. DOMAIN <<>> = {}
    OBVIOUS
  <2> QED BY <2>1 DEF Init
<1>2. SlotsHeld = {} /\ HeldContexts = {}
  BY <1>1 DEF SlotsHeld, HeldContexts
<1>3. Kinds /\ next_state \in States
  BY <1>1, MachineAssumption DEF Kinds
<1>4. BuffersConserved
  <2>1. \A x : x \in Held <=> \E b \in ExternalBuffers : x = <<"outside", b>>
    BY <1>1, <1>2, PlacesNow DEF HeldPlaces
  <2>2. \A b : BufferOf(<<"outside", b>>) = b
    BY PlacesNow DEF HeldPlaces
  <2>3. {BufferOf(h) : h \in Held} = ExternalBuffers
    BY <2>1, <2>2
  <2>4. ~ \E h \in Held : BufferOf(h).id > 0
    BY <2>1, <2>2, BufferKinds
  <2>5. \A g, h \in Held : BufferOf(g) = BufferOf(h) => g = h
    BY <2>1, <2>2
  <2> QED BY <2>3, <2>4, <2>5 DEF BuffersConserved
<1>5. Clean(<<"call", {}, GlobalContexts, code>>, {}) /\ Covers("call", {}, GlobalContexts)
  BY <1>1, <1>2, CleanReturn DEF Covers
<1> QED BY <1>3, <1>4, <1>5 DEF Ownership, CodeClean

LEMMA OwnershipStutter == ASSUME Ownership, UNCHANGED vars PROVE Ownership'
<1>1. Kinds /\ next_state \in States /\ CodeClean
  BY DEF Ownership
<1>2. /\ code' = code /\ next_state' = next_state /\ current' = current /\ slots' = slots
      /\ pointers' = pointers /\ contexts' = contexts /\ outside' = outside
  BY DEF vars
<1>3. SameMemory
  BY <1>1, <1>2, SameContextsUnchanged DEF SameMemory
<1>4. PICK m, P, C : Clean(<<m, P, C, code>>, {}) /\ Covers(m, P, C)
  BY <1>1 DEF CodeClean
<1>5. Clean(<<m, P, C, code'>>, {})
  BY <1>2, <1>4
<1> QED BY <1>1, <1>2, <1>3, <1>4, <1>5, KeepStep

LEMMA StatementStep == ASSUME Ownership, NEW i, Statement(i) PROVE Ownership'
<1>1. CASE Allocate(i) \/ Free(i) \/ InitializeContext(i) \/ Take(i)
  BY <1>1, AllocateStep, FreeStep, InitializeStep, TakeStep
<1>2. CASE SwitchToElement(i) \/ Update(i) \/ Move(i)
  BY <1>2, SwitchStep, UpdateStep, MoveStep
<1>3. CASE \/ ResetContext(i) \/ Verify(i) \/ CopyData(i) \/ AppendElement(i) \/ Set(i) \/ Assign(i)
           \/ Call(i) \/ ToContext(i) \/ CopyField(i) \/ ToStructure(i) \/ GetField(i)
           \/ AssertInvariant(i) \/ SetFound(i)
  BY <1>3, QuietActions
<1>4. CASE Pass(i) \/ Raise(i) \/ While(i) \/ If(i) \/ Exit(i) \/ SetNextState(i)
  BY <1>4, ControlActions
<1>5. CASE ResetMessagesBeforeWrite(i) \/ AllocatorInitialize(i) \/ AllocatorFinalize(i)
  BY <1>5, EndOfTickStep, AllocatorInitializeStep, AllocatorFinalizeStep
<1> QED BY <1>1, <1>2, <1>3, <1>4, <1>5 DEF Statement

LEMMA ApplicationStep == ASSUME Ownership, Application PROVE Ownership'
<1>1. CASE Initialize \/ Finalize
  BY <1>1, InitializeCall, FinalizeCall
<1>2. CASE Tick \/ Run
  BY <1>2, ExecuteStep DEF Tick, Run, Idle
<1>3. CASE \E v \in Composite : \E c \in Channels, offset \in 0 .. Longest, size \in 1 .. Longest : Write(c, v, offset, size)
  BY <1>3, WriteStep
<1>4. CASE \E v \in Composite : \E c \in Channels, offset \in 0 .. Longest, size \in 1 .. Longest :
               Read(c, v, offset, size)
  <2>1. UNCHANGED vars
    BY <1>4 DEF Read
  <2> QED BY <2>1, OwnershipStutter
<1>5. CASE \E v \in Composite : \E b \in outside, size \in 0 .. ExternalLength :
               v \in external_io_buffers /\ AddBuffer(v, b, size)
  BY <1>5, AddBufferStep
<1>6. CASE \E v \in Composite : v \in external_io_buffers /\ RemoveBuffer(v)
  BY <1>6, RemoveBufferStep
<1> QED BY <1>1, <1>2, <1>3, <1>4, <1>5, <1>6 DEF Application

(* Whatever a call executes and whichever check fails, what is left of the code gives back every
   buffer that it takes (ExceptionHandler.execute, _free_context_buffer), no statement overwrites
   a pointer or context that holds one, and the code leaves all of them to global contexts and
   slots when it returns. *)
THEOREM OwnershipInvariant == Spec => []Ownership
<1>1. Ownership /\ [Next]_vars => Ownership'
  <2> SUFFICES ASSUME Ownership, [Next]_vars PROVE Ownership'
    OBVIOUS
  <2>1. CASE Step
    BY <2>1, StatementStep DEF Step
  <2>2. CASE TickAgain
    BY <2>2, ExecuteStep DEF TickAgain
  <2>3. CASE Application
    BY <2>3, ApplicationStep
  <2>4. CASE UNCHANGED vars
    BY <2>4, OwnershipStutter
  <2> QED BY <2>1, <2>2, <2>3, <2>4 DEF Next
<1> QED BY <1>1, OwnershipInit, PTL DEF Spec

(* No buffer of a generated state machine is lost or held by two owners, for every machine that
   the checks of the model accept, every integration and whatever check fails: the memory is
   distributed over slots, pointers and contexts while the machine is initialized, and external
   buffers are in a context, in transfer or with the application (_declare, _free_context_buffer,
   ExceptionHandler.execute, Initialize, Finalize, Add_Buffer and Remove_Buffer). *)
THEOREM BuffersAreConserved == Spec => []BuffersConserved
<1>1. Ownership => BuffersConserved
  BY DEF Ownership
<1> QED BY <1>1, OwnershipInvariant, PTL

(* Next_State is always a state of the machine: every transition, every exception handler and
   Initialize and Finalize set it to one (_determine_next_state, ExceptionHandler.execute). *)
THEOREM NextStateExists == Spec => [](next_state \in States)
<1>1. Ownership => next_state \in States
  BY DEF Ownership
<1> QED BY <1>1, OwnershipInvariant, PTL

-----------------------------------------------------------------------------
(* What remains of a call.  A tick executes outer code up to Next_State and *)
(* an ending behind it, or a handler instead, which is straight code before *)
(* an ending.                                                               *)

Straight == {"Allocate", "Free", "Initialize", "Take", "Reset", "Verify_Message", "Read", "Copy", "Switch",
             "Update", "Append_Element", "Set", "Generic_Set", "Move", "Assign", "Call", "To_Context",
             "Copy_Field", "To_Structure", "Get", "Found", "Not_Found"}

StraightCode(c) == IsCode(c) /\ \A i \in ToSet(c) : i.op \in Straight

(* The finalization of a state: local buffers go back to local slots. *)
GivesBack(f) ==
    IsCode(f) /\ \A i \in ToSet(f) : i.op \in {"Take", "Free"} /\ (i.op = "Free" => i.slot \in LocalSlots)

Frees(f, j) == \E i \in ToSet(f) : i.op = "Free" /\ i.slot = j

IsEnding(i, f, g) ==
    /\ i.op = "Assert_Invariant" /\ g.op = "Assert_Global_Initialized" /\ GivesBack(f)
    /\ \A d \in i.local : Frees(f, d.slot)

Ending(e) == \E i, f, g : e = <<i>> \o (f \o <<g>>) /\ IsEnding(i, f, g)

Handler(h) == \E p, e : h = p \o e /\ StraightCode(p) /\ Ending(e)

(* What an If, a While and the procedure of a state may contain. *)
Inner(i) == i.op \in Straight \cup {"Assert_Invariant", "Exit"} \/ (i.op = "Raise" /\ Handler(i.handler))
InnerCode(c) == IsCode(c) /\ \A i \in ToSet(c) : Inner(i)

Middle(i) == Inner(i) \/ (i.op = "If" /\ InnerCode(i.body))
MiddleCode(c) == IsCode(c) /\ \A i \in ToSet(c) : Middle(i)

Outer(i) == Middle(i) \/ (i.op = "While" /\ MiddleCode(i.body))
OuterCode(c) == IsCode(c) /\ \A i \in ToSet(c) : Outer(i)

LEMMA ToSetOf1 == ASSUME NEW i PROVE ToSet(<<i>>) = {i} /\ ToSet(<<>>) = {}
<1>1. DOMAIN <<i>> = {1} /\ <<i>>[1] = i /\ ~\E k : k \in DOMAIN <<>>
  OBVIOUS
<1> QED BY <1>1 DEF ToSet

LEMMA StraightCode1 == ASSUME NEW i, i.op \in Straight PROVE StraightCode(<<i>>)
BY ToSetOf1, Code1 DEF StraightCode

LEMMA InnerCode1 == ASSUME NEW i, Inner(i) PROVE InnerCode(<<i>>)
BY ToSetOf1, Code1 DEF InnerCode

LEMMA OuterCode1 == ASSUME NEW i, Outer(i) PROVE OuterCode(<<i>>)
BY ToSetOf1, Code1 DEF OuterCode

LEMMA EmptyStraight == StraightCode(<<>>)
BY ToSetOf1, EmptyCode DEF StraightCode

LEMMA StraightConcat ==
  ASSUME NEW a, NEW b, StraightCode(a), StraightCode(b) PROVE StraightCode(a \o b)
BY CodeConcat, ConcatElements DEF StraightCode

LEMMA InnerConcat == ASSUME NEW a, NEW b, InnerCode(a), InnerCode(b) PROVE InnerCode(a \o b)
BY CodeConcat, ConcatElements DEF InnerCode

LEMMA MiddleConcat == ASSUME NEW a, NEW b, MiddleCode(a), MiddleCode(b) PROVE MiddleCode(a \o b)
BY CodeConcat, ConcatElements DEF MiddleCode

LEMMA OuterConcat == ASSUME NEW a, NEW b, OuterCode(a), OuterCode(b) PROVE OuterCode(a \o b)
BY CodeConcat, ConcatElements DEF OuterCode

LEMMA StraightInner == ASSUME NEW c, StraightCode(c) PROVE InnerCode(c)
BY DEF StraightCode, InnerCode, Inner

LEMMA InnerMiddle == ASSUME NEW c, InnerCode(c) PROVE MiddleCode(c)
BY DEF InnerCode, MiddleCode, Middle

LEMMA MiddleOuter == ASSUME NEW c, MiddleCode(c) PROVE OuterCode(c)
BY DEF MiddleCode, OuterCode, Outer

LEMMA InnerOuter == ASSUME NEW c, InnerCode(c) PROVE OuterCode(c)
BY InnerMiddle, MiddleOuter

LEMMA FlattenCode ==
  ASSUME NEW q, IsCode(q), \A k \in 1 .. Len(q) : IsCode(q[k])
  PROVE  /\ IsCode(FlattenSeq(q))
         /\ \A x \in ToSet(FlattenSeq(q)) : \E k \in 1 .. Len(q) : x \in ToSet(q[k])
<1> DEFINE A == UNION {ToSet(q[k]) : k \in 1 .. Len(q)}
<1>1. ASSUME NEW k \in 1 .. Len(q) PROVE q[k] \in Seq(A)
  <2>1. q[k] \in Seq(ToSet(q[k]))
    BY CodeIsSequence DEF IsSequence
  <2>2. ToSet(q[k]) \subseteq A
    OBVIOUS
  <2> HIDE DEF A
  <2> QED BY <2>1, <2>2, SeqMonotone
<1>2. FlattenSeq(q) \in Seq(A)
  <2> HIDE DEF A
  <2> QED BY <1>1, FlattenInSeq
<1>3. ToSet(FlattenSeq(q)) \subseteq A /\ IsCode(FlattenSeq(q))
  <2> HIDE DEF A
  <2> QED BY <1>2 DEF ToSet, IsCode
<1> QED BY <1>3

LEMMA FlattenStraight ==
  ASSUME NEW q, IsCode(q), \A k \in 1 .. Len(q) : StraightCode(q[k]) PROVE StraightCode(FlattenSeq(q))
BY FlattenCode DEF StraightCode

LEMMA FlattenInner ==
  ASSUME NEW q, IsCode(q), \A k \in 1 .. Len(q) : InnerCode(q[k]) PROVE InnerCode(FlattenSeq(q))
BY FlattenCode DEF InnerCode

LEMMA FlattenOuter ==
  ASSUME NEW q, IsCode(q), \A k \in 1 .. Len(q) : OuterCode(q[k]) PROVE OuterCode(FlattenSeq(q))
BY FlattenCode DEF OuterCode

(* What is left of code and what follows it after its first statement. *)
LEMMA CodeSplit ==
  ASSUME NEW a, NEW r, IsCode(a), IsCode(r), a # <<>>
  PROVE  /\ a \o r # <<>> /\ Head(a \o r) = Head(a) /\ Tail(a \o r) = Tail(a) \o r
         /\ IsCode(Tail(a)) /\ ToSet(a) = {Head(a)} \cup ToSet(Tail(a))
<1>1. PICK A : a \in Seq(A)
  BY DEF IsCode
<1>2. IsCode(Tail(a)) /\ a = <<Head(a)>> \o Tail(a)
  <2>1. Tail(a) \in Seq(A) /\ Head(a) \in A
    BY <1>1
  <2>2. a = <<Head(a)>> \o Tail(a)
    <3> DEFINE b == <<Head(a)>> \o Tail(a)
    <3>1. /\ b \in Seq(A) /\ Len(b) = 1 + Len(Tail(a)) /\ Len(Tail(a)) = Len(a) - 1 /\ Len(a) \in Nat
          /\ b[1] = Head(a) /\ \A k \in 1 .. Len(Tail(a)) : b[k + 1] = Tail(a)[k]
      BY <1>1, <2>1
    <3>2. Head(a) = a[1] /\ \A k \in 1 .. Len(Tail(a)) : Tail(a)[k] = a[k + 1]
      BY <1>1, <3>1
    <3> HIDE DEF b
    <3>3. ASSUME NEW k \in 1 .. Len(a) PROVE b[k] = a[k]
      <4>1. CASE k = 1
        BY <3>1, <3>2, <4>1
      <4>2. CASE k # 1
        <5>1. k - 1 \in 1 .. Len(Tail(a)) /\ (k - 1) + 1 = k
          BY <3>1, <4>2
        <5> QED BY <3>1, <3>2, <5>1
      <4> QED BY <4>1, <4>2
    <3>4. b = a
      BY <1>1, <3>1, <3>3
    <3> QED BY <3>4 DEF b
  <2> QED BY <2>1, <2>2 DEF IsCode
<1> DEFINE i == Head(a)
           t == Tail(a)
<1>3. a = <<i>> \o t /\ IsCode(t)
  BY <1>2
<1> HIDE DEF i, t
<1>4. a \o r = <<i>> \o (t \o r) /\ IsCode(t \o r)
  BY <1>3, Code1, CodeAssoc, CodeConcat
<1>5. ToSet(a) = {i} \cup ToSet(t)
  BY <1>3, Code1, ConcatElements, ToSetOf1
<1>6. a \o r # <<>> /\ Head(a \o r) = i /\ Tail(a \o r) = t \o r
  BY <1>4, CodeHead
<1> QED BY <1>3, <1>5, <1>6 DEF i, t

LEMMA EndingIsCode == ASSUME NEW e, Ending(e) PROVE IsCode(e)
<1>1. PICK i, f, g : e = <<i>> \o (f \o <<g>>) /\ IsEnding(i, f, g)
  BY DEF Ending
<1>2. IsCode(<<i>>) /\ IsCode(f) /\ IsCode(<<g>>)
  BY <1>1, Code1 DEF IsEnding, GivesBack
<1>3. IsCode(f \o <<g>>)
  BY <1>2, CodeConcat
<1> QED BY <1>1, <1>2, <1>3, CodeConcat

(* A handler may begin with further straight code. *)
LEMMA HandlerConcat == ASSUME NEW c, NEW h, StraightCode(c), Handler(h) PROVE Handler(c \o h)
<1>1. PICK p, e : h = p \o e /\ StraightCode(p) /\ Ending(e)
  BY DEF Handler
<1>2. IsCode(e)
  BY <1>1, EndingIsCode
<1>3. IsCode(c) /\ IsCode(p)
  BY <1>1 DEF StraightCode
<1>4. c \o h = (c \o p) \o e
  BY <1>1, <1>2, <1>3, CodeAssoc
<1>5. StraightCode(c \o p)
  BY <1>1, StraightConcat
<1> QED BY <1>1, <1>4, <1>5 DEF Handler

-----------------------------------------------------------------------------
(* The shape of what the generator emits. *)

LEMMA StraightPieces ==
  ASSUME NEW n, NEW at, NEW ptr, NEW bounds, NEW of
  PROVE  /\ StraightCode(allocate_buffer(n, at)) /\ StraightCode(free_buffer(n, at))
         /\ StraightCode(take_buffer(n, ptr)) /\ StraightCode(initialize_context(n, ptr, bounds, of))
         /\ StraightCode(Reset(n)) /\ StraightCode(VerifyMessage(n))
         /\ StraightCode(Switch(ptr, n)) /\ StraightCode(update_context(ptr, n))
         /\ StraightCode(move_context(n)) /\ StraightCode(move_context_back(n))
         /\ StraightCode(free_copy(n, at))
<1>1. \A c : StraightCode(<<[op |-> "Allocate", ptr |-> n, slot |-> slot_ptr[at]]>>)
  BY StraightCode1 DEF Straight
<1>2. StraightCode(allocate_buffer(n, at))
  BY <1>1, EmptyStraight DEF allocate_buffer
<1>3. StraightCode(free_buffer(n, at))
  BY StraightCode1 DEF Straight, free_buffer
<1>4. StraightCode(take_buffer(n, ptr)) /\ StraightCode(take_buffer(n, n))
  BY StraightCode1 DEF Straight, take_buffer
<1>5. StraightCode(initialize_context(n, ptr, bounds, of))
  BY StraightCode1 DEF Straight, initialize_context
<1>6. StraightCode(Reset(n)) /\ StraightCode(VerifyMessage(n))
  BY StraightCode1 DEF Straight, Reset, VerifyMessage
<1>7. StraightCode(Switch(ptr, n)) /\ StraightCode(update_context(ptr, n))
  BY StraightCode1 DEF Straight, Switch, update_context
<1>8. StraightCode(move_context(n)) /\ StraightCode(move_context_back(n))
  BY StraightCode1 DEF Straight, move_context, move_context_back
<1>9. StraightCode(free_copy(n, at))
  BY <1>3, <1>4, StraightConcat DEF free_copy
<1> QED BY <1>2, <1>3, <1>4, <1>5, <1>6, <1>7, <1>8, <1>9

LEMMA InnerPieces ==
  ASSUME NEW n, NEW at, NEW ptr, NEW bounds, NEW of
  PROVE  /\ InnerCode(allocate_buffer(n, at)) /\ InnerCode(free_buffer(n, at))
         /\ InnerCode(take_buffer(n, ptr)) /\ InnerCode(initialize_context(n, ptr, bounds, of))
         /\ InnerCode(Reset(n)) /\ InnerCode(VerifyMessage(n))
         /\ InnerCode(Switch(ptr, n)) /\ InnerCode(update_context(ptr, n))
         /\ InnerCode(move_context(n)) /\ InnerCode(move_context_back(n))
         /\ InnerCode(free_copy(n, at)) /\ InnerCode(<<>>)
BY StraightPieces, StraightInner, EmptyStraight

(* A single statement. *)
LEMMA InnerStatement ==
  ASSUME NEW i, i.op \in Straight \cup {"Assert_Invariant", "Exit"} PROVE InnerCode(<<i>>)
BY InnerCode1 DEF Inner

LEMMA InnerRaise ==
  ASSUME NEW conditions, NEW h, Handler(h) PROVE InnerCode(raise_exception_if_not(conditions, h))
<1> DEFINE i == [op |-> "Raise", unless |-> conditions, handler |-> h]
<1>1. i.op = "Raise" /\ i.handler = h /\ raise_exception_if_not(conditions, h) = <<i>>
  BY DEF raise_exception_if_not
<1> HIDE DEF i
<1> QED BY <1>1, InnerCode1 DEF Inner

LEMMA InnerCopy ==
  ASSUME NEW kind, NEW n, NEW ptr, NEW check, NEW h, Handler(h)
  PROVE  InnerCode(copy_to_buffer(kind, n, ptr, check, h))
<1> DEFINE i == [op |-> "Copy", kind |-> kind, ctx |-> n, ptr |-> ptr]
<1>1. i.op \in Straight
  BY DEF Straight
<1>2. \A c : InnerCode(raise_exception_if_not(c, h))
  BY InnerRaise
<1>3. \A a, b : InnerCode(a) /\ InnerCode(b) => InnerCode(a \o b)
  BY InnerConcat
<1> HIDE DEF i
<1>4. InnerCode(<<i>>) /\ InnerCode(<<>>)
  BY <1>1, InnerStatement, InnerPieces
<1> QED BY <1>2, <1>3, <1>4 DEF copy_to_buffer, i

LEMMA InnerSetOpaque ==
  ASSUME NEW n, NEW f, NEW pre, NEW h, NEW post, Handler(h), InnerCode(post)
  PROVE  InnerCode(set_opaque_field(n, f, pre, h, post))
<1> DEFINE i == [op |-> "Generic_Set", ctx |-> n, field |-> f, needs |-> pre]
<1>1. i.op \in Straight
  BY DEF Straight
<1>2. \A c : InnerCode(raise_exception_if_not(c, h))
  BY InnerRaise
<1>3. \A a, b : InnerCode(a) /\ InnerCode(b) => InnerCode(a \o b)
  BY InnerConcat
<1> HIDE DEF i
<1>4. InnerCode(<<i>>)
  BY <1>1, InnerStatement
<1> QED BY <1>2, <1>3, <1>4 DEF set_opaque_field, i

LEMMA InnerSetMessageField ==
  ASSUME NEW n, NEW v, NEW h, Handler(h) PROVE InnerCode(set_message_field(n, v, h))
<1> DEFINE f == v.field
           src == Ctx(v.of)
           g == move_context_back(src) \o h
<1>1. \A c : InnerCode(raise_exception_if_not(c, h))
  BY InnerRaise
<1>2. \A c : InnerCode(SetField(n, f, c))
  <2> SUFFICES ASSUME NEW c PROVE InnerCode(SetField(n, f, c))
    OBVIOUS
  <2> DEFINE i == [op |-> "Set", ctx |-> n, field |-> f, needs |-> c]
  <2>1. i.op \in Straight /\ SetField(n, f, c) = <<i>>
    BY DEF Straight, SetField
  <2> HIDE DEF i
  <2> QED BY <2>1, InnerStatement
<1>3. \A a, b : InnerCode(a) /\ InnerCode(b) => InnerCode(a \o b)
  BY InnerConcat
<1>4. Handler(g)
  BY StraightPieces, HandlerConcat
<1>5. InnerCode(move_context(src)) /\ InnerCode(move_context_back(src)) /\ InnerCode(<<>>)
  BY InnerPieces
<1>6. \A c : InnerCode(set_opaque_field(n, f, c, g, move_context_back(src)))
  BY <1>4, <1>5, InnerSetOpaque
<1>7. InnerCode(set_opaque_field_to_message_field(n, v, h))
  BY <1>3, <1>5, <1>6 DEF set_opaque_field_to_message_field
<1>8. InnerCode(set_opaque_field_to_message(n, v, h))
  BY <1>3, <1>5, <1>6 DEF set_opaque_field_to_message
<1>9. InnerCode(set_opaque_field_to_message_field_from_structure(n, v, h))
  BY <1>5, InnerSetOpaque DEF set_opaque_field_to_message_field_from_structure
<1> HIDE DEF f
<1>10. InnerCode(set_message_field(n, v, h))
  BY <1>1, <1>2, <1>3, <1>7, <1>8, <1>9 DEF set_message_field, f
<1> QED BY <1>10

LEMMA InnerSetMessageFields ==
  ASSUME NEW n, NEW values, IsSequence(values), NEW h, Handler(h)
  PROVE  InnerCode(set_message_fields(n, values, h))
<1> DEFINE q == [k \in 1 .. Len(values) |-> set_message_field(n, values[k], h)]
<1>1. set_message_fields(n, values, h) = FlattenSeq(q)
  BY DEF set_message_fields, ConcatMap
<1>2. \A k \in 1 .. Len(values) : InnerCode(q[k])
  BY InnerSetMessageField
<1>3. q = [k \in 1 .. Len(values) |-> q[k]]
  OBVIOUS
<1> HIDE DEF q
<1>4. IsCode(q) /\ Len(q) = Len(values)
  BY <1>3, MapIsCode
<1> QED BY <1>1, <1>2, <1>4, FlattenInner

LEMMA InnerScalarAction ==
  ASSUME NEW a, NEW it, NEW e, NEW h, Handler(h) PROVE InnerCode(ScalarAction(a, it, e, h))
<1> DEFINE set(needs) == [op |-> "Assign", target |-> <<"Scalar", a.target>>, needs |-> needs]
<1>1. \A c : InnerCode(raise_exception_if_not(c, h))
  BY InnerRaise
<1>2. \A needs : set(needs).op \in Straight
  BY DEF Straight
<1>3. \A needs : InnerCode(<<set(needs)>>)
  <2> HIDE DEF set
  <2> QED BY <1>2, InnerStatement
<1>4. InnerCode(<<>>)
  BY InnerPieces
<1> QED BY <1>1, <1>3, <1>4 DEF ScalarAction

LEMMA InnerScalarActions ==
  ASSUME NEW s, IsSequence(s), NEW it, NEW e, NEW h, Handler(h)
  PROVE  InnerCode(ScalarActions(s, it, e, h))
<1> DEFINE q == [k \in 1 .. Len(s) |-> ScalarAction(s[k], it, e, h)]
<1>1. ScalarActions(s, it, e, h) = FlattenSeq(q)
  BY DEF ScalarActions
<1>2. \A k \in 1 .. Len(s) : InnerCode(q[k])
  BY InnerScalarAction
<1>3. q = [k \in 1 .. Len(s) |-> q[k]]
  OBVIOUS
<1> HIDE DEF q
<1>4. IsCode(q) /\ Len(q) = Len(s)
  BY <1>3, MapIsCode
<1> QED BY <1>1, <1>2, <1>4, FlattenInner

LEMMA InnerAssignMessage ==
  ASSUME NEW target, NEW n, NEW check, NEW h, Handler(h)
  PROVE  InnerCode(assign_message(target, n, check, h))
<1> DEFINE ptr == Target(target)
           g == initialize_context(Ctx(target), ptr, "Buffer", n) \o h
<1>1. Handler(g)
  BY StraightPieces, HandlerConcat
<1>2. InnerCode(copy_to_buffer("Message", n, ptr, check, g))
  BY <1>1, InnerCopy
<1>3. /\ InnerCode(take_buffer(Ctx(target), ptr)) /\ InnerCode(VerifyMessage(Ctx(target)))
      /\ InnerCode(initialize_context(Ctx(target), ptr, "Message", n))
  BY InnerPieces
<1>4. \A a, b : InnerCode(a) /\ InnerCode(b) => InnerCode(a \o b)
  BY InnerConcat
<1> QED BY <1>2, <1>3, <1>4 DEF assign_message

LEMMA InnerAssignElement ==
  ASSUME NEW a, IsSequence(a.selector), NEW e, NEW update, InnerCode(update), NEW h, Handler(h)
  PROVE  InnerCode(comprehension_assign_element(a, e, update, h))
<1> DEFINE s == ScalarActions(a.selector, a.iterator, e, h)
           r == raise_exception_if_not({<<"Well_Formed_Message", e, "">>}, h)
           t == assign_message(a.target, e, TRUE, h)
           c == IF a.target \in Composite THEN r \o t ELSE <<>>
           i == [op |-> "Found"]
           x == [op |-> "Exit"]
<1>1. comprehension_assign_element(a, e, update, h) = s \o c \o <<i>> \o update \o <<x>>
  BY DEF comprehension_assign_element, ConcatMap, ScalarActions
<1>2. InnerCode(s) /\ InnerCode(r) /\ InnerCode(t) /\ InnerCode(<<>>)
  BY InnerScalarActions, InnerRaise, InnerAssignMessage, InnerPieces
<1>3. i.op \in Straight /\ x.op = "Exit"
  BY DEF Straight
<1> HIDE DEF s, r, t, i, x
<1>4. InnerCode(<<i>>) /\ InnerCode(<<x>>)
  BY <1>3, InnerStatement
<1>5. \A b, d : InnerCode(b) /\ InnerCode(d) => InnerCode(b \o d)
  BY InnerConcat
<1>6. InnerCode(c)
  BY <1>2, <1>5
<1> HIDE DEF c
<1> QED BY <1>1, <1>2, <1>4, <1>5, <1>6

LEMMA InnerAppendElement ==
  ASSUME NEW a, IsSequence(a.selector), NEW e, NEW h, Handler(h)
  PROVE  InnerCode(comprehension_append_element(a, e, h))
<1> DEFINE seq == Ctx(a.target)
           fits == IF a.elements = "Message" THEN {<<"Fits_Sequence", seq, e>>} ELSE {}
           checked == IF a.elements = "Message"
                      THEN <<{<<"Well_Formed_Message", e, "">>}, {<<"Not_Empty", e, "">>}>>
                      ELSE <<>>
           s == ScalarActions(a.selector, a.iterator, e, h)
           r == raise_exception_if_not({<<"Has_Element", seq, "">>} \cup fits, h)
           q == [k \in 1 .. Len(checked) |-> raise_exception_if_not(checked[k], h)]
           i == [op |-> "Append_Element", seq |-> seq, ctx |-> e, kind |-> a.elements,
                 needs |-> fits \cup UNION ToSet(checked)]
<1>1. comprehension_append_element(a, e, h) = s \o r \o FlattenSeq(q) \o <<i>>
  BY DEF comprehension_append_element, ConcatMap, ScalarActions
<1>2. InnerCode(s) /\ InnerCode(r) /\ \A k \in 1 .. Len(checked) : InnerCode(q[k])
  BY InnerScalarActions, InnerRaise
<1>3. i.op \in Straight
  BY DEF Straight
<1>4. IsCode(checked)
  <2> DEFINE c1 == {<<"Well_Formed_Message", e, "">>}
             c2 == {<<"Not_Empty", e, "">>}
  <2>1. <<c1, c2>> \in Seq({c1, c2}) /\ <<>> \in Seq({c1, c2})
    OBVIOUS
  <2> QED BY <2>1 DEF IsCode
<1>5. q = [k \in 1 .. Len(checked) |-> q[k]]
  OBVIOUS
<1> HIDE DEF q, i, s, r, checked
<1>6. IsCode(q) /\ Len(q) = Len(checked)
  BY <1>4, <1>5, CodeIsSequence, MapIsCode
<1>7. InnerCode(FlattenSeq(q)) /\ InnerCode(<<i>>)
  BY <1>2, <1>3, <1>6, FlattenInner, InnerStatement
<1>8. \A b, d : InnerCode(b) /\ InnerCode(d) => InnerCode(b \o d)
  BY InnerConcat
<1> QED BY <1>1, <1>2, <1>7, <1>8

LEMMA OuterComprehension ==
  ASSUME NEW a, IsSequence(a.selector), IsSequence(a.condition), NEW seq, NEW h, Handler(h)
  PROVE  OuterCode(comprehension(seq, a, h))
<1> DEFINE e == Element(a.iterator)
           up == update_context(seq, e)
           g == up \o h
           handle == IF a.kind = "Find" THEN comprehension_assign_element(a, e, up, g)
                     ELSE comprehension_append_element(a, e, g)
           s == Switch(seq, e)
           t == VerifyMessage(e)
           c == ScalarActions(a.condition, a.iterator, e, g)
           i == [op |-> "If", body |-> handle]
           f == IF a.conditional THEN <<i>> ELSE handle
           targets == {Ctx(a.target)} \cap {Ctx(v) : v \in Composite}
           w == [op |-> "While", seq |-> seq, slot |-> slot_ptr[a.at], targets |-> targets,
                 body |-> s \o t \o c \o f \o up]
<1>1. comprehension(seq, a, h) = <<w>>
  BY DEF comprehension, ConcatMap, ScalarActions
<1>2. w.op = "While" /\ w.body = s \o t \o c \o f \o up /\ i.op = "If" /\ i.body = handle
  OBVIOUS
<1> HIDE DEF e, w
<1>3. InnerCode(s) /\ InnerCode(t) /\ InnerCode(up) /\ Handler(g)
  BY InnerPieces, StraightPieces, HandlerConcat
<1> HIDE DEF g, up
<1>4. InnerCode(c) /\ InnerCode(handle)
  BY <1>3, InnerScalarActions, InnerAssignElement, InnerAppendElement
<1> HIDE DEF s, t, c, handle
<1>5. MiddleCode(f)
  <2> HIDE DEF i
  <2>1. MiddleCode(<<i>>)
    BY <1>2, <1>4, ToSetOf1, Code1 DEF MiddleCode, Middle
  <2> QED BY <1>4, <2>1, InnerMiddle
<1> HIDE DEF f
<1>6. \A b, d : MiddleCode(b) /\ MiddleCode(d) => MiddleCode(b \o d)
  BY MiddleConcat
<1>7. MiddleCode(s) /\ MiddleCode(t) /\ MiddleCode(c) /\ MiddleCode(up)
  BY <1>3, <1>4, InnerMiddle
<1>8. MiddleCode(w.body)
  BY <1>2, <1>5, <1>6, <1>7
<1>9. Outer(w)
  BY <1>2, <1>8 DEF Outer
<1> QED BY <1>1, <1>9, OuterCode1

LEMMA OuterSequenceCopy ==
  ASSUME NEW v, NEW at, NEW statements, OuterCode(statements), NEW h, Handler(h)
  PROVE  OuterCode(declare_sequence_copy(v, at, statements, h))
<1> DEFINE n == Copy(v)
           a == raise_exception_if_not({<<"Valid_Sequence", Ctx(v), "">>}, h)
           b == allocate_buffer(n, at)
           c == copy_to_buffer("Sequence", Ctx(v), n, FALSE, free_buffer(n, at) \o h)
           d == initialize_context(n, n, "Sequence", Ctx(v))
           f == free_copy(n, at)
<1>1. declare_sequence_copy(v, at, statements, h) = a \o b \o c \o d \o statements \o f
  BY DEF declare_sequence_copy
<1>2. Handler(free_buffer(n, at) \o h)
  BY StraightPieces, HandlerConcat
<1>3. InnerCode(a) /\ InnerCode(b) /\ InnerCode(c) /\ InnerCode(d) /\ InnerCode(f)
  BY <1>2, InnerRaise, InnerCopy, InnerPieces
<1> HIDE DEF a, b, c, d, f
<1>4. OuterCode(a) /\ OuterCode(b) /\ OuterCode(c) /\ OuterCode(d) /\ OuterCode(f)
  BY <1>3, InnerOuter
<1>5. \A x, y : OuterCode(x) /\ OuterCode(y) => OuterCode(x \o y)
  BY OuterConcat
<1> QED BY <1>1, <1>4, <1>5

LEMMA OuterFieldCopy ==
  ASSUME NEW v, NEW fld, NEW at, NEW small, NEW statements, OuterCode(statements), NEW h, Handler(h)
  PROVE  OuterCode(declare_message_field_sequence_copy(v, fld, at, small, statements, h))
<1> DEFINE n == FieldSequence(v)
           g == free_buffer(n, at) \o h
           a == allocate_buffer(n, at)
           b == copy_to_buffer("Message", Ctx(v), n, small, g)
           c == raise_exception_if_not({<<"Valid", Ctx(v), fld>>}, g)
           d == initialize_context(n, n, "Field", Ctx(v))
           f == free_copy(n, at)
<1>1. declare_message_field_sequence_copy(v, fld, at, small, statements, h) =
          a \o b \o c \o d \o statements \o f
  BY DEF declare_message_field_sequence_copy
<1>2. Handler(g)
  BY StraightPieces, HandlerConcat
<1> HIDE DEF g
<1>3. InnerCode(a) /\ InnerCode(b) /\ InnerCode(c) /\ InnerCode(d) /\ InnerCode(f)
  BY <1>2, InnerRaise, InnerCopy, InnerPieces
<1> HIDE DEF a, b, c, d, f
<1>4. OuterCode(a) /\ OuterCode(b) /\ OuterCode(c) /\ OuterCode(d) /\ OuterCode(f)
  BY <1>3, InnerOuter
<1>5. \A x, y : OuterCode(x) /\ OuterCode(y) => OuterCode(x \o y)
  BY OuterConcat
<1> QED BY <1>1, <1>4, <1>5

LEMMA OuterHead ==
  ASSUME NEW s, NEW a, NEW h, Handler(h) PROVE OuterCode(assign_to_head(s, a, h))
<1> DEFINE seq == Copy(a.of)
           e == Element("RFLX_Head")
           up == update_context(seq, e)
           g == free_copy(seq, a.at) \o h
           i1 == raise_exception_if_not({<<"Has_Element", seq, "">>}, g)
           i2 == Switch(seq, e)
           i3 == VerifyMessage(e)
           i4 == raise_exception_if_not({<<"Well_Formed_Message", e, "">>}, up \o g)
           i5 == assign_message(a.target, e, buffer_is_smaller(s, a.target, a.of), up \o g)
           head == {<<"Valid_Sequence", Ctx(a.of), "">>, <<"Has_Element", Ctx(a.of), "">>,
                    <<"Holds_Element", Ctx(a.of), "">>}
           j1 == raise_exception_if_not(head, h)
           j2 == [op |-> "Assign", target |-> <<"Scalar", a.target>>, needs |-> head]
<1>1. assign_to_head(s, a, h) =
          IF a.elements = "Message"
          THEN declare_sequence_copy(a.of, a.at, i1 \o i2 \o i3 \o i4 \o i5 \o up, h)
          ELSE j1 \o <<j2>>
  BY DEF assign_to_head
<1>2. Handler(g) /\ StraightCode(up)
  BY StraightPieces, HandlerConcat
<1> HIDE DEF g
<1>3. Handler(up \o g)
  BY <1>2, HandlerConcat
<1>4. InnerCode(up)
  BY InnerPieces
<1> HIDE DEF up
<1>5. /\ InnerCode(i1) /\ InnerCode(i2) /\ InnerCode(i3) /\ InnerCode(i4) /\ InnerCode(i5) /\ InnerCode(j1)
  BY <1>2, <1>3, InnerRaise, InnerPieces, InnerAssignMessage
<1>6. j2.op \in Straight
  BY DEF Straight
<1> HIDE DEF i1, i2, i3, i4, i5, j1, j2
<1>7. InnerCode(<<j2>>)
  BY <1>6, InnerStatement
<1>8. \A x, y : InnerCode(x) /\ InnerCode(y) => InnerCode(x \o y)
  BY InnerConcat
<1>9. InnerCode(i1 \o i2 \o i3 \o i4 \o i5 \o up) /\ InnerCode(j1 \o <<j2>>)
  BY <1>4, <1>5, <1>7, <1>8
<1>10. OuterCode(i1 \o i2 \o i3 \o i4 \o i5 \o up) /\ OuterCode(j1 \o <<j2>>)
  BY <1>9, InnerOuter
<1> QED BY <1>1, <1>10, OuterSequenceCopy

LEMMA OuterAssignComprehension ==
  ASSUME NEW s, NEW a, IsSequence(a.selector), IsSequence(a.condition), NEW h, Handler(h)
  PROVE  OuterCode(assign_to_comprehension(s, a, h))
<1> DEFINE Loop(seq) == comprehension(seq, a, free_copy(seq, a.at) \o h)
           r == Reset(Ctx(a.target))
           x == raise_exception_if_not({<<"Well_Formed_Message", Ctx(a.of), "">>}, h)
           small == buffer_is_smaller(s, a.target, a.of)
<1>1. assign_to_comprehension(s, a, h) =
          IF a.field = "" THEN declare_sequence_copy(a.of, a.at, r \o Loop(Copy(a.of)), h)
          ELSE r \o x \o declare_message_field_sequence_copy(a.of, a.field, a.at, small,
                                                             Loop(FieldSequence(a.of)), h)
  BY DEF assign_to_comprehension
<1>2. \A seq : Handler(free_copy(seq, a.at) \o h)
  BY StraightPieces, HandlerConcat
<1>3. \A seq : OuterCode(Loop(seq))
  BY <1>2, OuterComprehension
<1>4. OuterCode(r) /\ OuterCode(x)
  BY InnerPieces, InnerRaise, InnerOuter
<1> HIDE DEF Loop, r, x, small
<1>5. \A c, d : OuterCode(c) /\ OuterCode(d) => OuterCode(c \o d)
  BY OuterConcat
<1>6. OuterCode(declare_sequence_copy(a.of, a.at, r \o Loop(Copy(a.of)), h))
  BY <1>3, <1>4, <1>5, OuterSequenceCopy
<1>7. OuterCode(declare_message_field_sequence_copy(a.of, a.field, a.at, small, Loop(FieldSequence(a.of)), h))
  BY <1>3, OuterFieldCopy
<1> QED BY <1>1, <1>4, <1>5, <1>6, <1>7

LEMMA OuterFind ==
  ASSUME NEW s, NEW a, IsSequence(a.selector), IsSequence(a.condition), NEW h, Handler(h)
  PROVE  OuterCode(assign_to_find(s, a, h))
<1> DEFINE i == [op |-> "Not_Found"]
           g(seq) == free_copy(seq, a.at) \o h
           S(seq) == <<i>> \o comprehension(seq, a, g(seq))
                     \o raise_exception_if_not({<<"Found", seq, "">>}, g(seq))
           x == raise_exception_if_not({<<"Well_Formed_Message", Ctx(a.of), "">>}, h)
           small == buffer_is_smaller(s, a.target, a.of)
<1>1. assign_to_find(s, a, h) =
          IF a.field = "" THEN declare_sequence_copy(a.of, a.at, S(Copy(a.of)), h)
          ELSE x \o declare_message_field_sequence_copy(a.of, a.field, a.at, small,
                                                        S(FieldSequence(a.of)), h)
  BY DEF assign_to_find
<1>2. \A seq : Handler(g(seq))
  BY StraightPieces, HandlerConcat
<1>3. i.op \in Straight
  BY DEF Straight
<1> HIDE DEF i, g
<1>4. OuterCode(<<i>>) /\ OuterCode(x)
  BY <1>3, InnerStatement, InnerRaise, InnerOuter
<1>5. \A seq : OuterCode(raise_exception_if_not({<<"Found", seq, "">>}, g(seq)))
  BY <1>2, InnerRaise, InnerOuter
<1>6. \A seq : OuterCode(comprehension(seq, a, g(seq)))
  BY <1>2, OuterComprehension
<1>7. \A c, d : OuterCode(c) /\ OuterCode(d) => OuterCode(c \o d)
  BY OuterConcat
<1>8. \A seq : OuterCode(S(seq))
  BY <1>4, <1>5, <1>6, <1>7
<1> HIDE DEF S, x, small
<1>9. /\ OuterCode(declare_sequence_copy(a.of, a.at, S(Copy(a.of)), h))
      /\ OuterCode(declare_message_field_sequence_copy(a.of, a.field, a.at, small, S(FieldSequence(a.of)), h))
  BY <1>8, OuterSequenceCopy, OuterFieldCopy
<1> QED BY <1>1, <1>4, <1>7, <1>9

LEMMA InnerCallArgument == ASSUME NEW v, NEW h, Handler(h) PROVE InnerCode(CallArgument(v, h))
<1> DEFINE get(needs) == [op |-> "Get", needs |-> needs]
           to == [op |-> "To_Structure", ctx |-> Ctx(v.of)]
<1>1. \A c : InnerCode(raise_exception_if_not(c, h))
  BY InnerRaise
<1>2. to.op \in Straight /\ \A needs : get(needs).op \in Straight
  BY DEF Straight
<1>3. InnerCode(<<to>>) /\ \A needs : InnerCode(<<get(needs)>>)
  <2> HIDE DEF get, to
  <2> QED BY <1>2, InnerStatement
<1>4. InnerCode(<<>>) /\ \A c, d : InnerCode(c) /\ InnerCode(d) => InnerCode(c \o d)
  BY InnerPieces, InnerConcat
<1> QED BY <1>1, <1>3, <1>4 DEF CallArgument

LEMMA InnerCall ==
  ASSUME NEW a, IsSequence(a.values), NEW h, Handler(h) PROVE InnerCode(assign_to_call(a, h))
<1> DEFINE q == [k \in 1 .. Len(a.values) |-> CallArgument(a.values[k], h)]
           valid == {<<"Valid_Structure", Structure(a.target), "">>}
           length == {<<"Sufficient_Buffer_Length", Structure(a.target), "">>}
           i == [op |-> "Call", target |-> Structure(a.target)]
           j == [op |-> "To_Context", ctx |-> Ctx(a.target), needs |-> valid \cup length]
           c == IF a.returns \in {"Message", "Structure"} THEN raise_exception_if_not(valid, h) ELSE <<>>
           d == IF a.returns = "Message" THEN raise_exception_if_not(length, h) \o <<j>> ELSE <<>>
<1>1. assign_to_call(a, h) = FlattenSeq(q) \o <<i>> \o c \o d
  BY DEF assign_to_call, ConcatMap
<1>2. InnerCode(FlattenSeq(q))
  <2>1. \A k \in 1 .. Len(a.values) : InnerCode(q[k])
    BY InnerCallArgument
  <2>2. q = [k \in 1 .. Len(a.values) |-> q[k]]
    OBVIOUS
  <2> HIDE DEF q
  <2>3. IsCode(q) /\ Len(q) = Len(a.values)
    BY <2>2, MapIsCode
  <2> QED BY <2>1, <2>3, FlattenInner
<1>3. i.op \in Straight /\ j.op \in Straight
  BY DEF Straight
<1> HIDE DEF i, j, q
<1>4. InnerCode(<<i>>) /\ InnerCode(<<j>>) /\ InnerCode(<<>>)
  BY <1>3, InnerStatement, InnerPieces
<1>5. InnerCode(raise_exception_if_not(valid, h)) /\ InnerCode(raise_exception_if_not(length, h))
  BY InnerRaise
<1>6. \A x, y : InnerCode(x) /\ InnerCode(y) => InnerCode(x \o y)
  BY InnerConcat
<1> HIDE DEF valid, length
<1>7. InnerCode(c) /\ InnerCode(d)
  BY <1>4, <1>5, <1>6
<1> HIDE DEF c, d
<1> QED BY <1>1, <1>2, <1>4, <1>6, <1>7

LEMMA InnerConversion == ASSUME NEW a, NEW h, Handler(h) PROVE InnerCode(assign_to_conversion(a, h))
<1> DEFINE contains == {<<"Contains", Ctx(a.of), a.field>>}
           space == {<<"Sufficient_Space_For", Ctx(a.of), a.target>>}
           i == [op |-> "Copy_Field", ctx |-> Ctx(a.target), of |-> Ctx(a.of), needs |-> contains \cup space]
           r == raise_exception_if_not(contains, h)
           t == raise_exception_if_not(space, h)
           v == VerifyMessage(Ctx(a.target))
<1>1. assign_to_conversion(a, h) = r \o t \o <<i>> \o v \o <<i>> \o v
  BY DEF assign_to_conversion
<1>2. i.op \in Straight
  BY DEF Straight
<1> HIDE DEF i
<1>3. InnerCode(<<i>>) /\ InnerCode(r) /\ InnerCode(t) /\ InnerCode(v)
  BY <1>2, InnerStatement, InnerRaise, InnerPieces
<1>4. \A x, y : InnerCode(x) /\ InnerCode(y) => InnerCode(x \o y)
  BY InnerConcat
<1> HIDE DEF r, t, v
<1> QED BY <1>1, <1>3, <1>4

LEMMA InnerAppend ==
  ASSUME NEW a, IsSequence(a.values), NEW h, Handler(h) PROVE InnerCode(append(a, h))
<1> DEFINE seq == Ctx(a.target)
           e == Element(a.target)
           up == update_context(seq, e)
           r == raise_exception_if_not({<<"Has_Element", seq, "">>}, h)
           f == set_message_fields(e, a.values, up \o h)
           i == [op |-> "Append_Element", seq |-> seq, ctx |-> e, kind |-> "Scalar", needs |-> {}]
<1>1. append(a, h) = IF a.elements = "Message" THEN r \o Switch(seq, e) \o f \o up ELSE r \o <<i>>
  BY DEF append
<1>2. i.op \in Straight
  BY DEF Straight
<1>3. Handler(up \o h)
  BY StraightPieces, HandlerConcat
<1> HIDE DEF i
<1>4. InnerCode(<<i>>) /\ InnerCode(r) /\ InnerCode(Switch(seq, e)) /\ InnerCode(up)
  BY <1>2, InnerStatement, InnerRaise, InnerPieces
<1> HIDE DEF r, up
<1>5. InnerCode(f)
  BY <1>3, InnerSetMessageFields
<1>6. \A x, y : InnerCode(x) /\ InnerCode(y) => InnerCode(x \o y)
  BY InnerConcat
<1> HIDE DEF f
<1> QED BY <1>1, <1>4, <1>5, <1>6

(* Every statement of a state. *)
LEMMA OuterStateAction ==
  ASSUME NEW s, NEW a, StatementOk(a), NEW h, Handler(h) PROVE OuterCode(state_action(s, a, h))
<1>1. \A c, d : InnerCode(c) /\ InnerCode(d) => InnerCode(c \o d)
  BY InnerConcat
<1>2. \A c : InnerCode(raise_exception_if_not(c, h))
  BY InnerRaise
<1>3. \A n : InnerCode(Reset(n)) /\ InnerCode(VerifyMessage(n)) /\ InnerCode(<<>>)
  BY InnerPieces
<1>4. a.kind \in {"MsgAgg", "DeltaMsgAgg"} =>
          OuterCode(assign_to_message_aggregate(a, h)) /\ OuterCode(assign_to_delta_message_aggregate(a, h))
  <2> SUFFICES ASSUME a.kind \in {"MsgAgg", "DeltaMsgAgg"}
               PROVE  /\ InnerCode(assign_to_message_aggregate(a, h))
                      /\ InnerCode(assign_to_delta_message_aggregate(a, h))
    BY InnerOuter
  <2>1. InnerCode(set_message_fields(Ctx(a.target), a.values, h))
    BY InnerSetMessageFields DEF StatementOk
  <2> QED BY <1>1, <1>2, <1>3, <2>1 DEF assign_to_message_aggregate, assign_to_delta_message_aggregate
<1>5. a.kind = "Head" => OuterCode(assign_to_head(s, a, h))
  BY OuterHead
<1>6. a.kind = "Comprehension" => OuterCode(assign_to_comprehension(s, a, h))
  BY OuterAssignComprehension DEF StatementOk
<1>7. a.kind = "Find" => OuterCode(assign_to_find(s, a, h))
  BY OuterFind DEF StatementOk
<1>8. a.kind = "Call" => OuterCode(assign_to_call(a, h))
  BY InnerCall, InnerOuter DEF StatementOk
<1>9. OuterCode(assign_to_conversion(a, h)) /\ OuterCode(ScalarAction(a, "", Ctx(""), h))
  BY InnerConversion, InnerScalarAction, InnerOuter
<1>10. OuterCode(message_field_assign(a, h))
  BY <1>1, <1>2, InnerSetMessageField, InnerOuter DEF message_field_assign
<1>11. a.kind = "Append" => OuterCode(append(a, h))
  BY InnerAppend, InnerOuter DEF StatementOk
<1>12. OuterCode(Reset(Ctx(a.target))) /\ OuterCode(read(a)) /\ OuterCode(write(a))
  <2> DEFINE i == [op |-> "Read", ctx |-> Ctx(a.var)]
  <2>1. i.op \in Straight /\ read(a) = <<i>>
    BY DEF Straight, read
  <2> HIDE DEF i
  <2>2. InnerCode(read(a))
    BY <2>1, InnerStatement
  <2>3. InnerCode(write(a))
    BY <1>3 DEF write
  <2> QED BY <1>3, <2>2, <2>3, InnerOuter
<1>13. OuterCode(assign(s, a, h)) \/ a.kind \in {"FieldAssign", "Append", "Reset", "Read", "Write"}
  BY <1>4, <1>5, <1>6, <1>7, <1>8, <1>9 DEF assign
<1> QED BY <1>10, <1>11, <1>12, <1>13 DEF state_action

LEMMA OuterStateActions ==
  ASSUME NEW s, NEW stmts, IsSequence(stmts), \A a \in ToSet(stmts) : Accepted(a), NEW h, Handler(h)
  PROVE  OuterCode(StateActions(s, stmts, h))
<1> DEFINE t == add_checks(stmts)
           q == [k \in 1 .. Len(t) |-> state_action(s, t[k], h)]
<1>1. StateActions(s, stmts, h) = FlattenSeq(q)
  BY DEF StateActions
<1>2. IsSequence(t) /\ \A k \in 1 .. Len(t) : StatementOk(t[k])
  <2>1. IsSequence(t) /\ \A x \in ToSet(t) : StatementOk(x)
    BY ChecksOk
  <2> HIDE DEF t
  <2>2. \A k \in 1 .. Len(t) : t[k] \in ToSet(t)
    BY <2>1 DEF IsSequence, ToSet
  <2> QED BY <2>1, <2>2
<1> HIDE DEF t
<1>3. \A k \in 1 .. Len(t) : OuterCode(q[k])
  BY <1>2, OuterStateAction
<1>4. q = [k \in 1 .. Len(t) |-> q[k]]
  OBVIOUS
<1> HIDE DEF q
<1>5. IsCode(q) /\ Len(q) = Len(t)
  BY <1>2, <1>4, MapIsCode
<1> QED BY <1>1, <1>3, <1>5, FlattenOuter

-----------------------------------------------------------------------------
(* The slots of global variables are the first ones, one for each of them. *)

Distinct(f) == \A i, j \in DOMAIN f : f[i] = f[j] => i = j

LEMMA DistinctConcat ==
  ASSUME NEW a, NEW b, IsCode(a), IsCode(b), Distinct(a), Distinct(b), ToSet(a) \cap ToSet(b) = {}
  PROVE  Distinct(a \o b)
<1>1. PICK A, B : a \in Seq(A) /\ b \in Seq(B)
  BY DEF IsCode
<1>2. /\ Len(a) \in Nat /\ Len(b) \in Nat /\ DOMAIN a = 1 .. Len(a) /\ DOMAIN b = 1 .. Len(b)
      /\ DOMAIN (a \o b) = 1 .. Len(a) + Len(b)
      /\ \A i \in 1 .. Len(a) : (a \o b)[i] = a[i]
      /\ \A i \in Len(a) + 1 .. Len(a) + Len(b) : (a \o b)[i] = b[i - Len(a)]
  BY <1>1
<1> DEFINE c == a \o b
<1> HIDE DEF c
<1>3. \A i \in DOMAIN c : \/ i \in DOMAIN a /\ c[i] = a[i] /\ c[i] \in ToSet(a)
                          \/ i - Len(a) \in DOMAIN b /\ c[i] = b[i - Len(a)] /\ c[i] \in ToSet(b)
  <2> SUFFICES ASSUME NEW i \in DOMAIN c
               PROVE  \/ i \in DOMAIN a /\ c[i] = a[i] /\ c[i] \in ToSet(a)
                      \/ i - Len(a) \in DOMAIN b /\ c[i] = b[i - Len(a)] /\ c[i] \in ToSet(b)
    OBVIOUS
  <2>1. CASE i <= Len(a)
    <3>1. i \in 1 .. Len(a) /\ i \in DOMAIN a
      BY <1>2, <2>1 DEF c
    <3>2. c[i] = a[i]
      BY <1>2, <3>1 DEF c
    <3> QED BY <3>1, <3>2 DEF ToSet
  <2>2. CASE ~(i <= Len(a))
    <3>1. i \in Len(a) + 1 .. Len(a) + Len(b) /\ i - Len(a) \in DOMAIN b
      BY <1>2, <2>2 DEF c
    <3>2. c[i] = b[i - Len(a)]
      BY <1>2, <3>1 DEF c
    <3> QED BY <3>1, <3>2 DEF ToSet
  <2> QED BY <2>1, <2>2
<1>4. \A i \in DOMAIN c : i \in Int
  BY <1>2 DEF c
<1>5. ASSUME NEW i \in DOMAIN c, NEW j \in DOMAIN c, c[i] = c[j] PROVE i = j
  <2>1. CASE i \in DOMAIN a /\ c[i] = a[i] /\ c[i] \in ToSet(a)
    <3>1. j \in DOMAIN a /\ c[j] = a[j]
      BY <1>3, <1>5, <2>1
    <3> QED BY <1>5, <2>1, <3>1 DEF Distinct
  <2>2. CASE i - Len(a) \in DOMAIN b /\ c[i] = b[i - Len(a)] /\ c[i] \in ToSet(b)
    <3>1. j - Len(a) \in DOMAIN b /\ c[j] = b[j - Len(a)]
      BY <1>3, <1>5, <2>2
    <3>2. i - Len(a) = j - Len(a)
      BY <1>5, <2>2, <3>1 DEF Distinct
    <3> QED BY <1>2, <1>4, <3>2
  <2> QED BY <1>3, <2>1, <2>2
<1> QED BY <1>5 DEF Distinct, c

LEMMA GlobalSlotsDistinct == Distinct(GlobalSlots)
<1> DEFINE n == Len(Globals)
           q == [k \in 1 .. n |-> IF Globals[k] \in external_io_buffers THEN <<>> ELSE <<Globals[k]>>]
           G(k) == {Globals[j] : j \in 1 .. k}
<1>1. GlobalSlots = FlattenSeq(q)
  BY DEF GlobalSlots, ConcatMap
<1>2. n \in Nat /\ DOMAIN Globals = 1 .. n /\ \A i, j \in 1 .. n : Globals[i] = Globals[j] => i = j
  BY MachineAssumption DEF IsSequence
<1>3. ASSUME NEW k \in 1 .. n
      PROVE  IsCode(q[k]) /\ Distinct(q[k]) /\ ToSet(q[k]) \subseteq {Globals[k]}
  <2>1. q[k] = <<>> \/ q[k] = <<Globals[k]>>
    OBVIOUS
  <2>2. Distinct(<<>>) /\ Distinct(<<Globals[k]>>)
    <3>1. DOMAIN <<Globals[k]>> = {1} /\ ~\E x : x \in DOMAIN <<>>
      OBVIOUS
    <3> QED BY <3>1 DEF Distinct
  <2> QED BY <2>1, <2>2, ToSetOf1, Code1, EmptyCode
<1>4. CASE n = 0
  <2>1. q = <<>>
    BY <1>4
  <2>2. FlattenSeq(q) = q
    BY <2>1 DEF FlattenSeq
  <2>3. ~\E x : x \in DOMAIN <<>>
    OBVIOUS
  <2> QED BY <1>1, <2>1, <2>2, <2>3 DEF Distinct
<1>5. CASE n # 0
  <2>1. DOMAIN q = 1 .. n /\ Len(q) = n
    BY <1>2
  <2> HIDE DEF n, q
  <2>2. n > 0 /\ \A i \in 1 .. n : IsCode(q[i])
    BY <1>2, <1>3, <1>5
  <2>3. PICK F : Unfolds(F, q, n)
    BY <1>2, <2>1, <2>2, FlattenUnfold
  <2>4. FlattenSeq(q) = F[n] /\ F[1] = q[1] /\ \A i \in 1 .. n : i # 1 => F[i] = F[i - 1] \o q[i]
    BY <2>3 DEF Unfolds
  <2> DEFINE Good(k) == k \in 1 .. n => IsCode(F[k]) /\ Distinct(F[k]) /\ ToSet(F[k]) \subseteq G(k)
             T == {k \in Nat : Good(k)}
  <2>5. 0 \in T
    OBVIOUS
  <2>6. ASSUME NEW k \in Nat, k \in T PROVE k + 1 \in T
    <3> SUFFICES ASSUME k + 1 \in 1 .. n PROVE Good(k + 1)
      OBVIOUS
    <3>1. IsCode(q[k + 1]) /\ Distinct(q[k + 1]) /\ ToSet(q[k + 1]) \subseteq {Globals[k + 1]}
      BY <1>3
    <3>2. Globals[k + 1] \in G(k + 1) /\ G(k) \subseteq G(k + 1)
      <4>1. k + 1 \in 1 .. k + 1 /\ 1 .. k \subseteq 1 .. k + 1
        OBVIOUS
      <4> QED BY <4>1
    <3>3. CASE k = 0
      <4>1. k + 1 = 1 /\ F[k + 1] = q[k + 1]
        BY <2>4, <3>3
      <4> HIDE DEF G
      <4> QED BY <3>1, <3>2, <4>1
    <3>4. CASE k # 0
      <4>1. k \in 1 .. n /\ k + 1 # 1 /\ (k + 1) - 1 = k
        BY <1>2, <3>4
      <4>2. F[k + 1] = F[k] \o q[k + 1]
        BY <2>4, <4>1
      <4>3. IsCode(F[k]) /\ Distinct(F[k]) /\ ToSet(F[k]) \subseteq G(k)
        BY <2>6, <4>1
      <4>4. Globals[k + 1] \notin G(k)
        <5>1. \A j \in 1 .. k : j \in 1 .. n /\ j # k + 1
          BY <1>2, <4>1
        <5> QED BY <1>2, <5>1
      <4> HIDE DEF G
      <4>5. ToSet(F[k]) \cap ToSet(q[k + 1]) = {}
        BY <3>1, <4>3, <4>4
      <4> QED BY <3>1, <3>2, <4>2, <4>3, <4>5, CodeConcat, ConcatElements, DistinctConcat
    <3> QED BY <3>3, <3>4
  <2>7. n \in T
    <3> HIDE DEF T
    <3> QED BY <1>2, <2>5, <2>6, InductiveSet
  <2>8. n \in 1 .. n
    BY <1>2, <1>5
  <2> HIDE DEF G
  <2> QED BY <1>1, <2>4, <2>7, <2>8
<1> QED BY <1>4, <1>5

GlobalSlotCount == Len(GlobalSlots)

(* The facts about slots that the invariants of states refer to. *)
LEMMA SlotFacts ==
  /\ GlobalSlotCount \in Nat /\ Cardinality(DOMAIN GlobalSizes) = GlobalSlotCount
  /\ LocalSlotCount \in Nat /\ Len(SlotSize) = GlobalSlotCount + LocalSlotCount
  /\ DOMAIN SlotSize = 1 .. GlobalSlotCount + LocalSlotCount
  /\ LocalSlots = GlobalSlotCount + 1 .. GlobalSlotCount + LocalSlotCount
<1> DEFINE n == GlobalSlotCount
           S == 1 .. n
           T == ToSet(GlobalSlots)
<1>1. n \in Nat /\ DOMAIN GlobalSlots = S /\ IsCode(GlobalSlots)
  BY GlobalSlotsElements DEF GlobalSlotCount
<1>2. T = {GlobalSlots[i] : i \in S}
  BY <1>1 DEF ToSet
<1>3. GlobalSlots \in [S -> T]
  <2>1. PICK A : GlobalSlots \in Seq(A)
    BY <1>1 DEF IsCode
  <2>2. GlobalSlots = [i \in S |-> GlobalSlots[i]]
    BY <1>1, <2>1
  <2> HIDE DEF S, T
  <2> QED BY <1>2, <2>2
<1>4. GlobalSlots \in Bijection(S, T)
  <2> HIDE DEF S, T
  <2> QED BY <1>1, <1>2, <1>3, GlobalSlotsDistinct DEF Distinct, Bijection, Injection, Surjection, IsInjective
<1>5. ExistsBijection(S, T)
  BY <1>4 DEF ExistsBijection
<1>6. IsFiniteSet(S) /\ Cardinality(S) = n
  <2> HIDE DEF n
  <2> QED BY <1>1, FS_Interval
<1>7. Cardinality(T) = n
  <2> HIDE DEF n, S, T
  <2> QED BY <1>5, <1>6, FS_Bijection
<1>8. DOMAIN GlobalSizes = T
  BY DEF GlobalSizes
<1>9. LocalSlotCount \in Nat
  BY MachineAssumption, RequirementsInSlots
<1>10. DOMAIN SlotSize = 1 .. n + LocalSlotCount
  BY DEF SlotSize, SlotCount, GlobalSlotCount
<1>11. Len(SlotSize) = n + LocalSlotCount
  <2>1. SlotSize = [i \in 1 .. SlotCount |-> SlotSize[i]] /\ SlotCount = n + LocalSlotCount
    BY DEF SlotSize, SlotCount, GlobalSlotCount
  <2>2. SlotSize \in Seq({SlotSize[i] : i \in 1 .. SlotCount}) /\ SlotCount \in Nat
    BY <1>1, <1>9, <2>1
  <2> QED BY <1>1, <1>9, <1>10, <2>2
<1> QED BY <1>1, <1>7, <1>8, <1>9, <1>10, <1>11 DEF LocalSlots

LEMMA GlobalSlot ==
  /\ \A v \in ToSet(GlobalSlots) : /\ slot_ptr[v] \in 1 .. GlobalSlotCount /\ GlobalSlots[slot_ptr[v]] = v
                                   /\ v \in Locations /\ SlotSize[slot_ptr[v]] = GlobalSizes[v]
  /\ \A i \in 1 .. GlobalSlotCount : GlobalSlots[i] \in ToSet(GlobalSlots) /\ slot_ptr[GlobalSlots[i]] = i
<1> DEFINE n == GlobalSlotCount
<1>1. n \in Nat /\ DOMAIN GlobalSlots = 1 .. n /\ n = Len(GlobalSlots)
  BY GlobalSlotsElements DEF GlobalSlotCount
<1>2. ASSUME NEW v \in ToSet(GlobalSlots) PROVE slot_ptr[v] \in 1 .. n /\ GlobalSlots[slot_ptr[v]] = v /\ v \in Locations
  <2> DEFINE i == CHOOSE j \in 1 .. Len(GlobalSlots) : GlobalSlots[j] = v
  <2>1. v \in Locations
    BY DEF Locations
  <2>2. slot_ptr[v] = i
    BY <1>2, <2>1, SlotAssumption DEF get_slot_ptr
  <2>3. \E j \in 1 .. Len(GlobalSlots) : GlobalSlots[j] = v
    BY <1>1 DEF ToSet
  <2>4. i \in 1 .. n /\ GlobalSlots[i] = v
    BY <1>1, <2>3
  <2> QED BY <2>1, <2>2, <2>4
<1>3. ASSUME NEW v \in ToSet(GlobalSlots) PROVE SlotSize[slot_ptr[v]] = GlobalSizes[v]
  <2>1. slot_ptr[v] \in 1 .. n /\ GlobalSlots[slot_ptr[v]] = v
    BY <1>2
  <2> DEFINE i == slot_ptr[v]
  <2> HIDE DEF i
  <2>2. i \in 1 .. SlotCount /\ i <= Len(GlobalSlots)
    BY <1>1, <2>1, SlotFacts DEF i, SlotCount
  <2>3. SlotSize[i] = get_size(GlobalSlots[i], "")
    BY <2>2 DEF SlotSize
  <2>4. GlobalSizes[v] = get_size(v, "")
    BY DEF GlobalSizes
  <2> QED BY <2>1, <2>3, <2>4 DEF i
<1>4. ASSUME NEW i \in 1 .. n PROVE GlobalSlots[i] \in ToSet(GlobalSlots) /\ slot_ptr[GlobalSlots[i]] = i
  <2>1. GlobalSlots[i] \in ToSet(GlobalSlots)
    BY <1>1 DEF ToSet
  <2>2. slot_ptr[GlobalSlots[i]] \in DOMAIN GlobalSlots /\ GlobalSlots[slot_ptr[GlobalSlots[i]]] = GlobalSlots[i]
    BY <1>1, <1>2, <2>1
  <2> QED BY <1>1, <2>1, <2>2, GlobalSlotsDistinct DEF Distinct
<1> QED BY <1>2, <1>3, <1>4

LEMMA LocalSlot ==
  ASSUME NEW at \in Locations, at \notin ToSet(Globals)
  PROVE  slot_ptr[at] \in LocalSlots
<1> DEFINE n == GlobalSlotCount
           st == CHOOSE t \in States : \E k \in 1 .. Len(Requirements(t)) : Requirements(t)[k].at = at
           r == Requirements(st)
           k == CHOOSE j \in 1 .. Len(r) : r[j].at = at
<1>1. at \notin ToSet(GlobalSlots)
  BY GlobalSlotsElements
<1>2. slot_ptr[at] = n + Rank(r, k)
  BY <1>1, SlotAssumption DEF get_slot_ptr, GlobalSlotCount
<1>3. PICK t \in States : \E x \in ToSet(Requirements(t)) : x.at = at
  BY <1>1 DEF Locations
<1>4. IsSequence(Requirements(t))
  BY RequirementsInSlots, CodeIsSequence
<1>5. \E j \in 1 .. Len(Requirements(t)) : Requirements(t)[j].at = at
  BY <1>3, <1>4 DEF IsSequence, ToSet
<1>6. st \in States /\ \E j \in 1 .. Len(r) : r[j].at = at
  BY <1>5
<1> HIDE DEF st
<1>7. Len(r) \in Nat /\ Len(r) <= LocalSlotCount
  BY <1>6, RequirementsInSlots
<1> HIDE DEF r
<1>8. k \in 1 .. Len(r)
  BY <1>6
<1> HIDE DEF k
<1>9. Rank(r, k) \in 1 .. Len(r)
  BY <1>7, <1>8, RankInBounds
<1>10. n \in Nat /\ LocalSlotCount \in Nat
  BY SlotFacts
<1>11. n + Rank(r, k) \in n + 1 .. n + LocalSlotCount
  <2> HIDE DEF n
  <2> QED BY <1>7, <1>9, <1>10
<1> QED BY <1>2, <1>11, SlotFacts

-----------------------------------------------------------------------------
(* The procedure of a state. *)

LEMMA InitializationShape == ASSUME NEW s \in States PROVE StraightCode(initialization(s))
<1> DEFINE d == declarations(s)
           q == [k \in 1 .. Len(d) |-> declare(Ctx(d[k].var), d[k].at)]
<1>1. initialization(s) = FlattenSeq(q)
  BY DEF initialization, ConcatMap
<1>2. IsSequence(d)
  BY DeclarationsOk
<1> HIDE DEF d
<1>3. ASSUME NEW k \in 1 .. Len(d) PROVE StraightCode(q[k])
  <2>1. StraightCode(declare(Ctx(d[k].var), d[k].at))
    BY StraightPieces, StraightConcat DEF declare
  <2> QED BY <2>1
<1>4. q = [k \in 1 .. Len(d) |-> q[k]]
  OBVIOUS
<1> HIDE DEF q
<1>5. IsCode(q) /\ Len(q) = Len(d)
  BY <1>2, <1>4, MapIsCode
<1> QED BY <1>1, <1>3, <1>5, FlattenStraight

(* A local context is finalized by taking its buffer and giving it back. *)
LEMMA LocalFreed ==
  ASSUME NEW n, NEW at, at \in Locations, at \notin ToSet(Globals)
  PROVE  GivesBack(free_context_buffer(n, at)) /\ Frees(free_context_buffer(n, at), slot_ptr[at])
<1> DEFINE i == [op |-> "Take", ctx |-> n, ptr |-> n]
           j == [op |-> "Free", ptr |-> n, slot |-> slot_ptr[at]]
<1>1. at \notin external_io_buffers
  BY ExternalGlobals
<1>2. free_context_buffer(n, at) = <<i>> \o <<j>>
  BY <1>1 DEF free_context_buffer, is_externally_managed, take_buffer, free_buffer
<1>3. i.op = "Take" /\ j.op = "Free" /\ j.slot = slot_ptr[at] /\ slot_ptr[at] \in LocalSlots
  BY LocalSlot
<1> HIDE DEF i, j
<1>4. IsCode(<<i>> \o <<j>>) /\ ToSet(<<i>> \o <<j>>) = {i, j}
  BY Code1, CodeConcat, ConcatElements, ToSetOf1
<1> QED BY <1>2, <1>3, <1>4 DEF GivesBack, Frees

Finalizes(f, s) ==
    /\ finalization(s) = f \o <<[op |-> "Assert_Global_Initialized"]>> /\ GivesBack(f)
    /\ \A d \in ToSet(declarations(s)) : Frees(f, slot_ptr[d.at])

LEMMA FinalizationShape == ASSUME NEW s \in States PROVE \E f : Finalizes(f, s)
<1> DEFINE d == declarations(s)
           r == [k \in 1 .. Len(d) |-> free_context_buffer(Ctx(d[k].var), d[k].at)]
           f == FlattenSeq(r)
<1>1. finalization(s) = f \o <<[op |-> "Assert_Global_Initialized"]>>
  BY DEF finalization, ConcatMap
<1>2. IsSequence(d) /\ \A x \in ToSet(d) : x.at \in Locations /\ x.at \notin ToSet(Globals)
  BY DeclarationsOk
<1>3. d = declarations(s)
  OBVIOUS
<1> HIDE DEF d
<1>4. ToSet(d) = {d[k] : k \in 1 .. Len(d)}
  BY <1>2 DEF IsSequence, ToSet
<1>5. ASSUME NEW k \in 1 .. Len(d)
      PROVE  GivesBack(r[k]) /\ Frees(r[k], slot_ptr[d[k].at])
  <2>1. d[k].at \in Locations /\ d[k].at \notin ToSet(Globals)
    BY <1>2, <1>4
  <2> QED BY <2>1, LocalFreed
<1>6. r = [k \in 1 .. Len(d) |-> r[k]]
  OBVIOUS
<1> HIDE DEF r
<1>7. IsCode(r) /\ Len(r) = Len(d) /\ \A k \in 1 .. Len(d) : IsCode(r[k])
  BY <1>2, <1>5, <1>6, MapIsCode DEF GivesBack
<1>8. IsCode(f) /\ \A x \in ToSet(f) : \E k \in 1 .. Len(r) : x \in ToSet(r[k])
  BY <1>7, FlattenCode
<1>9. GivesBack(f)
  BY <1>5, <1>7, <1>8 DEF GivesBack
<1>10. ASSUME NEW x \in ToSet(d) PROVE Frees(f, slot_ptr[x.at])
  <2>1. PICK k \in 1 .. Len(d) : x = d[k]
    BY <1>4
  <2>2. PICK i \in ToSet(r[k]) : i.op = "Free" /\ i.slot = slot_ptr[x.at]
    BY <1>5, <2>1 DEF Frees
  <2>3. i \in ToSet(f)
    BY <1>7, <2>2, FlattenElements
  <2> QED BY <2>2, <2>3 DEF Frees
<1> HIDE DEF f
<1>11. Finalizes(f, s)
  BY <1>1, <1>3, <1>9, <1>10 DEF Finalizes
<1> QED BY <1>11

LEMMA InvariantShape ==
  ASSUME NEW s
  PROVE  \E i : /\ Invariant(s) = <<i>> /\ i.op = "Assert_Invariant"
                /\ \A d \in i.local : \E x \in ToSet(declarations(s)) : d.slot = slot_ptr[x.at]
<1> DEFINE D == ToSet(declarations(s))
           l == {[var |-> d.var, slot |-> slot_ptr[d.at], size |-> get_size(d.var, s)] : d \in D}
           i == [op |-> "Assert_Invariant", local |-> l]
<1>1. Invariant(s) = <<i>>
  BY DEF Invariant
<1>2. \A d \in l : \E x \in D : d.slot = slot_ptr[x.at]
  <2> HIDE DEF D
  <2> QED OBVIOUS
<1>3. i.op = "Assert_Invariant" /\ i.local = l
  <2> HIDE DEF l
  <2> QED OBVIOUS
<1> HIDE DEF l, i, D
<1> QED BY <1>1, <1>2, <1>3 DEF D

LEMMA HandlerShape ==
  ASSUME NEW s \in States
  PROVE  Ending(exception_handler(s)) /\ Handler(exception_handler(s))
<1>1. PICK f : Finalizes(f, s)
  BY FinalizationShape
<1>2. PICK i : /\ Invariant(s) = <<i>> /\ i.op = "Assert_Invariant"
               /\ \A d \in i.local : \E x \in ToSet(declarations(s)) : d.slot = slot_ptr[x.at]
  BY InvariantShape
<1> DEFINE g == [op |-> "Assert_Global_Initialized"]
           h == exception_handler(s)
<1>3. h = <<i>> \o (f \o <<g>>)
  BY <1>1, <1>2 DEF exception_handler, Finalizes
<1>4. g.op = "Assert_Global_Initialized"
  OBVIOUS
<1> HIDE DEF g, h
<1>5. IsEnding(i, f, g)
  BY <1>1, <1>2, <1>4 DEF IsEnding, Finalizes
<1>6. Ending(h)
  BY <1>3, <1>5 DEF Ending
<1>7. IsCode(h)
  BY <1>6, EndingIsCode
<1>8. h = <<>> \o h
  BY <1>7, EmptyCode
<1>9. Handler(h)
  BY <1>6, <1>8, EmptyStraight DEF Handler
<1> QED BY <1>6, <1>9 DEF h

(* i is the transition of the state s. *)
Transfers(i, s) == i.op = "Next_State" /\ i.targets = {t.target : t \in ToSet(Machine[s].transitions)}

LEMMA NextStatesShape ==
  ASSUME NEW s \in States
  PROVE  \E a, i : determine_next_state(s) = a \o <<i>> /\ OuterCode(a) /\ Transfers(i, s)
<1> DEFINE h == exception_handler(s)
           t == Machine[s].transitions
           q == [k \in 1 .. Len(t) |-> StateActions(s, t[k].stmts, h)]
           T == {x.target : x \in ToSet(t)}
           i == [op |-> "Next_State", targets |-> T]
           a == FlattenSeq(q)
<1>1. determine_next_state(s) = a \o <<i>>
  BY DEF determine_next_state, ConcatMap, StateActions
<1>2. Transfers(i, s)
  BY DEF Transfers
<1>3. IsSequence(t) /\ \A x \in ToSet(t) : IsSequence(x.stmts)
  BY MachineAssumption DEF StatementsAssumption
<1>4. \A x \in ToSet(t) : \A b \in ToSet(x.stmts) : Accepted(b)
  BY StatementsAccepted
<1>5. Handler(h)
  BY HandlerShape
<1> HIDE DEF i, h, t
<1>6. \A k \in 1 .. Len(t) : t[k] \in ToSet(t)
  BY <1>3 DEF IsSequence, ToSet
<1>7. \A k \in 1 .. Len(t) : OuterCode(q[k])
  BY <1>3, <1>4, <1>5, <1>6, OuterStateActions
<1>8. q = [k \in 1 .. Len(t) |-> q[k]]
  OBVIOUS
<1> HIDE DEF q
<1>9. IsCode(q) /\ Len(q) = Len(t)
  BY <1>3, <1>8, MapIsCode
<1>10. OuterCode(a)
  BY <1>7, <1>9, FlattenOuter
<1> HIDE DEF a
<1> QED BY <1>1, <1>2, <1>10

(* The statements of a tick up to the transition, and the ending behind it. *)
Body(c, s) == \E a, i, e : c = a \o (<<i>> \o e) /\ OuterCode(a) /\ Transfers(i, s) /\ Ending(e)

LEMMA StateBodyShape == ASSUME NEW s \in States PROVE Body(state_body(s), s)
<1> DEFINE h == exception_handler(s)
           A == Machine[s].actions
           x == StateActions(s, A, h)
           b == initialization(s)
           v == Invariant(s)
           f == finalization(s)
<1>1. state_body(s) = b \o v \o x \o determine_next_state(s) \o v \o f
  BY DEF state_body, ConcatMap, StateActions
<1>2. h = v \o f /\ Handler(h) /\ Ending(h)
  BY HandlerShape DEF exception_handler
<1>3. PICK a, i : determine_next_state(s) = a \o <<i>> /\ OuterCode(a) /\ Transfers(i, s)
  BY NextStatesShape
<1>4. IsSequence(A) /\ \A y \in ToSet(A) : Accepted(y)
  BY MachineAssumption, StatementsAccepted DEF StatementsAssumption
<1>5. OuterCode(x)
  <2> HIDE DEF h, A
  <2> QED BY <1>2, <1>4, OuterStateActions
<1>6. OuterCode(b)
  BY InitializationShape, StraightInner, InnerOuter
<1>7. PICK j : v = <<j>> /\ j.op = "Assert_Invariant"
  BY InvariantShape
<1>8. OuterCode(v)
  BY <1>7, InnerStatement, InnerOuter
<1>9. PICK g : Finalizes(g, s)
  BY FinalizationShape
<1>10. IsCode(f)
  BY <1>9, Code1, CodeConcat DEF Finalizes, GivesBack
<1> HIDE DEF x, b, v, f, h
<1>11. IsCode(v) /\ IsCode(<<i>>) /\ IsCode(a) /\ IsCode(b) /\ IsCode(x)
  BY <1>3, <1>5, <1>6, <1>8, Code1 DEF OuterCode
<1> DEFINE c == b \o v \o x
<1>12. OuterCode(c)
  BY <1>5, <1>6, <1>8, OuterConcat
<1>13. OuterCode(c \o a) /\ IsCode(c) /\ IsCode(c \o a)
  BY <1>3, <1>12, OuterConcat DEF OuterCode
<1> HIDE DEF c
<1>14. state_body(s) = c \o (a \o <<i>>) \o v \o f
  BY <1>1, <1>3 DEF c
<1>15. (c \o a) \o <<i>> = c \o (a \o <<i>>)
  <2>1. IsCode(c) /\ IsCode(a) /\ IsCode(<<i>>)
    BY <1>11, <1>13
  <2> QED BY <2>1, CodeAssoc
<1>16. ((c \o a) \o <<i>>) \o v = (c \o a) \o (<<i>> \o v) /\ IsCode(<<i>> \o v)
  BY <1>11, <1>13, CodeAssoc, CodeConcat
<1>17. ((c \o a) \o (<<i>> \o v)) \o f = (c \o a) \o ((<<i>> \o v) \o f)
  BY <1>10, <1>13, <1>16, CodeAssoc
<1>18. (<<i>> \o v) \o f = <<i>> \o (v \o f)
  BY <1>10, <1>11, CodeAssoc
<1>19. state_body(s) = (c \o a) \o (<<i>> \o h)
  BY <1>2, <1>14, <1>15, <1>16, <1>17, <1>18
<1> QED BY <1>2, <1>3, <1>13, <1>19 DEF Body

-----------------------------------------------------------------------------
(* How far a call is.  Between two calls the state machine is initialized   *)
(* or not; a tick is busy up to its transition, and then leaves its state,  *)
(* frees the local memory and ends.                                         *)

On == code = <<>> /\ current = "" /\ Global_Initialized /\ Global_Allocated
Off == code = <<>> /\ current = "" /\ Uninitialized /\ ~running

BusyWith(a, i, e) ==
    /\ code = a \o (<<i>> \o (e \o EndOfTick))
    /\ OuterCode(a) /\ Transfers(i, current) /\ Ending(e)

Busy == current \in States /\ next_state = current /\ \E a, i, e : BusyWith(a, i, e)

Leaving == current \in States /\ \E h : Handler(h) /\ code = h \o EndOfTick

Given(f) ==
    /\ \A i \in 1 .. GlobalSlotCount : slots[i] = Null
    /\ \A i \in LocalSlots : slots[i] # Null \/ Frees(f, i)

FreeingWith(f, g) ==
    /\ code = f \o (<<g>> \o EndOfTick) /\ g.op = "Assert_Global_Initialized"
    /\ GivesBack(f) /\ Given(f)

Freeing == current \in States /\ \E f, g : FreeingWith(f, g)

Left == current \in States /\ code = EndOfTick /\ Global_Initialized /\ Global_Allocated

LEMMA CodeRegroup == ASSUME NEW a, NEW b, NEW c, IsCode(a), IsCode(b), IsCode(c)
                     PROVE  a \o (b \o c) = (a \o b) \o c
BY CodeAssoc

-----------------------------------------------------------------------------
(* What the statements do to the control. *)

Asserts == {"Assert_Invariant", "Assert_Global_Initialized"}

Advance == code' = Tail(code) /\ next_state' = next_state /\ current' = current /\ running' = running

LEMMA StatementCases ==
  ASSUME NEW i, Statement(i)
  PROVE  /\ code # <<>> /\ i = Head(code) /\ Precondition(i)
         /\ i.op \in Straight \cup Asserts => Advance
         /\ i.op \in (Straight \cup Asserts) \ {"Allocate", "Free"} => slots' = slots
         /\ i.op \in Asserts => contexts' = contexts
         /\ i.op = "Allocate" => Allocate(i)
         /\ i.op = "Free" => Free(i)
         /\ i.op = "Initialize" => InitializeContext(i)
         /\ i.op = "Raise" => Pass(i) \/ Raise(i)
         /\ i.op = "While" => While(i)
         /\ i.op = "If" => If(i)
         /\ i.op = "Exit" => Exit(i)
         /\ i.op = "Next_State" => SetNextState(i)
         /\ i.op = "End_Of_Tick" => ResetMessagesBeforeWrite(i)
         /\ i.op = "Allocator_Initialize" => AllocatorInitialize(i)
         /\ i.op = "Allocator_Finalize" => AllocatorFinalize(i)
<1> DEFINE Quick(o) == Op(i, o) /\ Advance /\ slots' = slots
           Rest == \/ Allocate(i) \/ Free(i) \/ InitializeContext(i) \/ Pass(i) \/ Raise(i) \/ While(i) \/ If(i)
                   \/ Exit(i) \/ SetNextState(i) \/ ResetMessagesBeforeWrite(i) \/ AllocatorInitialize(i)
                   \/ AllocatorFinalize(i)
<1>1. CASE Allocate(i)
  BY <1>1 DEF Allocate, Op, Done, Advance, Control, Straight, Asserts
<1>2. CASE Free(i)
  BY <1>2 DEF Free, Op, Done, Advance, Control, Straight, Asserts
<1>3. CASE InitializeContext(i)
  BY <1>3 DEF InitializeContext, Op, Done, Advance, Control, Straight, Asserts
<1>4. CASE Pass(i) \/ Raise(i)
  <2>1. Op(i, "Raise")
    BY <1>4 DEF Pass, Raise
  <2> HIDE DEF Quick
  <2> QED BY <1>4, <2>1 DEF Op, Straight, Asserts
<1>5. CASE While(i) \/ If(i) \/ Exit(i)
  <2>1. \/ While(i) /\ Op(i, "While")
        \/ If(i) /\ Op(i, "If")
        \/ Exit(i) /\ Op(i, "Exit")
    BY <1>5 DEF While, If, Exit
  <2> QED BY <2>1 DEF Op, Straight, Asserts
<1>6. CASE SetNextState(i) \/ ResetMessagesBeforeWrite(i)
  <2>1. \/ SetNextState(i) /\ Op(i, "Next_State")
        \/ ResetMessagesBeforeWrite(i) /\ Op(i, "End_Of_Tick")
    BY <1>6 DEF SetNextState, ResetMessagesBeforeWrite
  <2> QED BY <2>1 DEF Op, Straight, Asserts
<1>7. CASE AllocatorInitialize(i) \/ AllocatorFinalize(i)
  <2>1. \/ AllocatorInitialize(i) /\ Op(i, "Allocator_Initialize")
        \/ AllocatorFinalize(i) /\ Op(i, "Allocator_Finalize")
    BY <1>7 DEF AllocatorInitialize, AllocatorFinalize
  <2> QED BY <2>1 DEF Op, Straight, Asserts
<1>8. CASE AssertInvariant(i)
  <2>1. Quick("Assert_Invariant") \/ Quick("Assert_Global_Initialized")
    BY <1>8 DEF AssertInvariant, Done, Advance, Control, Memories
  <2>2. contexts' = contexts
    BY <1>8 DEF AssertInvariant, Memories
  <2> QED BY <2>1, <2>2 DEF Op, Straight, Asserts
<1>9. CASE \/ Take(i) \/ ResetContext(i) \/ Verify(i) \/ CopyData(i) \/ SwitchToElement(i) \/ Update(i)
           \/ AppendElement(i)
  <2>1. \/ Quick("Take") \/ Quick("Reset") \/ Quick("Verify_Message") \/ Quick("Read") \/ Quick("Copy")
        \/ Quick("Switch") \/ Quick("Update") \/ Quick("Append_Element")
    <3>1. Take(i) => Quick("Take")
      BY DEF Take, Done, Advance, Control
    <3>2. ResetContext(i) => Quick("Reset")
      BY DEF ResetContext, Done, Advance, Control
    <3>3. Verify(i) => Quick("Verify_Message") \/ Quick("Read")
      BY DEF Verify, Done, Advance, Control
    <3>4. CopyData(i) => Quick("Copy")
      BY DEF CopyData, Done, Advance, Control, Memories
    <3>5. SwitchToElement(i) => Quick("Switch")
      BY DEF SwitchToElement, Done, Advance, Control
    <3>6. Update(i) => Quick("Update")
      BY DEF Update, Done, Advance, Control
    <3>7. AppendElement(i) => Quick("Append_Element")
      BY DEF AppendElement, Done, Advance, Control
    <3> HIDE DEF Quick
    <3> QED BY <1>9, <3>1, <3>2, <3>3, <3>4, <3>5, <3>6, <3>7
  <2> QED BY <2>1 DEF Op, Straight, Asserts
<1>10. CASE \/ Set(i) \/ Move(i) \/ Assign(i) \/ Call(i) \/ ToContext(i) \/ CopyField(i)
            \/ ToStructure(i) \/ GetField(i) \/ SetFound(i)
  <2>1. \/ Quick("Set") \/ Quick("Generic_Set") \/ Quick("Move") \/ Quick("Assign") \/ Quick("Call")
        \/ Quick("To_Context") \/ Quick("Copy_Field") \/ Quick("To_Structure") \/ Quick("Get")
        \/ Quick("Found") \/ Quick("Not_Found")
    <3>1. Set(i) => Quick("Set") \/ Quick("Generic_Set")
      BY DEF Set, Done, Advance, Control
    <3>2. Move(i) => Quick("Move")
      BY DEF Move, Done, Advance, Control
    <3>3. Assign(i) => Quick("Assign")
      BY DEF Assign, Done, Advance, Control, Memories
    <3>4. Call(i) => Quick("Call")
      BY DEF Call, Done, Advance, Control, Memories
    <3>5. ToContext(i) => Quick("To_Context")
      BY DEF ToContext, Done, Advance, Control
    <3>6. CopyField(i) => Quick("Copy_Field")
      BY DEF CopyField, Done, Advance, Control
    <3>7. ToStructure(i) => Quick("To_Structure")
      BY DEF ToStructure, Done, Advance, Control, Memories
    <3>8. GetField(i) => Quick("Get")
      BY DEF GetField, Done, Advance, Control, Memories
    <3>9. SetFound(i) => Quick("Found") \/ Quick("Not_Found")
      BY DEF SetFound, Done, Advance, Control, Memories
    <3> HIDE DEF Quick
    <3> QED BY <1>10, <3>1, <3>2, <3>3, <3>4, <3>5, <3>6, <3>7, <3>8, <3>9
  <2> QED BY <2>1 DEF Op, Straight, Asserts
<1> QED BY <1>1, <1>2, <1>3, <1>4, <1>5, <1>6, <1>7, <1>8, <1>9, <1>10 DEF Statement

(* An Exit leaves a loop of a, if r, the rest of the call, contains none. *)
LoopFree(r) == IsCode(r) /\ \A x \in ToSet(r) : x.op # "While"

LEMMA LoopFreeConcat == ASSUME NEW a, NEW b, LoopFree(a), LoopFree(b) PROVE LoopFree(a \o b)
BY CodeConcat, ConcatElements DEF LoopFree

LEMMA LoopFree1 == ASSUME NEW i, i.op # "While" PROVE LoopFree(<<i>>)
BY Code1, ToSetOf1 DEF LoopFree

Exited(c) == SubSeq(c, SelectInSeq(c, LAMBDA j : j.op = "While") + 1, Len(c))

LEMMA ExitSplit ==
  ASSUME NEW a, NEW r, IsCode(a), LoopFree(r)
  PROVE  \E b : Exited(a \o r) = b \o r /\ IsCode(b) /\ ToSet(b) \subseteq ToSet(a)
<1> DEFINE c == a \o r
           I == {x \in 1 .. Len(c) : c[x].op = "While"}
           k == SelectInSeq(c, LAMBDA j : j.op = "While")
<1>1. PICK A, R : a \in Seq(A) /\ r \in Seq(R)
  BY DEF IsCode, LoopFree
<1> DEFINE S == A \cup R
<1>2. a \in Seq(S) /\ r \in Seq(S)
  <2>1. A \subseteq S /\ R \subseteq S
    OBVIOUS
  <2> HIDE DEF S
  <2> QED BY <1>1, <2>1, SeqMonotone
<1> HIDE DEF S
<1>3. /\ Len(a) \in Nat /\ Len(r) \in Nat /\ Len(c) = Len(a) + Len(r) /\ c \in Seq(S)
      /\ \A x \in 1 .. Len(a) : c[x] = a[x]
      /\ \A x \in Len(a) + 1 .. Len(a) + Len(r) : c[x] = r[x - Len(a)]
  BY <1>2
<1> HIDE DEF c
<1>4. \A x \in 1 .. Len(r) : r[x].op # "While"
  BY <1>2 DEF LoopFree, ToSet
<1>5. \A x \in I : x <= Len(a)
  <2> SUFFICES ASSUME NEW x \in I, ~(x <= Len(a)) PROVE FALSE
    BY <1>3
  <2>1. x \in Len(a) + 1 .. Len(a) + Len(r) /\ x - Len(a) \in 1 .. Len(r)
    BY <1>3
  <2>2. c[x] = r[x - Len(a)]
    BY <1>3, <2>1
  <2>3. c[x].op = "While"
    OBVIOUS
  <2> QED BY <1>4, <2>1, <2>2, <2>3
<1>6. k = IF I # {} THEN Min(I) ELSE 0
  BY DEF SelectInSeq
<1>7. I \subseteq Nat
  BY <1>3
<1>8. k \in 0 .. Len(a)
  <2> HIDE DEF I, k
  <2>1. CASE I = {}
    BY <1>3, <1>6, <2>1
  <2>2. CASE I # {}
    <3>1. PICK m \in I : \A n \in I : m <= n
      BY <1>7, <2>2, LeastNatural
    <3>2. Min(I) \in I
      BY <3>1 DEF Min
    <3>3. k \in I
      BY <1>6, <2>2, <3>2
    <3>4. k \in Nat /\ k <= Len(a)
      BY <1>5, <1>7, <3>3
    <3> QED BY <1>3, <3>4
  <2> QED BY <2>1, <2>2
<1> DEFINE b == SubSeq(a, k + 1, Len(a))
<1>9. Exited(c) = SubSeq(c, k + 1, Len(c))
  BY DEF Exited
<1> HIDE DEF k
<1>10. /\ b \in Seq(S) /\ Len(b) = Len(a) - k
       /\ \A x \in 1 .. Len(a) - k : b[x] = a[x + k]
  BY <1>2, <1>3, <1>8
<1> HIDE DEF b
<1>11. /\ SubSeq(c, k + 1, Len(c)) \in Seq(S) /\ Len(SubSeq(c, k + 1, Len(c))) = Len(c) - k
       /\ \A x \in 1 .. Len(c) - k : SubSeq(c, k + 1, Len(c))[x] = c[x + k]
  BY <1>3, <1>8
<1> DEFINE d == SubSeq(c, k + 1, Len(c))
           e == b \o r
<1>12. /\ e \in Seq(S) /\ Len(e) = Len(c) - k
       /\ \A x \in 1 .. Len(a) - k : e[x] = b[x]
       /\ \A x \in Len(a) - k + 1 .. Len(c) - k : e[x] = r[x - (Len(a) - k)]
  <2>1. Len(b) = Len(a) - k /\ Len(b) \in Nat /\ Len(c) - k = Len(b) + Len(r)
    <3>1. Len(b) = Len(a) - k
      BY <1>10
    <3>2. Len(b) \in Nat
      BY <1>3, <1>8, <3>1
    <3>3. Len(c) = Len(a) + Len(r)
      BY <1>3
    <3> QED BY <1>3, <1>8, <3>1, <3>2, <3>3
  <2>2. /\ e \in Seq(S) /\ Len(e) = Len(b) + Len(r)
        /\ \A x \in 1 .. Len(b) : e[x] = b[x]
        /\ \A x \in Len(b) + 1 .. Len(b) + Len(r) : e[x] = r[x - Len(b)]
    <3>1. b \in Seq(S) /\ r \in Seq(S)
      BY <1>2, <1>10
    <3> QED BY <3>1
  <2> HIDE DEF d, e
  <2> QED BY <2>1, <2>2
<1> HIDE DEF d, e
<1>13. ASSUME NEW x \in 1 .. Len(c) - k PROVE d[x] = e[x]
  <2>1. d[x] = c[x + k]
    BY <1>11 DEF d
  <2>2. CASE x <= Len(a) - k
    <3>1. x \in 1 .. Len(a) - k /\ x + k \in 1 .. Len(a)
      BY <1>3, <1>8, <2>2
    <3> QED BY <1>3, <1>10, <1>12, <2>1, <3>1
  <2>3. CASE ~(x <= Len(a) - k)
    <3>1. /\ x \in Len(a) - k + 1 .. Len(c) - k /\ x + k \in Len(a) + 1 .. Len(a) + Len(r)
          /\ x - (Len(a) - k) = (x + k) - Len(a)
      BY <1>3, <1>8, <2>3
    <3> QED BY <1>3, <1>12, <2>1, <3>1
  <2> QED BY <2>2, <2>3
<1>14. d = e
  <2>1. d \in Seq(S) /\ e \in Seq(S) /\ Len(d) = Len(c) - k /\ Len(e) = Len(c) - k
    BY <1>11, <1>12 DEF d
  <2> DEFINE n == Len(c) - k
  <2>2. \A x \in 1 .. n : d[x] = e[x]
    BY <1>13
  <2>3. Len(d) = n /\ Len(e) = n
    BY <2>1
  <2> HIDE DEF n
  <2> QED BY <2>1, <2>2, <2>3
<1>15. ASSUME NEW y \in ToSet(b) PROVE y \in ToSet(a)
  <2>1. PICK x \in 1 .. Len(a) - k : y = b[x]
    BY <1>10 DEF ToSet
  <2>2. y = a[x + k] /\ x + k \in 1 .. Len(a)
    BY <1>3, <1>8, <1>10, <2>1
  <2> QED BY <1>2, <2>2 DEF ToSet
<1>16. Exited(a \o r) = b \o r
  BY <1>9, <1>14 DEF c, d, e
<1>17. IsCode(b)
  BY <1>10 DEF IsCode
<1> QED BY <1>15, <1>16, <1>17

LEMMA EndingLoopFree == ASSUME NEW e, Ending(e) PROVE LoopFree(e)
<1>1. PICK i, f, g : e = <<i>> \o (f \o <<g>>) /\ IsEnding(i, f, g)
  BY DEF Ending
<1>2. LoopFree(<<i>>) /\ LoopFree(f) /\ LoopFree(<<g>>)
  BY <1>1, LoopFree1 DEF IsEnding, GivesBack, LoopFree
<1> QED BY <1>1, <1>2, LoopFreeConcat

-----------------------------------------------------------------------------
(* The steps of a tick. *)

LEMMA EndOfTickCode == IsCode(EndOfTick) /\ LoopFree(EndOfTick) /\ EndOfTick # <<>>
<1> DEFINE i == [op |-> "End_Of_Tick"]
<1>1. EndOfTick = <<i>> /\ i.op # "While"
  BY DEF EndOfTick
<1> HIDE DEF i
<1>2. <<i>> # <<>>
  OBVIOUS
<1> QED BY <1>1, <1>2, LoopFree1 DEF LoopFree

(* A tick leaves its state by a transition or by the one for exceptions. *)
Leaves ==
    /\ current' = current /\ Leaving'
    /\ \/ next_state' \in {t.target : t \in ToSet(Machine[current].transitions)}
       \/ next_state' = Machine[current].exception

BusyAgain == Busy' /\ current' = current /\ next_state' = next_state

LEMMA BusyAgainWith ==
  ASSUME Busy, NEW a, NEW i, NEW e, OuterCode(a), Transfers(i, current), Ending(e),
         code' = a \o (<<i>> \o (e \o EndOfTick)), current' = current, next_state' = next_state
  PROVE  BusyAgain
<1>1. BusyWith(a, i, e)'
  BY DEF BusyWith
<1> QED BY <1>1 DEF Busy, BusyAgain

LEMMA BusyStep == ASSUME Busy, Statement(Head(code)) PROVE BusyAgain \/ Leaves
<1>1. PICK a, i, e : BusyWith(a, i, e)
  BY DEF Busy
<1> DEFINE r == <<i>> \o (e \o EndOfTick)
           x == Head(code)
<1>2. /\ code = a \o r /\ OuterCode(a) /\ Transfers(i, current) /\ Ending(e)
      /\ current \in States /\ next_state = current
  BY <1>1 DEF BusyWith, Busy
<1>3. IsCode(a) /\ IsCode(<<i>>) /\ IsCode(e) /\ IsCode(e \o EndOfTick) /\ IsCode(r) /\ LoopFree(r)
  <2>1. IsCode(a) /\ IsCode(<<i>>) /\ IsCode(e)
    BY <1>2, Code1, EndingIsCode DEF OuterCode
  <2>2. LoopFree(<<i>>) /\ LoopFree(e) /\ LoopFree(EndOfTick)
    BY <1>2, LoopFree1, EndingLoopFree, EndOfTickCode DEF Transfers
  <2>3. LoopFree(e \o EndOfTick) /\ LoopFree(r)
    BY <2>2, LoopFreeConcat
  <2> QED BY <2>1, <2>3 DEF LoopFree
<1> HIDE DEF r
<1>4. CASE a = <<>>
  <2>1. code = <<i>> \o (e \o EndOfTick)
    BY <1>2, <1>3, <1>4, EmptyCode DEF r
  <2>2. x = i /\ Tail(code) = e \o EndOfTick
    BY <1>3, <2>1, CodeHead
  <2>3. x.op = "Next_State"
    BY <1>2, <2>2 DEF Transfers
  <2>4. SetNextState(x)
    BY <2>3, StatementCases
  <2>5. code' = e \o EndOfTick /\ next_state' \in i.targets /\ current' = current
    BY <2>2, <2>4 DEF SetNextState, Done
  <2>6. e = <<>> \o e
    BY <1>3, EmptyCode
  <2>7. Handler(e)
    BY <1>2, <2>6, EmptyStraight DEF Handler
  <2>8. Leaving'
    BY <1>2, <2>5, <2>7 DEF Leaving
  <2> QED BY <1>2, <2>5, <2>8 DEF Leaves, Transfers
<1>5. CASE a # <<>>
  <2> DEFINE b == Tail(a)
  <2>1. x = Head(a) /\ Tail(code) = b \o r /\ IsCode(b) /\ ToSet(a) = {x} \cup ToSet(b)
    BY <1>2, <1>3, <1>5, CodeSplit
  <2> HIDE DEF x, b
  <2>2. Outer(x) /\ OuterCode(b)
    BY <1>2, <2>1 DEF OuterCode
  <2>3. ASSUME NEW c, OuterCode(c), code' = c \o r, current' = current, next_state' = next_state
        PROVE  BusyAgain
    BY <1>2, <2>3, BusyAgainWith DEF r
  <2>4. Statement(x)
    BY DEF x
  <2>5. CASE x.op \in Straight \cup {"Assert_Invariant"}
    <3>1. Advance
      BY <2>4, <2>5, StatementCases DEF Asserts
    <3> QED BY <2>1, <2>2, <2>3, <3>1 DEF Advance, x
  <2>6. CASE x.op = "Exit"
    <3>1. code' = Exited(code) /\ current' = current /\ next_state' = next_state
      <4>1. Exit(x)
        BY <2>4, <2>6, StatementCases
      <4> QED BY <4>1 DEF Exit, Exited, Control
    <3>2. PICK c : Exited(a \o r) = c \o r /\ IsCode(c) /\ ToSet(c) \subseteq ToSet(a)
      BY <1>3, ExitSplit
    <3>3. OuterCode(c)
      BY <1>2, <3>2 DEF OuterCode
    <3> QED BY <1>2, <2>3, <3>1, <3>2, <3>3
  <2>7. CASE x.op = "Raise" /\ Handler(x.handler)
    <3>1. Pass(x) \/ Raise(x)
      BY <2>4, <2>7, StatementCases
    <3>2. CASE Pass(x)
      <4>1. code' = Tail(code) /\ current' = current /\ next_state' = next_state
        BY <3>2 DEF Pass, Done, Control
      <4> QED BY <2>1, <2>2, <2>3, <4>1
    <3>3. CASE Raise(x)
      <4>1. code' = x.handler \o EndOfTick /\ current' = current /\ next_state' = Machine[current].exception
        BY <3>3 DEF Raise
      <4>2. Leaving'
        BY <1>2, <2>7, <4>1 DEF Leaving
      <4> QED BY <4>1, <4>2 DEF Leaves
    <3> QED BY <3>1, <3>2, <3>3
  <2>8. CASE x.op = "If" /\ InnerCode(x.body)
    <3>1. If(x)
      BY <2>4, <2>8, StatementCases
    <3>2. /\ code' = x.body \o (b \o r) \/ code' = b \o r
          /\ current' = current /\ next_state' = next_state
      BY <2>1, <3>1 DEF If, Control, x
    <3>3. x.body \o (b \o r) = (x.body \o b) \o r
      <4> DEFINE y == x.body
      <4>1. IsCode(y) /\ IsCode(b) /\ IsCode(r)
        BY <1>3, <2>1, <2>8 DEF InnerCode
      <4> HIDE DEF y
      <4>2. y \o (b \o r) = (y \o b) \o r
        BY <4>1, CodeRegroup
      <4> QED BY <4>2 DEF y
    <3>4. OuterCode(x.body \o b)
      BY <2>2, <2>8, InnerOuter, OuterConcat
    <3> QED BY <2>2, <2>3, <3>2, <3>3, <3>4
  <2>9. CASE x.op = "While" /\ MiddleCode(x.body)
    <3>1. While(x)
      BY <2>4, <2>9, StatementCases
    <3>2. /\ code' = x.body \o (a \o r) \/ code' = b \o r
          /\ current' = current /\ next_state' = next_state
      BY <1>2, <2>1, <3>1 DEF While, Control, x
    <3>3. x.body \o (a \o r) = (x.body \o a) \o r
      <4> DEFINE y == x.body
      <4>1. IsCode(y) /\ IsCode(a) /\ IsCode(r)
        BY <1>3, <2>9 DEF MiddleCode
      <4> HIDE DEF y
      <4>2. y \o (a \o r) = (y \o a) \o r
        BY <4>1, CodeRegroup
      <4> QED BY <4>2 DEF y
    <3>4. OuterCode(x.body \o a)
      BY <1>2, <2>9, MiddleOuter, OuterConcat
    <3> QED BY <2>2, <2>3, <3>2, <3>3, <3>4
  <2> QED BY <2>2, <2>5, <2>6, <2>7, <2>8, <2>9 DEF Outer, Middle, Inner
<1> QED BY <1>4, <1>5

Unmoved == current' = current /\ next_state' = next_state

LEMMA LeavingStep == ASSUME Leaving, Statement(Head(code)) PROVE Unmoved /\ (Leaving' \/ Freeing')
<1>1. PICK h : Handler(h) /\ code = h \o EndOfTick
  BY DEF Leaving
<1>2. PICK p, e : h = p \o e /\ StraightCode(p) /\ Ending(e)
  BY <1>1 DEF Handler
<1>3. PICK i, f, g : e = <<i>> \o (f \o <<g>>) /\ IsEnding(i, f, g)
  BY <1>2 DEF Ending
<1> DEFINE x == Head(code)
<1>4. IsCode(p) /\ IsCode(e) /\ IsCode(f) /\ IsCode(<<i>>) /\ IsCode(<<g>>) /\ IsCode(EndOfTick) /\ current \in States
  BY <1>2, <1>3, EndingIsCode, Code1, EndOfTickCode DEF StraightCode, IsEnding, GivesBack, Leaving
<1>5. code = p \o (e \o EndOfTick) /\ IsCode(e \o EndOfTick)
  <2>1. IsCode(p) /\ IsCode(e) /\ IsCode(EndOfTick)
    BY <1>4
  <2>2. (p \o e) \o EndOfTick = p \o (e \o EndOfTick)
    BY <2>1, CodeAssoc
  <2> QED BY <1>1, <1>2, <2>1, <2>2, CodeConcat
<1>6. CASE p # <<>>
  <2> DEFINE b == Tail(p)
  <2>1. x = Head(p) /\ Tail(code) = b \o (e \o EndOfTick) /\ IsCode(b) /\ ToSet(p) = {x} \cup ToSet(b)
    BY <1>4, <1>5, <1>6, CodeSplit
  <2> HIDE DEF x, b
  <2>2. x.op \in Straight /\ StraightCode(b)
    BY <1>2, <2>1 DEF StraightCode
  <2>3. Advance
    BY <2>2, StatementCases DEF x
  <2>4. code' = (b \o e) \o EndOfTick
    <3>1. IsCode(b) /\ IsCode(e) /\ IsCode(EndOfTick)
      BY <1>4, <2>1
    <3>2. b \o (e \o EndOfTick) = (b \o e) \o EndOfTick
      BY <3>1, CodeRegroup
    <3> QED BY <2>1, <2>3, <3>2 DEF Advance, x
  <2>5. Handler(b \o e)
    BY <1>2, <2>2 DEF Handler
  <2> QED BY <1>4, <2>3, <2>4, <2>5 DEF Advance, Unmoved, Leaving
<1>7. CASE p = <<>>
  <2>1. IsCode(f \o <<g>>) /\ IsCode(<<g>> \o EndOfTick)
    BY <1>4, CodeConcat
  <2>2. code = <<i>> \o ((f \o <<g>>) \o EndOfTick) /\ IsCode((f \o <<g>>) \o EndOfTick)
    BY <1>3, <1>4, <1>5, <1>7, <2>1, EmptyCode, CodeAssoc, CodeConcat
  <2>3. x = i /\ Tail(code) = (f \o <<g>>) \o EndOfTick
    BY <2>2, CodeHead
  <2>4. (f \o <<g>>) \o EndOfTick = f \o (<<g>> \o EndOfTick)
    <3> DEFINE y == <<g>>
    <3>1. IsCode(f) /\ IsCode(y) /\ IsCode(EndOfTick)
      BY <1>4
    <3> HIDE DEF y
    <3>2. (f \o y) \o EndOfTick = f \o (y \o EndOfTick)
      BY <3>1, CodeAssoc
    <3> QED BY <3>2 DEF y
  <2> HIDE DEF x
  <2>5. i.op = "Assert_Invariant" /\ g.op = "Assert_Global_Initialized" /\ GivesBack(f)
        /\ \A d \in i.local : Frees(f, d.slot)
    BY <1>3 DEF IsEnding
  <2>6. i.op \in Asserts /\ ~(i.op \in {"Allocate", "Free"})
    BY <2>5 DEF Asserts
  <2>7. Advance /\ slots' = slots /\ Precondition(i)
    BY <2>3, <2>6, StatementCases DEF x
  <2>8. State_Invariant(i.local)
    BY <2>5, <2>7 DEF Precondition
  <2>9. Given(f)
    <3>1. \A k \in 1 .. GlobalSlotCount : slots[k] = Null
      BY <2>8, SlotFacts DEF State_Invariant
    <3>2. \A k \in LocalSlots \ {d.slot : d \in i.local} : slots[k] # Null
      BY <2>8 DEF State_Invariant
    <3> QED BY <2>5, <3>1, <3>2 DEF Given
  <2>10. Given(f)'
    BY <2>7, <2>9 DEF Given
  <2>11. FreeingWith(f, g)'
    BY <2>3, <2>4, <2>5, <2>7, <2>10 DEF FreeingWith, Advance
  <2> QED BY <1>4, <2>7, <2>11 DEF Advance, Unmoved, Freeing
<1> QED BY <1>6, <1>7

LEMMA FreeingStep ==
  ASSUME Freeing, slots \in [DOMAIN SlotSize -> {Null} \cup SlotMemory], Statement(Head(code))
  PROVE  Unmoved /\ (Freeing' \/ Left')
<1>1. PICK f, g : FreeingWith(f, g)
  BY DEF Freeing
<1>2. /\ code = f \o (<<g>> \o EndOfTick) /\ g.op = "Assert_Global_Initialized" /\ GivesBack(f) /\ Given(f)
      /\ IsCode(f) /\ current \in States
  BY <1>1 DEF FreeingWith, GivesBack, Freeing
<1> DEFINE x == Head(code)
<1>3. IsCode(<<g>>) /\ IsCode(EndOfTick) /\ IsCode(<<g>> \o EndOfTick)
  BY Code1, EndOfTickCode, CodeConcat
<1>4. CASE f # <<>>
  <2> DEFINE b == Tail(f)
  <2>1. x = Head(f) /\ Tail(code) = b \o (<<g>> \o EndOfTick) /\ IsCode(b) /\ ToSet(f) = {x} \cup ToSet(b)
    BY <1>2, <1>3, <1>4, CodeSplit
  <2> HIDE DEF x, b
  <2>2. x.op \in {"Take", "Free"} /\ (x.op = "Free" => x.slot \in LocalSlots) /\ GivesBack(b)
    BY <1>2, <2>1 DEF GivesBack
  <2>3. Advance
    BY <2>2, StatementCases DEF x, Straight
  <2>4. Given(b)'
    <3>1. CASE x.op = "Take"
      <4>1. slots' = slots
        BY <3>1, StatementCases DEF x, Straight
      <4>2. \A j : Frees(f, j) => Frees(b, j)
        BY <2>1, <3>1 DEF Frees
      <4> QED BY <1>2, <4>1, <4>2 DEF Given
    <3>2. CASE x.op = "Free"
      <4>1. Free(x) /\ Precondition(x)
        BY <3>2, StatementCases DEF x
      <4>2. slots' = [slots EXCEPT ![x.slot] = pointers[x.ptr]]
        BY <4>1 DEF Free
      <4>3. pointers[x.ptr] # Null
        BY <3>2, <4>1 DEF Precondition, Pointer
      <4>4. x.slot \in LocalSlots
        BY <2>2, <3>2
      <4>5. LocalSlots \subseteq DOMAIN slots /\ 1 .. GlobalSlotCount \subseteq DOMAIN slots
            /\ \A j \in LocalSlots : j \notin 1 .. GlobalSlotCount
        <5>1. DOMAIN slots = 1 .. GlobalSlotCount + LocalSlotCount
          BY SlotFacts
        <5> QED BY <5>1, SlotFacts
      <4>6. slots'[x.slot] # Null /\ \A j \in DOMAIN slots : j # x.slot => slots'[j] = slots[j]
        BY <4>2, <4>3, <4>4, <4>5
      <4>7. \A j : Frees(f, j) /\ j # x.slot => Frees(b, j)
        BY <2>1 DEF Frees
      <4>8. \A j \in 1 .. GlobalSlotCount : slots'[j] = Null
        BY <1>2, <4>4, <4>5, <4>6 DEF Given
      <4>9. \A j \in LocalSlots : slots'[j] # Null \/ Frees(b, j)
        BY <1>2, <4>4, <4>5, <4>6, <4>7 DEF Given
      <4> QED BY <4>8, <4>9 DEF Given
    <3> QED BY <2>2, <3>1, <3>2
  <2>5. FreeingWith(b, g)'
    BY <1>2, <2>1, <2>2, <2>3, <2>4 DEF FreeingWith, Advance
  <2> QED BY <1>2, <2>3, <2>5 DEF Freeing, Advance, Unmoved
<1>5. CASE f = <<>>
  <2>1. code = <<g>> \o EndOfTick
    BY <1>2, <1>3, <1>5, EmptyCode
  <2>2. x = g /\ Tail(code) = EndOfTick
    BY <1>3, <2>1, CodeHead
  <2> HIDE DEF x
  <2>3. g.op \in Asserts /\ ~(g.op \in {"Allocate", "Free"})
    BY <1>2 DEF Asserts
  <2>4. Advance /\ slots' = slots /\ contexts' = contexts /\ Precondition(g)
    BY <2>2, <2>3, StatementCases DEF x
  <2>5. Global_Initialized
    BY <1>2, <2>4 DEF Precondition
  <2>6. ~\E y : y \in ToSet(f)
    BY <1>5, ToSetOf1
  <2>7. Global_Allocated
    BY <1>2, <2>6, SlotFacts DEF Given, Frees, Global_Allocated
  <2>8. Global_Initialized' /\ Global_Allocated'
    BY <2>4, <2>5, <2>7 DEF Global_Initialized, Global_Allocated, HasBuffer
  <2> QED BY <1>2, <2>2, <2>4, <2>8 DEF Left, Advance, Unmoved
<1> QED BY <1>4, <1>5

LEMMA LeftStep == ASSUME Left, Statement(Head(code)) PROVE On' /\ next_state' = next_state
<1> DEFINE x == Head(code)
           i == [op |-> "End_Of_Tick"]
           kept == DOMAIN contexts \cap {Ctx(v) : v \in ToSet(Globals)}
<1>1. code = <<i>> /\ i.op = "End_Of_Tick"
  BY DEF Left, EndOfTick
<1> HIDE DEF i
<1>2. x = i /\ Tail(code) = <<>>
  BY <1>1
<1> HIDE DEF x
<1>3. ResetMessagesBeforeWrite(x)
  BY <1>1, <1>2, StatementCases DEF x
<1>4. /\ code' = <<>> /\ next_state' = next_state /\ slots' = slots /\ current' = ""
      /\ \E reads : contexts' = [n \in kept |->
                        IF n \in reads THEN Context(contexts[n].buffer, 0, 0, 0) ELSE contexts[n]]
  BY <1>2, <1>3 DEF ResetMessagesBeforeWrite, Done
<1>5. PICK reads : contexts' = [n \in kept |->
                        IF n \in reads THEN Context(contexts[n].buffer, 0, 0, 0) ELSE contexts[n]]
  BY <1>4
<1>6. \A n, b : Context(b, 0, 0, 0).buffer = b
  BY DEF Context
<1>7. \A n \in kept : n \in DOMAIN contexts' /\ contexts'[n].buffer = contexts[n].buffer
  <2> HIDE DEF kept
  <2> QED BY <1>5, <1>6
<1>8. Global_Initialized /\ Global_Allocated
  BY DEF Left
<1>9. ASSUME NEW v \in DOMAIN GlobalSizes
      PROVE  HasBuffer(Ctx(v))' /\ contexts'[Ctx(v)].buffer.length = GlobalSizes[v]
  <2>1. v \in ToSet(Globals)
    BY GlobalSlotsElements DEF GlobalSizes
  <2>2. HasBuffer(Ctx(v)) /\ contexts[Ctx(v)].buffer.length = GlobalSizes[v]
    BY <1>8 DEF Global_Initialized
  <2>3. Ctx(v) \in kept
    BY <2>1, <2>2 DEF HasBuffer
  <2> QED BY <1>7, <2>2, <2>3 DEF HasBuffer
<1>10. Global_Initialized'
  BY <1>9 DEF Global_Initialized
<1>11. Global_Allocated'
  BY <1>4, <1>8 DEF Global_Allocated
<1> QED BY <1>4, <1>10, <1>11 DEF On

-----------------------------------------------------------------------------
(* The calls of Initialize and Finalize.  A global variable with a slot is  *)
(* not yet declared, has got its buffer but no context, or is declared; c   *)
(* is what is left of the declarations.                                     *)

Declaration(x) ==
    \E v \in ToSet(Globals) :
        \/ x.op = "Allocate" /\ x.ptr = Ctx(v) /\ v \in ToSet(GlobalSlots) /\ x.slot = slot_ptr[v]
        \/ x.op = "Initialize" /\ x.ptr = Ctx(v) /\ x.ctx = Ctx(v)

Declarations(c) == IsCode(c) /\ \A x \in ToSet(c) : Declaration(x)

Allocates(c, v) == \E x \in ToSet(c) : x.op = "Allocate" /\ x.ptr = Ctx(v)
Initializes(c, v) == \E x \in ToSet(c) : x.op = "Initialize" /\ x.ptr = Ctx(v)

Undeclared(c, v) ==
    /\ slots[slot_ptr[v]] = Memory(slot_ptr[v]) /\ Ctx(v) \notin DOMAIN pointers
    /\ Allocates(c, v) /\ Initializes(c, v)

HalfDeclared(c, v) ==
    /\ slots[slot_ptr[v]] = Null /\ Ctx(v) \in DOMAIN pointers /\ pointers[Ctx(v)] = Memory(slot_ptr[v])
    /\ Initializes(c, v)

Declared(v) ==
    /\ slots[slot_ptr[v]] = Null /\ Ctx(v) \notin DOMAIN pointers
    /\ Ctx(v) \in DOMAIN contexts /\ contexts[Ctx(v)].buffer = Memory(slot_ptr[v])

Starts(i) == i.op = "Next_State" /\ i.targets = {InitialState}
Stops(i) == i.op = "Next_State" /\ i.targets = {"Final"}

StartingWith(i, c, t) ==
    /\ code = <<i>> \o (c \o <<t>>) /\ i.op = "Allocator_Initialize" /\ Starts(t)
    /\ Declarations(c)
    /\ \A v \in ToSet(GlobalSlots) : Ctx(v) \notin DOMAIN pointers /\ Allocates(c, v) /\ Initializes(c, v)

Starting == current = "" /\ \E i, c, t : StartingWith(i, c, t)

DeclaringWith(c, t) ==
    /\ code = c \o <<t>> /\ Starts(t)
    /\ Declarations(c)
    /\ \A v \in ToSet(GlobalSlots) : Undeclared(c, v) \/ HalfDeclared(c, v) \/ Declared(v)
    /\ \A i \in LocalSlots : slots[i] # Null

Declaring == current = "" /\ \E c, t : DeclaringWith(c, t)

StoppingWith(c, i, t) ==
    /\ code = c \o (<<i>> \o <<t>>) /\ StraightCode(c) /\ i.op = "Allocator_Finalize" /\ Stops(t)

Stopping == current = "" /\ ~running /\ \E c, i, t : StoppingWith(c, i, t)

Stopped == current = "" /\ ~running /\ Uninitialized /\ \E t : Stops(t) /\ code = <<t>>

(* The declarations of Initialize. *)
Declares(c) ==
    /\ Declarations(c)
    /\ \A v \in ToSet(GlobalSlots) : Allocates(c, v) /\ Initializes(c, v)

LEMMA DeclaresGlobals == Declares(ConcatMap(LAMBDA v : declare(Ctx(v), v), Globals))
<1> DEFINE n == Len(Globals)
           q == [k \in 1 .. n |-> declare(Ctx(Globals[k]), Globals[k])]
           I(v) == [op |-> "Initialize", ctx |-> Ctx(v), ptr |-> Ctx(v), bounds |-> "Buffer", of |-> Ctx(v)]
           A(v) == [op |-> "Allocate", ptr |-> Ctx(v), slot |-> slot_ptr[v]]
<1>1. ConcatMap(LAMBDA v : declare(Ctx(v), v), Globals) = FlattenSeq(q)
  BY DEF ConcatMap
<1>2. \A v : declare(Ctx(v), v) = (IF v \in external_io_buffers THEN <<>> ELSE <<A(v)>>) \o <<I(v)>>
  BY DEF declare, allocate_buffer, is_externally_managed, initialize_context
<1>3. \A v : /\ I(v).op = "Initialize" /\ I(v).ctx = Ctx(v) /\ I(v).ptr = Ctx(v)
             /\ A(v).op = "Allocate" /\ A(v).ptr = Ctx(v) /\ A(v).slot = slot_ptr[v]
  OBVIOUS
<1> HIDE DEF I, A
<1>4. \A v : /\ IsCode(declare(Ctx(v), v))
             /\ ToSet(declare(Ctx(v), v)) = (IF v \in external_io_buffers THEN {} ELSE {A(v)}) \cup {I(v)}
  <2> TAKE v
  <2>1. IsCode(<<I(v)>>) /\ IsCode(<<A(v)>>) /\ IsCode(<<>>)
    BY Code1, EmptyCode
  <2>2. ToSet(<<I(v)>>) = {I(v)} /\ ToSet(<<A(v)>>) = {A(v)} /\ ToSet(<<>>) = {}
    BY ToSetOf1
  <2>3. CASE v \in external_io_buffers
    <3>1. declare(Ctx(v), v) = <<>> \o <<I(v)>>
      BY <1>2, <2>3
    <3> QED BY <2>1, <2>2, <2>3, <3>1, CodeConcat, ConcatElements
  <2>4. CASE v \notin external_io_buffers
    <3>1. declare(Ctx(v), v) = <<A(v)>> \o <<I(v)>>
      BY <1>2, <2>4
    <3> QED BY <2>1, <2>2, <2>4, <3>1, CodeConcat, ConcatElements
  <2> QED BY <2>3, <2>4
<1>5. IsSequence(Globals) /\ n \in Nat /\ \A v \in ToSet(Globals) : \E k \in 1 .. n : v = Globals[k]
  <2>1. IsSequence(Globals)
    BY MachineAssumption
  <2>2. Globals \in Seq(ToSet(Globals))
    BY <2>1 DEF IsSequence
  <2> QED BY <2>1, <2>2 DEF ToSet
<1>6. \A k \in 1 .. n : Globals[k] \in ToSet(Globals)
  BY <1>5 DEF IsSequence, ToSet
<1>7. IsCode(q) /\ Len(q) = n /\ \A k \in 1 .. n : q[k] = declare(Ctx(Globals[k]), Globals[k])
  <2>1. q = [k \in 1 .. Len(Globals) |-> q[k]]
    OBVIOUS
  <2> QED BY <1>5, <2>1, MapIsCode
<1> HIDE DEF q, n
<1>8. \A k \in 1 .. Len(q) : IsCode(q[k])
  BY <1>4, <1>7
<1>9. /\ IsCode(FlattenSeq(q))
      /\ \A x \in ToSet(FlattenSeq(q)) : \E k \in 1 .. n : x \in ToSet(q[k])
  BY <1>7, <1>8, FlattenCode
<1>10. \A k \in 1 .. n : \A x \in ToSet(q[k]) : x \in ToSet(FlattenSeq(q))
  BY <1>7, <1>8, FlattenElements
<1>11. \A v \in ToSet(GlobalSlots) : v \in ToSet(Globals) /\ v \notin external_io_buffers
  BY GlobalSlotsElements
<1>12. \A v \in ToSet(Globals) : v \notin external_io_buffers => v \in ToSet(GlobalSlots)
  BY GlobalSlotsElements
<1>13. ASSUME NEW x \in ToSet(FlattenSeq(q)) PROVE Declaration(x)
  <2>1. PICK k \in 1 .. n : x \in ToSet(q[k])
    BY <1>9
  <2> DEFINE v == Globals[k]
  <2>2. v \in ToSet(Globals) /\ ToSet(q[k]) = (IF v \in external_io_buffers THEN {} ELSE {A(v)}) \cup {I(v)}
    BY <1>4, <1>6, <1>7
  <2> HIDE DEF v
  <2> QED BY <1>3, <1>12, <2>1, <2>2 DEF Declaration
<1>14. ASSUME NEW v \in ToSet(GlobalSlots) PROVE Allocates(FlattenSeq(q), v) /\ Initializes(FlattenSeq(q), v)
  <2>1. PICK k \in 1 .. n : v = Globals[k]
    BY <1>5, <1>11
  <2>2. A(v) \in ToSet(q[k]) /\ I(v) \in ToSet(q[k])
    BY <1>4, <1>7, <1>11, <2>1
  <2> QED BY <1>3, <1>10, <2>2 DEF Allocates, Initializes
<1> QED BY <1>1, <1>9, <1>13, <1>14 DEF Declares, Declarations

LEMMA InitializeShape ==
  \E i, c, t : /\ fsm.initialize = <<i>> \o (c \o <<t>>)
               /\ i.op = "Allocator_Initialize" /\ Starts(t) /\ Declares(c)
<1> DEFINE i == [op |-> "Allocator_Initialize"]
           c == ConcatMap(LAMBDA v : declare(Ctx(v), v), Globals)
           t == [op |-> "Next_State", targets |-> {InitialState}]
<1>1. fsm.initialize = (<<i>> \o c) \o <<t>>
  BY DEF fsm, initialize
<1>2. i.op = "Allocator_Initialize" /\ Starts(t)
  BY DEF Starts
<1>3. Declares(c)
  BY DeclaresGlobals
<1> HIDE DEF i, c, t
<1>4. IsCode(<<i>>) /\ IsCode(c) /\ IsCode(<<t>>)
  BY <1>3, Code1 DEF Declares, Declarations
<1>5. (<<i>> \o c) \o <<t>> = <<i>> \o (c \o <<t>>)
  BY <1>4, CodeAssoc
<1> QED BY <1>1, <1>2, <1>3, <1>5

LEMMA TwoStatements == ASSUME NEW i, NEW j PROVE <<i, j>> = <<i>> \o <<j>>
<1> DEFINE S == {i, j}
           a == <<i, j>>
           b == <<i>> \o <<j>>
<1>1. <<i>> \in Seq(S) /\ <<j>> \in Seq(S) /\ <<i, j>> \in Seq(S)
  OBVIOUS
<1> HIDE DEF S
<1>2. b \in Seq(S) /\ Len(b) = 2 /\ b[1] = i /\ b[2] = j
  BY <1>1
<1>3. a \in Seq(S) /\ Len(a) = 2 /\ a[1] = i /\ a[2] = j
  BY <1>1
<1> HIDE DEF a, b
<1>4. \A x \in 1 .. 2 : a[x] = b[x]
  <2>1. \A x \in 1 .. 2 : x = 1 \/ x = 2
    OBVIOUS
  <2> QED BY <1>2, <1>3, <2>1
<1>5. a = b
  BY <1>2, <1>3, <1>4
<1> QED BY <1>5 DEF a, b

LEMMA FinalizeShape ==
  \E c, i, t : /\ fsm.finalize = c \o (<<i>> \o <<t>>)
               /\ StraightCode(c) /\ i.op = "Allocator_Finalize" /\ Stops(t)
<1> DEFINE c == ConcatMap(LAMBDA v : free_context_buffer(Ctx(v), v), Globals)
           i == [op |-> "Allocator_Finalize"]
           t == [op |-> "Next_State", targets |-> {"Final"}]
<1>1. fsm.finalize = c \o <<i, t>>
  BY DEF fsm, finalize
<1>2. i.op = "Allocator_Finalize" /\ Stops(t)
  BY DEF Stops
<1>3. StraightCode(c)
  <2> DEFINE q == [k \in 1 .. Len(Globals) |-> free_context_buffer(Ctx(Globals[k]), Globals[k])]
  <2>1. c = FlattenSeq(q)
    BY DEF ConcatMap
  <2>2. IsSequence(Globals)
    BY MachineAssumption
  <2>3. ASSUME NEW k \in 1 .. Len(Globals) PROVE StraightCode(q[k])
    <3>1. StraightCode(free_context_buffer(Ctx(Globals[k]), Globals[k]))
      BY StraightPieces, StraightConcat, EmptyStraight DEF free_context_buffer, is_externally_managed
    <3> QED BY <3>1
  <2>4. q = [k \in 1 .. Len(Globals) |-> q[k]]
    OBVIOUS
  <2> HIDE DEF q, c
  <2>5. IsCode(q) /\ Len(q) = Len(Globals)
    BY <2>2, <2>4, MapIsCode
  <2> QED BY <2>1, <2>3, <2>5, FlattenStraight
<1> HIDE DEF c, i, t
<1>4. <<i, t>> = <<i>> \o <<t>>
  BY TwoStatements
<1> QED BY <1>1, <1>2, <1>3, <1>4

LEMMA MemoryFacts ==
  /\ \A k \in DOMAIN SlotSize : Memory(k) # Null
  /\ \A v \in ToSet(GlobalSlots) : /\ slot_ptr[v] \in DOMAIN SlotSize /\ slot_ptr[v] \notin LocalSlots
                                   /\ Memory(slot_ptr[v]).length = GlobalSizes[v]
  /\ LocalSlots \subseteq DOMAIN SlotSize
<1>1. ASSUME NEW k \in DOMAIN SlotSize PROVE Memory(k) # Null
  BY BufferKinds DEF SlotMemory
<1>2. ASSUME NEW v \in ToSet(GlobalSlots)
      PROVE  /\ slot_ptr[v] \in DOMAIN SlotSize /\ slot_ptr[v] \notin LocalSlots
             /\ Memory(slot_ptr[v]).length = GlobalSizes[v]
  <2>1. slot_ptr[v] \in 1 .. GlobalSlotCount /\ SlotSize[slot_ptr[v]] = GlobalSizes[v]
    BY GlobalSlot
  <2>2. slot_ptr[v] \in DOMAIN SlotSize /\ slot_ptr[v] \notin LocalSlots
    BY <2>1, SlotFacts
  <2> QED BY <2>1, <2>2 DEF Memory
<1>3. LocalSlots \subseteq DOMAIN SlotSize
  BY SlotFacts
<1> QED BY <1>1, <1>2, <1>3

LEMMA StartingStep ==
  ASSUME Starting, Statement(Head(code)) PROVE Declaring' /\ Unmoved
<1>1. PICK i, c, t : StartingWith(i, c, t)
  BY DEF Starting
<1>2. /\ code = <<i>> \o (c \o <<t>>) /\ i.op = "Allocator_Initialize" /\ Starts(t)
      /\ Declarations(c) /\ IsCode(c) /\ current = ""
      /\ \A v \in ToSet(GlobalSlots) : Ctx(v) \notin DOMAIN pointers /\ Allocates(c, v) /\ Initializes(c, v)
  BY <1>1 DEF StartingWith, Declarations, Starting
<1>3. Head(code) = i /\ Tail(code) = c \o <<t>>
  <2>1. IsCode(c \o <<t>>)
    BY <1>2, Code1, CodeConcat
  <2> QED BY <1>2, <2>1, CodeHead
<1>4. AllocatorInitialize(i)
  BY <1>2, <1>3, StatementCases
<1>5. /\ code' = c \o <<t>> /\ current' = current /\ next_state' = next_state
      /\ slots' = [k \in DOMAIN SlotSize |-> Memory(k)] /\ pointers' = pointers
  BY <1>3, <1>4 DEF AllocatorInitialize, Done, Control
<1>6. ASSUME NEW v \in ToSet(GlobalSlots) PROVE Undeclared(c, v)'
  <2>1. slots'[slot_ptr[v]] = Memory(slot_ptr[v])
    BY <1>5, MemoryFacts
  <2>2. Allocates(c, v)' /\ Initializes(c, v)'
    BY <1>2 DEF Allocates, Initializes
  <2> QED BY <1>2, <1>5, <2>1, <2>2 DEF Undeclared, Memory
<1>7. ASSUME NEW k \in LocalSlots PROVE slots'[k] # Null
  BY <1>5, MemoryFacts
<1>8. DeclaringWith(c, t)'
  BY <1>2, <1>5, <1>6, <1>7 DEF DeclaringWith, Declarations
<1> QED BY <1>2, <1>5, <1>8 DEF Declaring, Unmoved

LEMMA CtxInjective == \A v, w : Ctx(v) = Ctx(w) => v = w
BY DEF Ctx

(* The next declaration gets its buffer. *)
LEMMA DeclaringAllocate ==
  ASSUME Ownership, NEW c, NEW t, DeclaringWith(c, t), c # <<>>, Statement(Head(code)), Head(c).op = "Allocate"
  PROVE  DeclaringWith(Tail(c), t)' /\ Unmoved
<1> DEFINE x == Head(c)
           b == Tail(c)
<1>1. /\ code = c \o <<t>> /\ Starts(t) /\ Declarations(c) /\ IsCode(c)
      /\ \A v \in ToSet(GlobalSlots) : Undeclared(c, v) \/ HalfDeclared(c, v) \/ Declared(v)
      /\ \A i \in LocalSlots : slots[i] # Null
  BY DEF DeclaringWith, Declarations
<1>2. /\ Head(code) = x /\ Tail(code) = b \o <<t>> /\ IsCode(b) /\ ToSet(c) = {x} \cup ToSet(b)
      /\ code # <<>>
  BY <1>1, Code1, CodeSplit
<1> HIDE DEF b, x
<1>3. x.op = "Allocate" /\ Allocate(x)
  BY <1>2, StatementCases DEF x
<1>4. PICK w \in ToSet(GlobalSlots) : x.ptr = Ctx(w) /\ x.slot = slot_ptr[w]
  <2>1. Declaration(x)
    BY <1>1, <1>2 DEF Declarations
  <2> QED BY <1>3, <2>1 DEF Declaration
<1>5. /\ code' = b \o <<t>> /\ current' = current /\ next_state' = next_state /\ contexts' = contexts
      /\ slots' = [slots EXCEPT ![slot_ptr[w]] = Null]
      /\ pointers' = IF slots[slot_ptr[w]] = Null THEN Without(pointers, Ctx(w))
                     ELSE Put(pointers, Ctx(w), slots[slot_ptr[w]])
  BY <1>2, <1>3, <1>4 DEF Allocate, Done, Control
<1>6. Ctx(w) \notin DOMAIN pointers
  <2>1. PICK m, P, C, Y : Covers(m, P, C) /\ Next1(m, P, C, code, Y)
    BY <1>2, CodeNext DEF Ownership
  <2>2. SafeStatement(m, P, C, x, code, Y)
    BY <1>2, <2>1 DEF Next1
  <2>3. x.ptr \notin P
    BY <1>3, <2>2 DEF SafeStatement
  <2> QED BY <1>4, <2>1, <2>3 DEF Covers
<1>7. DOMAIN slots = DOMAIN SlotSize
  BY DEF Ownership, Kinds
<1>8. slots'[slot_ptr[w]] = Null /\ \A k \in DOMAIN SlotSize : k # slot_ptr[w] => slots'[k] = slots[k]
  BY <1>5, <1>7, MemoryFacts
<1>9. Declarations(b)
  BY <1>1, <1>2 DEF Declarations
<1>10. \A v : /\ Initializes(c, v) => Initializes(b, v)
              /\ Allocates(c, v) /\ v # w => Allocates(b, v)
  BY <1>2, <1>3, <1>4, CtxInjective DEF Initializes, Allocates
<1>11. ASSUME NEW v \in ToSet(GlobalSlots), v # w
       PROVE  Undeclared(b, v)' \/ HalfDeclared(b, v)' \/ Declared(v)'
  <2>1. slot_ptr[v] # slot_ptr[w] /\ slot_ptr[v] \in DOMAIN SlotSize
    BY <1>11, GlobalSlot, MemoryFacts
  <2>2. slots'[slot_ptr[v]] = slots[slot_ptr[v]]
    BY <1>8, <2>1
  <2>3. /\ Ctx(v) \in DOMAIN pointers' <=> Ctx(v) \in DOMAIN pointers
        /\ Ctx(v) \in DOMAIN pointers => pointers'[Ctx(v)] = pointers[Ctx(v)]
    <3>1. Ctx(v) # Ctx(w)
      BY <1>11, CtxInjective
    <3> QED BY <1>5, <3>1 DEF Without, Put
  <2>4. Allocates(c, v) => Allocates(b, v)'
    BY <1>10, <1>11 DEF Allocates
  <2>5. Initializes(c, v) => Initializes(b, v)'
    BY <1>10, <1>11 DEF Initializes
  <2>6. CASE Undeclared(c, v)
    BY <2>2, <2>3, <2>4, <2>5, <2>6 DEF Undeclared, Memory
  <2>7. CASE HalfDeclared(c, v)
    BY <2>2, <2>3, <2>5, <2>7 DEF HalfDeclared, Memory, Null
  <2>8. CASE Declared(v)
    BY <1>5, <2>2, <2>3, <2>8 DEF Declared, Memory, Null
  <2> QED BY <1>1, <2>6, <2>7, <2>8
<1>12. HalfDeclared(b, w)' \/ Declared(w)'
  <2>1. Initializes(c, w) => Initializes(b, w)'
    BY <1>10 DEF Initializes
  <2>2. CASE Undeclared(c, w)
    <3>1. slots[slot_ptr[w]] = Memory(slot_ptr[w]) /\ slots[slot_ptr[w]] # Null /\ Initializes(c, w)
      BY <2>2, MemoryFacts DEF Undeclared
    <3>2. pointers' = Put(pointers, Ctx(w), Memory(slot_ptr[w]))
      BY <1>5, <3>1
    <3>3. Ctx(w) \in DOMAIN pointers' /\ pointers'[Ctx(w)] = Memory(slot_ptr[w])
      BY <3>2 DEF Put
    <3> QED BY <1>8, <2>1, <3>1, <3>3 DEF HalfDeclared, Memory, Null
  <2>3. CASE HalfDeclared(c, w)
    BY <1>6, <2>3 DEF HalfDeclared
  <2>4. CASE Declared(w)
    <3>1. pointers' = Without(pointers, Ctx(w))
      BY <1>5, <2>4 DEF Declared
    <3>2. Ctx(w) \notin DOMAIN pointers'
      BY <3>1 DEF Without
    <3> QED BY <1>5, <1>8, <2>4, <3>2 DEF Declared, Memory, Null
  <2> QED BY <1>1, <2>2, <2>3, <2>4
<1>13. ASSUME NEW k \in LocalSlots PROVE slots'[k] # Null
  <2>1. k \in DOMAIN SlotSize /\ k # slot_ptr[w]
    BY MemoryFacts
  <2> QED BY <1>1, <1>8, <2>1
<1>14. DeclaringWith(b, t)'
  <2>1. \A v \in ToSet(GlobalSlots) : Undeclared(b, v)' \/ HalfDeclared(b, v)' \/ Declared(v)'
    BY <1>11, <1>12
  <2> QED BY <1>1, <1>5, <1>9, <1>13, <2>1 DEF DeclaringWith, Declarations, Null
<1> QED BY <1>5, <1>14 DEF Unmoved, b

(* The next declaration gets its context. *)
LEMMA DeclaringInitialize ==
  ASSUME NEW c, NEW t, DeclaringWith(c, t), c # <<>>, Statement(Head(code)), Head(c).op = "Initialize"
  PROVE  DeclaringWith(Tail(c), t)' /\ Unmoved
<1> DEFINE x == Head(c)
           b == Tail(c)
<1>1. /\ code = c \o <<t>> /\ Starts(t) /\ Declarations(c) /\ IsCode(c)
      /\ \A v \in ToSet(GlobalSlots) : Undeclared(c, v) \/ HalfDeclared(c, v) \/ Declared(v)
      /\ \A i \in LocalSlots : slots[i] # Null
  BY DEF DeclaringWith, Declarations
<1>2. /\ Head(code) = x /\ Tail(code) = b \o <<t>> /\ IsCode(b) /\ ToSet(c) = {x} \cup ToSet(b)
      /\ code # <<>>
  BY <1>1, Code1, CodeSplit
<1> HIDE DEF b, x
<1>3. x.op = "Initialize" /\ InitializeContext(x) /\ Precondition(x)
  BY <1>2, StatementCases DEF x
<1>4. PICK w \in ToSet(Globals) : x.ptr = Ctx(w) /\ x.ctx = Ctx(w)
  <2>1. Declaration(x)
    BY <1>1, <1>2 DEF Declarations
  <2> QED BY <1>3, <2>1 DEF Declaration
<1>5. Pointer(Ctx(w)) # Null
  BY <1>3, <1>4 DEF Precondition
<1>6. Ctx(w) \in DOMAIN pointers
  BY <1>5 DEF Pointer
<1>7. /\ code' = b \o <<t>> /\ current' = current /\ next_state' = next_state /\ slots' = slots
      /\ pointers' = Without(pointers, Ctx(w))
      /\ \E last, size : contexts' = Put(contexts, Ctx(w), Context(pointers[Ctx(w)], last, 0, size))
  BY <1>2, <1>3, <1>4 DEF InitializeContext, Done, Control
<1>8. PICK last, size : contexts' = Put(contexts, Ctx(w), Context(pointers[Ctx(w)], last, 0, size))
  BY <1>7
<1>9. Ctx(w) \in DOMAIN contexts' /\ contexts'[Ctx(w)].buffer = pointers[Ctx(w)]
  <2>1. Context(pointers[Ctx(w)], last, 0, size).buffer = pointers[Ctx(w)]
    BY DEF Context
  <2> QED BY <1>8, <2>1 DEF Put
<1>10. Declarations(b)
  BY <1>1, <1>2 DEF Declarations
<1>11. \A v : /\ Allocates(c, v) => Allocates(b, v)
              /\ Initializes(c, v) /\ v # w => Initializes(b, v)
  BY <1>2, <1>3, <1>4, CtxInjective DEF Initializes, Allocates
<1>12. ASSUME NEW v \in ToSet(GlobalSlots), v # w
       PROVE  Undeclared(b, v)' \/ HalfDeclared(b, v)' \/ Declared(v)'
  <2>1. Ctx(v) # Ctx(w)
    BY <1>12, CtxInjective
  <2>2. /\ Ctx(v) \in DOMAIN pointers' <=> Ctx(v) \in DOMAIN pointers
        /\ Ctx(v) \in DOMAIN pointers => pointers'[Ctx(v)] = pointers[Ctx(v)]
    BY <1>7, <2>1 DEF Without
  <2>3. Ctx(v) \in DOMAIN contexts => Ctx(v) \in DOMAIN contexts' /\ contexts'[Ctx(v)] = contexts[Ctx(v)]
    BY <1>8, <2>1 DEF Put
  <2>4. Allocates(c, v) => Allocates(b, v)'
    BY <1>11, <1>12 DEF Allocates
  <2>5. Initializes(c, v) => Initializes(b, v)'
    BY <1>11, <1>12 DEF Initializes
  <2>6. CASE Undeclared(c, v)
    BY <1>7, <2>2, <2>4, <2>5, <2>6 DEF Undeclared, Memory
  <2>7. CASE HalfDeclared(c, v)
    BY <1>7, <2>2, <2>5, <2>7 DEF HalfDeclared, Memory, Null
  <2>8. CASE Declared(v)
    BY <1>7, <2>2, <2>3, <2>8 DEF Declared, Memory, Null
  <2> QED BY <1>1, <2>6, <2>7, <2>8
<1>13. ASSUME w \in ToSet(GlobalSlots) PROVE Declared(w)'
  <2>1. HalfDeclared(c, w)
    BY <1>1, <1>6, <1>13 DEF Undeclared, Declared
  <2>2. Ctx(w) \notin DOMAIN pointers'
    BY <1>7 DEF Without
  <2> QED BY <1>7, <1>9, <2>1, <2>2 DEF HalfDeclared, Declared, Memory, Null
<1>14. DeclaringWith(b, t)'
  <2>1. \A v \in ToSet(GlobalSlots) : Undeclared(b, v)' \/ HalfDeclared(b, v)' \/ Declared(v)'
    BY <1>12, <1>13
  <2> QED BY <1>1, <1>7, <1>10, <2>1 DEF DeclaringWith, Declarations, Null
<1> QED BY <1>7, <1>14 DEF Unmoved, b

Started == current' = current /\ next_state' = InitialState

LEMMA DeclaringStep ==
  ASSUME Ownership, Declaring, Statement(Head(code))
  PROVE  (Declaring' /\ Unmoved) \/ (On' /\ Started)
<1>1. PICK c, t : DeclaringWith(c, t)
  BY DEF Declaring
<1>2. /\ code = c \o <<t>> /\ Starts(t) /\ Declarations(c) /\ IsCode(c) /\ current = ""
      /\ \A v \in ToSet(GlobalSlots) : Undeclared(c, v) \/ HalfDeclared(c, v) \/ Declared(v)
      /\ \A i \in LocalSlots : slots[i] # Null
  BY <1>1 DEF DeclaringWith, Declarations, Declaring
<1>3. CASE c # <<>>
  <2>1. Head(c) \in ToSet(c)
    BY <1>2, <1>3, Code1, CodeSplit
  <2>2. Declaration(Head(c))
    BY <1>2, <2>1 DEF Declarations
  <2>3. Head(c).op = "Allocate" \/ Head(c).op = "Initialize"
    BY <2>2 DEF Declaration
  <2>4. DeclaringWith(Tail(c), t)' /\ Unmoved
    BY <1>1, <1>3, <2>3, DeclaringAllocate, DeclaringInitialize
  <2>5. Declaring'
    BY <1>2, <2>4 DEF Declaring, Unmoved
  <2> QED BY <2>4, <2>5
<1>4. CASE c = <<>>
  <2>1. code = <<t>>
    BY <1>2, <1>4, Code1, EmptyCode
  <2>2. Head(code) = t /\ Tail(code) = <<>>
    BY <2>1
  <2>3. SetNextState(t)
    BY <1>2, <2>2, StatementCases DEF Starts
  <2>4. /\ code' = <<>> /\ current' = current /\ next_state' = InitialState
        /\ slots' = slots /\ contexts' = contexts
    BY <1>2, <2>2, <2>3 DEF SetNextState, Done, Memories, Starts
  <2>5. ASSUME NEW v \in ToSet(GlobalSlots) PROVE Declared(v)
    <3>1. ~\E x : x \in ToSet(c)
      BY <1>4, ToSetOf1
    <3>2. ~Initializes(c, v)
      BY <3>1 DEF Initializes
    <3> QED BY <1>2, <3>2 DEF Undeclared, HalfDeclared
  <2>6. DOMAIN GlobalSizes = ToSet(GlobalSlots)
    BY DEF GlobalSizes
  <2>7. ASSUME NEW v \in ToSet(GlobalSlots)
        PROVE  HasBuffer(Ctx(v))' /\ contexts'[Ctx(v)].buffer.length = GlobalSizes[v]
    <3>1. /\ Memory(slot_ptr[v]) # Null /\ Memory(slot_ptr[v]).length = GlobalSizes[v]
      BY MemoryFacts
    <3>2. Ctx(v) \in DOMAIN contexts' /\ contexts'[Ctx(v)].buffer = Memory(slot_ptr[v])
      BY <2>4, <2>5 DEF Declared
    <3> QED BY <3>1, <3>2 DEF HasBuffer, Null
  <2>8. Global_Initialized'
    BY <2>6, <2>7 DEF Global_Initialized, GlobalSizes
  <2>9. ASSUME NEW k \in 1 .. Cardinality(DOMAIN GlobalSizes) PROVE slots'[k] = Null
    <3>1. GlobalSlots[k] \in ToSet(GlobalSlots) /\ slot_ptr[GlobalSlots[k]] = k
      BY SlotFacts, GlobalSlot
    <3> QED BY <2>4, <2>5, <3>1 DEF Declared
  <2>10. Global_Allocated'
    BY <1>2, <2>4, <2>9 DEF Global_Allocated, GlobalSizes, LocalSlots, Null
  <2> QED BY <1>2, <2>4, <2>8, <2>10 DEF On, Started
<1> QED BY <1>3, <1>4

(* When the memory is given up, no context holds a buffer. *)
LEMMA NothingHeld == ASSUME Ownership, NEW i, AllocatorFinalize(i) PROVE HeldContexts = {}
<1>1. Kinds /\ CodeClean
  BY DEF Ownership
<1>2. code # <<>> /\ i = Head(code) /\ i.op = "Allocator_Finalize"
  BY DEF AllocatorFinalize, Op
<1>3. PICK m, P, C, Y : Covers(m, P, C) /\ Next1(m, P, C, code, Y)
  BY <1>1, <1>2, CodeNext
<1>4. SafeStatement(m, P, C, i, code, Y)
  BY <1>2, <1>3 DEF Next1
<1>5. C = {}
  BY <1>2, <1>4 DEF SafeStatement
<1> QED BY <1>3, <1>5 DEF Covers

LEMMA StoppingStep ==
  ASSUME Ownership, Stopping, Statement(Head(code)) PROVE Unmoved /\ (Stopping' \/ Stopped')
<1>1. PICK c, i, t : StoppingWith(c, i, t)
  BY DEF Stopping
<1> DEFINE r == <<i>> \o <<t>>
           x == Head(code)
<1>2. /\ code = c \o r /\ StraightCode(c) /\ i.op = "Allocator_Finalize" /\ Stops(t)
      /\ current = "" /\ ~running
  BY <1>1 DEF StoppingWith, Stopping
<1>3. IsCode(c) /\ IsCode(<<t>>) /\ IsCode(r)
  BY <1>2, Code1, CodeConcat DEF StraightCode
<1>4. CASE c # <<>>
  <2> DEFINE b == Tail(c)
  <2> HIDE DEF r
  <2>1. x = Head(c) /\ Tail(code) = b \o r /\ IsCode(b) /\ ToSet(c) = {x} \cup ToSet(b)
    BY <1>2, <1>3, <1>4, CodeSplit
  <2> HIDE DEF x, b
  <2>2. x.op \in Straight /\ StraightCode(b)
    BY <1>2, <2>1 DEF StraightCode
  <2>3. Advance
    BY <2>2, StatementCases DEF x
  <2>4. StoppingWith(b, i, t)'
    BY <1>2, <2>1, <2>2, <2>3 DEF StoppingWith, Advance, r
  <2> QED BY <1>2, <2>3, <2>4 DEF Stopping, Advance, Unmoved
<1>5. CASE c = <<>>
  <2>1. x = i /\ Tail(code) = <<t>>
    <3>1. code = <<i>> \o <<t>>
      BY <1>2, <1>3, <1>5, EmptyCode
    <3> QED BY <1>3, <3>1, CodeHead
  <2> HIDE DEF x, r
  <2>2. AllocatorFinalize(i)
    BY <1>2, <2>1, StatementCases DEF x
  <2>3. /\ code' = <<t>> /\ current' = current /\ next_state' = next_state /\ running' = running
        /\ slots' = [k \in DOMAIN SlotSize |-> Null] /\ contexts' = contexts
    BY <2>1, <2>2 DEF AllocatorFinalize, Done
  <2>4. \A n : ~(n \in DOMAIN contexts /\ contexts[n].buffer # Null)
    BY <2>2, NothingHeld DEF HeldContexts
  <2>5. \A n : ~HasBuffer(n)'
    BY <2>3, <2>4 DEF HasBuffer, Null
  <2>6. \A k \in DOMAIN slots' : slots'[k] = Null
    BY <2>3
  <2>7. Uninitialized'
    BY <2>5, <2>6 DEF Uninitialized, Null
  <2> QED BY <1>2, <2>3, <2>7 DEF Stopped, Unmoved
<1> QED BY <1>4, <1>5

LEMMA StoppedStep ==
  ASSUME Stopped, Statement(Head(code)) PROVE Off' /\ current' = current /\ next_state' = "Final"
<1>1. PICK t : Stops(t) /\ code = <<t>>
  BY DEF Stopped
<1>2. Head(code) = t /\ Tail(code) = <<>>
  BY <1>1
<1>3. SetNextState(t)
  BY <1>1, <1>2, StatementCases DEF Stops
<1>4. /\ code' = <<>> /\ current' = current /\ next_state' = "Final" /\ running' = running
      /\ slots' = slots /\ contexts' = contexts
  BY <1>1, <1>2, <1>3 DEF SetNextState, Done, Memories, Stops
<1>5. Uninitialized'
  BY <1>4 DEF Stopped, Uninitialized, HasBuffer
<1> QED BY <1>4, <1>5 DEF Off, Stopped

(* The calls of the application. *)
LEMMA InitializeProgress ==
  ASSUME Ownership, current = "", Initialize PROVE Starting' /\ Unmoved /\ code = <<>> /\ Uninitialized
<1>1. PICK i, c, t : /\ fsm.initialize = <<i>> \o (c \o <<t>>)
                     /\ i.op = "Allocator_Initialize" /\ Starts(t) /\ Declares(c)
  BY InitializeShape
<1>2. /\ code' = fsm.initialize /\ current' = current /\ next_state' = next_state
      /\ DOMAIN pointers' = {Ctx(v) : v \in external_io_buffers} /\ code = <<>> /\ Uninitialized
  BY DEF Initialize, Idle
<1>3. ASSUME NEW v \in ToSet(GlobalSlots) PROVE Ctx(v) \notin DOMAIN pointers'
  <2>1. v \notin external_io_buffers
    BY GlobalSlotsElements
  <2> QED BY <1>2, <2>1, CtxInjective
<1>4. ASSUME NEW v \in ToSet(GlobalSlots) PROVE Allocates(c, v)' /\ Initializes(c, v)'
  BY <1>1 DEF Declares, Allocates, Initializes
<1>5. Declarations(c)'
  BY <1>1 DEF Declares, Declarations
<1>6. StartingWith(i, c, t)'
  BY <1>1, <1>2, <1>3, <1>4, <1>5 DEF StartingWith, Starts
<1> QED BY <1>2, <1>6 DEF Starting, Unmoved

LEMMA FinalizeProgress ==
  ASSUME current = "", Finalize PROVE On /\ Stopping' /\ Unmoved
<1>1. PICK c, i, t : /\ fsm.finalize = c \o (<<i>> \o <<t>>)
                     /\ StraightCode(c) /\ i.op = "Allocator_Finalize" /\ Stops(t)
  BY FinalizeShape
<1>2. /\ code' = fsm.finalize /\ current' = current /\ next_state' = next_state /\ ~running'
      /\ code = <<>> /\ Initialized
  BY DEF Finalize, Idle
<1>3. StoppingWith(c, i, t)'
  BY <1>1, <1>2 DEF StoppingWith, Stops, StraightCode
<1> QED BY <1>2, <1>3 DEF Stopping, Unmoved, On, Initialized

LEMMA ExecuteProgress ==
  ASSUME On, next_state \in States, ExecuteState
  PROVE  next_state' = next_state /\ (IF next_state = "Final" THEN Left' ELSE Busy')
<1>1. /\ code' = (IF Active THEN fsm.states[next_state] ELSE <<>>) \o EndOfTick
      /\ current' = next_state /\ next_state' = next_state /\ slots' = slots /\ contexts' = contexts
  BY DEF ExecuteState, Memories
<1>2. CASE next_state = "Final"
  <2>1. code' = <<>> \o EndOfTick
    BY <1>1, <1>2 DEF Active
  <2>2. code' = EndOfTick
    BY <2>1, EndOfTickCode, EmptyCode
  <2>3. Global_Initialized' /\ Global_Allocated'
    BY <1>1 DEF On, Global_Initialized, Global_Allocated, HasBuffer
  <2> QED BY <1>1, <1>2, <2>2, <2>3 DEF Left, EndOfTick
<1>3. CASE next_state # "Final"
  <2>1. code' = state_body(next_state) \o EndOfTick
    BY <1>1, <1>3 DEF Active, fsm
  <2>2. PICK a, i, e : /\ state_body(next_state) = a \o (<<i>> \o e)
                       /\ OuterCode(a) /\ Transfers(i, next_state) /\ Ending(e)
    BY StateBodyShape DEF Body
  <2>3. IsCode(a) /\ IsCode(<<i>>) /\ IsCode(e) /\ IsCode(EndOfTick) /\ IsCode(<<i>> \o e)
    BY <2>2, EndingIsCode, Code1, EndOfTickCode, CodeConcat DEF OuterCode
  <2>4. (a \o (<<i>> \o e)) \o EndOfTick = a \o ((<<i>> \o e) \o EndOfTick)
    BY <2>3, CodeAssoc
  <2>5. (<<i>> \o e) \o EndOfTick = <<i>> \o (e \o EndOfTick)
    BY <2>3, CodeAssoc
  <2>6. code' = a \o (<<i>> \o (e \o EndOfTick))
    BY <2>1, <2>2, <2>4, <2>5
  <2>7. BusyWith(a, i, e)'
    BY <1>1, <2>2, <2>6 DEF BusyWith, EndOfTick, Transfers
  <2> QED BY <1>1, <1>3, <2>7 DEF Busy
<1> QED BY <1>2, <1>3

(* An exchange of messages or external buffers leaves the memory of the state machine alone. *)
LEMMA ExchangeProgress ==
  ASSUME current = "", NEW v,
         \/ \E c, offset, size : Write(c, v, offset, size)
         \/ v \in external_io_buffers /\ ((\E b, size : AddBuffer(v, b, size)) \/ RemoveBuffer(v))
  PROVE  On /\ On' /\ next_state' = next_state
<1>1. /\ code = <<>> /\ code' = code /\ current' = current /\ next_state' = next_state /\ slots' = slots
      /\ Global_Initialized /\ Global_Allocated
  <2>1. CASE \E c, offset, size : Write(c, v, offset, size)
    BY <2>1 DEF Write, Idle, Initialized
  <2>2. CASE \E b, size : AddBuffer(v, b, size)
    BY <2>2 DEF AddBuffer, Idle
  <2>3. CASE RemoveBuffer(v)
    BY <2>3 DEF RemoveBuffer, Idle
  <2> QED BY <2>1, <2>2, <2>3
<1>2. ASSUME NEW w \in DOMAIN GlobalSizes
      PROVE  HasBuffer(Ctx(w))' /\ contexts'[Ctx(w)].buffer = contexts[Ctx(w)].buffer
  <2>1. HasBuffer(Ctx(w))
    BY <1>1 DEF Global_Initialized
  <2>2. w \notin external_io_buffers
    BY GlobalSlotsElements DEF GlobalSizes
  <2>3. CASE \E c, offset, size : Write(c, v, offset, size)
    <3>1. PICK last, written : contexts' = [contexts EXCEPT ![Ctx(v)] = Context(@.buffer, last, 0, written)]
      <4>1. PICK offset, size : contexts' = [contexts EXCEPT ![Ctx(v)] =
                                                Context(@.buffer, @.buffer.length, 0, offset + size)]
        BY <2>3 DEF Write
      <4>2. contexts' = [contexts EXCEPT ![Ctx(v)] =
                            Context(@.buffer, contexts[Ctx(v)].buffer.length, 0, offset + size)]
        BY <4>1
      <4> QED BY <4>2
    <3>2. \A b : Context(b, last, 0, written).buffer = b
      BY DEF Context
    <3> QED BY <2>1, <3>1, <3>2 DEF HasBuffer, Null
  <2>4. CASE v \in external_io_buffers /\ \E b, size : AddBuffer(v, b, size)
    <3>1. PICK b, size : contexts' = Put(contexts, Ctx(v), Context(b, b.length, 0, size))
      BY <2>4 DEF AddBuffer
    <3>2. Ctx(w) # Ctx(v)
      BY <2>2, <2>4, CtxInjective
    <3>3. Ctx(w) \in DOMAIN contexts' /\ contexts'[Ctx(w)] = contexts[Ctx(w)]
      BY <2>1, <3>1, <3>2 DEF HasBuffer, Put
    <3> QED BY <2>1, <3>3 DEF HasBuffer, Null
  <2>5. CASE v \in external_io_buffers /\ RemoveBuffer(v)
    <3>1. contexts' = Without(contexts, Ctx(v))
      BY <2>5 DEF RemoveBuffer
    <3>2. Ctx(w) # Ctx(v)
      BY <2>2, <2>5, CtxInjective
    <3>3. Ctx(w) \in DOMAIN contexts' /\ contexts'[Ctx(w)] = contexts[Ctx(w)]
      BY <2>1, <3>1, <3>2 DEF HasBuffer, Without
    <3> QED BY <2>1, <3>3 DEF HasBuffer, Null
  <2> QED BY <2>3, <2>4, <2>5
<1>3. Global_Initialized'
  BY <1>1, <1>2 DEF Global_Initialized
<1>4. Global_Allocated'
  BY <1>1 DEF Global_Allocated
<1> QED BY <1>1, <1>3, <1>4 DEF On

-----------------------------------------------------------------------------
(* Every call goes through its stages. *)

Progress ==
    \/ On \/ Off \/ Busy \/ Leaving \/ Freeing \/ Left
    \/ Starting \/ Declaring \/ Stopping \/ Stopped

Moves ==
    \/ Busy /\ (BusyAgain \/ Leaves)
    \/ (Leaving \/ Freeing) /\ Unmoved /\ (Leaving' \/ Freeing' \/ Left')
    \/ Left /\ On' /\ next_state' = next_state
    \/ (Starting \/ Declaring) /\ ((Declaring' /\ Unmoved) \/ (On' /\ Started))
    \/ Stopping /\ Unmoved /\ (Stopping' \/ Stopped')
    \/ Stopped /\ Off' /\ next_state' = "Final"

CallMoves ==
    \/ code = <<>> /\ Uninitialized /\ Starting' /\ next_state' = next_state
    \/ On /\ Stopping' /\ next_state' = next_state
    \/ On /\ On' /\ next_state' = next_state
    \/ On /\ next_state' = next_state /\ IF next_state = "Final" THEN Left' ELSE Busy'

LEMMA ProgressCode ==
  /\ (Busy \/ Leaving \/ Freeing \/ Left \/ Starting \/ Declaring \/ Stopping \/ Stopped) => code # <<>>
<1>1. \A a, b : IsCode(a) /\ IsCode(b) /\ b # <<>> => a \o b # <<>>
  <2> TAKE a, b
  <2> SUFFICES ASSUME IsCode(a), IsCode(b), b # <<>> PROVE a \o b # <<>>
    OBVIOUS
  <2>1. CASE a = <<>>
    BY <2>1, EmptyCode
  <2>2. CASE a # <<>>
    BY <2>2, CodeSplit
  <2> QED BY <2>1, <2>2
<1>2. \A i, k : IsCode(k) => <<i>> \o k # <<>> /\ IsCode(<<i>> \o k) /\ IsCode(<<i>>) /\ <<i>> # <<>>
  BY CodeHead, Code1, CodeConcat
<1>3. ASSUME Busy PROVE code # <<>>
  <2>1. PICK a, i, e : code = a \o (<<i>> \o (e \o EndOfTick)) /\ OuterCode(a) /\ Ending(e)
    BY <1>3 DEF Busy, BusyWith
  <2>2. IsCode(a) /\ IsCode(e \o EndOfTick)
    BY <2>1, EndingIsCode, EndOfTickCode, CodeConcat DEF OuterCode
  <2> QED BY <1>1, <1>2, <2>1, <2>2
<1>4. ASSUME Leaving PROVE code # <<>>
  <2>1. PICK h : Handler(h) /\ code = h \o EndOfTick
    BY <1>4 DEF Leaving
  <2>2. IsCode(h)
    BY <2>1, EndingIsCode, CodeConcat DEF Handler, StraightCode
  <2> QED BY <1>1, <2>1, <2>2, EndOfTickCode
<1>5. ASSUME Freeing PROVE code # <<>>
  <2>1. PICK f, g : code = f \o (<<g>> \o EndOfTick) /\ IsCode(f)
    BY <1>5 DEF Freeing, FreeingWith, GivesBack
  <2> QED BY <1>1, <1>2, <2>1, EndOfTickCode
<1>6. ASSUME Left PROVE code # <<>>
  BY <1>6, EndOfTickCode DEF Left
<1>7. ASSUME Starting PROVE code # <<>>
  <2>1. PICK i, c, t : code = <<i>> \o (c \o <<t>>) /\ IsCode(c)
    BY <1>7 DEF Starting, StartingWith, Declarations
  <2>2. IsCode(c \o <<t>>)
    BY <2>1, Code1, CodeConcat
  <2> QED BY <1>2, <2>1, <2>2
<1>8. ASSUME Declaring PROVE code # <<>>
  <2>1. PICK c, t : code = c \o <<t>> /\ IsCode(c)
    BY <1>8 DEF Declaring, DeclaringWith, Declarations
  <2>2. IsCode(<<t>>) /\ <<t>> # <<>>
    BY Code1
  <2> QED BY <1>1, <2>1, <2>2
<1>9. ASSUME Stopping PROVE code # <<>>
  <2>1. PICK c, i, t : code = c \o (<<i>> \o <<t>>) /\ IsCode(c)
    BY <1>9 DEF Stopping, StoppingWith, StraightCode
  <2>2. IsCode(<<t>>)
    BY Code1
  <2> QED BY <1>1, <1>2, <2>1, <2>2
<1>10. ASSUME Stopped PROVE code # <<>>
  <2>1. PICK t : code = <<t>>
    BY <1>10 DEF Stopped
  <2> QED BY <2>1
<1> QED BY <1>3, <1>4, <1>5, <1>6, <1>7, <1>8, <1>9, <1>10

LEMMA StepMoves == ASSUME Ownership, Progress, Step PROVE Moves
<1>1. Statement(Head(code)) /\ code # <<>>
  BY DEF Step
<1>2. ~On /\ ~Off
  BY <1>1 DEF On, Off
<1>3. CASE Busy
  BY <1>1, <1>3, BusyStep DEF Moves
<1>4. CASE Leaving
  BY <1>1, <1>4, LeavingStep DEF Moves
<1>5. CASE Freeing
  <2>1. slots \in [DOMAIN SlotSize -> {Null} \cup SlotMemory]
    BY DEF Ownership, Kinds
  <2> QED BY <1>1, <1>5, <2>1, FreeingStep DEF Moves
<1>6. CASE Left
  BY <1>1, <1>6, LeftStep DEF Moves
<1>7. CASE Starting
  BY <1>1, <1>7, StartingStep DEF Moves
<1>8. CASE Declaring
  BY <1>1, <1>8, DeclaringStep DEF Moves
<1>9. CASE Stopping
  BY <1>1, <1>9, StoppingStep DEF Moves
<1>10. CASE Stopped
  BY <1>1, <1>10, StoppedStep DEF Moves
<1> QED BY <1>2, <1>3, <1>4, <1>5, <1>6, <1>7, <1>8, <1>9, <1>10 DEF Progress

LEMMA ApplicationMoves ==
  ASSUME Ownership, Progress, TickAgain \/ Application PROVE CallMoves \/ UNCHANGED vars
<1>1. next_state \in States
  BY DEF Ownership
<1>2. code = <<>> \/ UNCHANGED vars
  BY DEF TickAgain, Application, Initialize, Finalize, Tick, Run, Write, Read, AddBuffer, RemoveBuffer, Idle
<1> SUFFICES ASSUME code = <<>> PROVE CallMoves \/ UNCHANGED vars
  BY <1>2
<1>3. On \/ Off
  BY ProgressCode DEF Progress
<1>4. current = ""
  BY <1>3 DEF On, Off
<1>5. CASE TickAgain
  <2>1. running /\ ExecuteState
    BY <1>5 DEF TickAgain
  <2>2. On
    BY <1>3, <2>1 DEF Off
  <2> QED BY <1>1, <2>1, <2>2, ExecuteProgress DEF CallMoves
<1>6. CASE Initialize
  BY <1>4, <1>6, InitializeProgress DEF CallMoves, Unmoved
<1>7. CASE Finalize
  BY <1>4, <1>7, FinalizeProgress DEF CallMoves, Unmoved
<1>8. CASE Tick \/ Run
  <2>1. Initialized /\ ExecuteState
    BY <1>8 DEF Tick, Run
  <2>2. On
    BY <1>4, <2>1 DEF On, Initialized
  <2> QED BY <1>1, <2>1, <2>2, ExecuteProgress DEF CallMoves
<1>9. CASE \E v, c, offset, size : Write(c, v, offset, size)
  BY <1>4, <1>9, ExchangeProgress DEF CallMoves
<1>10. CASE \E v, c, offset, size : Read(c, v, offset, size)
  BY <1>10 DEF Read
<1>11. CASE \E v : v \in external_io_buffers /\ ((\E b, size : AddBuffer(v, b, size)) \/ RemoveBuffer(v))
  BY <1>4, <1>11, ExchangeProgress DEF CallMoves
<1> QED BY <1>5, <1>6, <1>7, <1>8, <1>9, <1>10, <1>11 DEF Application

LEMMA ProgressStutter == ASSUME Progress, UNCHANGED vars PROVE Progress'
<1>1. /\ code' = code /\ current' = current /\ next_state' = next_state /\ running' = running
      /\ slots' = slots /\ pointers' = pointers /\ contexts' = contexts
  BY DEF vars
<1>2. CASE On
  BY <1>1, <1>2 DEF Progress, On, Global_Initialized, Global_Allocated, HasBuffer
<1>3. CASE Off
  BY <1>1, <1>3 DEF Progress, Off, Uninitialized, HasBuffer
<1>4. CASE Busy
  <2>1. Busy'
    BY <1>1, <1>4 DEF Busy, BusyWith
  <2> QED BY <2>1 DEF Progress
<1>5. CASE Leaving
  <2>1. Leaving'
    BY <1>1, <1>5 DEF Leaving
  <2> QED BY <2>1 DEF Progress
<1>6. CASE Freeing
  <2>1. Freeing'
    BY <1>1, <1>6 DEF Freeing, FreeingWith, Given
  <2> QED BY <2>1 DEF Progress
<1>7. CASE Left
  <2>1. Left'
    BY <1>1, <1>7 DEF Left, Global_Initialized, Global_Allocated, HasBuffer
  <2> QED BY <2>1 DEF Progress
<1>8. CASE Starting
  <2>1. Starting'
    BY <1>1, <1>8 DEF Starting, StartingWith
  <2> QED BY <2>1 DEF Progress
<1>9. CASE Declaring
  <2>1. Declaring'
    BY <1>1, <1>9 DEF Declaring, DeclaringWith, Undeclared, HalfDeclared, Declared
  <2> QED BY <2>1 DEF Progress
<1>10. CASE Stopping
  <2>1. Stopping'
    BY <1>1, <1>10 DEF Stopping, StoppingWith
  <2> QED BY <2>1 DEF Progress
<1>11. CASE Stopped
  <2>1. Stopped'
    BY <1>1, <1>11 DEF Stopped, Uninitialized, HasBuffer
  <2> QED BY <2>1 DEF Progress
<1> QED BY <1>2, <1>3, <1>4, <1>5, <1>6, <1>7, <1>8, <1>9, <1>10, <1>11 DEF Progress

LEMMA MovesProgress == ASSUME Moves \/ CallMoves PROVE Progress'
BY DEF Moves, CallMoves, Progress, BusyAgain, Leaves

LEMMA ProgressInit == Init => Off
<1> SUFFICES ASSUME Init PROVE Off
  OBVIOUS
<1>1. code = <<>> /\ current = "" /\ ~running
  BY DEF Init
<1>2. \A i \in DOMAIN slots : slots[i] = Null
  <2>1. slots = [i \in DOMAIN SlotSize |-> Null]
    BY DEF Init
  <2> QED BY <2>1
<1>3. \A n : ~HasBuffer(n)
  <2>1. ~\E n : n \in DOMAIN <<>>
    OBVIOUS
  <2>2. contexts = <<>>
    BY DEF Init
  <2> QED BY <2>1, <2>2 DEF HasBuffer
<1> QED BY <1>1, <1>2, <1>3 DEF Off, Uninitialized

LEMMA ProgressNext ==
  ASSUME Ownership, Progress, [Next]_vars PROVE Progress' /\ (Moves \/ CallMoves \/ UNCHANGED vars)
<1>1. Moves \/ CallMoves \/ UNCHANGED vars
  <2>1. CASE Step
    BY <2>1, StepMoves
  <2>2. CASE TickAgain \/ Application
    BY <2>2, ApplicationMoves
  <2> QED BY <2>1, <2>2 DEF Next
<1> QED BY <1>1, MovesProgress, ProgressStutter

(* Every state of the machine lies in one stage of a call, whatever check fails (_state_body,
   _determine_next_state, ExceptionHandler.execute, Initialize, Finalize). *)
THEOREM ProgressInvariant == Spec => []Progress
<1>1. Init => Progress
  BY ProgressInit DEF Progress
<1>2. Ownership /\ Progress /\ [Next]_vars => Progress'
  BY ProgressNext
<1> QED BY <1>1, <1>2, OwnershipInvariant, PTL DEF Spec

(* Between two calls the state machine is not initialized, or all global messages have their
   buffers and all local memory is given back: for every machine, after every regular end of a
   tick and after every exception (Initialize, finalization of a state, ExceptionHandler.execute). *)
THEOREM CallsEndInitialized == Spec => []InitializedBetweenCalls
<1>1. Progress => InitializedBetweenCalls
  <2>1. ASSUME Progress, code = <<>> PROVE On \/ Off
    BY <2>1, ProgressCode DEF Progress
  <2>2. On => Global_Initialized /\ Global_Allocated
    BY DEF On
  <2>3. Off => Uninitialized
    BY DEF Off
  <2> QED BY <2>1, <2>2, <2>3 DEF InitializedBetweenCalls
<1> QED BY <1>1, ProgressInvariant, PTL

-----------------------------------------------------------------------------
(* The promise of the interface.  States have names, the initial state is   *)
(* one of the declared ones, and some variable needs memory: otherwise the  *)
(* initialized machine can not be told from the one that is not.            *)

Distinguished == "" \notin States /\ InitialState # "Final" /\ DOMAIN SlotSize # {}

Phases ==
    Distinguished =>
        /\ Off => Phase = "off"
        /\ On => Phase = "on" /\ ~Uninitialized
        /\ Busy => Phase = "busy"
        /\ Leaving \/ Freeing \/ Left => Phase = "done"
        /\ Starting \/ Declaring => Phase = "starting"
        /\ Stopping \/ Stopped => Phase = "stopping"

LEMMA PendingElements == Pending <=> \E x \in ToSet(code) : x.op = "Next_State"
BY DEF Pending, ToSet

LEMMA LastStatement ==
  ASSUME NEW c, IsCode(c), NEW t PROVE (c \o <<t>>)[Len(c \o <<t>>)] = t
<1>1. PICK A : c \in Seq(A)
  BY DEF IsCode
<1>2. c \in Seq(A \cup {t}) /\ <<t>> \in Seq(A \cup {t})
  BY <1>1, SeqMonotone
<1>3. Len(c \o <<t>>) = Len(c) + 1 /\ Len(c) \in Nat
  BY <1>2
<1>4. (c \o <<t>>)[Len(c) + 1] = t
  BY <1>2
<1> QED BY <1>3, <1>4

LEMMA EndingDecided == ASSUME NEW e, Ending(e) PROVE \A x \in ToSet(e) : x.op # "Next_State"
<1>1. PICK i, f, g : e = <<i>> \o (f \o <<g>>) /\ IsEnding(i, f, g)
  BY DEF Ending
<1>2. IsCode(<<i>>) /\ IsCode(f) /\ IsCode(<<g>>) /\ IsCode(f \o <<g>>)
  BY <1>1, Code1, CodeConcat DEF IsEnding, GivesBack
<1>3. ToSet(e) = {i} \cup (ToSet(f) \cup {g})
  BY <1>1, <1>2, ToSetOf1, ConcatElements
<1> QED BY <1>1, <1>3 DEF IsEnding, GivesBack

LEMMA OnIsInitialized ==
  ASSUME Global_Initialized, Global_Allocated, slots \in [DOMAIN SlotSize -> {Null} \cup SlotMemory], DOMAIN SlotSize # {}
  PROVE  ~Uninitialized
<1> SUFFICES ASSUME Uninitialized PROVE FALSE
  OBVIOUS
<1>1. PICK k \in DOMAIN SlotSize : TRUE
  OBVIOUS
<1>2. k \in 1 .. GlobalSlotCount \/ k \in LocalSlots
  BY SlotFacts
<1>3. CASE k \in LocalSlots
  BY <1>3 DEF Global_Allocated, Uninitialized
<1>4. CASE k \in 1 .. GlobalSlotCount
  <2>1. GlobalSlots[k] \in ToSet(GlobalSlots) /\ GlobalSlots[k] \in ToSet(Globals)
    BY <1>4, GlobalSlot, GlobalSlotsElements
  <2>2. HasBuffer(Ctx(GlobalSlots[k]))
    BY <2>1 DEF Global_Initialized, GlobalSizes
  <2> QED BY <2>1, <2>2 DEF Uninitialized
<1> QED BY <1>2, <1>3, <1>4

LEMMA ConsElements == ASSUME NEW i, NEW k, IsCode(k) PROVE ToSet(<<i>> \o k) = {i} \cup ToSet(k)
<1> DEFINE y == <<i>>
<1>1. IsCode(y) /\ ToSet(y) = {i}
  BY Code1, ToSetOf1
<1> HIDE DEF y
<1>2. ToSet(y \o k) = ToSet(y) \cup ToSet(k)
  BY <1>1, ConcatElements
<1> QED BY <1>1, <1>2 DEF y

LEMMA BusyPhase == ASSUME "" \notin States, Busy PROVE Phase = "busy"
<1>1. PICK a, i, e : BusyWith(a, i, e)
  BY DEF Busy
<1>2. /\ code = a \o (<<i>> \o (e \o EndOfTick)) /\ OuterCode(a) /\ i.op = "Next_State" /\ Ending(e)
      /\ current # ""
  BY <1>1 DEF BusyWith, Transfers, Busy
<1>3. IsCode(a) /\ IsCode(<<i>>) /\ IsCode(e \o EndOfTick) /\ IsCode(<<i>> \o (e \o EndOfTick))
  BY <1>2, Code1, EndingIsCode, EndOfTickCode, CodeConcat DEF OuterCode
<1>4. i \in ToSet(<<i>> \o (e \o EndOfTick))
  BY <1>3, ConsElements
<1>5. Pending
  <2> DEFINE r == <<i>> \o (e \o EndOfTick)
  <2>1. IsCode(a) /\ IsCode(r) /\ code = a \o r /\ i \in ToSet(r)
    BY <1>2, <1>3, <1>4
  <2> HIDE DEF r
  <2>2. i \in ToSet(code)
    BY <2>1, ConcatElements
  <2> QED BY <1>2, <2>2, PendingElements
<1>6. code # <<>>
  BY ProgressCode
<1> QED BY <1>2, <1>5, <1>6 DEF Phase

LEMMA DonePhase == ASSUME "" \notin States, Leaving \/ Freeing \/ Left PROVE Phase = "done"
<1> DEFINE End == [op |-> "End_Of_Tick"]
<1>1. ToSet(EndOfTick) = {End} /\ End.op # "Next_State"
  BY ToSetOf1 DEF EndOfTick
<1> HIDE DEF End
<1>2. CASE Leaving
  <2>1. PICK h : Handler(h) /\ code = h \o EndOfTick
    BY <1>2 DEF Leaving
  <2>2. PICK p, e : h = p \o e /\ StraightCode(p) /\ Ending(e)
    BY <2>1 DEF Handler
  <2>3. IsCode(p) /\ IsCode(e) /\ IsCode(h) /\ IsCode(EndOfTick)
    BY <2>2, EndingIsCode, EndOfTickCode, CodeConcat DEF StraightCode
  <2>4. ToSet(code) = (ToSet(p) \cup ToSet(e)) \cup {End}
    BY <1>1, <2>1, <2>2, <2>3, ConcatElements
  <2>5. \A x \in ToSet(p) : x.op # "Next_State"
    BY <2>2 DEF StraightCode, Straight
  <2>6. \A x \in ToSet(e) : x.op # "Next_State"
    BY <2>2, EndingDecided
  <2>7. ~Pending
    BY <1>1, <2>4, <2>5, <2>6, PendingElements
  <2>8. current # "" /\ code # <<>>
    BY <1>2, ProgressCode DEF Leaving
  <2> QED BY <2>7, <2>8 DEF Phase
<1>3. CASE Freeing
  <2>1. PICK f, g : FreeingWith(f, g)
    BY <1>3 DEF Freeing
  <2>2. code = f \o (<<g>> \o EndOfTick) /\ g.op = "Assert_Global_Initialized" /\ GivesBack(f)
    BY <2>1 DEF FreeingWith
  <2>3. IsCode(f) /\ IsCode(<<g>>) /\ IsCode(EndOfTick) /\ IsCode(<<g>> \o EndOfTick)
    BY <2>2, Code1, EndOfTickCode, CodeConcat DEF GivesBack
  <2>4. ToSet(code) = ToSet(f) \cup ({g} \cup {End})
    <3> DEFINE r == <<g>> \o EndOfTick
    <3>1. ToSet(r) = {g} \cup {End}
      BY <1>1, <2>3, ConsElements
    <3>2. IsCode(f) /\ IsCode(r) /\ code = f \o r
      BY <2>2, <2>3
    <3> HIDE DEF r
    <3> QED BY <3>1, <3>2, ConcatElements
  <2>5. \A x \in ToSet(f) : x.op # "Next_State"
    BY <2>2 DEF GivesBack
  <2>6. ~Pending
    BY <1>1, <2>2, <2>4, <2>5, PendingElements
  <2>7. current # "" /\ code # <<>>
    BY <1>3, ProgressCode DEF Freeing
  <2> QED BY <2>6, <2>7 DEF Phase
<1>4. CASE Left
  <2>1. ~Pending
    BY <1>1, <1>4, PendingElements DEF Left
  <2>2. current # "" /\ code # <<>>
    BY <1>4, ProgressCode DEF Left
  <2> QED BY <2>1, <2>2 DEF Phase
<1> QED BY <1>2, <1>3, <1>4

LEMMA StartingPhase == ASSUME InitialState # "Final", Starting \/ Declaring PROVE Phase = "starting"
<1>1. \E c, t : code = c \o <<t>> /\ IsCode(c) /\ Starts(t)
  <2>1. CASE Starting
    <3>1. PICK i, c, t : code = <<i>> \o (c \o <<t>>) /\ IsCode(c) /\ Starts(t)
      BY <2>1 DEF Starting, StartingWith, Declarations
    <3>2. IsCode(<<i>>) /\ IsCode(<<t>>) /\ IsCode(c) /\ IsCode(<<i>> \o c)
      BY <3>1, Code1, CodeConcat
    <3>3. <<i>> \o (c \o <<t>>) = (<<i>> \o c) \o <<t>>
      BY <3>2, CodeRegroup
    <3>4. code = (<<i>> \o c) \o <<t>>
      BY <3>1, <3>3
    <3> QED BY <3>1, <3>2, <3>4
  <2>2. CASE Declaring
    BY <2>2 DEF Declaring, DeclaringWith, Declarations
  <2> QED BY <2>1, <2>2
<1>2. PICK c, t : code = c \o <<t>> /\ IsCode(c) /\ Starts(t)
  BY <1>1
<1>3. code[Len(code)] = t
  BY <1>2, LastStatement
<1>4. code[Len(code)].targets # {"Final"}
  BY <1>2, <1>3 DEF Starts
<1>5. current = "" /\ code # <<>>
  BY ProgressCode DEF Starting, Declaring
<1> QED BY <1>4, <1>5 DEF Phase

LEMMA StoppingPhase == ASSUME Stopping \/ Stopped PROVE Phase = "stopping"
<1>1. \E c, t : code = c \o <<t>> /\ IsCode(c) /\ Stops(t)
  <2>1. CASE Stopping
    <3>1. PICK c, i, t : code = c \o (<<i>> \o <<t>>) /\ IsCode(c) /\ Stops(t)
      BY <2>1 DEF Stopping, StoppingWith, StraightCode
    <3>2. IsCode(<<i>>) /\ IsCode(<<t>>) /\ IsCode(c) /\ IsCode(c \o <<i>>)
      BY <3>1, Code1, CodeConcat
    <3>3. c \o (<<i>> \o <<t>>) = (c \o <<i>>) \o <<t>>
      BY <3>2, CodeRegroup
    <3>4. code = (c \o <<i>>) \o <<t>>
      BY <3>1, <3>3
    <3> QED BY <3>1, <3>2, <3>4
  <2>2. CASE Stopped
    <3>1. PICK t : Stops(t) /\ code = <<t>>
      BY <2>2 DEF Stopped
    <3>2. IsCode(<<t>>) /\ IsCode(<<>>)
      BY Code1, EmptyCode
    <3>3. code = <<>> \o <<t>>
      BY <3>1, <3>2, EmptyCode
    <3> QED BY <3>1, <3>2, <3>3
  <2> QED BY <2>1, <2>2
<1>2. PICK c, t : code = c \o <<t>> /\ IsCode(c) /\ Stops(t)
  BY <1>1
<1>3. code[Len(code)] = t
  BY <1>2, LastStatement
<1>4. code[Len(code)].targets = {"Final"}
  BY <1>2, <1>3 DEF Stops
<1>5. current = "" /\ code # <<>>
  BY ProgressCode DEF Stopping, Stopped
<1> QED BY <1>4, <1>5 DEF Phase

PhasesAre ==
    /\ code = <<>> /\ Uninitialized => Phase = "off"
    /\ On => Phase = "on" /\ ~Uninitialized
    /\ Busy => Phase = "busy"
    /\ Leaving \/ Freeing \/ Left => Phase = "done"
    /\ Starting \/ Declaring => Phase = "starting"
    /\ Stopping \/ Stopped => Phase = "stopping"

Named == Distinguished /\ Ownership => PhasesAre

LEMMA PhasesNow == Named
<1> SUFFICES ASSUME Distinguished, Ownership PROVE PhasesAre
  BY DEF Named
<1>1. "" \notin States /\ InitialState # "Final" /\ DOMAIN SlotSize # {}
  BY DEF Distinguished
<1>2. code = <<>> /\ Uninitialized => Phase = "off"
  BY DEF Phase
<1>3. On => Phase = "on" /\ ~Uninitialized
  <2> SUFFICES ASSUME On PROVE Phase = "on" /\ ~Uninitialized
    OBVIOUS
  <2>1. ~Uninitialized
    BY <1>1, OnIsInitialized DEF On, Ownership, Kinds
  <2> QED BY <2>1 DEF Phase, On
<1> QED BY <1>1, <1>2, <1>3, BusyPhase, DonePhase, StartingPhase, StoppingPhase DEF PhasesAre

LEMMA PhasesNext == Named'
BY PhasesNow, PTL

LEMMA MovesImplement ==
  ASSUME PhasesAre, PhasesAre', Moves PROVE [Interface!Next]_(Interface!vars)
<1>1. CASE Busy /\ BusyAgain
  <2>1. Phase = "busy" /\ Phase' = "busy" /\ next_state' = next_state
    BY <1>1 DEF PhasesAre, BusyAgain
  <2> QED BY <2>1 DEF Interface!vars
<1>2. CASE Busy /\ Leaves
  <2>1. Phase = "busy" /\ Phase' = "done" /\ next_state = current
    BY <1>2 DEF PhasesAre, Leaves, Busy
  <2>2. CASE next_state' \in {t.target : t \in ToSet(Machine[current].transitions)}
    <3>1. next_state' \in Interface!Successors(next_state)
      BY <2>1, <2>2 DEF Interface!Successors, ToSet
    <3> QED BY <2>1, <3>1 DEF Interface!Next, Interface!Transition
  <2>3. CASE next_state' = Machine[current].exception
    BY <2>1, <2>3 DEF Interface!Next, Interface!Exception
  <2> QED BY <1>2, <2>2, <2>3 DEF Leaves
<1>3. CASE (Leaving \/ Freeing) /\ Unmoved /\ (Leaving' \/ Freeing' \/ Left')
  <2>1. Phase = "done" /\ Phase' = "done" /\ next_state' = next_state
    BY <1>3 DEF PhasesAre, Unmoved
  <2> QED BY <2>1 DEF Interface!vars
<1>4. CASE Left /\ On' /\ next_state' = next_state
  <2>1. Phase = "done" /\ Phase' = "on" /\ next_state' = next_state
    BY <1>4 DEF PhasesAre
  <2> QED BY <2>1 DEF Interface!Next, Interface!Return
<1>5. CASE (Starting \/ Declaring) /\ Declaring' /\ Unmoved
  <2>1. Phase = "starting" /\ Phase' = "starting" /\ next_state' = next_state
    BY <1>5 DEF PhasesAre, Unmoved
  <2> QED BY <2>1 DEF Interface!vars
<1>6. CASE (Starting \/ Declaring) /\ On' /\ Started
  <2>1. Phase = "starting" /\ Phase' = "on" /\ next_state' = InitialState
    BY <1>6 DEF PhasesAre, Started
  <2> QED BY <2>1 DEF Interface!Next, Interface!Started
<1>7. CASE Stopping /\ Unmoved /\ (Stopping' \/ Stopped')
  <2>1. Phase = "stopping" /\ Phase' = "stopping" /\ next_state' = next_state
    BY <1>7 DEF PhasesAre, Unmoved
  <2> QED BY <2>1 DEF Interface!vars
<1>8. CASE Stopped /\ Off' /\ next_state' = "Final"
  <2>1. Phase = "stopping" /\ Phase' = "off" /\ next_state' = "Final"
    BY <1>8 DEF PhasesAre, Off
  <2> QED BY <2>1 DEF Interface!Next, Interface!Stopped
<1> QED BY <1>1, <1>2, <1>3, <1>4, <1>5, <1>6, <1>7, <1>8 DEF Moves

LEMMA CallsImplement ==
  ASSUME PhasesAre, PhasesAre', CallMoves PROVE [Interface!Next]_(Interface!vars)
<1>1. CASE code = <<>> /\ Uninitialized /\ Starting' /\ next_state' = next_state
  <2>1. Phase = "off" /\ Phase' = "starting" /\ next_state' = next_state
    BY <1>1 DEF PhasesAre
  <2> QED BY <2>1 DEF Interface!Next, Interface!Start
<1>2. CASE On /\ Stopping' /\ next_state' = next_state
  <2>1. Phase = "on" /\ Phase' = "stopping" /\ next_state' = next_state
    BY <1>2 DEF PhasesAre
  <2> QED BY <2>1 DEF Interface!Next, Interface!Stop
<1>3. CASE On /\ On' /\ next_state' = next_state
  <2>1. Phase = "on" /\ Phase' = "on" /\ next_state' = next_state
    BY <1>3 DEF PhasesAre
  <2> QED BY <2>1 DEF Interface!vars
<1>4. CASE On /\ next_state' = next_state /\ IF next_state = "Final" THEN Left' ELSE Busy'
  <2>1. Phase = "on" /\ Phase' = (IF next_state = "Final" THEN "done" ELSE "busy") /\ next_state' = next_state
    BY <1>4 DEF PhasesAre
  <2> QED BY <2>1 DEF Interface!Next, Interface!Tick
<1> QED BY <1>1, <1>2, <1>3, <1>4 DEF CallMoves

LEMMA StutterImplements == ASSUME UNCHANGED vars PROVE [Interface!Next]_(Interface!vars)
<1>1. /\ code' = code /\ current' = current /\ next_state' = next_state
      /\ slots' = slots /\ contexts' = contexts
  BY DEF vars
<1>2. Uninitialized' <=> Uninitialized
  BY <1>1 DEF Uninitialized, HasBuffer
<1>3. Pending' <=> Pending
  BY <1>1 DEF Pending
<1>4. Phase' = Phase
  BY <1>1, <1>2, <1>3 DEF Phase
<1> QED BY <1>1, <1>4 DEF Interface!vars

(* The generated code implements the interface: whatever it executes and whichever check fails,
   a tick takes exactly one transition of the state, one of its regular ones or the one for
   exceptions, Initialize enters the initial state, Finalize the final one, and nothing else
   changes the state.  This is the safety part of ImplementsInterface, that a call returns is
   not part of it. *)
THEOREM InterfaceImplemented ==
  ASSUME Distinguished
  PROVE  Spec => Interface!Init /\ [][Interface!Next]_(Interface!vars)
<1>1. Init => Interface!Init
  <2> SUFFICES ASSUME Init PROVE Interface!Init
    OBVIOUS
  <2>1. code = <<>> /\ Uninitialized
    BY ProgressInit DEF Off
  <2>2. Phase = "off"
    BY <2>1 DEF Phase
  <2> QED BY <2>2 DEF Init, Interface!Init
<1>2. Ownership /\ Ownership' /\ Progress /\ [Next]_vars => [Interface!Next]_(Interface!vars)
  <2> SUFFICES ASSUME Ownership, Ownership', Progress, [Next]_vars PROVE [Interface!Next]_(Interface!vars)
    OBVIOUS
  <2>1. PhasesAre /\ PhasesAre'
    BY PhasesNow, PhasesNext DEF Named, Distinguished
  <2>2. Moves \/ CallMoves \/ UNCHANGED vars
    BY ProgressNext
  <2> QED BY <2>1, <2>2, MovesImplement, CallsImplement, StutterImplements
<1> QED BY <1>1, <1>2, OwnershipInvariant, ProgressInvariant, PTL DEF Spec
==============================================================================
