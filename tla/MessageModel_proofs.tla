------------------------- MODULE MessageModel_proofs -------------------------
(***************************************************************************)
(* What the check of a message guarantees for every message a              *)
(* specification can declare, every number of workers and every order in   *)
(* which they finish: the pool keeps to its workers, the errors come in    *)
(* the order of the jobs, the assertion about outgoing links fails only    *)
(* where a field never fits, and an accepted message has one meaning and   *)
(* goes on behind every field.                                             *)
(***************************************************************************)
EXTENDS MessageModel, FiniteSetTheorems, FunctionTheorems, Induction

-----------------------------------------------------------------------------
(* Finite sets and sequences.                                              *)

IsSequence(s) == s \in Seq(ToSet(s))

(* The image of a finite set is finite. *)
LEMMA FiniteImage ==
  ASSUME NEW S, IsFiniteSet(S), NEW f, NEW T, T = {f[x] : x \in S}
  PROVE  IsFiniteSet(T)
<1> DEFINE g == [x \in S |-> f[x]]
<1>1. g \in Surjection(S, T)
  BY DEF Surjection
<1> HIDE DEF g
<1> QED BY <1>1, FS_Surjection

(* The union of finitely many finite sets is finite. *)
LEMMA FiniteUnion ==
  ASSUME NEW n \in Nat, NEW f, \A i \in 1 .. n : IsFiniteSet(f[i])
  PROVE  IsFiniteSet(UNION {f[i] : i \in 1 .. n})
<1> DEFINE U(k) == UNION {f[i] : i \in 1 .. k}
           T == {k \in Nat : k <= n => IsFiniteSet(U(k))}
<1>1. 0 \in T
  <2>1. U(0) = {}
    OBVIOUS
  <2> QED BY <2>1, FS_EmptySet
<1>2. ASSUME NEW k \in Nat, k \in T PROVE k + 1 \in T
  <2> SUFFICES ASSUME k + 1 <= n PROVE IsFiniteSet(U(k + 1))
    OBVIOUS
  <2>1. U(k + 1) = U(k) \cup f[k + 1]
    <3>1. 1 .. k + 1 = (1 .. k) \cup {k + 1}
      OBVIOUS
    <3> QED BY <3>1
  <2>2. IsFiniteSet(U(k)) /\ IsFiniteSet(f[k + 1])
    BY <1>2
  <2> HIDE DEF U
  <2> QED BY <2>1, <2>2, FS_Union
<1>3. n \in T
  <2> HIDE DEF T
  <2> QED BY <1>1, <1>2, InductiveSet
<1> QED BY <1>3

LEMMA FiniteUNION ==
  ASSUME NEW S, IsFiniteSet(S), \A x \in S : IsFiniteSet(x)
  PROVE  IsFiniteSet(UNION S)
<1>1. PICK n \in Nat : ExistsSurjection(1 .. n, S)
  BY FS_NatSurjection
<1>2. PICK f : f \in Surjection(1 .. n, S)
  BY <1>1 DEF ExistsSurjection
<1>3. f \in [1 .. n -> S] /\ S = {f[i] : i \in 1 .. n}
  BY <1>2 DEF Surjection
<1>4. \A i \in 1 .. n : IsFiniteSet(f[i])
  BY <1>3
<1> QED BY <1>3, <1>4, FiniteUnion

LEMMA SequenceFacts ==
  ASSUME NEW s, IsSequence(s)
  PROVE  Len(s) \in Nat /\ DOMAIN s = 1 .. Len(s) /\ \A i \in 1 .. Len(s) : s[i] \in ToSet(s)
BY DEF IsSequence, ToSet

LEMMA SequenceType == ASSUME NEW S, NEW s \in Seq(S) PROVE IsSequence(s) /\ ToSet(s) \subseteq S
BY DEF IsSequence, ToSet

LEMMA EmptySequence == IsSequence(<<>>) /\ ToSet(<<>>) = {}
<1>1. DOMAIN <<>> = {}
  OBVIOUS
<1>2. ToSet(<<>>) = {}
  BY <1>1 DEF ToSet
<1> QED BY <1>2 DEF IsSequence

LEMMA Singleton == ASSUME NEW x PROVE IsSequence(<<x>>) /\ ToSet(<<x>>) = {x}
<1>1. DOMAIN <<x>> = {1} /\ <<x>>[1] = x
  OBVIOUS
<1>2. ToSet(<<x>>) = {x}
  BY <1>1 DEF ToSet
<1> QED BY <1>2 DEF IsSequence

LEMMA SequenceAppend ==
  ASSUME NEW s, IsSequence(s), NEW x
  PROVE  IsSequence(Append(s, x)) /\ ToSet(Append(s, x)) = ToSet(s) \cup {x}
<1> DEFINE S == ToSet(s) \cup {x}
<1>1. s \in Seq(S)
  BY SequenceFacts DEF IsSequence
<1>2. Append(s, x) \in Seq(S)
  BY <1>1
<1>3. ToSet(Append(s, x)) = S
  <2>1. DOMAIN Append(s, x) = 1 .. Len(s) + 1 /\ Len(s) \in Nat /\ DOMAIN s = 1 .. Len(s)
    BY <1>1
  <2>2. \A i \in 1 .. Len(s) + 1 : Append(s, x)[i] = IF i <= Len(s) THEN s[i] ELSE x
    BY <1>1
  <2>3. ToSet(Append(s, x)) \subseteq S
    BY <2>1, <2>2 DEF ToSet
  <2>4. Append(s, x)[Len(s) + 1] = x
    BY <2>1, <2>2
  <2>5. S \subseteq ToSet(Append(s, x))
    <3>1. x \in ToSet(Append(s, x))
      BY <2>1, <2>4 DEF ToSet
    <3>2. ASSUME NEW y \in ToSet(s) PROVE y \in ToSet(Append(s, x))
      <4>1. PICK i \in 1 .. Len(s) : y = s[i]
        BY <2>1 DEF ToSet
      <4>2. Append(s, x)[i] = y /\ i \in 1 .. Len(s) + 1
        BY <2>1, <2>2, <4>1
      <4> QED BY <2>1, <4>2 DEF ToSet
    <3> QED BY <3>1, <3>2
  <2> QED BY <2>3, <2>5
<1> QED BY <1>2, <1>3 DEF IsSequence

LEMMA SequenceConcat ==
  ASSUME NEW s, NEW t, IsSequence(s), IsSequence(t)
  PROVE  IsSequence(s \o t) /\ ToSet(s \o t) = ToSet(s) \cup ToSet(t)
<1> DEFINE S == ToSet(s) \cup ToSet(t)
<1>1. s \in Seq(S) /\ t \in Seq(S)
  <2>1. Len(s) \in Nat /\ Len(t) \in Nat /\ s \in [1 .. Len(s) -> ToSet(s)] /\ t \in [1 .. Len(t) -> ToSet(t)]
    BY DEF IsSequence
  <2> QED BY <2>1
<1>2. s \o t \in Seq(S)
  BY <1>1
<1>3. /\ DOMAIN (s \o t) = 1 .. Len(s) + Len(t) /\ Len(s) \in Nat /\ Len(t) \in Nat
      /\ DOMAIN s = 1 .. Len(s) /\ DOMAIN t = 1 .. Len(t)
  BY <1>1
<1>4. \A i \in 1 .. Len(s) + Len(t) : (s \o t)[i] = IF i <= Len(s) THEN s[i] ELSE t[i - Len(s)]
  BY <1>1
<1>5. ToSet(s \o t) \subseteq S
  <2>1. DOMAIN (s \o t) = 1 .. Len(s \o t) /\ \A i \in 1 .. Len(s \o t) : (s \o t)[i] \in S
    BY <1>2
  <2> QED BY <2>1 DEF ToSet
<1>6. ASSUME NEW y \in ToSet(s) PROVE y \in ToSet(s \o t)
  <2>1. PICK i \in 1 .. Len(s) : y = s[i]
    BY <1>3 DEF ToSet
  <2>2. (s \o t)[i] = y /\ i \in 1 .. Len(s) + Len(t)
    BY <1>3, <1>4, <2>1
  <2> QED BY <1>3, <2>2 DEF ToSet
<1>7. ASSUME NEW y \in ToSet(t) PROVE y \in ToSet(s \o t)
  <2>1. PICK i \in 1 .. Len(t) : y = t[i]
    BY <1>3 DEF ToSet
  <2>2. Len(s) + i \in 1 .. Len(s) + Len(t) /\ ~(Len(s) + i <= Len(s)) /\ (Len(s) + i) - Len(s) = i
    BY <1>3
  <2>3. (s \o t)[Len(s) + i] = y
    BY <1>4, <2>1, <2>2
  <2> QED BY <1>3, <2>2, <2>3 DEF ToSet
<1> QED BY <1>2, <1>5, <1>6, <1>7 DEF IsSequence

LEMMA SequenceFinite == ASSUME NEW s, IsSequence(s) PROVE IsFiniteSet(ToSet(s))
<1>1. Len(s) \in Nat /\ ToSet(s) = {s[i] : i \in 1 .. Len(s)}
  BY SequenceFacts DEF ToSet
<1>2. IsFiniteSet(1 .. Len(s))
  BY <1>1, FS_Interval
<1> QED BY <1>1, <1>2, FiniteImage

(* s lists S. *)
Lists(s, S) == IsSequence(s) /\ ToSet(s) = S

(* What InAnyOrder takes next from a set. *)
Some(s) == CHOOSE x \in s : TRUE

LEMMA SomeElement == ASSUME NEW s, s # {} PROVE Some(s) \in s
BY DEF Some

(* g lists the subsets of S, as the definition of InAnyOrder says. *)
Listing(g, S) ==
    g = [s \in SUBSET S |-> IF s = {} THEN <<>> ELSE Append(g[s \ {Some(s)}], Some(s))]

LEMMA ListingExists == ASSUME NEW S, IsFiniteSet(S) PROVE \E g : Listing(g, S)
<1> DEFINE N == Cardinality(S)
           G == [SUBSET S -> Seq(S)]
           Larger(g) == [s \in SUBSET S |-> IF s = {} THEN <<>> ELSE Append(g[s \ {Some(s)}], Some(s))]
           base == [s \in SUBSET S |-> <<>>]
           step == [n \in 1 .. N + 1 |-> [g \in G |-> Larger(g)]]
<1>1. N \in Nat
  BY FS_CardinalityType
<1>2. base \in G
  OBVIOUS
<1>3. ASSUME NEW g \in G PROVE Larger(g) \in G
  <2>1. ASSUME NEW s \in SUBSET S, s # {} PROVE Append(g[s \ {Some(s)}], Some(s)) \in Seq(S)
    <3>1. Some(s) \in S /\ s \ {Some(s)} \in SUBSET S
      BY <2>1, SomeElement
    <3>2. g[s \ {Some(s)}] \in Seq(S)
      BY <3>1
    <3> QED BY <3>1, <3>2
  <2>2. <<>> \in Seq(S)
    OBVIOUS
  <2> QED BY <2>1, <2>2
<1>4. step \in [1 .. N + 1 -> [G -> G]]
  <2> HIDE DEF G, Larger
  <2> QED BY <1>3
<1>5. PICK f : Recursion(f, N + 1, G, base, step)
  <2>1. N + 1 \in Nat
    BY <1>1
  <2> HIDE DEF step, base, G, N
  <2> QED BY <1>2, <1>4, <2>1, RecursiveFunction
<1>6. f \in [0 .. N + 1 -> G] /\ f[0] = base /\ \A n \in 1 .. N + 1 : f[n] = Larger(f[n - 1])
  <2>1. f \in [0 .. N + 1 -> G] /\ f[0] = base /\ \A n \in 1 .. N + 1 : f[n] = step[n][f[n - 1]]
    BY <1>5 DEF Recursion
  <2>2. ASSUME NEW n \in 1 .. N + 1 PROVE f[n] = Larger(f[n - 1])
    <3>1. n - 1 \in 0 .. N + 1
      BY <1>1
    <3> HIDE DEF G, Larger, N
    <3> QED BY <2>1, <3>1
  <2> QED BY <2>1, <2>2
<1> HIDE DEF G, base, step
<1>7. ASSUME NEW n \in 0 .. N, NEW s \in SUBSET S
      PROVE  f[n + 1][s] = IF s = {} THEN <<>> ELSE Append(f[n][s \ {Some(s)}], Some(s))
  <2>1. n + 1 \in 1 .. N + 1 /\ (n + 1) - 1 = n
    BY <1>1
  <2>2. f[n + 1] = Larger(f[n])
    BY <1>6, <2>1
  <2> QED BY <2>2
<1> DEFINE T == {n \in Nat : n <= N => \A s \in SUBSET S : Cardinality(s) <= n => f[n + 1][s] = f[n][s]}
<1>8. 0 \in T
  <2> SUFFICES ASSUME NEW s \in SUBSET S, Cardinality(s) <= 0 PROVE f[0 + 1][s] = f[0][s]
    OBVIOUS
  <2>1. s = {}
    BY FS_Subset, FS_EmptySet, FS_CardinalityType
  <2>2. f[0 + 1][s] = <<>>
    <3>1. 0 \in 0 .. N
      BY <1>1
    <3> HIDE DEF N
    <3> QED BY <1>7, <2>1, <3>1
  <2>3. f[0][s] = <<>>
    BY <1>6 DEF base
  <2> QED BY <2>2, <2>3
<1>9. ASSUME NEW n \in Nat, n \in T PROVE n + 1 \in T
  <2> SUFFICES ASSUME n + 1 <= N, NEW s \in SUBSET S, Cardinality(s) <= n + 1
               PROVE  f[(n + 1) + 1][s] = f[n + 1][s]
    OBVIOUS
  <2>1. n \in 0 .. N /\ n + 1 \in 0 .. N
    BY <1>1
  <2>2. CASE s = {}
    BY <1>7, <2>1, <2>2
  <2>3. CASE s # {}
    <3> DEFINE t == s \ {Some(s)}
    <3>1. IsFiniteSet(s) /\ Some(s) \in s
      BY <2>3, FS_Subset, SomeElement
    <3>2. Cardinality(t) = Cardinality(s) - 1 /\ Cardinality(s) \in Nat
      BY <3>1, FS_RemoveElement, FS_CardinalityType
    <3>3. f[n + 1][t] = f[n][t]
      <4>1. Cardinality(t) <= n /\ n <= N /\ t \in SUBSET S
        BY <1>1, <3>2
      <4> HIDE DEF t, N
      <4> QED BY <1>9, <4>1
    <3>4. f[(n + 1) + 1][s] = Append(f[n + 1][t], Some(s))
      BY <1>7, <2>1, <2>3
    <3>5. f[n + 1][s] = Append(f[n][t], Some(s))
      BY <1>7, <2>1, <2>3
    <3> QED BY <3>3, <3>4, <3>5
  <2> QED BY <2>2, <2>3
<1>10. N \in T
  <2> HIDE DEF T, N
  <2> QED BY <1>1, <1>8, <1>9, InductiveSet
<1>11. Listing(f[N], S)
  <2>1. \A s \in SUBSET S : f[N][s] = IF s = {} THEN <<>> ELSE Append(f[N][s \ {Some(s)}], Some(s))
    <3> SUFFICES ASSUME NEW s \in SUBSET S
                 PROVE  f[N][s] = IF s = {} THEN <<>> ELSE Append(f[N][s \ {Some(s)}], Some(s))
      OBVIOUS
    <3>1. Cardinality(s) <= N /\ N <= N
      BY <1>1, FS_Subset
    <3>2. f[N + 1][s] = f[N][s]
      BY <1>10, <3>1
    <3>3. N \in 0 .. N
      BY <1>1
    <3> HIDE DEF N
    <3> QED BY <1>7, <3>2, <3>3
  <2>2. f[N] \in [SUBSET S -> Seq(S)]
    <3>1. N \in 0 .. N + 1
      BY <1>1
    <3> HIDE DEF N
    <3> QED BY <1>6, <3>1 DEF G
  <2> QED BY <2>1, <2>2 DEF Listing
<1> QED BY <1>11

(* InAnyOrder lists a finite set: the jobs of the proofs and the reported errors are
   those of all elements.                                                          *)
LEMMA InAnyOrderLists == ASSUME NEW S, IsFiniteSet(S) PROVE Lists(InAnyOrder(S), S)
<1> DEFINE g == CHOOSE h : Listing(h, S)
<1>1. InAnyOrder(S) = g[S]
  BY DEF InAnyOrder, FoldSet, MapThenFoldSet, Listing, Some
<1>2. Listing(g, S)
  BY ListingExists
<1> HIDE DEF g
<1>3. ASSUME NEW s \in SUBSET S
      PROVE  g[s] = IF s = {} THEN <<>> ELSE Append(g[s \ {Some(s)}], Some(s))
  BY <1>2 DEF Listing
<1> DEFINE T == {n \in Nat : \A s \in SUBSET S : Cardinality(s) = n => Lists(g[s], s)}
<1>4. 0 \in T
  <2> SUFFICES ASSUME NEW s \in SUBSET S, Cardinality(s) = 0 PROVE Lists(g[s], s)
    OBVIOUS
  <2>1. s = {}
    BY FS_Subset, FS_EmptySet
  <2>2. g[s] = <<>>
    BY <1>3, <2>1
  <2> QED BY <2>1, <2>2, EmptySequence DEF Lists
<1>5. ASSUME NEW n \in Nat, n \in T PROVE n + 1 \in T
  <2> SUFFICES ASSUME NEW s \in SUBSET S, Cardinality(s) = n + 1 PROVE Lists(g[s], s)
    OBVIOUS
  <2> DEFINE x == Some(s)
             t == s \ {x}
  <2>1. IsFiniteSet(s) /\ s # {}
    BY FS_Subset, FS_EmptySet
  <2>2. x \in s /\ t \in SUBSET S
    BY <2>1, SomeElement
  <2>3. Cardinality(t) = n
    <3>1. Cardinality(t) = Cardinality(s) - 1
      BY <2>1, <2>2, FS_RemoveElement
    <3> QED BY <3>1
  <2>4. Lists(g[t], t)
    BY <1>5, <2>2, <2>3
  <2>5. g[s] = Append(g[t], x)
    BY <1>3, <2>1
  <2>6. s = t \cup {x}
    BY <2>2
  <2> HIDE DEF t, x
  <2> QED BY <2>4, <2>5, <2>6, SequenceAppend DEF Lists
<1>6. Cardinality(S) \in T
  <2>1. Cardinality(S) \in Nat
    BY FS_CardinalityType
  <2> HIDE DEF T
  <2> QED BY <1>4, <1>5, <2>1, InductiveSet
<1> QED BY <1>1, <1>6

(* Kept keeps the elements of a sequence that are in S. *)
LEMMA KeptElements ==
  ASSUME NEW s, IsSequence(s), NEW S
  PROVE  IsSequence(Kept(s, S)) /\ ToSet(Kept(s, S)) = ToSet(s) \cap S
<1> DEFINE n == Len(s)
           Q == Seq(ToSet(s))
           step == [i \in 1 .. n |-> [c \in Q |-> IF s[i] \in S THEN Append(c, s[i]) ELSE c]]
           Filters(g) == g = [i \in 0 .. n |-> IF i = 0 THEN <<>> ELSE
                                  IF s[i] \in S THEN Append(g[i - 1], s[i]) ELSE g[i - 1]]
           h == CHOOSE g : Filters(g)
<1>1. n \in Nat /\ DOMAIN s = 1 .. n /\ \A i \in 1 .. n : s[i] \in ToSet(s)
  BY SequenceFacts
<1>2. step \in [1 .. n -> [Q -> Q]]
  BY <1>1
<1>3. PICK f : Recursion(f, n, Q, <<>>, step)
  <2>1. <<>> \in Q
    OBVIOUS
  <2> HIDE DEF step, Q
  <2> QED BY <1>1, <1>2, <2>1, RecursiveFunction
<1>4. f \in [0 .. n -> Q] /\ f[0] = <<>> /\ \A i \in 1 .. n : f[i] = step[i][f[i - 1]]
  BY <1>3 DEF Recursion
<1>5. \A i \in 1 .. n : f[i - 1] \in Q
  BY <1>1, <1>4
<1>6. Filters(f)
  <2>1. ASSUME NEW i \in 1 .. n PROVE f[i] = IF s[i] \in S THEN Append(f[i - 1], s[i]) ELSE f[i - 1]
    <3> HIDE DEF Q
    <3> QED BY <1>4, <1>5
  <2>2. \A i \in 0 .. n : i = 0 \/ i \in 1 .. n
    BY <1>1
  <2>3. ASSUME NEW i \in 0 .. n
        PROVE  f[i] = IF i = 0 THEN <<>> ELSE IF s[i] \in S THEN Append(f[i - 1], s[i]) ELSE f[i - 1]
    BY <1>4, <2>1, <2>2
  <2> HIDE DEF Q, n
  <2> QED BY <1>4, <2>3
<1>7. Filters(h)
  <2> HIDE DEF Filters
  <2> QED BY <1>6
<1>8. Kept(s, S) = h[n]
  BY DEF Kept
<1> HIDE DEF h
<1> DEFINE front(i) == {s[j] : j \in 1 .. i}
           T == {i \in Nat : i <= n => IsSequence(h[i]) /\ ToSet(h[i]) = front(i) \cap S}
<1>9. 0 \in T
  <2>1. h[0] = <<>> /\ front(0) = {}
    BY <1>1, <1>7
  <2> QED BY <2>1, EmptySequence
<1>10. ASSUME NEW i \in Nat, i \in T PROVE i + 1 \in T
  <2> SUFFICES ASSUME i + 1 <= n PROVE IsSequence(h[i + 1]) /\ ToSet(h[i + 1]) = front(i + 1) \cap S
    OBVIOUS
  <2>1. h[i + 1] = IF s[i + 1] \in S THEN Append(h[i], s[i + 1]) ELSE h[i]
    <3>1. i + 1 \in 0 .. n /\ i + 1 # 0 /\ (i + 1) - 1 = i
      BY <1>1
    <3> QED BY <1>7, <3>1
  <2>2. front(i + 1) = front(i) \cup {s[i + 1]}
    <3>1. 1 .. i + 1 = (1 .. i) \cup {i + 1}
      OBVIOUS
    <3> QED BY <3>1
  <2>3. IsSequence(h[i]) /\ ToSet(h[i]) = front(i) \cap S
    BY <1>10
  <2> HIDE DEF front
  <2>4. CASE s[i + 1] \in S
    BY <2>1, <2>2, <2>3, <2>4, SequenceAppend
  <2>5. CASE s[i + 1] \notin S
    BY <2>1, <2>2, <2>3, <2>5
  <2> QED BY <2>4, <2>5
<1>11. n \in T
  <2> HIDE DEF T, n
  <2> QED BY <1>1, <1>9, <1>10, InductiveSet
<1>12. front(n) = ToSet(s)
  BY <1>1 DEF ToSet
<1> HIDE DEF front
<1> QED BY <1>8, <1>11, <1>12

(* f holds the concatenations of the first elements of q. *)
Flattens(f, q) ==
    /\ f[0] = <<>> /\ \A i \in 1 .. Len(q) : f[i] = f[i - 1] \o q[i]
    /\ \A i \in 0 .. Len(q) : IsSequence(f[i])
    /\ FlattenSeq(q) = f[Len(q)]

LEMMA EmptyConcat == ASSUME NEW s, IsSequence(s) PROVE <<>> \o s = s /\ s \o <<>> = s
BY DEF IsSequence

LEMMA Flattened ==
  ASSUME NEW q, IsSequence(q), \A x \in ToSet(q) : IsSequence(x)
  PROVE  \E f : Flattens(f, q)
<1> DEFINE n == Len(q)
           A == UNION {ToSet(x) : x \in ToSet(q)}
           step == [i \in 1 .. n |-> [c \in Seq(A) |-> c \o q[i]]]
<1>1. n \in Nat /\ DOMAIN q = 1 .. n /\ \A i \in 1 .. n : q[i] \in ToSet(q)
  BY SequenceFacts
<1>2. ASSUME NEW i \in 1 .. n PROVE q[i] \in Seq(A)
  <2>1. IsSequence(q[i]) /\ ToSet(q[i]) \subseteq A
    BY <1>1
  <2>2. Len(q[i]) \in Nat /\ q[i] \in [1 .. Len(q[i]) -> ToSet(q[i])]
    BY <2>1 DEF IsSequence
  <2> HIDE DEF A
  <2> QED BY <2>1, <2>2
<1> HIDE DEF A
<1>3. step \in [1 .. n -> [Seq(A) -> Seq(A)]]
  BY <1>2
<1>4. PICK f : Recursion(f, n, Seq(A), <<>>, step)
  <2>1. <<>> \in Seq(A)
    OBVIOUS
  <2> HIDE DEF step
  <2> QED BY <1>1, <1>3, <2>1, RecursiveFunction
<1>5. f \in [0 .. n -> Seq(A)] /\ f[0] = <<>> /\ \A i \in 1 .. n : f[i] = step[i][f[i - 1]]
  BY <1>4 DEF Recursion
<1>6. ASSUME NEW i \in 1 .. n PROVE f[i] = f[i - 1] \o q[i]
  <2>1. f[i - 1] \in Seq(A)
    BY <1>1, <1>5
  <2> QED BY <1>5, <2>1
<1>7. ASSUME NEW i \in 0 .. n PROVE IsSequence(f[i])
  BY <1>5, SequenceType
<1>8. FlattenSeq(q) = f[n]
  <2>1. CASE n = 0
    <3>1. q = <<>> /\ FlattenSeq(q) = q
      BY <1>1, <2>1 DEF FlattenSeq, IsSequence
    <3> QED BY <1>5, <2>1, <3>1
  <2>2. CASE n # 0
    <3> DEFINE Step(g) == g = [i \in 1 .. n |-> IF i = 1 THEN q[i] ELSE g[i - 1] \o q[i]]
               g == [i \in 1 .. n |-> f[i]]
               h == CHOOSE k : Step(k)
    <3>1. FlattenSeq(q) = h[n]
      BY <2>2 DEF FlattenSeq
    <3>2. Step(g)
      <4>1. ASSUME NEW i \in 1 .. n PROVE g[i] = IF i = 1 THEN q[i] ELSE g[i - 1] \o q[i]
        <5>1. CASE i = 1
          <6>1. f[i] = f[i - 1] \o q[i] /\ q[i] \in Seq(A) /\ i - 1 = 0
            <7>1. i - 1 = 0
              BY <5>1
            <7>2. f[i] = f[i - 1] \o q[i] /\ q[i] \in Seq(A)
              <8> HIDE DEF n
              <8> QED BY <1>2, <1>6, Zenon
            <7> QED BY <7>1, <7>2
          <6>2. f[i] = <<>> \o q[i]
            <7> HIDE DEF n
            <7> QED BY <1>5, <6>1, Zenon
          <6>3. f[i] = q[i]
            BY <6>1, <6>2
          <6> QED BY <5>1, <6>3
        <5>2. CASE i # 1
          <6>1. i - 1 \in 1 .. n
            BY <1>1, <5>2
          <6> QED BY <1>6, <5>2, <6>1
        <5> QED BY <5>1, <5>2
      <4> HIDE DEF n
      <4> QED BY <4>1
    <3>3. Step(h)
      <4> HIDE DEF Step, g
      <4> QED BY <3>2
    <3> HIDE DEF h
    <3>4. ASSUME NEW i \in 1 .. n PROVE h[i] = IF i = 1 THEN q[i] ELSE h[i - 1] \o q[i]
      <4> HIDE DEF n
      <4> QED BY <3>3
    <3> DEFINE T == {i \in Nat : i \in 1 .. n => h[i] = f[i]}
    <3>5. 0 \in T
      OBVIOUS
    <3>6. ASSUME NEW i \in Nat, i \in T PROVE i + 1 \in T
      <4> SUFFICES ASSUME i + 1 \in 1 .. n PROVE h[i + 1] = f[i + 1]
        OBVIOUS
      <4>1. (i + 1) - 1 = i
        OBVIOUS
      <4>2. CASE i = 0
        <5> DEFINE j == i + 1
        <5>1. j \in 1 .. n /\ j = 1 /\ j - 1 = 0
          BY <4>2
        <5> HIDE DEF j, n
        <5>2. h[j] = q[j] /\ f[j] = f[j - 1] \o q[j] /\ q[j] \in Seq(A)
          BY <1>2, <1>6, <3>4, <5>1
        <5>3. f[j] = <<>> \o q[j]
          BY <1>5, <5>1, <5>2, Zenon
        <5>4. f[j] = q[j]
          BY <5>2, <5>3
        <5> QED BY <5>2, <5>4 DEF j
      <4>3. CASE i # 0
        <5>1. i \in 1 .. n /\ i + 1 # 1
          BY <1>1, <4>3
        <5>2. h[i] = f[i]
          BY <3>6, <5>1
        <5>3. h[i + 1] = h[i] \o q[i + 1] /\ f[i + 1] = f[i] \o q[i + 1]
          BY <1>6, <3>4, <4>1, <5>1
        <5> QED BY <5>2, <5>3
      <4> QED BY <4>2, <4>3
    <3>7. n \in T
      <4> HIDE DEF T, n
      <4> QED BY <1>1, <3>5, <3>6, InductiveSet
    <3> QED BY <1>1, <2>2, <3>1, <3>7
  <2> QED BY <2>1, <2>2
<1> QED BY <1>5, <1>6, <1>7, <1>8 DEF Flattens

(* FlattenSeq has the elements of all parts. *)
LEMMA FlattenElements ==
  ASSUME NEW q, IsSequence(q), \A x \in ToSet(q) : IsSequence(x)
  PROVE  /\ IsSequence(FlattenSeq(q))
         /\ ToSet(FlattenSeq(q)) = UNION {ToSet(x) : x \in ToSet(q)}
<1> DEFINE n == Len(q)
<1>1. n \in Nat /\ DOMAIN q = 1 .. n /\ \A i \in 1 .. n : q[i] \in ToSet(q)
  BY SequenceFacts
<1>2. PICK f : Flattens(f, q)
  BY Flattened
<1> DEFINE front(i) == UNION {ToSet(q[j]) : j \in 1 .. i}
           T == {i \in Nat : i <= n => ToSet(f[i]) = front(i)}
<1>3. 0 \in T
  <2>1. f[0] = <<>> /\ front(0) = {}
    BY <1>2 DEF Flattens
  <2> QED BY <2>1, EmptySequence
<1>4. ASSUME NEW i \in Nat, i \in T PROVE i + 1 \in T
  <2> SUFFICES ASSUME i + 1 <= n PROVE ToSet(f[i + 1]) = front(i + 1)
    OBVIOUS
  <2>1. i + 1 \in 1 .. n /\ (i + 1) - 1 = i /\ i \in 0 .. n
    BY <1>1
  <2>2. f[i + 1] = f[i] \o q[i + 1] /\ IsSequence(f[i])
    BY <1>2, <2>1 DEF Flattens
  <2>3. IsSequence(q[i + 1])
    BY <1>1, <2>1
  <2>4. ToSet(f[i]) = front(i)
    BY <1>4, <2>1
  <2>5. front(i + 1) = front(i) \cup ToSet(q[i + 1])
    <3>1. 1 .. i + 1 = (1 .. i) \cup {i + 1}
      OBVIOUS
    <3> QED BY <3>1
  <2> HIDE DEF front
  <2> QED BY <2>2, <2>3, <2>4, <2>5, SequenceConcat
<1>5. n \in T
  <2> HIDE DEF T, n
  <2> QED BY <1>1, <1>3, <1>4, InductiveSet
<1>6. front(n) = UNION {ToSet(x) : x \in ToSet(q)}
  <2>1. ToSet(q) = {q[i] : i \in 1 .. n}
    BY <1>1 DEF ToSet
  <2> QED BY <2>1
<1>7. ToSet(f[n]) = front(n) /\ n \in 0 .. n
  BY <1>1, <1>5
<1> HIDE DEF front
<1> QED BY <1>2, <1>6, <1>7 DEF Flattens

(* Another part is added at the end. *)
LEMMA FlattenAppend ==
  ASSUME NEW q, IsSequence(q), \A x \in ToSet(q) : IsSequence(x), NEW x, IsSequence(x)
  PROVE  FlattenSeq(Append(q, x)) = FlattenSeq(q) \o x
<1> DEFINE n == Len(q)
           r == Append(q, x)
<1>1. n \in Nat /\ DOMAIN q = 1 .. n
  BY SequenceFacts
<1>2. IsSequence(r) /\ \A y \in ToSet(r) : IsSequence(y)
  BY SequenceAppend
<1>3. Len(r) = n + 1 /\ r[n + 1] = x /\ \A i \in 1 .. n : r[i] = q[i]
  BY <1>1 DEF IsSequence
<1>4. PICK f : Flattens(f, q)
  BY Flattened
<1> HIDE DEF r
<1>5. PICK g : Flattens(g, r)
  BY <1>2, Flattened
<1> DEFINE T == {i \in Nat : i <= n => g[i] = f[i]}
<1>6. 0 \in T
  BY <1>4, <1>5 DEF Flattens
<1>7. ASSUME NEW i \in Nat, i \in T PROVE i + 1 \in T
  <2> SUFFICES ASSUME i + 1 <= n PROVE g[i + 1] = f[i + 1]
    OBVIOUS
  <2>1. i + 1 \in 1 .. n /\ i + 1 \in 1 .. n + 1 /\ (i + 1) - 1 = i
    BY <1>1
  <2>2. f[i + 1] = f[i] \o q[i + 1]
    BY <1>4, <2>1 DEF Flattens
  <2>3. g[i + 1] = g[i] \o r[i + 1]
    BY <1>3, <1>5, <2>1 DEF Flattens
  <2>4. g[i] = f[i]
    BY <1>7, <2>1
  <2> QED BY <1>3, <2>1, <2>2, <2>3, <2>4
<1>8. g[n] = f[n]
  <2>1. n \in T
    <3> HIDE DEF T, n
    <3> QED BY <1>1, <1>6, <1>7, InductiveSet
  <2> QED BY <1>1, <2>1
<1>9. g[n + 1] = g[n] \o x
  <2>1. n + 1 \in 1 .. n + 1 /\ (n + 1) - 1 = n
    BY <1>1
  <2>2. g[n + 1] = g[(n + 1) - 1] \o r[n + 1]
    BY <1>3, <1>5, <2>1 DEF Flattens
  <2> QED BY <1>3, <2>1, <2>2
<1> QED BY <1>3, <1>4, <1>5, <1>8, <1>9 DEF Flattens, r

-----------------------------------------------------------------------------
(* Errors.                                                                 *)

LEMMA ErrorsAmong == ASSUME NEW s PROVE HasErrors(s) <=> \E e \in ToSet(s) : e.severity = "error"
BY DEF HasErrors, ToSet

LEMMA ErrorsConcat ==
  ASSUME NEW s, NEW t, IsSequence(s), IsSequence(t)
  PROVE  IsSequence(s \o t) /\ (HasErrors(s \o t) <=> HasErrors(s) \/ HasErrors(t))
BY SequenceConcat, ErrorsAmong

LEMMA ErrorsOfSet ==
  ASSUME NEW S, IsFiniteSet(S), NEW check
  PROVE  /\ IsSequence(Errors(check, S))
         /\ HasErrors(Errors(check, S)) <=> S # {}
         /\ Errors(check, S) = <<>> <=> S = {}
<1> DEFINE s == InAnyOrder(S)
           e == [i \in DOMAIN s |-> Error(check, s[i])]
<1>1. Errors(check, S) = e
  BY DEF Errors
<1>2. IsSequence(s) /\ ToSet(s) = S
  BY InAnyOrderLists DEF Lists
<1> HIDE DEF s
<1>3. Len(s) \in Nat /\ DOMAIN s = 1 .. Len(s) /\ S = {s[i] : i \in 1 .. Len(s)}
  BY <1>2, SequenceFacts DEF ToSet
<1>4. e = [i \in 1 .. Len(s) |-> Error(check, s[i])]
  BY <1>3
<1>5. e \in Seq(ToSet(e)) /\ Len(e) = Len(s) /\ DOMAIN e = 1 .. Len(s)
  <2>1. DOMAIN e = 1 .. Len(s) /\ \A i \in 1 .. Len(s) : e[i] \in ToSet(e)
    BY <1>3 DEF ToSet
  <2>2. e \in [1 .. Len(s) -> ToSet(e)]
    BY <1>3, <2>1
  <2> HIDE DEF e
  <2> QED BY <1>3, <2>2
<1>6. \A i \in 1 .. Len(s) : e[i].severity = "error"
  BY <1>4 DEF Error
<1>7. S = {} <=> Len(s) = 0
  <2>1. CASE Len(s) = 0
    <3>1. 1 .. Len(s) = {}
      BY <2>1
    <3> QED BY <1>3, <2>1, <3>1
  <2>2. CASE Len(s) # 0
    <3>1. 1 \in 1 .. Len(s)
      BY <1>3, <2>2
    <3> QED BY <1>3, <2>2, <3>1
  <2> QED BY <2>1, <2>2
<1>8. e = <<>> <=> Len(s) = 0
  <2>1. Len(<<>>) = 0 /\ \A q \in Seq(ToSet(e)) : Len(q) = 0 => q = <<>>
    OBVIOUS
  <2> HIDE DEF e
  <2> QED BY <1>5, <2>1
<1>9. HasErrors(e) <=> Len(s) # 0
  <2> HIDE DEF e
  <2> QED BY <1>3, <1>5, <1>6 DEF HasErrors
<1> HIDE DEF e
<1> QED BY <1>1, <1>5, <1>7, <1>8, <1>9 DEF IsSequence

-----------------------------------------------------------------------------
(* Merging keeps declarations well-formed.                                 *)

LEMMA NodeNames == IsName(INITIAL) /\ IsName(FINAL) /\ IsName(Message)
<1>1. ASSUME NEW x PROVE IsName(<<x>>)
  <2>1. Len(<<x>>) = 1 /\ Len(<<>>) = 0 /\ 0 # 1
    OBVIOUS
  <2>2. <<x>> # <<>>
    BY <2>1, Zenon
  <2> QED BY <2>2, Singleton DEF IsName, IsSequence
<1> QED BY <1>1 DEF INITIAL, FINAL, Message

LEMMA NodesDiffer == INITIAL # FINAL /\ INITIAL # Message /\ FINAL # Message
<1>1. "Initial" # "Final" /\ "Initial" # "Message" /\ "Final" # "Message"
  OBVIOUS
<1>2. INITIAL[1] = "Initial" /\ FINAL[1] = "Final" /\ Message[1] = "Message"
  BY DEF INITIAL, FINAL, Message
<1> QED BY <1>1, <1>2, Zenon

(* A prefixed name is longer than its prefix, and none of the nodes. *)
LEMMA PrefixedName ==
  ASSUME NEW f, NEW g, IsName(f), IsName(g)
  PROVE  IsName(f \o g) /\ f \o g \notin {INITIAL, FINAL, Message, f}
<1>1. IsSequence(f) /\ IsSequence(g) /\ IsSequence(f \o g)
  BY SequenceConcat DEF IsName, IsSequence
<1>2. PICK S : f \in Seq(S) /\ g \in Seq(S)
  <2>1. f \in Seq(ToSet(f) \cup ToSet(g)) /\ g \in Seq(ToSet(f) \cup ToSet(g))
    <3>1. Len(f) \in Nat /\ Len(g) \in Nat /\ f \in [1 .. Len(f) -> ToSet(f)] /\ g \in [1 .. Len(g) -> ToSet(g)]
      BY <1>1 DEF IsSequence
    <3> QED BY <3>1
  <2> QED BY <2>1
<1>3. /\ Len(f) >= 1 /\ Len(g) >= 1 /\ Len(f \o g) = Len(f) + Len(g)
      /\ Len(f) \in Nat /\ Len(g) \in Nat
  BY <1>2 DEF IsName
<1>4. Len(INITIAL) = 1 /\ Len(FINAL) = 1 /\ Len(Message) = 1 /\ Len(<<>>) = 0
  BY DEF INITIAL, FINAL, Message
<1>5. Len(f \o g) # 1 /\ Len(f \o g) # Len(f) /\ Len(f \o g) # 0
  BY <1>3
<1> QED BY <1>1, <1>4, <1>5 DEF IsName, IsSequence

LEMMA RenamedName ==
  ASSUME NEW f, NEW inner, NEW g, IsName(f), IsName(g)
  PROVE  /\ IsName(Renamed(f, inner, g))
         /\ Renamed(f, inner, g) \in {INITIAL, FINAL, Message} => Renamed(f, inner, g) = g
BY PrefixedName DEF Renamed

(* The name behind a prefix. *)
LEMMA Unprefixed ==
  ASSUME NEW f, NEW h, IsName(f), IsName(h)
  PROVE  SubSeq(f \o h, Len(f) + 1, Len(f \o h)) = h
<1> DEFINE s == f \o h
           t == SubSeq(s, Len(f) + 1, Len(s))
<1>1. PICK S : f \in Seq(S) /\ h \in Seq(S)
  <2>1. f \in Seq(ToSet(f) \cup ToSet(h)) /\ h \in Seq(ToSet(f) \cup ToSet(h))
    <3>1. Len(f) \in Nat /\ Len(h) \in Nat /\ f \in [1 .. Len(f) -> ToSet(f)] /\ h \in [1 .. Len(h) -> ToSet(h)]
      BY DEF IsName
    <3> QED BY <3>1
  <2> QED BY <2>1
<1>2. Len(f) \in Nat /\ Len(h) \in Nat /\ s \in Seq(S) /\ Len(s) = Len(f) + Len(h)
  BY <1>1
<1>3. Len(t) = Len(h) /\ t \in Seq(S)
  BY <1>2
<1>4. ASSUME NEW i \in 1 .. Len(h) PROVE t[i] = h[i]
  <2>1. t[i] = s[Len(f) + i]
    BY <1>2
  <2>2. s[Len(f) + i] = h[i]
    BY <1>1
  <2> QED BY <2>1, <2>2
<1> HIDE DEF t
<1>5. t = h
  BY <1>1, <1>3, <1>4
<1> QED BY <1>5 DEF t

AreArguments(args) == \A g \in DOMAIN args : IsArgument(args[g])

LEMMA SubstitutedCondition ==
  ASSUME NEW f, NEW inner, NEW args, NEW source, NEW condition,
         IsName(f), AreArguments(args), IsName(source), source # Message,
         IsFiniteSet(condition), \A a \in condition : IsAtom(a)
  PROVE  /\ IsFiniteSet(SubstituteCondition(f, inner, args, source, condition))
         /\ \A a \in SubstituteCondition(f, inner, args, source, condition) : IsAtom(a)
<1> DEFINE number(a) == a.field \in DOMAIN args /\ args[a.field].kind = "number"
           name(a) == IF a.field \in DOMAIN args THEN args[a.field].of ELSE Renamed(f, inner, a.field)
           left == {b \in condition : ~(number(b) /\ args[b.field].value \in b.values)}
           New(a) == IF number(a) THEN Never
                     ELSE IF a.field \in {Message, INITIAL}
                     THEN [attr |-> "Remaining", field |-> source, values |-> a.values]
                     ELSE [a EXCEPT !.field = name(a)]
           new == [a \in left |-> New(a)]
           C == SubstituteCondition(f, inner, args, source, condition)
<1>1. C = {New(a) : a \in left}
  BY DEF SubstituteCondition
<1>2. IsFiniteSet(C)
  <2>1. IsFiniteSet(left)
    BY FS_Subset
  <2>2. C = {new[a] : a \in left}
    BY <1>1
  <2> HIDE DEF new, left, C
  <2> QED BY <2>1, <2>2, FiniteImage
<1>3. ASSUME NEW a \in condition PROVE IsAtom(New(a))
  <2>1. IsAtom(a)
    OBVIOUS
  <2>2. CASE number(a)
    <3>1. New(a) = [attr |-> "Size", field |-> Message, values |-> {}]
      BY <2>2 DEF Never
    <3> QED BY <3>1, NodeNames DEF IsAtom
  <2>3. CASE ~number(a) /\ a.field \in {Message, INITIAL}
    <3>1. New(a) = [attr |-> "Remaining", field |-> source, values |-> a.values]
      BY <2>3
    <3> QED BY <3>1 DEF IsAtom
  <2>4. CASE ~number(a) /\ a.field \notin {Message, INITIAL}
    <3>1. New(a) = [a EXCEPT !.field = name(a)]
      BY <2>4
    <3>2. IsName(name(a)) /\ name(a) # Message
      <4>1. CASE a.field \in DOMAIN args
        <5>1. args[a.field].kind # "number" /\ IsArgument(args[a.field]) /\ name(a) = args[a.field].of
          BY <2>4, <4>1 DEF AreArguments
        <5> QED BY <5>1 DEF IsArgument
      <4>2. CASE a.field \notin DOMAIN args
        BY <2>1, <2>4, <4>2, RenamedName DEF IsAtom
      <4> QED BY <4>1, <4>2
    <3>3. a = [attr |-> a.attr, field |-> a.field, values |-> a.values]
      BY <2>1 DEF IsAtom
    <3> HIDE DEF name
    <3>4. New(a) = [attr |-> a.attr, field |-> name(a), values |-> a.values]
      BY <3>1, <3>3
    <3> QED BY <2>1, <3>2, <3>4 DEF IsAtom
  <2> QED BY <2>2, <2>3, <2>4
<1>4. left \subseteq condition
  OBVIOUS
<1> HIDE DEF New, C, left
<1>5. \A a \in C : IsAtom(a)
  BY <1>1, <1>3, <1>4
<1> QED BY <1>2, <1>5 DEF C

LEMMA SubstitutedSize ==
  ASSUME NEW f, NEW inner, NEW args, NEW size, AreArguments(args), IsSize(size)
  PROVE  IsSize(SubstituteSize(f, inner, args, size))
<1> DEFINE S == SubstituteSize(f, inner, args, size)
<1>1. CASE size.kind # "value" \/ size.factor = 0
  BY <1>1 DEF SubstituteSize
<1>2. CASE size.kind = "value" /\ size.factor # 0
  <2>1. size = Multiple(size.factor, size.of, size.offset) /\ size.factor \in Int /\ size.offset \in Int
    BY <1>2 DEF IsSize, Undefined, Implicit
  <2>2. CASE size.of \notin DOMAIN args
    <3> DEFINE n == Renamed(f, inner, size.of)
    <3>1. S = [size EXCEPT !.of = n]
      BY <1>2, <2>2 DEF SubstituteSize
    <3> HIDE DEF n, S
    <3>2. S = Multiple(size.factor, n, size.offset)
      BY <2>1, <3>1 DEF Multiple
    <3>3. S.factor = size.factor /\ S.of = n /\ S.offset = size.offset
      BY <3>2 DEF Multiple
    <3> QED BY <2>1, <3>2, <3>3 DEF IsSize, S
  <2>3. CASE size.of \in DOMAIN args /\ args[size.of].kind = "number"
    <3> DEFINE n == size.factor * args[size.of].value + size.offset
    <3>1. args[size.of].value \in Int
      BY <2>3 DEF AreArguments, IsArgument
    <3>2. n \in Int
      BY <2>1, <3>1
    <3>3. S = Multiple(0, INITIAL, n)
      BY <1>2, <2>3 DEF SubstituteSize
    <3> HIDE DEF n, S
    <3>4. S.factor = 0 /\ S.of = INITIAL /\ S.offset = n
      BY <3>3 DEF Multiple
    <3> QED BY <3>2, <3>3, <3>4 DEF IsSize, S
  <2>4. CASE size.of \in DOMAIN args /\ args[size.of].kind # "number"
    <3> DEFINE n == args[size.of].of
    <3>1. S = [size EXCEPT !.of = n]
      BY <1>2, <2>4 DEF SubstituteSize
    <3> HIDE DEF n, S
    <3>2. S = Multiple(size.factor, n, size.offset)
      BY <2>1, <3>1 DEF Multiple
    <3>3. S.factor = size.factor /\ S.of = n /\ S.offset = size.offset
      BY <3>2 DEF Multiple
    <3> QED BY <2>1, <3>2, <3>3 DEF IsSize, S
  <2> QED BY <2>2, <2>3, <2>4
<1> QED BY <1>1, <1>2

LEMMA SubstitutedLink ==
  ASSUME NEW f, NEW inner, NEW args, NEW source, NEW l,
         IsName(f), AreArguments(args), IsName(source), source # Message, IsLink(l)
  PROVE  IsLink(Substituted(f, inner, args, source, l))
<1> DEFINE k == Substituted(f, inner, args, source, l)
<1>1. /\ k.source = Renamed(f, inner, l.source) /\ k.target = Renamed(f, inner, l.target)
      /\ k.condition = SubstituteCondition(f, inner, args, source, l.condition)
      /\ k.size = SubstituteSize(f, inner, args, l.size)
      /\ k = Link(k.source, k.target, k.condition, k.size, k.first)
  BY DEF Substituted, Link
<1> HIDE DEF k
<1>2. /\ IsName(l.source) /\ l.source \notin {FINAL, Message} /\ IsName(l.target)
      /\ l.target \notin {INITIAL, Message}
      /\ IsFiniteSet(l.condition) /\ (\A a \in l.condition : IsAtom(a)) /\ IsSize(l.size)
  BY DEF IsLink
<1>3. IsName(k.source) /\ k.source \notin {FINAL, Message}
  BY <1>1, <1>2, RenamedName
<1>4. IsName(k.target) /\ k.target \notin {INITIAL, Message}
  BY <1>1, <1>2, RenamedName
<1>5. IsFiniteSet(k.condition) /\ \A a \in k.condition : IsAtom(a)
  BY <1>1, <1>2, SubstitutedCondition
<1>6. IsSize(k.size)
  BY <1>1, <1>2, SubstitutedSize
<1>7. IsLink(k)
  BY <1>1, <1>3, <1>4, <1>5, <1>6 DEF IsLink
<1> QED BY <1>7 DEF k

(* Pruning only removes links. *)
LEMMA PruneSubset ==
  ASSUME NEW structure, IsFiniteSet(structure)
  PROVE  prune_dangling_fields(structure) \subseteq structure
<1> DEFINE N == Cardinality(structure)
           S == SUBSET structure
           Less(kept) == {l \in kept : l.target \in {k.source : k \in kept} \cup {FINAL}}
           step == [n \in 1 .. N |-> [kept \in S |-> Less(kept)]]
           Prunes(g) == g = [n \in 0 .. N |-> IF n = 0 THEN structure ELSE
                                 LET kept == g[n - 1] IN {l \in kept : l.target \in {k.source : k \in kept} \cup {FINAL}}]
           h == CHOOSE g : Prunes(g)
<1>1. N \in Nat
  BY FS_CardinalityType
<1>2. step \in [1 .. N -> [S -> S]]
  OBVIOUS
<1>3. PICK f : Recursion(f, N, S, structure, step)
  <2>1. structure \in S
    OBVIOUS
  <2> HIDE DEF step, S, N
  <2> QED BY <1>1, <1>2, <2>1, RecursiveFunction
<1>4. f \in [0 .. N -> S] /\ f[0] = structure /\ \A n \in 1 .. N : f[n] = step[n][f[n - 1]]
  BY <1>3 DEF Recursion
<1>5. ASSUME NEW n \in 1 .. N PROVE f[n] = Less(f[n - 1])
  <2>1. f[n - 1] \in S
    BY <1>1, <1>4
  <2> HIDE DEF Less, S, N
  <2> QED BY <1>4, <2>1
<1>6. Prunes(f)
  <2>1. ASSUME NEW n \in 0 .. N PROVE f[n] = IF n = 0 THEN structure ELSE Less(f[n - 1])
    <3>1. n = 0 \/ n \in 1 .. N
      BY <1>1
    <3> HIDE DEF N, Less
    <3> QED BY <1>4, <1>5, <3>1
  <2> HIDE DEF N, S
  <2> QED BY <1>4, <2>1
<1>7. Prunes(h)
  <2> HIDE DEF Prunes
  <2> QED BY <1>6
<1>8. prune_dangling_fields(structure) = h[N]
  BY DEF prune_dangling_fields
<1> HIDE DEF h
<1>9. ASSUME NEW n \in 0 .. N PROVE h[n] = IF n = 0 THEN structure ELSE Less(h[n - 1])
  <2> HIDE DEF N
  <2> QED BY <1>7
<1> DEFINE T == {n \in Nat : n <= N => h[n] \subseteq structure}
<1>10. 0 \in T
  <2>1. 0 \in 0 .. N
    BY <1>1
  <2> HIDE DEF N, Less
  <2> QED BY <1>9, <2>1
<1>11. ASSUME NEW n \in Nat, n \in T PROVE n + 1 \in T
  <2> SUFFICES ASSUME n + 1 <= N PROVE h[n + 1] \subseteq structure
    OBVIOUS
  <2>1. n + 1 \in 0 .. N /\ n + 1 # 0 /\ (n + 1) - 1 = n /\ h[n] \subseteq structure
    BY <1>1, <1>11
  <2>2. h[n + 1] = Less(h[n])
    <3> HIDE DEF N, Less
    <3> QED BY <1>9, <2>1
  <2> QED BY <2>1, <2>2
<1>12. N \in T
  <2> HIDE DEF T, N
  <2> QED BY <1>1, <1>10, <1>11, InductiveSet
<1> QED BY <1>1, <1>8, <1>12

(* The fields of m that are messages are those of declaration d. *)
FromDeclaration(m, d) ==
    \A f \in DOMAIN m.types : m.types[f].kind = "message" => f \in DOMAIN d.types /\ d.types[f] = m.types[f]

LEMMA LastElement == ASSUME NEW s, IsSequence(s), ToSet(s) # {} PROVE Last(s) \in ToSet(s)
<1>1. Len(s) \in Nat /\ DOMAIN s = 1 .. Len(s)
  BY SequenceFacts
<1>2. Len(s) \in 1 .. Len(s)
  BY <1>1 DEF ToSet
<1> QED BY <1>1, <1>2 DEF Last, ToSet

LEMMA DeclaredArguments ==
  ASSUME NEW d, NEW f, WellFormed(d), f \in DOMAIN d.types, d.types[f].kind = "message"
  PROVE  d.types[f].name \in DOMAIN Inner /\ AreArguments(arguments(d, d.types[f].name))
<1> DEFINE name == d.types[f].name
           same == {g \in DOMAIN d.types : IsMessage(d, g) /\ d.types[g].name = name}
           kept == Kept(d.order, same)
<1>1. IsSequence(d.order) /\ f \in ToSet(d.order)
  BY SequenceType DEF WellFormed
<1>2. f \in same
  BY DEF IsMessage
<1>3. IsSequence(kept) /\ ToSet(kept) = ToSet(d.order) \cap same
  <2> HIDE DEF same
  <2> QED BY <1>1, KeptElements
<1>4. Last(kept) \in same
  <2> HIDE DEF same, kept
  <2> QED BY <1>1, <1>2, <1>3, LastElement
<1>5. arguments(d, name) = d.types[Last(kept)].arguments
  BY DEF arguments
<1> HIDE DEF kept
<1>6. ASSUME NEW g \in same PROVE d.types[g].name \in DOMAIN Inner /\ AreArguments(d.types[g].arguments)
  <2>1. d.types[g].kind = "message" /\ IsType(d.types[g])
    BY DEF IsMessage, WellFormed
  <2> QED BY <2>1 DEF IsType, Composite, AreArguments
<1> HIDE DEF same
<1> QED BY <1>2, <1>4, <1>5, <1>6

(* A set of links of a well-formed message. *)
AreLinks(S) == IsFiniteSet(S) /\ \A l \in S : IsLink(l)

LEMMA AreLinksUnion == ASSUME NEW S, NEW T, AreLinks(S), AreLinks(T) PROVE AreLinks(S \cup T)
BY FS_Union DEF AreLinks

LEMMA AreLinksSubset == ASSUME NEW S, NEW T, AreLinks(S), T \subseteq S PROVE AreLinks(T)
BY FS_Subset DEF AreLinks

(* The links of an inner message in field f, after source. *)
LEMMA InnerLinks ==
  ASSUME NEW f, NEW inner, NEW args, NEW source, IsName(f), WellFormed(inner), AreArguments(args),
         IsName(source), source # Message
  PROVE  AreLinks({Substituted(f, inner, args, source, l) : l \in inner.structure})
<1> DEFINE S == {Substituted(f, inner, args, source, l) : l \in inner.structure}
           g == [l \in inner.structure |-> Substituted(f, inner, args, source, l)]
<1>1. IsFiniteSet(inner.structure) /\ \A l \in inner.structure : IsLink(l)
  BY DEF WellFormed
<1>2. S = {g[l] : l \in inner.structure}
  OBVIOUS
<1>3. \A l \in S : IsLink(l)
  BY <1>1, SubstitutedLink
<1> HIDE DEF g, S
<1>4. AreLinks(S)
  BY <1>1, <1>2, <1>3, FiniteImage DEF AreLinks
<1> QED BY <1>4 DEF S

(* The links into the inner message. *)
LEMMA LinksInto ==
  ASSUME NEW L, AreLinks(L), NEW g, IsName(g), g \notin {INITIAL, Message}, NEW size,
         \A l \in L : IsSize(size[l])
  PROVE  AreLinks({Link(l.source, g, l.condition, size[l], l.first) : l \in L})
<1> DEFINE New(l) == Link(l.source, g, l.condition, size[l], l.first)
           S == {New(l) : l \in L}
           n == [l \in L |-> New(l)]
<1>1. ASSUME NEW l \in L PROVE IsLink(New(l))
  <2> DEFINE z == size[l]
  <2>1. IsLink(l) /\ IsSize(z)
    BY DEF AreLinks
  <2>2. New(l) = Link(l.source, g, l.condition, z, l.first)
    OBVIOUS
  <2> HIDE DEF z, New
  <2>3. /\ New(l).source = l.source /\ New(l).target = g /\ New(l).condition = l.condition
        /\ New(l).size = z /\ New(l).first = l.first
    BY <2>2 DEF Link
  <2> QED BY <2>1, <2>2, <2>3 DEF IsLink
<1>2. S = {n[l] : l \in L}
  OBVIOUS
<1>3. IsFiniteSet(L)
  BY DEF AreLinks
<1> HIDE DEF n, New
<1>4. AreLinks(S)
  <2>1. \A l \in S : IsLink(l)
    BY <1>1
  <2> HIDE DEF S
  <2> QED BY <1>2, <1>3, <2>1, FiniteImage DEF AreLinks
<1> QED BY <1>4 DEF New

(* The links out of the inner message. *)
LEMMA LinksOut ==
  ASSUME NEW L, NEW K, AreLinks(L), AreLinks(K)
  PROVE  AreLinks({MergedLink(l, k) : l \in L, k \in K})
<1> DEFINE S == {MergedLink(l, k) : l \in L, k \in K}
           n == [x \in L \X K |-> MergedLink(x[1], x[2])]
<1>1. ASSUME NEW l \in L, NEW k \in K PROVE IsLink(MergedLink(l, k))
  <2> DEFINE c == l.condition \cup k.condition
             x == MergedLink(l, k)
  <2>1. IsLink(l) /\ IsLink(k)
    BY DEF AreLinks
  <2>2. IsFiniteSet(c) /\ \A a \in c : IsAtom(a)
    BY <2>1, FS_Union DEF IsLink
  <2>3. x = Link(k.source, l.target, c, l.size, l.first)
    BY DEF MergedLink
  <2> HIDE DEF c, x
  <2>4. x.source = k.source /\ x.target = l.target /\ x.condition = c /\ x.size = l.size /\ x.first = l.first
    BY <2>3 DEF Link
  <2>5. IsLink(x)
    BY <2>1, <2>2, <2>3, <2>4 DEF IsLink
  <2> QED BY <2>5 DEF x
<1>2. S = {n[x] : x \in L \X K}
  <2>1. ASSUME NEW y \in S PROVE y \in {n[x] : x \in L \X K}
    <3>1. PICK l \in L, k \in K : y = MergedLink(l, k)
      OBVIOUS
    <3>2. <<l, k>> \in L \X K /\ n[<<l, k>>] = MergedLink(l, k)
      OBVIOUS
    <3> QED BY <3>1, <3>2
  <2>2. ASSUME NEW x \in L \X K PROVE n[x] \in S
    OBVIOUS
  <2> QED BY <2>1, <2>2
<1>3. IsFiniteSet(L \X K)
  BY FS_Product DEF AreLinks
<1> HIDE DEF n
<1>4. \A l \in S : IsLink(l)
  BY <1>1
<1> HIDE DEF S
<1>5. AreLinks(S)
  BY <1>2, <1>3, <1>4, FiniteImage DEF AreLinks
<1> QED BY <1>5 DEF S

(* The types of the fields of an inner message. *)
LEMMA PrefixedTypes ==
  ASSUME NEW f, NEW inner, IsName(f), WellFormed(inner),
         \A g \in DOMAIN inner.types : inner.types[g].kind # "message"
  PROVE  LET types == prefixed_types(f, inner)
         IN  /\ DOMAIN types = {f \o h : h \in DOMAIN inner.types \ inner.parameters}
             /\ IsFiniteSet(DOMAIN types) /\ f \notin DOMAIN types
             /\ \A g \in DOMAIN types : IsName(g) /\ IsType(types[g]) /\ types[g].kind # "message"
<1> DEFINE H == DOMAIN inner.types \ inner.parameters
           D == {f \o h : h \in H}
           types == prefixed_types(f, inner)
           p == [h \in H |-> f \o h]
<1>1. types = [g \in D |-> inner.types[SubSeq(g, Len(f) + 1, Len(g))]]
  BY DEF prefixed_types
<1>2. DOMAIN types = D
  BY <1>1
<1>3. ASSUME NEW h \in H PROVE IsName(h) /\ IsType(inner.types[h]) /\ inner.types[h].kind # "message"
  BY DEF WellFormed
<1>4. ASSUME NEW h \in H
      PROVE  /\ IsName(f \o h) /\ f \o h # f /\ types[f \o h] = inner.types[h]
  <2>1. SubSeq(f \o h, Len(f) + 1, Len(f \o h)) = h
    BY <1>3, Unprefixed
  <2>2. f \o h \in D
    OBVIOUS
  <2>3. types[f \o h] = inner.types[SubSeq(f \o h, Len(f) + 1, Len(f \o h))]
    <3> HIDE DEF types, D
    <3> QED BY <1>1, <2>2
  <2> HIDE DEF types
  <2> QED BY <1>3, <2>1, <2>3, PrefixedName
<1>5. IsFiniteSet(D)
  <2>1. IsFiniteSet(H)
    BY FS_Subset DEF WellFormed
  <2>2. D = {p[h] : h \in H}
    OBVIOUS
  <2> HIDE DEF D, H, p
  <2> QED BY <2>1, <2>2, FiniteImage
<1> HIDE DEF types, H
<1>6. f \notin D
  BY <1>4
<1>7. ASSUME NEW g \in D PROVE IsName(g) /\ IsType(types[g]) /\ types[g].kind # "message"
  <2>1. PICK h \in H : g = f \o h
    OBVIOUS
  <2> QED BY <1>3, <1>4, <2>1
<1> HIDE DEF D
<1>8. /\ IsFiniteSet(DOMAIN types) /\ f \notin DOMAIN types
      /\ \A g \in DOMAIN types : IsName(g) /\ IsType(types[g]) /\ types[g].kind # "message"
  BY <1>2, <1>5, <1>6, <1>7
<1> QED BY <1>2, <1>8 DEF types, D, H

(* Field f of m is a message that the declaration has. *)
Mergeable(m, f) ==
    /\ WellFormed(m) /\ WellFormed(declaration) /\ FromDeclaration(m, declaration)
    /\ f \in DOMAIN m.types /\ m.types[f].kind = "message"

LEMMA InnerMessage ==
  ASSUME NEW m, NEW f, Mergeable(m, f)
  PROVE  LET type == Inner[m.types[f].name]
         IN  /\ IsName(f) /\ AreArguments(arguments(declaration, m.types[f].name))
             /\ WellFormed(type) /\ \A g \in DOMAIN type.types : type.types[g].kind # "message"
             /\ ToSet(type.order) \subseteq DOMAIN type.types \ type.parameters
             /\ \E l \in type.structure : l.source = INITIAL
<1>1. f \in DOMAIN declaration.types /\ declaration.types[f] = m.types[f]
  BY DEF Mergeable, FromDeclaration
<1>2. m.types[f].name \in DOMAIN Inner /\ AreArguments(arguments(declaration, m.types[f].name))
  BY <1>1, DeclaredArguments DEF Mergeable
<1>3. IsName(f)
  BY DEF Mergeable, WellFormed
<1> QED BY <1>2, <1>3, InnerAssumption

LEMMA UsedLinks == ASSUME NEW m, WellFormed(m) PROVE AreLinks(used_links(m))
<1>1. AreLinks(m.structure)
  BY DEF AreLinks, WellFormed
<1>2. used_links(m) \subseteq m.structure
  BY DEF used_links
<1> QED BY <1>1, <1>2, AreLinksSubset

LEMMA InnerLinksAre ==
  ASSUME NEW m, NEW f, Mergeable(m, f), NEW s, IsName(s), s # Message
  PROVE  AreLinks(inner_links(m, f, s))
<1> DEFINE type == Inner[m.types[f].name]
           args == arguments(declaration, m.types[f].name)
<1>1. IsName(f) /\ AreArguments(args) /\ WellFormed(type)
  BY InnerMessage
<1>2. inner_links(m, f, s) = {Substituted(f, type, args, s, l) : l \in type.structure}
  BY DEF inner_links, inner_link
<1> HIDE DEF type, args
<1> QED BY <1>1, <1>2, InnerLinks

LEMMA LinksIntoAre == ASSUME NEW m, NEW f, Mergeable(m, f) PROVE AreLinks(links_into(m, f))
<1> DEFINE type == Inner[m.types[f].name]
           initial == CHOOSE l \in type.structure : l.source = INITIAL
           target == Renamed(f, type, initial.target)
           entering == {k \in used_links(m) : k.target = f}
           size == [l \in entering |-> inner_link(m, f, l.source, initial).size]
<1>1. IsName(f) /\ WellFormed(type) /\ initial \in type.structure
  BY InnerMessage
<1>2. AreLinks(used_links(m))
  BY UsedLinks DEF Mergeable
<1>3. AreLinks(entering)
  BY <1>2, AreLinksSubset
<1>4. links_into(m, f) = {Link(l.source, target, l.condition, size[l], l.first) : l \in entering}
  <2>1. links_into(m, f) = {Link(l.source, target, l.condition, inner_link(m, f, l.source, initial).size,
                                 l.first) : l \in entering}
    BY Zenon DEF links_into
  <2>2. \A l \in entering : size[l] = inner_link(m, f, l.source, initial).size
    OBVIOUS
  <2> HIDE DEF size, entering, target, initial
  <2> QED BY <2>1, <2>2
<1> HIDE DEF type, initial
<1>5. IsName(target) /\ target \notin {INITIAL, Message}
  <2>1. IsName(initial.target) /\ initial.target \notin {INITIAL, Message}
    BY <1>1 DEF WellFormed, IsLink
  <2> QED BY <1>1, <2>1, RenamedName
<1>6. ASSUME NEW l \in entering PROVE IsSize(size[l])
  <2>1. IsName(l.source) /\ l.source # Message
    BY <1>3 DEF AreLinks, IsLink
  <2>2. AreLinks(inner_links(m, f, l.source))
    BY <2>1, InnerLinksAre
  <2>3. inner_link(m, f, l.source, initial) \in inner_links(m, f, l.source)
    BY <1>1 DEF inner_links, type
  <2>4. IsSize(inner_link(m, f, l.source, initial).size)
    BY <2>2, <2>3 DEF AreLinks, IsLink
  <2> QED BY <2>4
<1> HIDE DEF target, entering, size
<1> QED BY <1>3, <1>4, <1>5, <1>6, LinksInto

LEMMA LinksOutAre == ASSUME NEW m, NEW f, Mergeable(m, f) PROVE AreLinks(links_out(m, f))
<1> DEFINE entering == {n \in used_links(m) : n.target = f}
           leaving == {n \in used_links(m) : n.source = f}
           part == [i \in entering |-> links_behind(m, f, i.source)]
           P == {part[i] : i \in entering}
<1>1. links_out(m, f) \subseteq UNION P
  <2> DEFINE U == {links_behind(m, f, i.source) : i \in entering}
  <2>1. links_out(m, f) \subseteq UNION U
    BY DEF links_out
  <2>2. \A i \in entering : part[i] = links_behind(m, f, i.source)
    OBVIOUS
  <2>3. U = P
    <3> HIDE DEF part, entering, leaving
    <3> QED BY <2>2
  <2> HIDE DEF U, P
  <2> QED BY <2>1, <2>3
<1>2. AreLinks(used_links(m))
  BY UsedLinks DEF Mergeable
<1>3. AreLinks(leaving) /\ IsFiniteSet(entering)
  BY <1>2, AreLinksSubset DEF AreLinks
<1>4. ASSUME NEW i \in entering PROVE AreLinks(part[i])
  <2> DEFINE K == {n \in inner_links(m, f, i.source) : n.target = FINAL}
  <2>1. IsName(i.source) /\ i.source # Message
    BY <1>2 DEF AreLinks, IsLink
  <2>2. AreLinks(inner_links(m, f, i.source))
    BY <2>1, InnerLinksAre
  <2>3. AreLinks(K)
    BY <2>2, AreLinksSubset
  <2>4. part[i] = {MergedLink(l, k) : l \in leaving, k \in K}
    BY DEF links_behind
  <2> HIDE DEF K, part, leaving
  <2> QED BY <1>3, <2>3, <2>4, LinksOut
<1> HIDE DEF part, entering, leaving
<1>5. \A l \in UNION P : IsLink(l)
  BY <1>4 DEF AreLinks
<1>6. IsFiniteSet(UNION P)
  <2>1. IsFiniteSet(P)
    BY <1>3, FiniteImage
  <2>2. \A x \in P : IsFiniteSet(x)
    BY <1>4 DEF AreLinks
  <2> HIDE DEF P
  <2> QED BY <2>1, <2>2, FiniteUNION
<1> HIDE DEF P
<1>7. AreLinks(UNION P)
  BY <1>5, <1>6 DEF AreLinks
<1> QED BY <1>1, <1>7, AreLinksSubset

LEMMA MergedLinksAre ==
  ASSUME NEW m, NEW f, Mergeable(m, f), NEW source, IsName(source), source # Message
  PROVE  AreLinks(merged_links(m, f, source))
<1> DEFINE kept == {l \in used_links(m) : f \notin {l.source, l.target}}
           within == {l \in inner_links(m, f, source) : l.target # FINAL /\ l.source # INITIAL}
<1>1. AreLinks(kept)
  <2>1. AreLinks(used_links(m))
    BY UsedLinks DEF Mergeable
  <2> QED BY <2>1, AreLinksSubset
<1>2. AreLinks(within)
  <2>1. AreLinks(inner_links(m, f, source))
    BY InnerLinksAre
  <2> QED BY <2>1, AreLinksSubset
<1>3. AreLinks(links_into(m, f)) /\ AreLinks(links_out(m, f))
  BY LinksIntoAre, LinksOutAre
<1>4. merged_links(m, f, source) = ((kept \cup links_into(m, f)) \cup links_out(m, f)) \cup within
  BY DEF merged_links
<1> HIDE DEF kept, within
<1>5. AreLinks(kept \cup links_into(m, f))
  BY <1>1, <1>3, AreLinksUnion
<1>6. AreLinks((kept \cup links_into(m, f)) \cup links_out(m, f))
  BY <1>3, <1>5, AreLinksUnion
<1> QED BY <1>2, <1>4, <1>6, AreLinksUnion

(* A merged message is well-formed again, and its remaining messages are those of the
   declaration.                                                                      *)
LEMMA MergeWellFormed ==
  ASSUME NEW m, NEW f, NEW source, NEW merged, Mergeable(m, f),
         IsName(source), source # Message, merged = merge_inner_message(m, f, source)
  PROVE  WellFormed(merged) /\ FromDeclaration(merged, declaration)
<1> DEFINE type == Inner[m.types[f].name]
           ptypes == prefixed_types(f, type)
           types == Joined(ptypes, m.types)
           linked == merged_links(m, f, source)
           structure == prune_dangling_fields(linked)
           dangling == {l.target : l \in linked \ structure}
           added == [i \in DOMAIN type.order |-> f \o type.order[i]]
           order == Kept(m.order, ToSet(m.order) \ {f}) \o added
<1>1. merged = [order |-> Kept(order, ToSet(order) \ dangling),
                types |-> [g \in DOMAIN types \ (dangling \cup {f}) |-> types[g]],
                parameters |-> m.parameters,
                structure |-> structure]
  BY Zenon DEF merge_inner_message
<1>3. /\ WellFormed(type) /\ \A g \in DOMAIN type.types : type.types[g].kind # "message"
      /\ ToSet(type.order) \subseteq DOMAIN type.types \ type.parameters
  BY InnerMessage
<1>4. IsName(f)
  BY DEF Mergeable, WellFormed
<1>11. AreLinks(linked)
  BY MergedLinksAre
<1> HIDE DEF linked
<1>12. AreLinks(structure)
  <2>1. structure \subseteq linked
    BY <1>11, PruneSubset DEF AreLinks
  <2> HIDE DEF structure
  <2> QED BY <1>11, <2>1, AreLinksSubset
<1> HIDE DEF structure, dangling, type
<1>13. /\ DOMAIN ptypes = {f \o h : h \in DOMAIN type.types \ type.parameters}
       /\ IsFiniteSet(DOMAIN ptypes) /\ f \notin DOMAIN ptypes
       /\ \A g \in DOMAIN ptypes : IsName(g) /\ IsType(ptypes[g]) /\ ptypes[g].kind # "message"
  BY <1>3, <1>4, PrefixedTypes
<1> HIDE DEF ptypes
<1>14. /\ DOMAIN types = DOMAIN ptypes \cup DOMAIN m.types
       /\ \A g \in DOMAIN types : types[g] = IF g \in DOMAIN ptypes THEN ptypes[g] ELSE m.types[g]
  BY DEF Joined
<1> HIDE DEF types
<1>15. IsFiniteSet(DOMAIN m.types) /\ \A g \in DOMAIN m.types : IsName(g) /\ IsType(m.types[g])
  BY DEF Mergeable, WellFormed
<1> DEFINE new == [g \in DOMAIN types \ (dangling \cup {f}) |-> types[g]]
<1>16. DOMAIN new = DOMAIN types \ (dangling \cup {f}) /\ \A g \in DOMAIN new : new[g] = types[g]
  OBVIOUS
<1> HIDE DEF new
<1>17. IsFiniteSet(DOMAIN new) /\ \A g \in DOMAIN new : IsName(g) /\ IsType(new[g])
  <2>1. IsFiniteSet(DOMAIN ptypes \cup DOMAIN m.types)
    BY <1>13, <1>15, FS_Union
  <2>2. IsFiniteSet(DOMAIN new)
    BY <1>14, <1>16, <2>1, FS_Subset
  <2> QED BY <1>13, <1>14, <1>15, <1>16, <2>2
<1>18. IsSequence(m.order) /\ ToSet(m.order) \subseteq DOMAIN m.types
  BY SequenceType DEF Mergeable, WellFormed
<1>19. IsSequence(added) /\ ToSet(added) \subseteq DOMAIN ptypes
  <2>1. IsSequence(type.order)
    BY <1>3, SequenceType DEF Mergeable, WellFormed
  <2>2. Len(type.order) \in Nat /\ DOMAIN type.order = 1 .. Len(type.order)
    BY <2>1, SequenceFacts
  <2>3. ASSUME NEW i \in 1 .. Len(type.order) PROVE f \o type.order[i] \in DOMAIN ptypes
    <3>1. type.order[i] \in DOMAIN type.types \ type.parameters
      BY <1>3, <2>2 DEF ToSet
    <3> QED BY <1>13, <3>1
  <2>4. added \in [1 .. Len(type.order) -> DOMAIN ptypes]
    BY <2>2, <2>3
  <2> HIDE DEF added
  <2>5. added \in Seq(DOMAIN ptypes)
    BY <2>2, <2>4
  <2> QED BY <2>5, SequenceType
<1> HIDE DEF added
<1>20. IsSequence(order) /\ ToSet(order) = (ToSet(m.order) \ {f}) \cup ToSet(added)
  <2> DEFINE others == ToSet(m.order) \ {f}
             kept == Kept(m.order, others)
  <2> HIDE DEF others
  <2>1. IsSequence(kept) /\ ToSet(kept) = ToSet(m.order) \cap others
    BY <1>18, KeptElements
  <2> HIDE DEF kept
  <2>2. IsSequence(kept \o added) /\ ToSet(kept \o added) = ToSet(kept) \cup ToSet(added)
    BY <1>19, <2>1, SequenceConcat
  <2>3. order = kept \o added
    BY DEF kept, others, added
  <2>4. ToSet(m.order) \cap others = ToSet(m.order) \ {f}
    BY DEF others
  <2> HIDE DEF order
  <2> QED BY <2>1, <2>2, <2>3, <2>4
<1> HIDE DEF order
<1> DEFINE left == ToSet(order) \ dangling
           neworder == Kept(order, left)
<1>21. IsSequence(neworder) /\ ToSet(neworder) = ToSet(order) \ dangling
  <2>1. ToSet(order) \cap left = ToSet(order) \ dangling
    OBVIOUS
  <2> HIDE DEF left
  <2> QED BY <1>20, <2>1, KeptElements
<1>22. merged = [order |-> neworder, types |-> new, parameters |-> m.parameters, structure |-> structure]
  BY <1>1 DEF new
<1> HIDE DEF neworder, left
<1>23. /\ merged.order = neworder /\ merged.types = new /\ merged.parameters = m.parameters
       /\ merged.structure = structure
  BY <1>22
<1>24. merged.order \in Seq(DOMAIN merged.types)
  <2>1. ToSet(neworder) \subseteq DOMAIN new
    BY <1>13, <1>14, <1>16, <1>18, <1>19, <1>20, <1>21
  <2>2. Len(neworder) \in Nat /\ neworder \in [1 .. Len(neworder) -> ToSet(neworder)]
    BY <1>21 DEF IsSequence
  <2>3. neworder \in Seq(DOMAIN new)
    BY <2>1, <2>2
  <2> QED BY <1>23, <2>3
<1>25. ASSUME NEW g \in DOMAIN new, new[g].kind = "message"
       PROVE  g \in ToSet(neworder) /\ g \in DOMAIN declaration.types /\ declaration.types[g] = new[g]
  <2>1. g \in DOMAIN types /\ g \notin dangling /\ g # f /\ new[g] = types[g]
    BY <1>16
  <2>2. g \in DOMAIN m.types /\ types[g] = m.types[g]
    BY <1>13, <1>14, <1>25, <2>1
  <2>3. g \in ToSet(m.order)
    BY <1>25, <2>1, <2>2 DEF Mergeable, WellFormed
  <2> QED BY <1>20, <1>21, <1>25, <2>1, <2>2, <2>3 DEF Mergeable, FromDeclaration
<1>26. WellFormed(merged)
  <2>1. merged = [order |-> merged.order, types |-> merged.types, parameters |-> merged.parameters,
                  structure |-> merged.structure]
    BY <1>22, <1>23
  <2> QED BY <1>12, <1>17, <1>23, <1>24, <1>25, <2>1 DEF Mergeable, WellFormed, AreLinks
<1>27. FromDeclaration(merged, declaration)
  BY <1>23, <1>25 DEF Mergeable, FromDeclaration
<1> QED BY <1>26, <1>27

(* The links of p follow each other from INITIAL. *)
Chain(m, p) ==
    /\ p \in Seq(m.structure) /\ Len(p) >= 1 /\ p[1].source = INITIAL
    /\ \A i \in 1 .. Len(p) - 1 : p[i + 1].source = p[i].target

(* The chains with at most n + 1 links. *)
Chains(m, n) == {p \in Seq(m.structure) : Chain(m, p) /\ Len(p) <= n + 1}

(* One more link. *)
Longer(m, found) == found \cup UNION {{Append(p, l) : l \in outgoing(m, Last(p).target)} : p \in found}

LEMMA SequenceFunction == ASSUME NEW S, NEW p \in Seq(S) PROVE p \in [1 .. Len(p) -> S] /\ Len(p) \in Nat
OBVIOUS

LEMMA SequenceOfOne == ASSUME NEW S, NEW p \in Seq(S), Len(p) = 1 PROVE p[1] \in S /\ p = <<p[1]>>
<1> DEFINE x == p[1]
           q == <<x>>
<1>1. p \in [1 .. 1 -> S]
  <2>1. p \in [1 .. Len(p) -> S]
    BY SequenceFunction, Zenon
  <2> QED BY <2>1, Zenon
<1>2. x \in S
  BY <1>1
<1>3. q = [i \in 1 .. 1 |-> x]
  OBVIOUS
<1>4. \A i \in 1 .. 1 : p[i] = x
  OBVIOUS
<1> HIDE DEF x, q
<1>5. p = q
  BY <1>1, <1>3, <1>4
<1> QED BY <1>2, <1>5 DEF x, q

LEMMA OneElement == ASSUME NEW S, NEW x \in S PROVE <<x>> \in Seq(S) /\ Len(<<x>>) = 1 /\ <<x>>[1] = x
<1>1. Len(<<x>>) = 1 /\ <<x>>[1] = x
  OBVIOUS
<1>2. <<x>> \in Seq(S)
  OBVIOUS
<1> QED BY <1>1, <1>2

LEMMA ChainsMember ==
  ASSUME NEW m, NEW n \in Nat, NEW p
  PROVE  p \in Chains(m, n) <=> Chain(m, p) /\ Len(p) \in 1 .. n + 1
<1>1. Chain(m, p) => p \in Seq(m.structure) /\ Len(p) >= 1
  BY DEF Chain
<1>2. p \in Seq(m.structure) => Len(p) \in Nat
  OBVIOUS
<1>3. Len(p) \in Nat => (Len(p) \in 1 .. n + 1 <=> Len(p) >= 1 /\ Len(p) <= n + 1)
  OBVIOUS
<1> QED BY <1>1, <1>2, <1>3 DEF Chains

LEMMA ChainsBase ==
  ASSUME NEW m PROVE Chains(m, 0) = {<<l>> : l \in outgoing(m, INITIAL)}
<1>1. ASSUME NEW p \in Chains(m, 0) PROVE p \in {<<l>> : l \in outgoing(m, INITIAL)}
  <2>1. p \in Seq(m.structure) /\ p[1].source = INITIAL
    BY ChainsMember DEF Chain
  <2>2. Len(p) = 1
    <3>1. 0 \in Nat
      OBVIOUS
    <3>2. Len(p) \in 1 .. 0 + 1
      BY <3>1, ChainsMember
    <3> QED BY <3>2
  <2>3. p[1] \in m.structure /\ p = <<p[1]>>
    BY <2>1, <2>2, SequenceOfOne
  <2>4. p[1] \in outgoing(m, INITIAL)
    BY <2>1, <2>3 DEF outgoing
  <2> QED BY <2>3, <2>4
<1>2. ASSUME NEW l \in outgoing(m, INITIAL) PROVE <<l>> \in Chains(m, 0)
  <2>1. l \in m.structure /\ l.source = INITIAL
    BY DEF outgoing
  <2>2. <<l>> \in Seq(m.structure) /\ Len(<<l>>) = 1 /\ <<l>>[1] = l
    BY <2>1, OneElement
  <2>3. Chain(m, <<l>>)
    <3> DEFINE p == <<l>>
    <3> HIDE DEF p
    <3>1. p \in Seq(m.structure) /\ Len(p) = 1 /\ p[1] = l
      BY <2>2 DEF p
    <3>2. Chain(m, p)
      BY <2>1, <3>1 DEF Chain
    <3> QED BY <3>2 DEF p
  <2>4. 0 \in Nat /\ Len(<<l>>) \in 1 .. 0 + 1
    BY <2>2
  <2> QED BY <2>3, <2>4, ChainsMember
<1> QED BY <1>1, <1>2

LEMMA ChainAppend ==
  ASSUME NEW m, NEW p, Chain(m, p), NEW l \in outgoing(m, Last(p).target)
  PROVE  Chain(m, Append(p, l)) /\ Len(Append(p, l)) = Len(p) + 1
<1> DEFINE q == Append(p, l)
<1>1. p \in Seq(m.structure) /\ Len(p) \in Nat /\ Len(p) >= 1 /\ l \in m.structure /\ l.source = p[Len(p)].target
  BY DEF Chain, outgoing, Last
<1>2. q \in Seq(m.structure) /\ Len(q) = Len(p) + 1 /\ q[Len(p) + 1] = l /\ \A i \in 1 .. Len(p) : q[i] = p[i]
  BY <1>1
<1> HIDE DEF q
<1>3. q[1].source = INITIAL
  BY <1>1, <1>2 DEF Chain
<1>4. ASSUME NEW i \in 1 .. Len(q) - 1 PROVE q[i + 1].source = q[i].target
  <2>1. CASE i = Len(p)
    BY <1>1, <1>2, <2>1
  <2>2. CASE i # Len(p)
    <3>1. i \in 1 .. Len(p) - 1 /\ i + 1 \in 1 .. Len(p) /\ i \in 1 .. Len(p)
      BY <1>1, <1>2, <2>2
    <3> QED BY <1>2, <3>1 DEF Chain
  <2> QED BY <2>1, <2>2
<1>5. Chain(m, q) /\ Len(q) = Len(p) + 1
  BY <1>1, <1>2, <1>3, <1>4 DEF Chain
<1> QED BY <1>5 DEF q

LEMMA ChainPrefix ==
  ASSUME NEW m, NEW p, Chain(m, p), NEW k \in 1 .. Len(p)
  PROVE  /\ Chain(m, SubSeq(p, 1, k)) /\ Len(SubSeq(p, 1, k)) = k
         /\ \A i \in 1 .. k : SubSeq(p, 1, k)[i] = p[i]
         /\ Last(SubSeq(p, 1, k)) = p[k]
<1> DEFINE q == SubSeq(p, 1, k)
<1>1. p \in Seq(m.structure) /\ Len(p) \in Nat
  BY DEF Chain
<1>2. q \in Seq(m.structure) /\ Len(q) = k /\ \A i \in 1 .. k : q[i] = p[i]
  <2>1. q = [i \in 1 .. k |-> p[i]] /\ k \in Nat
    BY <1>1
  <2>2. \A i \in 1 .. k : p[i] \in m.structure
    BY <1>1
  <2>3. q \in [1 .. k -> m.structure]
    BY <2>1, <2>2
  <2> HIDE DEF q
  <2>4. q \in Seq(m.structure)
    BY <2>1, <2>3
  <2> QED BY <2>1, <2>3, <2>4
<1> HIDE DEF q
<1>3. q[1].source = INITIAL
  BY <1>1, <1>2 DEF Chain
<1>4. ASSUME NEW i \in 1 .. Len(q) - 1 PROVE q[i + 1].source = q[i].target
  <2>1. i \in 1 .. Len(p) - 1 /\ i + 1 \in 1 .. k /\ i \in 1 .. k
    BY <1>1, <1>2
  <2> QED BY <1>2, <2>1 DEF Chain
<1>5. Chain(m, q)
  BY <1>2, <1>3, <1>4 DEF Chain
<1>6. Last(q) = p[k]
  BY <1>2 DEF Last
<1> QED BY <1>2, <1>5, <1>6 DEF q

LEMMA ChainsStep ==
  ASSUME NEW m, NEW n \in Nat PROVE Chains(m, n + 1) = Longer(m, Chains(m, n))
<1>1. ASSUME NEW q \in Chains(m, n + 1) PROVE q \in Longer(m, Chains(m, n))
  <2>1. q \in Seq(m.structure) /\ Chain(m, q) /\ Len(q) \in Nat /\ Len(q) <= n + 2 /\ Len(q) >= 1
    BY DEF Chains, Chain
  <2>2. CASE Len(q) <= n + 1
    BY <2>1, <2>2 DEF Chains, Longer
  <2>3. CASE Len(q) = n + 2
    <3> DEFINE p == SubSeq(q, 1, n + 1)
               l == q[n + 2]
    <3>1. n + 1 \in 1 .. Len(q)
      BY <2>3
    <3>2. Chain(m, p) /\ Len(p) = n + 1 /\ (\A i \in 1 .. n + 1 : p[i] = q[i]) /\ Last(p) = q[n + 1]
      BY <2>1, <3>1, ChainPrefix
    <3> HIDE DEF p
    <3>3. p \in Chains(m, n)
      BY <3>2 DEF Chains, Chain
    <3>4. l \in outgoing(m, Last(p).target)
      BY <2>1, <2>3, <3>2 DEF Chain, outgoing
    <3>5. q = Append(p, l)
      <4>1. p \in Seq(m.structure) /\ l \in m.structure
        BY <3>2, <3>4 DEF Chain, outgoing
      <4> HIDE DEF l
      <4>2. Len(Append(p, l)) = n + 2 /\ Append(p, l) \in Seq(m.structure)
        <5>1. Len(Append(p, l)) = Len(p) + 1 /\ Append(p, l) \in Seq(m.structure)
          BY <4>1
        <5> QED BY <3>2, <5>1
      <4>3. \A i \in 1 .. n + 2 : Append(p, l)[i] = q[i]
        BY <3>2, <4>1 DEF l
      <4> QED BY <2>1, <2>3, <4>2, <4>3
    <3> HIDE DEF l
    <3> QED BY <3>3, <3>4, <3>5 DEF Longer
  <2> QED BY <2>1, <2>2, <2>3
<1>2. ASSUME NEW q \in Longer(m, Chains(m, n)) PROVE q \in Chains(m, n + 1)
  <2>1. CASE q \in Chains(m, n)
    <3>1. q \in Seq(m.structure) /\ Len(q) \in Nat /\ Len(q) <= n + 1 /\ Chain(m, q)
      BY <2>1 DEF Chains
    <3> QED BY <3>1 DEF Chains
  <2>2. CASE q \notin Chains(m, n)
    <3>1. PICK p \in Chains(m, n) : q \in {Append(p, l) : l \in outgoing(m, Last(p).target)}
      BY <2>2 DEF Longer
    <3>2. PICK l \in outgoing(m, Last(p).target) : q = Append(p, l)
      BY <3>1
    <3>3. Chain(m, p) /\ Len(p) \in Nat /\ Len(p) <= n + 1
      BY <3>1 DEF Chains, Chain
    <3>4. Chain(m, q) /\ Len(q) = Len(p) + 1
      BY <3>2, <3>3, ChainAppend
    <3>5. q \in Seq(m.structure)
      BY <3>4 DEF Chain
    <3>6. Len(q) <= (n + 1) + 1
      BY <3>3, <3>4
    <3> QED BY <3>4, <3>5, <3>6 DEF Chains
  <2> QED BY <2>1, <2>2
<1> QED BY <1>1, <1>2

LEMMA ChainsFinite ==
  ASSUME NEW m, IsFiniteSet(m.structure) PROVE \A n \in Nat : IsFiniteSet(Chains(m, n))
<1> DEFINE T == {n \in Nat : IsFiniteSet(Chains(m, n))}
<1>1. ASSUME NEW f PROVE IsFiniteSet(outgoing(m, f))
  BY FS_Subset DEF outgoing
<1>2. 0 \in T
  <2> DEFINE O == outgoing(m, INITIAL)
             g == [l \in O |-> <<l>>]
  <2>1. Chains(m, 0) = {g[l] : l \in O}
    BY ChainsBase
  <2>2. IsFiniteSet(O)
    BY <1>1
  <2> HIDE DEF g, O
  <2>3. IsFiniteSet(Chains(m, 0))
    BY <2>1, <2>2, FiniteImage
  <2> QED BY <2>3
<1>3. ASSUME NEW n \in Nat, n \in T PROVE n + 1 \in T
  <2> DEFINE C == Chains(m, n)
             add == [p \in C |-> {Append(p, l) : l \in outgoing(m, Last(p).target)}]
             U == {add[p] : p \in C}
  <2>1. Chains(m, n + 1) = C \cup UNION U
    BY ChainsStep DEF Longer
  <2>2. IsFiniteSet(C)
    BY <1>3
  <2>3. ASSUME NEW p \in C PROVE IsFiniteSet(add[p])
    <3> DEFINE O == outgoing(m, Last(p).target)
               g == [l \in O |-> Append(p, l)]
    <3>1. add[p] = {g[l] : l \in O}
      OBVIOUS
    <3>2. IsFiniteSet(O)
      BY <1>1
    <3> HIDE DEF g, O, add
    <3> QED BY <3>1, <3>2, FiniteImage
  <2> HIDE DEF C, add
  <2>4. IsFiniteSet(U)
    BY <2>2, FiniteImage
  <2>5. \A x \in U : IsFiniteSet(x)
    BY <2>3
  <2> HIDE DEF U
  <2>6. IsFiniteSet(UNION U)
    BY <2>4, <2>5, FiniteUNION
  <2>7. IsFiniteSet(Chains(m, n + 1))
    BY <2>1, <2>2, <2>6, FS_Union
  <2> QED BY <2>7
<1>4. \A n \in Nat : n \in T
  <2> HIDE DEF T
  <2> QED BY <1>2, <1>3, InductiveSet
<1> QED BY <1>4

(* All paths are the chains with at most one link more than there are. *)
LEMMA AllPathsChains ==
  ASSUME NEW m, IsFiniteSet(m.structure)
  PROVE  AllPaths(m) = Chains(m, Cardinality(m.structure))
<1> DEFINE N == Cardinality(m.structure)
           f == [n \in 0 .. N |-> Chains(m, n)]
           Extended(g) ==
               g = [n \in 0 .. N |->
                       IF n = 0 THEN {<<l>> : l \in outgoing(m, INITIAL)}
                       ELSE LET found == g[n - 1]
                            IN  found \cup UNION {{Append(p, l) : l \in outgoing(m, Last(p).target)} : p \in found}]
           h == CHOOSE g : Extended(g)
<1>1. N \in Nat
  BY FS_CardinalityType
<1>2. AllPaths(m) = h[N]
  BY DEF AllPaths
<1> HIDE DEF N
<1>3. Extended(f)
  <2>1. ASSUME NEW n \in 0 .. N
        PROVE  f[n] = IF n = 0 THEN {<<l>> : l \in outgoing(m, INITIAL)} ELSE Longer(m, f[n - 1])
    <3>1. CASE n = 0
      BY <3>1, ChainsBase
    <3>2. CASE n # 0
      <4>1. n - 1 \in Nat /\ n - 1 \in 0 .. N /\ (n - 1) + 1 = n
        BY <1>1, <3>2
      <4>2. Chains(m, n) = Longer(m, Chains(m, n - 1))
        BY <4>1, ChainsStep
      <4> QED BY <3>2, <4>1, <4>2
    <3> QED BY <3>1, <3>2
  <2>2. f = [n \in 0 .. N |-> IF n = 0 THEN {<<l>> : l \in outgoing(m, INITIAL)} ELSE Longer(m, f[n - 1])]
    <3>1. DOMAIN f = 0 .. N /\ f = [n \in 0 .. N |-> f[n]]
      OBVIOUS
    <3> HIDE DEF f
    <3> QED BY <2>1, <3>1
  <2> HIDE DEF f
  <2> QED BY <2>2 DEF Longer
<1>4. Extended(h)
  <2> HIDE DEF Extended
  <2> QED BY <1>3
<1> HIDE DEF h, f
<1>5. ASSUME NEW n \in 0 .. N
      PROVE  h[n] = IF n = 0 THEN {<<l>> : l \in outgoing(m, INITIAL)} ELSE Longer(m, h[n - 1])
  BY <1>4 DEF Longer
<1> DEFINE T == {n \in Nat : n <= N => h[n] = Chains(m, n)}
<1> HIDE DEF Extended
<1>6. 0 \in T
  <2>1. 0 \in 0 .. N
    BY <1>1
  <2> QED BY <1>5, <2>1, ChainsBase
<1>7. ASSUME NEW n \in Nat, n \in T PROVE n + 1 \in T
  <2> SUFFICES ASSUME n + 1 <= N PROVE h[n + 1] = Chains(m, n + 1)
    OBVIOUS
  <2>1. n + 1 \in 0 .. N /\ n + 1 # 0 /\ (n + 1) - 1 = n /\ h[n] = Chains(m, n)
    BY <1>1, <1>7
  <2>2. h[n + 1] = Longer(m, h[n])
    BY <1>5, <2>1
  <2> QED BY <2>1, <2>2, ChainsStep
<1>8. N \in T
  <2> HIDE DEF T
  <2> QED BY <1>1, <1>6, <1>7, InductiveSet
<1>9. AllPaths(m) = Chains(m, N)
  BY <1>1, <1>2, <1>8
<1> QED BY <1>9 DEF N

LEMMA AllPathsMember ==
  ASSUME NEW m, IsFiniteSet(m.structure)
  PROVE  /\ \A p : p \in AllPaths(m) <=> Chain(m, p) /\ Len(p) <= Cardinality(m.structure) + 1
         /\ IsFiniteSet(AllPaths(m)) /\ AllPaths(m) \subseteq Seq(m.structure)
<1>1. AllPaths(m) = Chains(m, Cardinality(m.structure)) /\ Cardinality(m.structure) \in Nat
  BY AllPathsChains, FS_CardinalityType
<1>2. \A p : p \in Chains(m, Cardinality(m.structure)) <=> Chain(m, p) /\ Len(p) <= Cardinality(m.structure) + 1
  BY DEF Chains, Chain
<1>3. IsFiniteSet(Chains(m, Cardinality(m.structure)))
  BY <1>1, ChainsFinite
<1> QED BY <1>1, <1>2, <1>3 DEF Chains

(* A proof job and what it reports. *)
IsJob(j) == j.result \in {"SAT", "UNSAT"} /\ \A r \in ProofResult : IsSequence(j.errors[r])

LEMMA ProofJobFacts ==
  ASSUME NEW sat \in BOOLEAN, NEW a, NEW b, NEW c, NEW job, job = ProofJob(sat, a, b, c)
  PROVE  /\ job.result = IF sat THEN "SAT" ELSE "UNSAT"
         /\ job.errors["SAT"] = a /\ job.errors["UNSAT"] = b /\ job.errors["UNKNOWN"] = c
BY DEF ProofJob

LEMMA ProofJobIs ==
  ASSUME NEW sat \in BOOLEAN, NEW a, NEW b, NEW c, IsSequence(a), IsSequence(b), IsSequence(c)
  PROVE  IsJob(ProofJob(sat, a, b, c))
<1> DEFINE job == ProofJob(sat, a, b, c)
<1>1. /\ job.result = IF sat THEN "SAT" ELSE "UNSAT"
      /\ job.errors["SAT"] = a /\ job.errors["UNSAT"] = b /\ job.errors["UNKNOWN"] = c
  BY ProofJobFacts
<1> HIDE DEF job
<1>2. IsJob(job)
  BY <1>1 DEF IsJob, ProofResult
<1> QED BY <1>2 DEF job

LEMMA Pair == ASSUME NEW x, NEW y PROVE IsSequence(<<x, y>>) /\ ToSet(<<x, y>>) = {x, y}
<1>1. DOMAIN <<x, y>> = {1, 2} /\ <<x, y>>[1] = x /\ <<x, y>>[2] = y
  OBVIOUS
<1>2. ToSet(<<x, y>>) = {x, y}
  BY <1>1 DEF ToSet
<1> QED BY <1>2 DEF IsSequence

LEMMA ListImage ==
  ASSUME NEW S, IsFiniteSet(S), NEW J, NEW q, NEW s, s = InAnyOrder(S), q = [i \in DOMAIN s |-> J[s[i]]]
  PROVE  Lists(q, {J[x] : x \in S})
<1> DEFINE T == {J[x] : x \in S}
<1>1. IsSequence(s) /\ ToSet(s) = S
  BY InAnyOrderLists DEF Lists
<1>2. Len(s) \in Nat /\ DOMAIN s = 1 .. Len(s) /\ \A i \in 1 .. Len(s) : s[i] \in S
  BY <1>1, SequenceFacts
<1>3. q \in [1 .. Len(s) -> T]
  BY <1>2
<1>4. q \in Seq(T) /\ Len(q) = Len(s) /\ DOMAIN q = 1 .. Len(s)
  BY <1>2, <1>3
<1>5. IsSequence(q) /\ ToSet(q) \subseteq T
  BY <1>4, SequenceType
<1>6. ASSUME NEW x \in S PROVE J[x] \in ToSet(q)
  <2>1. PICK i \in DOMAIN s : s[i] = x
    BY <1>1 DEF ToSet
  <2>2. q[i] = J[x] /\ i \in DOMAIN q
    BY <2>1
  <2> QED BY <2>2 DEF ToSet
<1>7. T \subseteq ToSet(q)
  BY <1>6
<1> QED BY <1>5, <1>7 DEF Lists

LEMMA PathProofs ==
  ASSUME NEW m, IsFiniteSet(m.structure)
  PROVE  Lists(path_proofs(m), {path_proof(m, p) : p \in AllPaths(m)})
<1> DEFINE S == AllPaths(m)
           J == [p \in S |-> path_proof(m, p)]
           s == InAnyOrder(S)
<1>1. IsFiniteSet(S)
  BY AllPathsMember
<1>2. path_proofs(m) = [i \in DOMAIN s |-> path_proof(m, s[i])]
  BY DEF path_proofs, Jobs
<1>3. \A i \in DOMAIN s : s[i] \in S
  BY <1>1, InAnyOrderLists DEF Lists, ToSet
<1>4. path_proofs(m) = [i \in DOMAIN s |-> J[s[i]]]
  BY <1>2, <1>3
<1>5. {J[p] : p \in S} = {path_proof(m, p) : p \in S}
  OBVIOUS
<1> HIDE DEF J, s, S
<1>6. Lists(path_proofs(m), {J[p] : p \in S})
  BY <1>1, <1>4, ListImage DEF s
<1> QED BY <1>5, <1>6 DEF S

LEMMA StaticConditions ==
  ASSUME NEW m, IsFiniteSet(m.structure)
  PROVE  Lists(static_conditions(m), {static_proof(m, l) : l \in {l \in m.structure : l.condition # {}}})
<1> DEFINE S == {l \in m.structure : l.condition # {}}
           J == [l \in S |-> static_proof(m, l)]
           s == InAnyOrder(S)
<1>1. IsFiniteSet(S)
  BY FS_Subset
<1>2. static_conditions(m) = [i \in DOMAIN s |-> static_proof(m, s[i])]
  BY DEF static_conditions, Jobs
<1> HIDE DEF S
<1>3. \A i \in DOMAIN s : s[i] \in S
  BY <1>1, InAnyOrderLists DEF Lists, ToSet
<1>4. static_conditions(m) = [i \in DOMAIN s |-> J[s[i]]]
  BY <1>2, <1>3
<1>5. {J[l] : l \in S} = {static_proof(m, l) : l \in S}
  OBVIOUS
<1> HIDE DEF J, s
<1>6. Lists(static_conditions(m), {J[l] : l \in S})
  BY <1>1, <1>4, ListImage DEF s
<1> QED BY <1>5, <1>6 DEF S

LEMMA ConflictsFinite == ASSUME NEW m, IsFiniteSet(m.structure) PROVE IsFiniteSet(Conflicts(m))
<1> DEFINE K == kSubset(2, m.structure)
           S == SUBSET m.structure
<1>1. K \subseteq S
  BY DEF kSubset
<1>2. IsFiniteSet(S)
  BY FS_SUBSET
<1>3. IsFiniteSet(AllPaths(m))
  BY AllPathsMember
<1> HIDE DEF S
<1>4. IsFiniteSet(S \X AllPaths(m))
  BY <1>2, <1>3, FS_Product
<1>5. Conflicts(m) \subseteq S \X AllPaths(m)
  BY <1>1 DEF Conflicts
<1> QED BY <1>4, <1>5, FS_Subset

LEMMA ConflictingConditions ==
  ASSUME NEW m, IsFiniteSet(m.structure)
  PROVE  Lists(conflicting_conditions(m), {conflict_proof(m, c) : c \in Conflicts(m)})
<1> DEFINE S == Conflicts(m)
           J == [c \in S |-> conflict_proof(m, c)]
           s == InAnyOrder(S)
<1>1. IsFiniteSet(S)
  BY ConflictsFinite
<1>2. conflicting_conditions(m) = [i \in DOMAIN s |-> conflict_proof(m, s[i])]
  BY DEF conflicting_conditions, Jobs
<1> HIDE DEF S
<1>3. \A i \in DOMAIN s : s[i] \in S
  BY <1>1, InAnyOrderLists DEF Lists, ToSet
<1>4. conflicting_conditions(m) = [i \in DOMAIN s |-> J[s[i]]]
  BY <1>2, <1>3
<1>5. {J[c] : c \in S} = {conflict_proof(m, c) : c \in S}
  OBVIOUS
<1> HIDE DEF J, s
<1>6. Lists(conflicting_conditions(m), {J[c] : c \in S})
  BY <1>1, <1>4, ListImage DEF s
<1> QED BY <1>5, <1>6 DEF S

LEMMA Overlays ==
  ASSUME NEW m, IsFiniteSet(m.structure)
  PROVE  Lists(overlays(m), {overlay_proof(m, p) : p \in {p \in AllPaths(m) : Last(p).target # FINAL /\ Last(p).first # Undefined}})
<1> DEFINE S == {p \in AllPaths(m) : Last(p).target # FINAL /\ Last(p).first # Undefined}
           J == [p \in S |-> overlay_proof(m, p)]
           s == InAnyOrder(S)
<1>1. IsFiniteSet(S)
  BY AllPathsMember, FS_Subset
<1>2. overlays(m) = [i \in DOMAIN s |-> overlay_proof(m, s[i])]
  BY DEF overlays, Jobs
<1> HIDE DEF S
<1>3. \A i \in DOMAIN s : s[i] \in S
  BY <1>1, InAnyOrderLists DEF Lists, ToSet
<1>4. overlays(m) = [i \in DOMAIN s |-> J[s[i]]]
  BY <1>2, <1>3
<1>5. {J[p] : p \in S} = {overlay_proof(m, p) : p \in S}
  OBVIOUS
<1> HIDE DEF J, s
<1>6. Lists(overlays(m), {J[p] : p \in S})
  BY <1>1, <1>4, ListImage DEF s
<1> QED BY <1>5, <1>6 DEF S

LEMMA MessageSizes ==
  ASSUME NEW m, IsFiniteSet(m.structure)
  PROVE  Lists(message_size(m), {message_size_proof(m, p) : p \in {Front(p) : p \in paths(m, FINAL)}})
<1> DEFINE S == {Front(p) : p \in paths(m, FINAL)}
           J == [p \in S |-> message_size_proof(m, p)]
           s == InAnyOrder(S)
<1>1. IsFiniteSet(S)
  <2> DEFINE P == paths(m, FINAL)
             g == [p \in P |-> Front(p)]
  <2>1. IsFiniteSet(P)
    BY AllPathsMember, FS_Subset DEF paths
  <2>2. S = {g[p] : p \in P}
    OBVIOUS
  <2> HIDE DEF S, P, g
  <2> QED BY <2>1, <2>2, FiniteImage
<1>2. message_size(m) = [i \in DOMAIN s |-> message_size_proof(m, s[i])]
  BY DEF message_size, Jobs
<1> HIDE DEF S
<1>3. \A i \in DOMAIN s : s[i] \in S
  BY <1>1, InAnyOrderLists DEF Lists, ToSet
<1>4. message_size(m) = [i \in DOMAIN s |-> J[s[i]]]
  BY <1>2, <1>3
<1>5. {J[p] : p \in S} = {message_size_proof(m, p) : p \in S}
  OBVIOUS
<1> HIDE DEF J, s
<1>6. Lists(message_size(m), {J[p] : p \in S})
  BY <1>1, <1>4, ListImage DEF s
<1> QED BY <1>5, <1>6 DEF S

(* The jobs about the position of one field. *)
LEMMA PositionProofs ==
  ASSUME NEW m, NEW p
  PROVE  /\ IsSequence(position_proofs(m, p))
         /\ \A j \in ToSet(position_proofs(m, p)) : IsJob(j)
         /\ LET f == Last(p).target
                Refuted(check, sat) == ProofJob(sat, <<Error(check, f)>>, <<>>, <<Error(check, f)>>)
            IN  /\ Refuted("negative_size", NegativeSize(m, p)) \in ToSet(position_proofs(m, p))
                /\ f # FINAL /\ m.types[f].kind = "opaque" =>
                      /\ Refuted("alignment", Misaligned(m, p)) \in ToSet(position_proofs(m, p))
                      /\ Refuted("multiple", FractionOfByte(m, p)) \in ToSet(position_proofs(m, p))
<1> DEFINE f == Last(p).target
           Refuted(check, sat) == ProofJob(sat, <<Error(check, f)>>, <<>>, <<Error(check, f)>>)
           a == Refuted("negative_size", NegativeSize(m, p))
           b == ProofJob(PositiveStart(m, p), <<>>, <<Error("negative_start", f)>>, <<Error("negative_start", f)>>)
           c == Refuted("alignment", Misaligned(m, p))
           d == Refuted("multiple", FractionOfByte(m, p))
           opaque == f # FINAL /\ m.types[f].kind = "opaque"
           q == position_proofs(m, p)
<1>1. q = <<a, b>> \o IF opaque THEN <<c, d>> ELSE <<>>
  BY Zenon DEF position_proofs
<1>2. IsJob(a) /\ IsJob(b) /\ IsJob(c) /\ IsJob(d)
  <2>1. \A x : IsSequence(<<x>>)
    BY Singleton
  <2>2. IsSequence(<<>>)
    BY EmptySequence
  <2>3. /\ NegativeSize(m, p) \in BOOLEAN /\ PositiveStart(m, p) \in BOOLEAN
        /\ Misaligned(m, p) \in BOOLEAN /\ FractionOfByte(m, p) \in BOOLEAN
    BY DEF NegativeSize, PositiveStart, Misaligned, FractionOfByte, Satisfiable
  <2> QED BY <2>1, <2>2, <2>3, ProofJobIs
<1> HIDE DEF a, b, c, d, opaque, q
<1>3. IsSequence(<<a, b>>) /\ ToSet(<<a, b>>) = {a, b} /\ IsSequence(<<c, d>>) /\ ToSet(<<c, d>>) = {c, d}
  BY Pair
<1>4. CASE opaque
  <2>1. q = <<a, b>> \o <<c, d>>
    BY <1>1, <1>4
  <2>2. IsSequence(q) /\ ToSet(q) = {a, b} \cup {c, d}
    BY <1>3, <2>1, SequenceConcat
  <2>3. /\ IsSequence(q) /\ \A j \in ToSet(q) : IsJob(j)
        /\ a \in ToSet(q) /\ c \in ToSet(q) /\ d \in ToSet(q)
    BY <1>2, <2>2
  <2> QED BY <2>3 DEF a, c, d, q
<1>5. CASE ~opaque
  <2>1. q = <<a, b>> \o <<>>
    BY <1>1, <1>5
  <2>2. IsSequence(q) /\ ToSet(q) = {a, b}
    BY <1>3, <2>1, EmptyConcat
  <2>3. IsSequence(q) /\ (\A j \in ToSet(q) : IsJob(j)) /\ a \in ToSet(q)
    BY <1>2, <2>2
  <2> QED BY <1>5, <2>3 DEF a, q, opaque
<1> QED BY <1>4, <1>5

LEMMA FieldPositions ==
  ASSUME NEW m, NEW valid, IsFiniteSet(valid)
  PROVE  Lists(field_positions(m, valid), UNION {ToSet(position_proofs(m, p)) : p \in valid})
<1> DEFINE J == [p \in valid |-> position_proofs(m, p)]
           s == InAnyOrder(valid)
           q == [i \in DOMAIN s |-> J[s[i]]]
<1>1. field_positions(m, valid) = FlattenSeq([i \in DOMAIN s |-> position_proofs(m, s[i])])
  BY DEF field_positions, Jobs
<1>2. \A i \in DOMAIN s : s[i] \in valid
  BY InAnyOrderLists DEF Lists, ToSet
<1>3. q = [i \in DOMAIN s |-> position_proofs(m, s[i])]
  BY <1>2
<1>4. \A p \in valid : J[p] = position_proofs(m, p) /\ IsSequence(J[p])
  BY PositionProofs
<1> HIDE DEF J, s
<1>5. Lists(q, {J[p] : p \in valid})
  BY ListImage DEF s
<1> HIDE DEF q
<1>6. /\ IsSequence(FlattenSeq(q))
      /\ ToSet(FlattenSeq(q)) = UNION {ToSet(x) : x \in ToSet(q)}
  BY <1>4, <1>5, FlattenElements DEF Lists
<1>7. UNION {ToSet(x) : x \in ToSet(q)} = UNION {ToSet(position_proofs(m, p)) : p \in valid}
  BY <1>4, <1>5 DEF Lists
<1> QED BY <1>1, <1>3, <1>6, <1>7 DEF Lists

(* The proofs about a message with the given valid paths. *)
StaticJobs(m) == {static_proof(m, l) : l \in {l \in m.structure : l.condition # {}}}
ConflictJobs(m) == {conflict_proof(m, c) : c \in Conflicts(m)}
OverlayJobs(m) ==
    {overlay_proof(m, p) : p \in {p \in AllPaths(m) : Last(p).target # FINAL /\ Last(p).first # Undefined}}
PositionJobs(m, valid) == UNION {ToSet(position_proofs(m, p)) : p \in valid}
SizeJobs(m) == {message_size_proof(m, p) : p \in {Front(p) : p \in paths(m, FINAL)}}

MessageJobs(m, valid) ==
    (((StaticJobs(m) \cup ConflictJobs(m)) \cup OverlayJobs(m)) \cup PositionJobs(m, valid)) \cup SizeJobs(m)

LEMMA ListsConcat ==
  ASSUME NEW s, NEW S, NEW t, NEW T, Lists(s, S), Lists(t, T)
  PROVE  Lists(s \o t, S \cup T)
BY SequenceConcat DEF Lists

LEMMA MessageProofs ==
  ASSUME NEW m, IsFiniteSet(m.structure), NEW valid, IsFiniteSet(valid)
  PROVE  Lists(message_proofs(m, valid), MessageJobs(m, valid))
<1> DEFINE A == StaticJobs(m)
           B == ConflictJobs(m)
           C == OverlayJobs(m)
           D == PositionJobs(m, valid)
           E == SizeJobs(m)
<1>1. /\ Lists(static_conditions(m), A) /\ Lists(conflicting_conditions(m), B) /\ Lists(overlays(m), C)
      /\ Lists(field_positions(m, valid), D) /\ Lists(message_size(m), E)
  <2>1. Lists(static_conditions(m), A)
    BY StaticConditions DEF StaticJobs
  <2>2. Lists(conflicting_conditions(m), B)
    BY ConflictingConditions DEF ConflictJobs
  <2>3. Lists(overlays(m), C)
    BY Overlays DEF OverlayJobs
  <2>4. Lists(field_positions(m, valid), D)
    BY FieldPositions DEF PositionJobs
  <2>5. Lists(message_size(m), E)
    BY MessageSizes DEF SizeJobs
  <2> QED BY <2>1, <2>2, <2>3, <2>4, <2>5
<1>2. MessageJobs(m, valid) = (((A \cup B) \cup C) \cup D) \cup E
  BY DEF MessageJobs
<1> HIDE DEF A, B, C, D, E
<1>3. message_proofs(m, valid) = (((static_conditions(m) \o conflicting_conditions(m)) \o overlays(m))
                                  \o field_positions(m, valid)) \o message_size(m)
  BY DEF message_proofs
<1>4. Lists(static_conditions(m) \o conflicting_conditions(m), A \cup B)
  BY <1>1, ListsConcat
<1>5. Lists((static_conditions(m) \o conflicting_conditions(m)) \o overlays(m), (A \cup B) \cup C)
  BY <1>1, <1>4, ListsConcat
<1>6. Lists(((static_conditions(m) \o conflicting_conditions(m)) \o overlays(m)) \o field_positions(m, valid),
            ((A \cup B) \cup C) \cup D)
  BY <1>1, <1>5, ListsConcat
<1>7. Lists(message_proofs(m, valid), (((A \cup B) \cup C) \cup D) \cup E)
  BY <1>1, <1>3, <1>6, ListsConcat
<1> QED BY <1>2, <1>7

LEMMA MessageJobsAre == ASSUME NEW m, NEW valid PROVE \A j \in MessageJobs(m, valid) : IsJob(j)
<1>1. \A x : IsSequence(<<x>>)
  BY Singleton
<1>2. IsSequence(<<>>)
  BY EmptySequence
<1>3. ASSUME NEW l PROVE IsJob(static_proof(m, l))
  <2>1. NotStatic(m, l) \in BOOLEAN
    BY DEF NotStatic
  <2> QED BY <1>1, <1>2, <2>1, ProofJobIs DEF static_proof
<1>4. ASSUME NEW c PROVE IsJob(conflict_proof(m, c))
  <2>1. InConflict(m, c[1], c[2]) \in BOOLEAN
    BY DEF InConflict, Satisfiable
  <2> QED BY <1>1, <1>2, <2>1, ProofJobIs DEF conflict_proof
<1>5. ASSUME NEW p PROVE IsJob(overlay_proof(m, p))
  <2>1. Congruent(m, p) \in BOOLEAN
    BY DEF Congruent, Satisfiable
  <2> QED BY <1>1, <1>2, <2>1, ProofJobIs DEF overlay_proof
<1>6. ASSUME NEW p PROVE IsJob(message_size_proof(m, p))
  <2>1. UnevenSize(m, p) \in BOOLEAN
    BY DEF UnevenSize, Satisfiable
  <2> QED BY <1>1, <1>2, <2>1, ProofJobIs DEF message_size_proof
<1>7. ASSUME NEW p, NEW j \in ToSet(position_proofs(m, p)) PROVE IsJob(j)
  BY PositionProofs
<1>8. /\ \A j \in StaticJobs(m) : IsJob(j)
      /\ \A j \in ConflictJobs(m) : IsJob(j)
  BY <1>3, <1>4 DEF StaticJobs, ConflictJobs
<1>9. /\ \A j \in OverlayJobs(m) : IsJob(j)
      /\ \A j \in SizeJobs(m) : IsJob(j)
  BY <1>5, <1>6 DEF OverlayJobs, SizeJobs
<1>10. \A j \in PositionJobs(m, valid) : IsJob(j)
  BY <1>7 DEF PositionJobs
<1> QED BY <1>8, <1>9, <1>10 DEF MessageJobs

LEMMA PathJobsAre ==
  ASSUME NEW m, NEW p
  PROVE  LET j == path_proof(m, p)
         IN  IsJob(j) /\ j.path = p /\ j.result = (IF Possible(m, p) THEN "SAT" ELSE "UNSAT")
             /\ \A r \in ProofResult : j.errors[r] = <<>>
<1> DEFINE j == path_proof(m, p)
           k == ProofJob(Possible(m, p), <<>>, <<>>, <<>>)
<1>1. j = [path |-> p, result |-> k.result, errors |-> k.errors]
  BY DEF path_proof
<1>2. Possible(m, p) \in BOOLEAN
  BY DEF Possible, Satisfiable
<1>3. IsJob(k)
  BY <1>2, EmptySequence, ProofJobIs
<1>4. /\ k.result = (IF Possible(m, p) THEN "SAT" ELSE "UNSAT")
      /\ k.errors["SAT"] = <<>> /\ k.errors["UNSAT"] = <<>> /\ k.errors["UNKNOWN"] = <<>>
  BY <1>2, ProofJobFacts
<1> HIDE DEF j, k
<1>5. j.path = p /\ j.result = k.result /\ j.errors = k.errors
  BY <1>1
<1>6. \A r \in ProofResult : j.errors[r] = <<>>
  BY <1>4, <1>5 DEF ProofResult
<1>7. IsJob(j)
  BY <1>3, <1>5 DEF IsJob
<1> QED BY <1>4, <1>5, <1>6, <1>7 DEF j

(* The entries s report exactly if a check has failed. *)
Report(s, ok) == IsSequence(s) /\ (HasErrors(s) <=> ~ok) /\ (s = <<>> <=> ok)

LEMMA ReportSet == ASSUME NEW S, IsFiniteSet(S), NEW check PROVE Report(Errors(check, S), S = {})
BY ErrorsOfSet DEF Report

LEMMA ReportNothing == Report(<<>>, TRUE)
BY EmptySequence DEF Report, HasErrors

LEMMA ReportOne == ASSUME NEW check, NEW f PROVE Report(<<Error(check, f)>>, FALSE)
<1>1. <<Error(check, f)>> # <<>> /\ 1 \in DOMAIN <<Error(check, f)>> /\ <<Error(check, f)>>[1] = Error(check, f)
  OBVIOUS
<1>2. Error(check, f).severity = "error"
  BY DEF Error
<1>3. HasErrors(<<Error(check, f)>>)
  BY <1>1, <1>2 DEF HasErrors
<1> QED BY <1>1, <1>3, Singleton DEF Report

LEMMA ReportConcat ==
  ASSUME NEW s, NEW t, NEW a \in BOOLEAN, NEW b \in BOOLEAN, Report(s, a), Report(t, b)
  PROVE  Report(s \o t, a /\ b)
<1>1. IsSequence(s) /\ IsSequence(t)
  BY DEF Report
<1>2. IsSequence(s \o t) /\ (HasErrors(s \o t) <=> HasErrors(s) \/ HasErrors(t))
  BY <1>1, ErrorsConcat
<1>3. CASE a /\ b
  <2>1. s = <<>> /\ t = <<>>
    BY <1>3 DEF Report
  <2>2. s \o t = <<>>
    BY <2>1, EmptyConcat, EmptySequence
  <2> QED BY <1>2, <1>3, <2>2 DEF Report
<1>4. CASE ~(a /\ b)
  <2>1. HasErrors(s \o t)
    BY <1>2, <1>4 DEF Report
  <2>2. s \o t # <<>>
    <3>1. SUFFICES ASSUME s \o t = <<>> PROVE FALSE
      OBVIOUS
    <3>2. HasErrors(<<>>)
      BY <2>1, <3>1
    <3> QED BY <3>2 DEF HasErrors
  <2> QED BY <1>2, <1>4, <2>1, <2>2 DEF Report
<1> QED BY <1>3, <1>4

LEMMA LinkImages ==
  ASSUME NEW L, IsFiniteSet(L)
  PROVE  IsFiniteSet({l.target : l \in L}) /\ IsFiniteSet({l.source : l \in L})
<1> DEFINE t == [l \in L |-> l.target]
           s == [l \in L |-> l.source]
           T == {l.target : l \in L}
           S == {l.source : l \in L}
<1>1. T = {t[l] : l \in L} /\ S = {s[l] : l \in L}
  OBVIOUS
<1> HIDE DEF t, s, T, S
<1>2. IsFiniteSet(T) /\ IsFiniteSet(S)
  BY <1>1, FiniteImage
<1> QED BY <1>2 DEF T, S

LEMMA StructureFieldsFinite ==
  ASSUME NEW m, IsFiniteSet(m.structure) PROVE IsFiniteSet(StructureFields(m))
BY LinkImages, FS_Union DEF StructureFields

(* The checks of a merged message, as sets of offenders. *)
MissingTypes(m) == StructureFields(m) \ (DOMAIN m.types \cup {INITIAL, FINAL})
InitialFirsts(m) == {l.target : l \in {k \in outgoing(m, INITIAL) : k.first # Undefined}}
Duplicates(m) ==
    {l.source : l \in {k \in m.structure :
         \E n \in m.structure \ {k} : <<n.source, n.target, n.condition>> = <<k.source, k.target, k.condition>>}}
ImplicitInside(m) ==
    {l.target : l \in {k \in m.structure : k.size = Implicit /\ \E n \in outgoing(m, k.target) : n.target # FINAL}}
Cyclic(m) == unreachable_fields(m) = {} /\ topological_sorting(m).visited # m.structure

LEMMA EarlyReport ==
  ASSUME NEW m, IsFiniteSet(m.structure)
  PROVE  Report(validate_types(m) \o validate_initial_link(m), MissingTypes(m) = {} /\ InitialFirsts(m) = {})
<1>1. IsFiniteSet(MissingTypes(m))
  BY StructureFieldsFinite, FS_Subset DEF MissingTypes
<1>2. IsFiniteSet(InitialFirsts(m))
  <2> DEFINE L == {k \in outgoing(m, INITIAL) : k.first # Undefined}
  <2>1. IsFiniteSet(L)
    BY FS_Subset DEF outgoing
  <2> HIDE DEF L
  <2> QED BY <2>1, LinkImages DEF InitialFirsts, L
<1>3. Report(validate_types(m), MissingTypes(m) = {})
  BY <1>1, ReportSet DEF validate_types, MissingTypes
<1>4. Report(validate_initial_link(m), InitialFirsts(m) = {})
  BY <1>2, ReportSet DEF validate_initial_link, InitialFirsts
<1> QED BY <1>3, <1>4, ReportConcat

LEMMA DeadEndsFinite == ASSUME NEW m, IsFiniteSet(m.structure) PROVE IsFiniteSet(dead_ends(m))
<1> DEFINE N == Cardinality(m.structure) + 1
           F == (StructureFields(m) \cup {INITIAL}) \ {FINAL}
           S == SUBSET F
           Next1(found) == {f \in F : {l.target : l \in outgoing(m, f)} \subseteq found}
           step == [n \in 1 .. N |-> [found \in S |-> Next1(found)]]
           Dead(g) == g = [n \in 0 .. N |-> IF n = 0 THEN {} ELSE
                               LET found == g[n - 1]
                               IN  {f \in (StructureFields(m) \cup {INITIAL}) \ {FINAL} :
                                        {l.target : l \in outgoing(m, f)} \subseteq found}]
           h == CHOOSE g : Dead(g)
<1>1. N \in Nat
  BY FS_CardinalityType
<1>2. step \in [1 .. N -> [S -> S]]
  OBVIOUS
<1>3. PICK f : Recursion(f, N, S, {}, step)
  <2>1. {} \in S
    OBVIOUS
  <2> HIDE DEF step, S, N
  <2> QED BY <1>1, <1>2, <2>1, RecursiveFunction
<1>4. f \in [0 .. N -> S] /\ f[0] = {} /\ \A n \in 1 .. N : f[n] = step[n][f[n - 1]]
  BY <1>3 DEF Recursion
<1>5. ASSUME NEW n \in 1 .. N PROVE f[n] = Next1(f[n - 1])
  <2>1. f[n - 1] \in S
    BY <1>1, <1>4
  <2> HIDE DEF Next1, S, N
  <2> QED BY <1>4, <2>1
<1>6. Dead(f)
  <2>1. ASSUME NEW n \in 0 .. N PROVE f[n] = IF n = 0 THEN {} ELSE Next1(f[n - 1])
    <3>1. n = 0 \/ n \in 1 .. N
      BY <1>1
    <3> HIDE DEF N, Next1
    <3> QED BY <1>4, <1>5, <3>1
  <2> HIDE DEF N, S
  <2> QED BY <1>4, <2>1
<1>7. Dead(h)
  <2> HIDE DEF Dead
  <2> QED BY <1>6
<1>8. dead_ends(m) = h[N]
  BY DEF dead_ends
<1> HIDE DEF h
<1>9. h[N] \subseteq F
  <2>1. N \in 0 .. N
    BY <1>1
  <2> HIDE DEF N
  <2> QED BY <1>7, <2>1
<1>10. IsFiniteSet(F)
  <2>1. IsFiniteSet(StructureFields(m) \cup {INITIAL})
    BY StructureFieldsFinite, FS_Singleton, FS_Union
  <2> QED BY <2>1, FS_Subset
<1> HIDE DEF F, N
<1> QED BY <1>8, <1>9, <1>10, FS_Subset

LEMMA StructureReport ==
  ASSUME NEW m, IsFiniteSet(m.structure)
  PROVE  Report(validate_structure(m) \o validate_link_aspects(m),
                /\ (unreachable_fields(m) = {} /\ dead_ends(m) = {}) /\ Duplicates(m) = {}
                /\ ImplicitInside(m) = {})
<1>1. IsFiniteSet(unreachable_fields(m))
  BY StructureFieldsFinite, FS_Subset DEF unreachable_fields
<1>2. IsFiniteSet(Duplicates(m))
  <2> DEFINE L == {k \in m.structure :
                    \E n \in m.structure \ {k} : <<n.source, n.target, n.condition>> = <<k.source, k.target, k.condition>>}
  <2>1. IsFiniteSet(L)
    BY FS_Subset
  <2> HIDE DEF L
  <2> QED BY <2>1, LinkImages DEF Duplicates, L
<1>3. IsFiniteSet(ImplicitInside(m))
  <2> DEFINE L == {k \in m.structure : k.size = Implicit /\ \E n \in outgoing(m, k.target) : n.target # FINAL}
  <2>1. IsFiniteSet(L)
    BY FS_Subset
  <2> HIDE DEF L
  <2> QED BY <2>1, LinkImages DEF ImplicitInside, L
<1>4. /\ Report(Errors("unreachable", unreachable_fields(m)), unreachable_fields(m) = {})
      /\ Report(Errors("no_path", dead_ends(m)), dead_ends(m) = {})
      /\ Report(Errors("duplicate", Duplicates(m)), Duplicates(m) = {})
      /\ Report(Errors("implicit_size", ImplicitInside(m)), ImplicitInside(m) = {})
  BY <1>1, <1>2, <1>3, DeadEndsFinite, ReportSet
<1>5. validate_structure(m) = (Errors("unreachable", unreachable_fields(m)) \o Errors("no_path", dead_ends(m)))
                              \o Errors("duplicate", Duplicates(m))
  BY DEF validate_structure, Duplicates
<1>6. validate_link_aspects(m) = Errors("implicit_size", ImplicitInside(m))
  BY DEF validate_link_aspects, ImplicitInside
<1>7. Report(Errors("unreachable", unreachable_fields(m)) \o Errors("no_path", dead_ends(m)),
             unreachable_fields(m) = {} /\ dead_ends(m) = {})
  BY <1>4, ReportConcat
<1>8. Report(validate_structure(m), (unreachable_fields(m) = {} /\ dead_ends(m) = {}) /\ Duplicates(m) = {})
  <2> DEFINE a == unreachable_fields(m) = {} /\ dead_ends(m) = {}
             b == Duplicates(m) = {}
             s == Errors("unreachable", unreachable_fields(m)) \o Errors("no_path", dead_ends(m))
             t == Errors("duplicate", Duplicates(m))
  <2>1. a \in BOOLEAN /\ b \in BOOLEAN /\ Report(s, a) /\ Report(t, b) /\ validate_structure(m) = s \o t
    BY <1>4, <1>5, <1>7
  <2> HIDE DEF a, b, s, t
  <2>2. Report(validate_structure(m), a /\ b)
    BY <2>1, ReportConcat
  <2> QED BY <2>2 DEF a, b
<1>9. Report(validate_structure(m) \o validate_link_aspects(m),
             ((unreachable_fields(m) = {} /\ dead_ends(m) = {}) /\ Duplicates(m) = {}) /\ ImplicitInside(m) = {})
  BY <1>4, <1>6, <1>8, ReportConcat
<1> QED BY <1>9

LEMMA CycleReport == ASSUME NEW m PROVE Report(cycle_errors(m), ~Cyclic(m))
<1>1. CASE Cyclic(m)
  <2>1. cycle_errors(m) = <<Error("cycle", INITIAL)>>
    BY <1>1 DEF cycle_errors, Cyclic
  <2>2. Report(<<Error("cycle", INITIAL)>>, FALSE)
    BY ReportOne
  <2> QED BY <1>1, <2>1, <2>2 DEF Report
<1>2. CASE ~Cyclic(m)
  <2>1. cycle_errors(m) = <<>>
    BY <1>2 DEF cycle_errors, Cyclic
  <2> QED BY <1>2, <2>1, ReportNothing DEF Report
<1> QED BY <1>1, <1>2

LEMMA UsedFinite ==
  ASSUME NEW m, IsFiniteSet(m.structure), \A l \in m.structure : IsFiniteSet(l.condition)
  PROVE  IsFiniteSet(Used(m))
<1> DEFINE names == [l \in m.structure |-> {a.field : a \in l.condition} \cup
                          (IF l.size.kind = "value" /\ l.size.factor # 0 THEN {l.size.of} ELSE {})]
           U == {names[l] : l \in m.structure}
<1>1. Used(m) = UNION U
  BY DEF Used
<1>2. ASSUME NEW l \in m.structure PROVE IsFiniteSet(names[l])
  <2> DEFINE C == l.condition
             g == [a \in C |-> a.field]
             A == {a.field : a \in C}
             B == IF l.size.kind = "value" /\ l.size.factor # 0 THEN {l.size.of} ELSE {}
  <2>1. names[l] = A \cup B
    OBVIOUS
  <2>2. A = {g[a] : a \in C} /\ IsFiniteSet(C)
    OBVIOUS
  <2>3. IsFiniteSet(B)
    BY FS_EmptySet, FS_Singleton
  <2> HIDE DEF A, B, C, g, names
  <2>4. IsFiniteSet(A)
    BY <2>2, FiniteImage
  <2> QED BY <2>1, <2>3, <2>4, FS_Union
<1> HIDE DEF names
<1>3. IsFiniteSet(U)
  BY FiniteImage
<1>4. \A x \in U : IsFiniteSet(x)
  BY <1>2
<1> HIDE DEF U
<1> QED BY <1>1, <1>3, <1>4, FiniteUNION

(* The checks of a validated message. *)
EmptyMessages(m) == {l.target : l \in {k \in m.structure : k.source = INITIAL /\ k.target = FINAL}}
OtherFirsts(m) == {l.target : l \in {k \in m.structure : k.first \notin {Undefined, First(k.source)}}}
WrongSizes(m) ==
    LET sized(l) == l.size # Undefined
        kind(l) == m.types[l.target].kind
    IN  {l.target : l \in {k \in m.structure :
             IF k.target = FINAL THEN sized(k) ELSE sized(k) # (kind(k) \in Composite)}}

VerifyOK(m) ==
    /\ m.parameters \ Used(m) = {} /\ Used(m) \ (DOMAIN m.types \cup {INITIAL, Message}) = {}
    /\ EmptyMessages(m) = {} /\ OtherFirsts(m) = {} /\ WrongSizes(m) = {}

LEMMA SubsetImage ==
  ASSUME NEW S, IsFiniteSet(S), NEW L, L \subseteq S PROVE IsFiniteSet({l.target : l \in L})
BY FS_Subset, LinkImages

LEMMA VerifyReport ==
  ASSUME NEW m, IsFiniteSet(m.structure), \A l \in m.structure : IsFiniteSet(l.condition),
         IsFiniteSet(m.parameters)
  PROVE  Report(verify_parameters(m) \o verify_message_types(m) \o verify_links(m), VerifyOK(m))
<1> DEFINE A == m.parameters \ Used(m)
           B == Used(m) \ (DOMAIN m.types \cup {INITIAL, Message})
<1>1. IsFiniteSet(A) /\ IsFiniteSet(B)
  BY UsedFinite, FS_Subset
<1>2. IsFiniteSet(EmptyMessages(m))
  <2> DEFINE L == {k \in m.structure : k.source = INITIAL /\ k.target = FINAL}
  <2>1. L \subseteq m.structure /\ EmptyMessages(m) = {l.target : l \in L}
    BY DEF EmptyMessages
  <2> HIDE DEF L
  <2> QED BY <2>1, SubsetImage
<1>3. IsFiniteSet(OtherFirsts(m))
  <2> DEFINE L == {k \in m.structure : k.first \notin {Undefined, First(k.source)}}
  <2>1. L \subseteq m.structure /\ OtherFirsts(m) = {l.target : l \in L}
    BY DEF OtherFirsts
  <2> HIDE DEF L
  <2> QED BY <2>1, SubsetImage
<1>4. IsFiniteSet(WrongSizes(m))
  <2> DEFINE L == {k \in m.structure :
                      IF k.target = FINAL THEN k.size # Undefined
                      ELSE (k.size # Undefined) # (m.types[k.target].kind \in Composite)}
  <2>1. L \subseteq m.structure /\ WrongSizes(m) = {l.target : l \in L}
    BY Zenon DEF WrongSizes
  <2> HIDE DEF L
  <2> QED BY <2>1, SubsetImage
<1>5. /\ verify_parameters(m) = Errors("unused_parameter", A)
      /\ verify_message_types(m) = Errors("undefined_variable", B)
  BY DEF verify_parameters, verify_message_types
<1>6. verify_links(m) = (Errors("empty", EmptyMessages(m)) \o Errors("first", OtherFirsts(m)))
                        \o Errors("size", WrongSizes(m))
  BY Zenon DEF verify_links, EmptyMessages, OtherFirsts, WrongSizes
<1> HIDE DEF A, B
<1>7. /\ Report(verify_parameters(m), A = {}) /\ Report(verify_message_types(m), B = {})
      /\ Report(Errors("empty", EmptyMessages(m)), EmptyMessages(m) = {})
      /\ Report(Errors("first", OtherFirsts(m)), OtherFirsts(m) = {})
      /\ Report(Errors("size", WrongSizes(m)), WrongSizes(m) = {})
  BY <1>1, <1>2, <1>3, <1>4, <1>5, ReportSet
<1>8. Report(Errors("empty", EmptyMessages(m)) \o Errors("first", OtherFirsts(m)),
             EmptyMessages(m) = {} /\ OtherFirsts(m) = {})
  BY <1>7, ReportConcat
<1>9. Report(verify_links(m), (EmptyMessages(m) = {} /\ OtherFirsts(m) = {}) /\ WrongSizes(m) = {})
  <2> DEFINE a == EmptyMessages(m) = {} /\ OtherFirsts(m) = {}
             b == WrongSizes(m) = {}
             s == Errors("empty", EmptyMessages(m)) \o Errors("first", OtherFirsts(m))
             t == Errors("size", WrongSizes(m))
  <2>1. a \in BOOLEAN /\ b \in BOOLEAN /\ Report(s, a) /\ Report(t, b) /\ verify_links(m) = s \o t
    BY <1>6, <1>7, <1>8
  <2> HIDE DEF a, b, s, t
  <2>2. Report(verify_links(m), a /\ b)
    BY <2>1, ReportConcat
  <2> QED BY <2>2 DEF a, b
<1>10. Report(verify_parameters(m) \o verify_message_types(m), A = {} /\ B = {})
  BY <1>7, ReportConcat
<1>11. Report((verify_parameters(m) \o verify_message_types(m)) \o verify_links(m),
              (A = {} /\ B = {}) /\ ((EmptyMessages(m) = {} /\ OtherFirsts(m) = {}) /\ WrongSizes(m) = {}))
  BY <1>9, <1>10, ReportConcat
<1> QED BY <1>11 DEF VerifyOK, A, B

LEMMA ExpressionReport ==
  ASSUME NEW m, IsFiniteSet(m.structure), \A l \in m.structure : IsFiniteSet(l.condition), NEW valid
  PROVE  \E ok \in BOOLEAN : Report(verify_expression_types(m, valid), ok)
<1> DEFINE P == paths(m, FINAL) \cap valid
           unknown(p, i) == (Used([structure |-> {p[i]}]) \ {Message, INITIAL})
                                \ (m.parameters \cup {p[j].source : j \in 1 .. i})
           names == [p \in P |-> UNION {unknown(p, i) : i \in DOMAIN p}]
           U == {names[p] : p \in P}
<1>1. verify_expression_types(m, valid) = Errors("type", UNION U)
  <2> DEFINE W == {UNION {unknown(p, i) : i \in DOMAIN p} : p \in P}
  <2>1. verify_expression_types(m, valid) = Errors("type", UNION W)
    BY DEF verify_expression_types
  <2>2. \A p \in P : names[p] = UNION {unknown(p, i) : i \in DOMAIN p}
    OBVIOUS
  <2>3. W = U
    <3> HIDE DEF names, P, unknown
    <3> QED BY <2>2, Zenon
  <2> HIDE DEF W, U
  <2> QED BY <2>1, <2>3
<1>2. IsFiniteSet(P) /\ P \subseteq Seq(m.structure)
  <2>1. P \subseteq AllPaths(m)
    BY DEF paths
  <2> QED BY <2>1, AllPathsMember, FS_Subset
<1>3. ASSUME NEW p \in P PROVE IsFiniteSet(names[p])
  <2> DEFINE D == DOMAIN p
             g == [i \in D |-> unknown(p, i)]
             V == {g[i] : i \in D}
  <2>1. names[p] = UNION V
    BY Zenon
  <2>2. IsFiniteSet(D)
    <3>1. D = 1 .. Len(p) /\ Len(p) \in Nat
      BY <1>2
    <3> QED BY <3>1, FS_Interval
  <2>3. ASSUME NEW i \in D PROVE IsFiniteSet(g[i])
    <3> DEFINE l == p[i]
               s == [structure |-> {l}]
    <3>1. l \in m.structure
      BY <1>2
    <3>2. s.structure = {l} /\ IsFiniteSet({l})
      BY FS_Singleton
    <3> HIDE DEF s, l
    <3>3. IsFiniteSet(Used(s))
      BY <3>1, <3>2, UsedFinite
    <3>4. g[i] \subseteq Used(s)
      BY DEF s, l
    <3> QED BY <3>3, <3>4, FS_Subset
  <2> HIDE DEF g, D, names
  <2>4. IsFiniteSet(V)
    BY <2>2, FiniteImage
  <2>5. \A x \in V : IsFiniteSet(x)
    BY <2>3
  <2> HIDE DEF V
  <2> QED BY <2>1, <2>4, <2>5, FiniteUNION
<1> HIDE DEF P, names
<1>4. IsFiniteSet(U)
  BY <1>2, FiniteImage
<1>5. \A x \in U : IsFiniteSet(x)
  BY <1>3
<1> HIDE DEF U
<1>6. IsFiniteSet(UNION U)
  BY <1>4, <1>5, FiniteUNION
<1>7. Report(verify_expression_types(m, valid), UNION U = {})
  BY <1>1, <1>6, ReportSet
<1> QED BY <1>7

(* The pool: what a worker finds, and how far the results are consumed. *)
PoolInv ==
    /\ PoolTypeOK
    /\ IsSequence(proofs) /\ \A j \in ToSet(proofs) : IsJob(j)
    /\ \A i \in 1 .. collected : results[i] # None
    /\ \A i \in DOMAIN proofs : i > taken => results[i] = None
    /\ \A i \in DOMAIN proofs : results[i] \in {None, proofs[i].result, "UNKNOWN"}

(* The entries of the first n jobs. *)
Entries(n) == [i \in 1 .. n |-> IF results[i] = None THEN <<>> ELSE proofs[i].errors[results[i]]]

LEMMA StartPool ==
  ASSUME NEW CONSTANT jobs, IsSequence(jobs), \A j \in ToSet(jobs) : IsJob(j), StartProofs(jobs), PoolTypeOK,
         UNCHANGED timeouts
  PROVE  PoolInv' /\ Entries(collected)' = <<>>
<1>1. /\ proofs' = jobs /\ results' = [i \in DOMAIN jobs |-> None] /\ taken' = 0 /\ collected' = 0
      /\ timeouts' \in 0 .. MaxTimeouts
  BY DEF StartProofs, PoolTypeOK
<1>2. Len(jobs) \in Nat /\ DOMAIN jobs = 1 .. Len(jobs)
  BY SequenceFacts
<1>3. 1 .. 0 = {}
  OBVIOUS
<1>4. Running' = {}
  BY <1>1, <1>3 DEF Running
<1>5. Cardinality(Running') <= Workers
  BY <1>4, FS_EmptySet, WorkersAssumption
<1>6. PoolTypeOK'
  BY <1>1, <1>2, <1>5 DEF PoolTypeOK
<1>7. \A i \in DOMAIN proofs' : results'[i] = None
  BY <1>1
<1>8. (\A i \in 1 .. collected : results[i] # None)'
  BY <1>1, <1>3
<1>9. PoolInv'
  BY <1>1, <1>6, <1>7, <1>8 DEF PoolInv
<1>10. Entries(collected)' = [i \in 1 .. 0 |-> IF results'[i] = None THEN <<>> ELSE proofs'[i].errors[results'[i]]]
  BY <1>1 DEF Entries
<1>11. ASSUME NEW f, f = [i \in 1 .. 0 |-> f[i]] PROVE f = <<>>
  <2>1. DOMAIN f = 1 .. 0
    BY <1>11
  <2> QED BY <1>11, <1>3, <2>1
<1> QED BY <1>9, <1>10, <1>11

LEMMA PoolFacts ==
  ASSUME PoolInv
  PROVE  /\ Len(proofs) \in Nat /\ DOMAIN proofs = 1 .. Len(proofs)
         /\ taken \in Nat /\ taken <= Len(proofs) /\ collected \in Nat /\ collected <= taken
         /\ results \in [1 .. Len(proofs) -> ProofResult \cup {None}]
         /\ \A i \in 1 .. Len(proofs) : IsJob(proofs[i])
<1>1. Len(proofs) \in Nat /\ DOMAIN proofs = 1 .. Len(proofs) /\ \A i \in 1 .. Len(proofs) : proofs[i] \in ToSet(proofs)
  BY SequenceFacts DEF PoolInv
<1> QED BY <1>1 DEF PoolInv, PoolTypeOK

LEMMA TakePool == ASSUME PoolInv, TakeJob PROVE PoolInv' /\ (Entries(collected)' = Entries(collected)) /\ UNCHANGED error
<1>1. /\ taken < Len(proofs) /\ Cardinality(Running) < Workers /\ taken' = taken + 1
      /\ UNCHANGED <<proofs, results, collected, error, timeouts>>
  BY DEF TakeJob
<1>2. Len(proofs) \in Nat /\ taken \in Nat /\ collected \in Nat /\ collected <= taken
  BY PoolFacts
<1>3. IsFiniteSet(Running)
  <2>1. IsFiniteSet(1 .. taken)
    BY <1>2, FS_Interval
  <2> QED BY <2>1, FS_Subset DEF Running
<1>4. Running' \subseteq Running \cup {taken + 1}
  BY <1>1, <1>2 DEF Running
<1>5. Cardinality(Running') <= Workers
  <2>1. IsFiniteSet(Running \cup {taken + 1}) /\ Cardinality(Running \cup {taken + 1}) <= Cardinality(Running) + 1
    BY <1>3, FS_AddElement, FS_CardinalityType
  <2>2. IsFiniteSet(Running') /\ Cardinality(Running') <= Cardinality(Running \cup {taken + 1})
    BY <1>4, <2>1, FS_Subset
  <2>3. Cardinality(Running) \in Nat /\ Cardinality(Running') \in Nat /\ Cardinality(Running \cup {taken + 1}) \in Nat
    BY <1>3, <2>1, <2>2, FS_CardinalityType
  <2> QED BY <1>1, <2>1, <2>2, <2>3, WorkersAssumption
<1>6. PoolTypeOK'
  <2>1. taken' \in 0 .. Len(proofs') /\ collected' \in 0 .. taken'
    BY <1>1, <1>2
  <2> QED BY <1>1, <1>5, <2>1 DEF PoolInv, PoolTypeOK
<1>7. \A i \in DOMAIN proofs' : i > taken' => results'[i] = None
  <2>1. DOMAIN proofs = 1 .. Len(proofs)
    BY PoolFacts
  <2> QED BY <1>1, <1>2, <2>1 DEF PoolInv
<1>8. PoolInv'
  BY <1>1, <1>6, <1>7 DEF PoolInv
<1> QED BY <1>1, <1>8 DEF Entries

LEMMA CheckPool ==
  ASSUME PoolInv, NEW i \in Running, CheckProof(i)
  PROVE  PoolInv' /\ Entries(collected)' = Entries(collected) /\ UNCHANGED error
<1>1. /\ i \in 1 .. taken /\ results[i] = None
      /\ UNCHANGED <<proofs, taken, collected, error>>
  BY DEF Running, CheckProof
<1>2. /\ Len(proofs) \in Nat /\ taken \in Nat /\ collected \in Nat /\ collected <= taken /\ taken <= Len(proofs)
      /\ DOMAIN proofs = 1 .. Len(proofs) /\ results \in [1 .. Len(proofs) -> ProofResult \cup {None}]
      /\ \A k \in 1 .. Len(proofs) : IsJob(proofs[k])
  BY PoolFacts
<1>3. timeouts' \in 0 .. MaxTimeouts
  BY MaxTimeoutsAssumption DEF CheckProof, PoolInv, PoolTypeOK
<1>4. \E r \in {proofs[i].result, "UNKNOWN"} : results' = [results EXCEPT ![i] = r]
  BY DEF CheckProof
<1>5. PICK r \in {proofs[i].result, "UNKNOWN"} : results' = [results EXCEPT ![i] = r]
  BY <1>4
<1>6. i \in 1 .. Len(proofs) /\ r \in ProofResult
  <2>1. i \in 1 .. Len(proofs)
    BY <1>1, <1>2
  <2> QED BY <1>2, <1>5, <2>1 DEF IsJob, ProofResult
<1>7. /\ results' \in [1 .. Len(proofs) -> ProofResult \cup {None}]
      /\ results'[i] = r /\ \A k \in 1 .. Len(proofs) : k # i => results'[k] = results[k]
  BY <1>2, <1>5, <1>6
<1>8. Running' \subseteq Running
  <2> SUFFICES ASSUME NEW k \in Running' PROVE k \in Running
    OBVIOUS
  <2>1. k \in 1 .. taken /\ results'[k] = None
    BY <1>1 DEF Running
  <2>2. k # i
    BY <1>6, <1>7, <2>1 DEF ProofResult, None
  <2>3. k \in 1 .. Len(proofs)
    BY <1>2, <2>1
  <2> QED BY <1>7, <2>1, <2>2, <2>3 DEF Running
<1>9. Cardinality(Running') <= Workers
  <2>1. IsFiniteSet(Running)
    <3>1. IsFiniteSet(1 .. taken)
      BY <1>2, FS_Interval
    <3> QED BY <3>1, FS_Subset DEF Running
  <2>2. IsFiniteSet(Running') /\ Cardinality(Running') <= Cardinality(Running)
    BY <1>8, <2>1, FS_Subset
  <2>3. Cardinality(Running) \in Nat /\ Cardinality(Running') \in Nat
    BY <2>1, <2>2, FS_CardinalityType
  <2> QED BY <2>2, <2>3, WorkersAssumption DEF PoolInv, PoolTypeOK
<1>10. PoolTypeOK'
  BY <1>1, <1>2, <1>3, <1>7, <1>9 DEF PoolInv, PoolTypeOK
<1>11. \A k \in 1 .. collected : k # i /\ k \in 1 .. Len(proofs)
  BY <1>1, <1>2 DEF PoolInv
<1>12. \A k \in 1 .. collected' : results'[k] # None
  BY <1>1, <1>7, <1>11 DEF PoolInv
<1>13. \A k \in DOMAIN proofs' : k > taken' => results'[k] = None
  BY <1>1, <1>2, <1>7 DEF PoolInv
<1>14. \A k \in DOMAIN proofs' : results'[k] \in {None, proofs'[k].result, "UNKNOWN"}
  BY <1>1, <1>2, <1>5, <1>7 DEF PoolInv
<1>15. PoolInv'
  BY <1>1, <1>10, <1>12, <1>13, <1>14 DEF PoolInv
<1>16. Entries(collected)' = Entries(collected)
  BY <1>1, <1>7, <1>11 DEF Entries
<1> QED BY <1>1, <1>15, <1>16

LEMMA EntriesSequence ==
  ASSUME PoolInv
  PROVE  /\ IsSequence(Entries(collected)) /\ Len(Entries(collected)) = collected
         /\ \A x \in ToSet(Entries(collected)) : IsSequence(x)
<1> DEFINE q == Entries(collected)
           E == {q[i] : i \in 1 .. collected}
<1>1. /\ Len(proofs) \in Nat /\ taken \in Nat /\ collected \in Nat /\ collected <= taken /\ taken <= Len(proofs)
      /\ results \in [1 .. Len(proofs) -> ProofResult \cup {None}]
      /\ \A k \in 1 .. Len(proofs) : IsJob(proofs[k])
  BY PoolFacts
<1>2. ASSUME NEW i \in 1 .. collected PROVE IsSequence(q[i])
  <2>1. i \in 1 .. Len(proofs)
    BY <1>1
  <2>2. q[i] = IF results[i] = None THEN <<>> ELSE proofs[i].errors[results[i]]
    BY DEF Entries
  <2>3. results[i] = None \/ results[i] \in ProofResult
    BY <1>1, <2>1
  <2> QED BY <1>1, <2>1, <2>2, <2>3, EmptySequence DEF IsJob
<1>3. q = [i \in 1 .. collected |-> q[i]]
  BY DEF Entries
<1> HIDE DEF q
<1>4. q \in [1 .. collected -> E]
  BY <1>3
<1>5. q \in Seq(E) /\ Len(q) = collected
  BY <1>1, <1>4
<1>6. IsSequence(q) /\ ToSet(q) \subseteq E
  BY <1>5, SequenceType
<1> QED BY <1>2, <1>5, <1>6 DEF q

LEMMA AppendFunction ==
  ASSUME NEW S, NEW q \in Seq(S), NEW x
  PROVE  Append(q, x) = [i \in 1 .. Len(q) + 1 |-> IF i = Len(q) + 1 THEN x ELSE q[i]]
<1> DEFINE T == S \cup {x}
           a == Append(q, x)
<1>1. q \in Seq(T) /\ x \in T
  OBVIOUS
<1> HIDE DEF T
<1>2. a \in Seq(T) /\ Len(a) = Len(q) + 1 /\ \A i \in 1 .. Len(q) + 1 : a[i] = IF i = Len(q) + 1 THEN x ELSE q[i]
  <2>1. a \in Seq(T) /\ Len(a) = Len(q) + 1 /\ Len(q) \in Nat
    BY <1>1
  <2>2. a[Len(q) + 1] = x
    BY <1>1
  <2>3. \A i \in 1 .. Len(q) : a[i] = q[i]
    BY <1>1
  <2> HIDE DEF a
  <2> QED BY <2>1, <2>2, <2>3
<1> HIDE DEF a
<1>3. DOMAIN a = 1 .. Len(q) + 1 /\ a = [i \in 1 .. Len(q) + 1 |-> a[i]]
  <2>1. a \in [1 .. Len(a) -> T]
    BY <1>2
  <2> QED BY <1>2, <2>1
<1>4. a = [i \in 1 .. Len(q) + 1 |-> IF i = Len(q) + 1 THEN x ELSE q[i]]
  BY <1>2, <1>3
<1> QED BY <1>4 DEF a

LEMMA CollectPool ==
  ASSUME PoolInv, Collect, error = FlattenSeq(Entries(collected))
  PROVE  PoolInv' /\ error' = FlattenSeq(Entries(collected)')
<1> DEFINE n == collected + 1
           x == proofs[n].errors[results[n]]
<1>1. /\ collected < Len(proofs) /\ results[n] # None /\ error' = error \o x /\ collected' = n
      /\ UNCHANGED <<proofs, taken, results, timeouts>>
  BY DEF Collect
<1>2. /\ Len(proofs) \in Nat /\ taken \in Nat /\ collected \in Nat /\ collected <= taken /\ taken <= Len(proofs)
      /\ DOMAIN proofs = 1 .. Len(proofs) /\ results \in [1 .. Len(proofs) -> ProofResult \cup {None}]
      /\ \A k \in 1 .. Len(proofs) : IsJob(proofs[k])
  BY PoolFacts
<1>3. n \in 1 .. Len(proofs) /\ n <= taken
  BY <1>1, <1>2 DEF PoolInv
<1>4. PoolTypeOK'
  <2>1. Running' = Running
    BY <1>1 DEF Running
  <2>2. collected' \in 0 .. taken'
    BY <1>1, <1>2, <1>3
  <2> QED BY <1>1, <2>1, <2>2 DEF PoolInv, PoolTypeOK
<1>5. \A i \in 1 .. collected' : results'[i] # None
  <2>1. ASSUME NEW i \in 1 .. n PROVE results[i] # None
    <3>1. CASE i = n
      BY <1>1, <3>1
    <3>2. CASE i # n
      <4>1. i \in 1 .. collected
        BY <1>2, <3>2
      <4> QED BY <4>1 DEF PoolInv
    <3> QED BY <3>1, <3>2
  <2> QED BY <1>1, <2>1
<1>6. PoolInv'
  BY <1>1, <1>4, <1>5 DEF PoolInv
<1>7. Entries(collected)' = Append(Entries(collected), x)
  <2> DEFINE q == Entries(collected)
             r == Entries(collected)'
  <2>1. IsSequence(q) /\ Len(q) = collected
    BY EntriesSequence
  <2>2. r = [i \in 1 .. n |-> IF results[i] = None THEN <<>> ELSE proofs[i].errors[results[i]]]
    BY <1>1 DEF Entries
  <2>3. r[n] = x
    <3>1. n \in 1 .. n
      BY <1>2
    <3> HIDE DEF n, r
    <3> QED BY <1>1, <2>2, <3>1
  <2>4. \A i \in 1 .. collected : r[i] = q[i]
    <3>1. q = [i \in 1 .. collected |-> IF results[i] = None THEN <<>> ELSE proofs[i].errors[results[i]]]
      BY DEF Entries
    <3>2. \A i \in 1 .. collected : i \in 1 .. n
      BY <1>2
    <3> HIDE DEF n, q, r
    <3> QED BY <2>2, <3>1, <3>2
  <2>5. DOMAIN r = 1 .. n /\ r = [i \in 1 .. n |-> r[i]]
    BY <2>2
  <2> HIDE DEF q, r, x
  <2>6. Append(q, x) = [i \in 1 .. n |-> IF i = n THEN x ELSE q[i]]
    <3>1. Append(q, x) = [i \in 1 .. Len(q) + 1 |-> IF i = Len(q) + 1 THEN x ELSE q[i]]
      BY <2>1, AppendFunction DEF IsSequence
    <3> QED BY <2>1, <3>1
  <2>7. \A i \in 1 .. n : r[i] = IF i = n THEN x ELSE q[i]
    BY <1>2, <2>3, <2>4
  <2>8. r = Append(q, x)
    BY <2>5, <2>6, <2>7
  <2> QED BY <2>8 DEF q, r
<1>8. IsSequence(x)
  <2>1. results[n] \in ProofResult
    BY <1>1, <1>2, <1>3
  <2> QED BY <1>2, <1>3, <2>1 DEF IsJob
<1>9. FlattenSeq(Append(Entries(collected), x)) = FlattenSeq(Entries(collected)) \o x
  <2> DEFINE q == Entries(collected)
  <2>1. IsSequence(q) /\ \A y \in ToSet(q) : IsSequence(y)
    BY EntriesSequence
  <2> HIDE DEF q, x
  <2>2. FlattenSeq(Append(q, x)) = FlattenSeq(q) \o x
    BY <1>8, <2>1, FlattenAppend
  <2> QED BY <2>2 DEF q
<1> QED BY <1>1, <1>6, <1>7, <1>9

LEMMA StepPool ==
  ASSUME PoolInv, PoolStep, error = FlattenSeq(Entries(collected))
  PROVE  PoolInv' /\ error' = FlattenSeq(Entries(collected)')
<1>1. CASE TakeJob
  BY <1>1, TakePool
<1>2. ASSUME NEW i \in Running, CheckProof(i) PROVE PoolInv' /\ error' = FlattenSeq(Entries(collected)')
  BY <1>2, CheckPool
<1>3. CASE Collect
  BY <1>3, CollectPool
<1> QED BY <1>1, <1>2, <1>3 DEF PoolStep

LEMMA NormalizedLink ==
  ASSUME NEW m, NEW l, IsLink(l)
  PROVE  LET k == Normalized(m, l)
         IN  /\ IsLink(k) /\ k.source = l.source /\ k.target = l.target /\ k.condition = l.condition
             /\ k.first = l.first /\ k.size \in {l.size, Implicit}
<1> DEFINE k == Normalized(m, l)
           n == Link(l.source, l.target, l.condition, Implicit, l.first)
<1>1. k = n \/ k = l
  BY DEF Normalized
<1>2. /\ n.source = l.source /\ n.target = l.target /\ n.condition = l.condition /\ n.size = Implicit
      /\ n.first = l.first
  BY DEF Link
<1>3. n = Link(n.source, n.target, n.condition, n.size, n.first)
  BY <1>2
<1> HIDE DEF n, k
<1>4. IsLink(n)
  BY <1>2, <1>3 DEF IsLink, IsSize
<1> QED BY <1>1, <1>2, <1>4 DEF k

LEMMA NormalizeStructure ==
  ASSUME NEW m, WellFormed(m), NEW P, NEW M, M = [normalize(m) EXCEPT !.parameters = P]
  PROVE  /\ M.structure = {Normalized(m, l) : l \in m.structure}
         /\ M.order = m.order /\ M.types = m.types /\ M.parameters = P
         /\ M = [order |-> M.order, types |-> M.types, parameters |-> M.parameters, structure |-> M.structure]
         /\ normalize(m).structure = M.structure /\ normalize(m).types = m.types
<1> DEFINE S == {Normalized(m, l) : l \in m.structure}
           k == normalize(m)
<1>1. m = [order |-> m.order, types |-> m.types, parameters |-> m.parameters, structure |-> m.structure]
  BY DEF WellFormed
<1>2. k = [m EXCEPT !.structure = S]
  BY DEF normalize
<1> HIDE DEF S, k
<1>3. k = [order |-> m.order, types |-> m.types, parameters |-> m.parameters, structure |-> S]
  BY <1>1, <1>2
<1>4. M = [order |-> m.order, types |-> m.types, parameters |-> P, structure |-> S]
  <2>1. M = [k EXCEPT !.parameters = P]
    BY DEF k
  <2> QED BY <1>3, <2>1
<1>5. k.structure = S /\ k.types = m.types
  BY <1>3
<1>6. M.structure = S /\ M.order = m.order /\ M.types = m.types /\ M.parameters = P
  BY <1>4
<1> QED BY <1>4, <1>5, <1>6 DEF S, k

LEMMA NormalizeWellFormed ==
  ASSUME NEW m, WellFormed(m), NEW P, NEW M, M = [normalize(m) EXCEPT !.parameters = P]
  PROVE  WellFormed(M)
<1>1. /\ M.structure = {Normalized(m, l) : l \in m.structure} /\ M.order = m.order /\ M.types = m.types
      /\ M = [order |-> M.order, types |-> M.types, parameters |-> M.parameters, structure |-> M.structure]
  BY NormalizeStructure
<1>2. \A l \in m.structure : IsLink(l)
  BY DEF WellFormed
<1>3. \A l \in M.structure : IsLink(l)
  BY <1>1, <1>2, NormalizedLink
<1>4. IsFiniteSet(M.structure)
  <2> DEFINE L == m.structure
             g == [l \in L |-> Normalized(m, l)]
  <2>1. M.structure = {g[l] : l \in L}
    <3>1. \A l \in L : g[l] = Normalized(m, l)
      OBVIOUS
    <3> HIDE DEF g
    <3>2. {Normalized(m, l) : l \in L} = {g[l] : l \in L}
      BY ONLY <3>1
    <3> HIDE DEF L
    <3> QED BY <1>1, <3>2 DEF L
  <2>2. IsFiniteSet(L)
    BY DEF WellFormed
  <2> HIDE DEF L, g
  <2> QED BY <2>1, <2>2, FiniteImage
<1> QED BY <1>1, <1>3, <1>4 DEF WellFormed

(* The invariant of the whole check, apart from what is known of the message. *)
Phases == {"merge", "verify", "paths", "proofs", "outgoing", "accepted", "rejected", "crashed"}
Validated == {"verify", "paths", "proofs", "outgoing", "accepted", "crashed"}
Decided == {"proofs", "outgoing", "accepted", "crashed"}

BaseInv ==
    /\ phase \in Phases /\ WellFormed(declaration) /\ PoolInv /\ IsSequence(error)
    /\ phase \in {"merge", "verify"} => error = <<>>
    /\ phase = "merge" => WellFormed(message) /\ FromDeclaration(message, declaration)
    /\ phase \in Validated => WellFormed(message) /\ IsFiniteSet(message.parameters)
    /\ phase = "paths" => proofs = path_proofs(message)
    /\ phase \in Decided => valid_paths \subseteq AllPaths(message)
    /\ phase \in {"paths", "proofs"} => error = FlattenSeq(Entries(collected))

LEMMA BaseInit == ASSUME Init PROVE BaseInv
<1>1. /\ declaration \in Messages /\ message = declaration /\ phase = "merge" /\ error = <<>>
      /\ proofs = <<>> /\ taken = 0 /\ results = <<>> /\ collected = 0 /\ timeouts = 0
  BY DEF Init, NoProofs
<1>2. WellFormed(declaration)
  BY <1>1, MessagesAssumption
<1>3. Len(<<>>) = 0 /\ DOMAIN <<>> = {} /\ 1 .. 0 = {}
  OBVIOUS
<1>4. Running = {}
  BY <1>1, <1>3 DEF Running
<1>5. Cardinality(Running) <= Workers
  BY <1>4, FS_EmptySet, WorkersAssumption
<1>6. results \in [DOMAIN proofs -> ProofResult \cup {None}]
  BY <1>1, <1>3
<1>7. PoolTypeOK
  BY <1>1, <1>3, <1>5, <1>6, MaxTimeoutsAssumption DEF PoolTypeOK
<1>8. PoolInv
  BY <1>1, <1>3, <1>7, EmptySequence DEF PoolInv
<1> QED BY <1>1, <1>2, <1>8, EmptySequence DEF BaseInv, Phases, Validated, Decided, FromDeclaration

(* A report decides about the next phase. *)
LEMMA Propagated ==
  ASSUME NEW entries, NEW ok \in BOOLEAN, Report(entries, ok), NEW next, Propagate(entries, next),
         IsSequence(error), ~HasErrors(error)
  PROVE  /\ IsSequence(error') /\ phase' = IF ok THEN next ELSE "rejected"
         /\ ok => error' = error
<1>1. error' = error \o entries /\ phase' = IF HasErrors(error') THEN "rejected" ELSE next
  BY DEF Propagate
<1>2. IsSequence(entries)
  BY DEF Report
<1>3. IsSequence(error') /\ (HasErrors(error') <=> HasErrors(entries))
  BY <1>1, <1>2, ErrorsConcat
<1>4. ok => error' = error
  BY <1>1, EmptyConcat DEF Report
<1> QED BY <1>1, <1>3, <1>4 DEF Report

LEMMA NoEntries == ~HasErrors(<<>>)
BY DEF HasErrors

LEMMA FirstMessage ==
  ASSUME NEW m, WellFormed(m), MessageFields(m) # <<>>
  PROVE  LET f == Head(MessageFields(m)) IN f \in DOMAIN m.types /\ m.types[f].kind = "message"
<1> DEFINE S == {f \in DOMAIN m.types : IsMessage(m, f)}
           s == Kept(m.order, S)
<1>1. IsSequence(m.order)
  BY SequenceType DEF WellFormed
<1>2. MessageFields(m) = s
  BY DEF MessageFields
<1>3. \A f \in S : f \in DOMAIN m.types /\ m.types[f].kind = "message"
  BY DEF IsMessage
<1> HIDE DEF S
<1>4. IsSequence(s) /\ ToSet(s) \subseteq S
  BY <1>1, KeptElements
<1> HIDE DEF s
<1>5. Len(s) \in Nat /\ \A i \in 1 .. Len(s) : s[i] \in ToSet(s)
  BY <1>4, SequenceFacts
<1>6. s # <<>> => Len(s) # 0
  BY <1>4 DEF IsSequence
<1>7. Head(s) \in S
  <2>1. 1 \in 1 .. Len(s)
    BY <1>2, <1>5, <1>6
  <2>2. Head(s) = s[1]
    BY <1>2, <1>4 DEF IsSequence
  <2> QED BY <1>4, <1>5, <2>1, <2>2
<1> QED BY <1>2, <1>3, <1>7

LEMMA NoMessages ==
  ASSUME NEW m, WellFormed(m), MessageFields(m) = <<>>
  PROVE  \A f \in DOMAIN m.types : m.types[f].kind # "message"
<1> DEFINE S == {f \in DOMAIN m.types : IsMessage(m, f)}
           s == Kept(m.order, S)
<1>1. IsSequence(m.order)
  BY SequenceType DEF WellFormed
<1>2. s = <<>>
  BY DEF MessageFields
<1>3. ToSet(s) = ToSet(m.order) \cap S
  <2> HIDE DEF S
  <2> QED BY <1>1, KeptElements
<1>4. ToSet(m.order) \cap S = {}
  BY <1>2, <1>3, EmptySequence
<1> SUFFICES ASSUME NEW f \in DOMAIN m.types, m.types[f].kind = "message" PROVE FALSE
  OBVIOUS
<1>5. f \in ToSet(m.order)
  BY DEF WellFormed
<1> QED BY <1>4, <1>5 DEF IsMessage

LEMMA IsEmpty == ASSUME NEW s, IsSequence(s), ToSet(s) = {} PROVE s = <<>>
<1>1. s \in Seq({})
  BY DEF IsSequence
<1> QED BY <1>1

LEMMA FlattenEmpty == FlattenSeq(<<>>) = <<>>
<1>1. IsSequence(<<>>) /\ ToSet(<<>>) = {}
  BY EmptySequence
<1>2. IsSequence(FlattenSeq(<<>>)) /\ ToSet(FlattenSeq(<<>>)) = UNION {ToSet(x) : x \in ToSet(<<>>)}
  BY <1>1, FlattenElements
<1>3. UNION {ToSet(x) : x \in ToSet(<<>>)} = {}
  BY <1>1
<1> QED BY <1>2, <1>3, IsEmpty

LEMMA MergeReport ==
  ASSUME NEW m, NEW f, WellFormed(m), Mergeable(m, f)
  PROVE  \E ok \in BOOLEAN : Report(merge_errors(m, f), ok)
<1> DEFINE inner == Inner[m.types[f].name]
           depends == \E l \in inner.structure : l.size = Implicit \/ \E a \in l.condition : a.field = Message
           A == {f : l \in {k \in outgoing(m, f) : k.target # FINAL /\ depends}}
           B == {f \o g : g \in ToSet(inner.order)} \cap ToSet(m.order)
<1>1. merge_errors(m, f) = Errors("last_field", A) \o Errors("name_conflict", B)
  BY DEF merge_errors
<1>2. IsFiniteSet(A)
  <2>1. A \subseteq {f}
    OBVIOUS
  <2> QED BY <2>1, FS_Singleton, FS_Subset
<1>3. IsFiniteSet(B)
  <2>1. IsSequence(m.order)
    BY SequenceType DEF WellFormed
  <2> QED BY <2>1, SequenceFinite, FS_Subset
<1> HIDE DEF A, B
<1>4. Report(Errors("last_field", A), A = {}) /\ Report(Errors("name_conflict", B), B = {})
  BY <1>2, <1>3, ReportSet
<1>5. (A = {} /\ B = {}) \in BOOLEAN
  OBVIOUS
<1>6. Report(merge_errors(m, f), A = {} /\ B = {})
  <2> DEFINE a == A = {}
             b == B = {}
             s == Errors("last_field", A)
             t == Errors("name_conflict", B)
  <2>1. a \in BOOLEAN /\ b \in BOOLEAN /\ Report(s, a) /\ Report(t, b) /\ merge_errors(m, f) = s \o t
    BY <1>1, <1>4
  <2> HIDE DEF a, b, s, t
  <2>2. Report(merge_errors(m, f), a /\ b)
    BY <2>1, ReportConcat
  <2> QED BY <2>2 DEF a, b
<1> QED BY <1>5, <1>6

LEMMA PoolIdle == ASSUME PoolInv, Idle PROVE PoolInv'
<1>1. UNCHANGED <<proofs, taken, results, collected, timeouts>>
  BY DEF Idle
<1>2. Running' = Running
  BY <1>1 DEF Running
<1> QED BY <1>1, <1>2 DEF PoolInv, PoolTypeOK

LEMMA MergeBase ==
  ASSUME BaseInv, Merge
  PROVE  BaseInv' /\ phase' \in {"merge", "rejected"}
<1> DEFINE f == Head(MessageFields(message))
           errors == merge_errors(message, f)
<1>1. /\ phase = "merge" /\ MessageFields(message) # <<>> /\ Idle
      /\ UNCHANGED <<declaration, fields, valid_paths, todo, unreachable>>
  BY DEF Merge
<1>2. /\ WellFormed(message) /\ FromDeclaration(message, declaration) /\ error = <<>> /\ WellFormed(declaration)
      /\ PoolInv
  BY <1>1 DEF BaseInv
<1>3. Mergeable(message, f)
  BY <1>1, <1>2, FirstMessage DEF Mergeable
<1>4. PICK ok \in BOOLEAN : Report(errors, ok)
  BY <1>2, <1>3, MergeReport
<1>5. \/ errors # <<>> /\ Propagate(errors, "merge") /\ UNCHANGED message
      \/ \E l \in incoming(message, f) :
              LET merged == merge_inner_message(message, f, l.source)
              IN  /\ Propagate(IF merged.structure = {} \/ merged.order = <<>>
                               THEN <<Error("empty", f)>> ELSE <<>>, "merge")
                  /\ message' = merged
  BY Zenon DEF Merge
<1> HIDE DEF errors, f
<1>6. PoolInv' /\ WellFormed(declaration')
  BY <1>1, <1>2, PoolIdle
<1>7. CASE errors # <<>> /\ Propagate(errors, "merge") /\ UNCHANGED message
  <2>1. ~ok
    BY <1>4, <1>7 DEF Report
  <2>2. phase' = "rejected" /\ IsSequence(error')
    BY <1>2, <1>4, <1>7, <2>1, Propagated, NoEntries, EmptySequence
  <2> QED BY <1>6, <2>2 DEF BaseInv, Phases, Validated, Decided
<1>8. ASSUME NEW l \in incoming(message, f), NEW merged, merged = merge_inner_message(message, f, l.source),
             Propagate(IF merged.structure = {} \/ merged.order = <<>> THEN <<Error("empty", f)>> ELSE <<>>, "merge"),
             message' = merged
      PROVE  BaseInv' /\ phase' \in {"merge", "rejected"}
  <2> DEFINE empty == merged.structure = {} \/ merged.order = <<>>
             entries == IF empty THEN <<Error("empty", f)>> ELSE <<>>
  <2>1. IsName(l.source) /\ l.source # Message
    BY <1>2 DEF incoming, WellFormed, IsLink
  <2>2. WellFormed(merged) /\ FromDeclaration(merged, declaration)
    BY <1>3, <1>8, <2>1, MergeWellFormed
  <2>3. Report(entries, ~empty)
    <3> HIDE DEF empty
    <3>1. CASE empty
      BY <3>1, ReportOne DEF Report
    <3>2. CASE ~empty
      BY <3>2, ReportNothing DEF Report
    <3> QED BY <3>1, <3>2
  <2>4. Propagate(entries, "merge") /\ empty \in BOOLEAN
    BY <1>8
  <2> HIDE DEF entries, empty
  <2>5. /\ IsSequence(error') /\ phase' = (IF ~empty THEN "merge" ELSE "rejected")
        /\ ~empty => error' = error
    BY <1>2, <2>3, <2>4, Propagated, NoEntries, EmptySequence
  <2> QED BY <1>1, <1>2, <1>6, <1>8, <2>2, <2>5 DEF BaseInv, Phases, Validated, Decided
<1> QED BY <1>5, <1>7, <1>8

LEMMA EntriesSequencePrimed ==
  PoolInv' => (/\ IsSequence(Entries(collected)) /\ Len(Entries(collected)) = collected
               /\ \A x \in ToSet(Entries(collected)) : IsSequence(x))'
<1>1. PoolInv => (/\ IsSequence(Entries(collected)) /\ Len(Entries(collected)) = collected
                  /\ \A x \in ToSet(Entries(collected)) : IsSequence(x))
  BY EntriesSequence
<1> QED BY <1>1, PTL

(* What a validated message consists of. *)
Sorted(m) == Kept(topological_sorting(normalize(m)).sorted, StructureFields(normalize(m)) \ {INITIAL, FINAL})
Validation(m) ==
    /\ MissingTypes(m) = {} /\ InitialFirsts(m) = {} /\ unreachable_fields(m) = {}
    /\ ImplicitInside(m) = {} /\ ~Cyclic(normalize(m))

LEMMA ValidateEffect ==
  ASSUME BaseInv, Validate
  PROVE  /\ phase = "merge" /\ WellFormed(message) /\ MessageFields(message) = <<>>
         /\ phase' \in {"verify", "rejected"} /\ IsSequence(error')
         /\ phase' = "verify" =>
               /\ error' = <<>> /\ Validation(message) /\ fields' = Sorted(message)
               /\ message' = [normalize(message) EXCEPT !.parameters = DOMAIN normalize(message).types
                                                                          \ ToSet(Sorted(message))]
<1> DEFINE early == validate_types(message) \o validate_initial_link(message)
           m == normalize(message)
           late == validate_structure(message) \o validate_link_aspects(message) \o cycle_errors(m)
           okEarly == MissingTypes(message) = {} /\ InitialFirsts(message) = {}
           ok1 == /\ (unreachable_fields(message) = {} /\ dead_ends(message) = {}) /\ Duplicates(message) = {}
                  /\ ImplicitInside(message) = {}
           ok2 == ~Cyclic(m)
<1>1. /\ phase = "merge" /\ MessageFields(message) = <<>>
      /\ \/ early # <<>> /\ Propagate(early, "verify") /\ UNCHANGED <<message, fields>>
         \/ /\ early = <<>> /\ Propagate(late, "verify")
            /\ message' = [m EXCEPT !.parameters = DOMAIN m.types \ ToSet(Sorted(message))]
            /\ fields' = Sorted(message)
  BY Zenon DEF Validate, Sorted
<1>2. WellFormed(message) /\ error = <<>>
  BY <1>1 DEF BaseInv
<1>3. IsFiniteSet(message.structure)
  BY <1>2 DEF WellFormed
<1>4. Report(early, okEarly)
  BY <1>3, EarlyReport
<1>5. Report(validate_structure(message) \o validate_link_aspects(message), ok1)
  BY <1>3, StructureReport
<1>6. Report(cycle_errors(m), ok2)
  BY CycleReport
<1>7. okEarly \in BOOLEAN /\ ok1 \in BOOLEAN /\ ok2 \in BOOLEAN
  BY DEF Cyclic
<1>8. late = (validate_structure(message) \o validate_link_aspects(message)) \o cycle_errors(m)
  OBVIOUS
<1>9. okEarly /\ ok1 /\ ok2 => Validation(message)
  BY DEF Validation
<1> HIDE DEF okEarly, ok1, ok2, early, late, m
<1>10. Report(late, ok1 /\ ok2)
  BY <1>5, <1>6, <1>7, <1>8, ReportConcat
<1>11. CASE early # <<>> /\ Propagate(early, "verify")
  <2>1. ~okEarly
    BY <1>4, <1>11 DEF Report
  <2>2. phase' = "rejected" /\ IsSequence(error')
    BY <1>2, <1>4, <1>7, <1>11, <2>1, Propagated, NoEntries, EmptySequence
  <2> QED BY <1>1, <1>2, <2>2
<1>12. CASE /\ early = <<>> /\ Propagate(late, "verify")
            /\ message' = [m EXCEPT !.parameters = DOMAIN m.types \ ToSet(Sorted(message))]
            /\ fields' = Sorted(message)
  <2>1. okEarly
    BY <1>4, <1>12 DEF Report
  <2> DEFINE ok == ok1 /\ ok2
  <2>2. Report(late, ok) /\ ok \in BOOLEAN
    BY <1>7, <1>10
  <2> HIDE DEF ok
  <2>3. /\ IsSequence(error') /\ phase' = (IF ok THEN "verify" ELSE "rejected")
        /\ ok => error' = error
    BY <1>2, <1>12, <2>2, Propagated, NoEntries, EmptySequence
  <2>4. phase' = "verify" => ok
    BY <2>3
  <2> QED BY <1>1, <1>2, <1>9, <1>12, <2>1, <2>3, <2>4 DEF ok, m
<1> QED BY <1>1, <1>11, <1>12

LEMMA ValidateBase == ASSUME BaseInv, Validate PROVE BaseInv'
<1>1. /\ WellFormed(message) /\ phase' \in {"verify", "rejected"} /\ IsSequence(error')
      /\ phase' = "verify" =>
            /\ error' = <<>>
            /\ message' = [normalize(message) EXCEPT !.parameters = DOMAIN normalize(message).types
                                                                       \ ToSet(Sorted(message))]
  BY ValidateEffect
<1>2. UNCHANGED declaration /\ PoolInv' /\ WellFormed(declaration)
  BY PoolIdle DEF Validate, BaseInv
<1>3. ASSUME phase' = "verify" PROVE WellFormed(message') /\ IsFiniteSet(message'.parameters)
  <2> DEFINE P == DOMAIN normalize(message).types \ ToSet(Sorted(message))
             M == message'
  <2>1. M = [normalize(message) EXCEPT !.parameters = P]
    BY <1>1, <1>3
  <2> HIDE DEF P, M
  <2>2. WellFormed(M)
    BY <1>1, <2>1, NormalizeWellFormed
  <2>3. M.parameters = P /\ normalize(message).types = message.types
    BY <1>1, <2>1, NormalizeStructure
  <2>4. IsFiniteSet(P)
    BY <1>1, <2>3, FS_Subset DEF P, WellFormed
  <2> QED BY <2>2, <2>3, <2>4 DEF M
<1> QED BY <1>1, <1>2, <1>3 DEF BaseInv, Phases, Validated, Decided

LEMMA PathProofsStart ==
  ASSUME NEW m, IsFiniteSet(m.structure)
  PROVE  /\ IsSequence(path_proofs(m)) /\ \A j \in ToSet(path_proofs(m)) : IsJob(j)
         /\ ToSet(path_proofs(m)) = {path_proof(m, p) : p \in AllPaths(m)}
<1>1. Lists(path_proofs(m), {path_proof(m, p) : p \in AllPaths(m)})
  BY PathProofs
<1>2. \A p \in AllPaths(m) : IsJob(path_proof(m, p))
  BY PathJobsAre
<1> QED BY <1>1, <1>2 DEF Lists

LEMMA VerifyEffect ==
  ASSUME BaseInv, Verify
  PROVE  /\ phase = "verify" /\ phase' \in {"paths", "rejected"} /\ IsSequence(error') /\ PoolInv'
         /\ phase' = "paths" => /\ error' = <<>> /\ Entries(collected)' = <<>> /\ proofs' = path_proofs(message)
                                /\ VerifyOK(message)
<1> DEFINE entries == verify_parameters(message) \o verify_message_types(message) \o verify_links(message)
           ok == VerifyOK(message)
<1>1. /\ phase = "verify" /\ Propagate(entries, "paths") /\ UNCHANGED <<timeouts, message>>
      /\ entries = <<>> => StartProofs(path_proofs(message))
      /\ entries # <<>> => UNCHANGED <<proofs, taken, results, collected>>
  BY DEF Verify
<1>2. WellFormed(message) /\ IsFiniteSet(message.parameters) /\ error = <<>> /\ PoolInv /\ PoolTypeOK
  BY <1>1 DEF BaseInv, Validated, PoolInv
<1>3. IsFiniteSet(message.structure) /\ \A l \in message.structure : IsFiniteSet(l.condition)
  BY <1>2 DEF WellFormed, IsLink
<1>4. Report(entries, ok) /\ ok \in BOOLEAN
  BY <1>2, <1>3, VerifyReport DEF VerifyOK
<1> HIDE DEF entries, ok
<1>5. /\ IsSequence(error') /\ phase' = (IF ok THEN "paths" ELSE "rejected")
      /\ ok => error' = error
  BY <1>1, <1>2, <1>4, Propagated, NoEntries, EmptySequence
<1>6. CASE ok
  <2>1. StartProofs(path_proofs(message))
    BY <1>1, <1>4, <1>6 DEF Report
  <2>2. IsSequence(path_proofs(message)) /\ \A j \in ToSet(path_proofs(message)) : IsJob(j)
    BY <1>3, PathProofsStart
  <2>3. PoolInv' /\ Entries(collected)' = <<>>
    <3>1. PICK jobs : jobs = path_proofs(message)
      OBVIOUS
    <3>2. StartProofs(jobs) /\ IsSequence(jobs) /\ (\A j \in ToSet(jobs) : IsJob(j)) /\ UNCHANGED timeouts
      BY <1>1, <2>1, <2>2, <3>1
    <3> QED BY <1>2, <3>2, StartPool
  <2>4. proofs' = path_proofs(message)
    BY <2>1 DEF StartProofs
  <2> QED BY <1>1, <1>2, <1>5, <1>6, <2>3, <2>4 DEF ok
<1>7. CASE ~ok
  <2>1. Idle
    BY <1>1, <1>4, <1>7 DEF Report, Idle
  <2>2. PoolInv'
    BY <1>2, <2>1, PoolIdle
  <2> QED BY <1>1, <1>5, <1>7, <2>2
<1> QED BY <1>6, <1>7

LEMMA VerifyBase == ASSUME BaseInv, Verify PROVE BaseInv'
<1>1. /\ phase = "verify" /\ phase' \in {"paths", "rejected"} /\ IsSequence(error') /\ PoolInv'
      /\ phase' = "paths" => /\ error' = <<>> /\ Entries(collected)' = <<>> /\ proofs' = path_proofs(message)
  BY VerifyEffect
<1>2. UNCHANGED <<message, declaration>>
  BY DEF Verify
<1>3. WellFormed(message) /\ IsFiniteSet(message.parameters) /\ WellFormed(declaration)
  BY <1>1 DEF BaseInv, Validated
<1>4. phase' = "paths" => error' = FlattenSeq(Entries(collected)')
  BY <1>1, FlattenEmpty
<1> QED BY <1>1, <1>2, <1>3, <1>4 DEF BaseInv, Phases, Validated, Decided

LEMMA ProveBase == ASSUME BaseInv, Prove PROVE BaseInv'
<1>1. /\ phase \in {"paths", "proofs"} /\ PoolStep
      /\ UNCHANGED <<phase, message, declaration, fields, valid_paths, todo, unreachable>>
  BY DEF Prove
<1>2. PoolInv /\ error = FlattenSeq(Entries(collected))
  BY <1>1 DEF BaseInv
<1>3. PoolInv' /\ error' = FlattenSeq(Entries(collected)')
  BY <1>1, <1>2, StepPool
<1>4. UNCHANGED proofs
  BY <1>1 DEF PoolStep, TakeJob, CheckProof, Collect
<1>5. IsSequence(error')
  <2>1. (IsSequence(Entries(collected)) /\ \A x \in ToSet(Entries(collected)) : IsSequence(x))'
    BY <1>3, EntriesSequencePrimed
  <2> DEFINE q == Entries(collected)'
  <2>2. IsSequence(q) /\ \A x \in ToSet(q) : IsSequence(x)
    BY <2>1
  <2>3. error' = FlattenSeq(q)
    BY <1>3
  <2> HIDE DEF q
  <2> QED BY <2>2, <2>3, FlattenElements
<1> QED BY <1>1, <1>3, <1>4, <1>5 DEF BaseInv, Validated, Decided

LEMMA NoPathErrors ==
  ASSUME BaseInv, phase = "paths" PROVE error = <<>>
<1> DEFINE q == Entries(collected)
<1>1. PoolInv /\ error = FlattenSeq(q) /\ proofs = path_proofs(message) /\ IsFiniteSet(message.structure)
  BY DEF BaseInv, Validated, WellFormed
<1>2. IsSequence(q) /\ (\A x \in ToSet(q) : IsSequence(x))
  BY <1>1, EntriesSequence
<1>3. /\ Len(proofs) \in Nat /\ taken \in Nat /\ collected \in Nat /\ collected <= taken /\ taken <= Len(proofs)
      /\ results \in [1 .. Len(proofs) -> ProofResult \cup {None}]
  BY <1>1, PoolFacts
<1>4. ASSUME NEW i \in 1 .. Len(proofs) PROVE \A r \in ProofResult : proofs[i].errors[r] = <<>>
  <2>1. proofs[i] \in ToSet(proofs)
    BY <1>1, SequenceFacts DEF PoolInv
  <2>2. PICK p \in AllPaths(message) : proofs[i] = path_proof(message, p)
    BY <1>1, <2>1, PathProofsStart
  <2> QED BY <2>2, PathJobsAre
<1>5. ASSUME NEW x \in ToSet(q) PROVE x = <<>>
  <2>1. q = [i \in 1 .. collected |-> IF results[i] = None THEN <<>> ELSE proofs[i].errors[results[i]]]
    BY DEF Entries
  <2> HIDE DEF q
  <2>2. PICK i \in 1 .. collected : x = q[i]
    BY <2>1 DEF ToSet
  <2>3. i \in 1 .. Len(proofs)
    BY <1>3
  <2>4. results[i] = None \/ results[i] \in ProofResult
    BY <1>3, <2>3
  <2> QED BY <1>4, <2>1, <2>2, <2>3, <2>4
<1> HIDE DEF q
<1>6. IsSequence(FlattenSeq(q)) /\ ToSet(FlattenSeq(q)) = UNION {ToSet(x) : x \in ToSet(q)}
  BY <1>2, FlattenElements
<1>7. UNION {ToSet(x) : x \in ToSet(q)} = {}
  BY <1>5, EmptySequence
<1> QED BY <1>1, <1>6, <1>7, IsEmpty

LEMMA ValidPathsAre ==
  ASSUME BaseInv, phase = "paths"
  PROVE  \A p \in ValidPaths : p \in AllPaths(message) /\ Possible(message, p)
<1> SUFFICES ASSUME NEW p \in ValidPaths PROVE p \in AllPaths(message) /\ Possible(message, p)
  OBVIOUS
<1>1. PoolInv /\ proofs = path_proofs(message) /\ IsFiniteSet(message.structure)
  BY DEF BaseInv, Validated, WellFormed
<1>2. PICK i \in DOMAIN proofs : results[i] = "SAT" /\ p = proofs[i].path
  BY DEF ValidPaths
<1>3. proofs[i] \in ToSet(proofs)
  BY DEF ToSet
<1>4. PICK q \in AllPaths(message) : proofs[i] = path_proof(message, q)
  BY <1>1, <1>3, PathProofsStart
<1>5. results[i] \in {None, proofs[i].result, "UNKNOWN"}
  BY <1>1 DEF PoolInv
<1>6. proofs[i].path = q /\ proofs[i].result = IF Possible(message, q) THEN "SAT" ELSE "UNSAT"
  BY <1>4, PathJobsAre
<1>7. proofs[i].result = "SAT"
  BY <1>2, <1>5 DEF None
<1> QED BY <1>2, <1>4, <1>6, <1>7

LEMMA DetermineEffect ==
  ASSUME BaseInv, DetermineValidPaths
  PROVE  /\ phase = "paths" /\ phase' \in {"proofs", "rejected"} /\ IsSequence(error') /\ PoolInv'
         /\ UNCHANGED <<message, declaration, fields, todo, unreachable>> /\ valid_paths' = ValidPaths
         /\ valid_paths' \subseteq AllPaths(message)
         /\ phase' = "proofs" => /\ error' = <<>> /\ Entries(collected)' = <<>>
                                 /\ proofs' = message_proofs(message, valid_paths')
<1> DEFINE entries == verify_expression_types(message, ValidPaths)
<1>1. /\ phase = "paths" /\ Propagate(entries, "proofs") /\ valid_paths' = ValidPaths
      /\ UNCHANGED <<timeouts, message, declaration, fields, todo, unreachable>>
      /\ entries = <<>> => StartProofs(message_proofs(message, ValidPaths))
      /\ entries # <<>> => UNCHANGED <<proofs, taken, results, collected>>
  BY DEF DetermineValidPaths
<1>2. WellFormed(message) /\ error = <<>> /\ PoolInv /\ PoolTypeOK
  BY <1>1, NoPathErrors DEF BaseInv, Validated, PoolInv
<1>3. IsFiniteSet(message.structure) /\ \A l \in message.structure : IsFiniteSet(l.condition)
  BY <1>2 DEF WellFormed, IsLink
<1>4. PICK ok \in BOOLEAN : Report(entries, ok)
  BY <1>3, ExpressionReport
<1> HIDE DEF entries
<1>5. /\ IsSequence(error') /\ phase' = (IF ok THEN "proofs" ELSE "rejected")
      /\ ok => error' = error
  BY <1>1, <1>2, <1>4, Propagated, NoEntries, EmptySequence
<1>6. ValidPaths \subseteq AllPaths(message)
  BY <1>1, ValidPathsAre
<1>7. CASE ok
  <2>1. StartProofs(message_proofs(message, ValidPaths))
    BY <1>1, <1>4, <1>7 DEF Report
  <2>2. IsFiniteSet(ValidPaths)
    BY <1>3, <1>6, AllPathsMember, FS_Subset
  <2>3. PICK jobs : jobs = message_proofs(message, ValidPaths)
    OBVIOUS
  <2>4. IsSequence(jobs) /\ ToSet(jobs) = MessageJobs(message, ValidPaths)
    BY <1>3, <2>2, <2>3, MessageProofs DEF Lists
  <2>5. \A j \in ToSet(jobs) : IsJob(j)
    BY <2>4, MessageJobsAre
  <2>6. PoolInv' /\ Entries(collected)' = <<>>
    BY <1>1, <1>2, <2>1, <2>3, <2>4, <2>5, StartPool
  <2>7. proofs' = message_proofs(message, ValidPaths)
    BY <2>1 DEF StartProofs
  <2> QED BY <1>1, <1>2, <1>5, <1>6, <1>7, <2>6, <2>7
<1>8. CASE ~ok
  <2>1. Idle
    BY <1>1, <1>4, <1>8 DEF Report, Idle
  <2>2. PoolInv'
    BY <1>2, <2>1, PoolIdle
  <2> QED BY <1>1, <1>5, <1>6, <1>8, <2>2
<1> QED BY <1>7, <1>8

LEMMA DetermineBase == ASSUME BaseInv, DetermineValidPaths PROVE BaseInv'
<1>1. /\ phase = "paths" /\ phase' \in {"proofs", "rejected"} /\ IsSequence(error') /\ PoolInv'
      /\ UNCHANGED <<message, declaration>> /\ valid_paths' \subseteq AllPaths(message)
      /\ phase' = "proofs" => /\ error' = <<>> /\ Entries(collected)' = <<>>
  BY DetermineEffect
<1>2. WellFormed(message) /\ IsFiniteSet(message.parameters) /\ WellFormed(declaration)
  BY <1>1 DEF BaseInv, Validated
<1>3. phase' = "proofs" => error' = FlattenSeq(Entries(collected)')
  BY <1>1, FlattenEmpty
<1> QED BY <1>1, <1>2, <1>3 DEF BaseInv, Phases, Validated, Decided

LEMMA CheckedBase == ASSUME BaseInv, ProofsChecked PROVE BaseInv'
<1>1. /\ phase = "proofs" /\ phase' = "outgoing" /\ Idle
      /\ UNCHANGED <<error, message, declaration, fields, valid_paths, unreachable>>
  BY DEF ProofsChecked
<1>2. PoolInv'
  BY <1>1, PoolIdle DEF BaseInv
<1> QED BY <1>1, <1>2 DEF BaseInv, Phases, Validated, Decided

LEMMA OutgoingBase == ASSUME BaseInv, CheckOutgoing PROVE BaseInv'
<1> DEFINE f == Head(todo)
           seen == {p \in paths(message, f) : ~\E q \in unreachable : Extends(p, q)}
           added == [i \in 1 .. Cardinality(seen) |-> Error("no_satisfiable_condition", f)]
<1>1. /\ phase = "outgoing" /\ Idle /\ UNCHANGED <<message, declaration, fields, valid_paths>>
      /\ phase' \in {"outgoing", "crashed"}
      /\ error' = error \/ error' = error \o added
  BY DEF CheckOutgoing
<1>2. PoolInv'
  BY <1>1, PoolIdle DEF BaseInv
<1>3. IsSequence(error')
  <2>1. IsFiniteSet(message.structure) /\ IsSequence(error)
    BY <1>1 DEF BaseInv, Validated, WellFormed
  <2>2. IsFiniteSet(seen)
    BY <2>1, AllPathsMember, FS_Subset DEF paths
  <2>3. Cardinality(seen) \in Nat
    BY <2>2, FS_CardinalityType
  <2> DEFINE n == Cardinality(seen)
             e == Error("no_satisfiable_condition", f)
  <2>4. added = [i \in 1 .. n |-> e] /\ n \in Nat
    BY <2>3
  <2> HIDE DEF added, n, e
  <2>5. added \in Seq({e})
    BY <2>4
  <2>6. IsSequence(added)
    BY <2>5, SequenceType
  <2> QED BY <1>1, <2>1, <2>6, SequenceConcat
<1> QED BY <1>1, <1>2, <1>3 DEF BaseInv, Phases, Validated, Decided

LEMMA FinishBase == ASSUME BaseInv, Finish PROVE BaseInv'
<1>1. /\ phase = "outgoing" /\ Propagate(<<>>, "accepted") /\ Idle
      /\ UNCHANGED <<message, declaration, fields, valid_paths, todo, unreachable>>
  BY DEF Finish
<1>2. PoolInv' /\ IsSequence(error)
  BY <1>1, PoolIdle DEF BaseInv
<1>3. error' = error /\ phase' \in {"accepted", "rejected"}
  BY <1>1, <1>2, EmptyConcat DEF Propagate
<1> QED BY <1>1, <1>2, <1>3 DEF BaseInv, Phases, Validated, Decided

LEMMA StutterBase == ASSUME BaseInv, UNCHANGED vars PROVE BaseInv'
<1>1. Idle /\ UNCHANGED <<phase, message, declaration, valid_paths, error>>
  BY DEF vars, poolVars, Idle
<1>2. PoolInv'
  BY <1>1, PoolIdle DEF BaseInv
<1>3. Entries(collected)' = Entries(collected) /\ UNCHANGED proofs
  BY <1>1 DEF Entries, Idle
<1> QED BY <1>1, <1>2, <1>3 DEF BaseInv

LEMMA BaseStep == ASSUME BaseInv, [Next \/ Ended]_vars PROVE BaseInv'
<1>1. CASE Merge
  BY <1>1, MergeBase
<1>2. CASE Validate
  BY <1>2, ValidateBase
<1>3. CASE Verify
  BY <1>3, VerifyBase
<1>4. CASE Prove
  BY <1>4, ProveBase
<1>5. CASE DetermineValidPaths
  BY <1>5, DetermineBase
<1>6. CASE ProofsChecked
  BY <1>6, CheckedBase
<1>7. CASE CheckOutgoing
  BY <1>7, OutgoingBase
<1>8. CASE Finish
  BY <1>8, FinishBase
<1>9. CASE UNCHANGED vars
  BY <1>9, StutterBase
<1> QED BY <1>1, <1>2, <1>3, <1>4, <1>5, <1>6, <1>7, <1>8, <1>9 DEF Next, Ended

LEMMA BaseInvariant == Spec => []BaseInv
<1>1. Init => BaseInv
  BY BaseInit
<1>2. BaseInv /\ [Next \/ Ended]_vars => BaseInv'
  BY BaseStep
<1> QED BY <1>1, <1>2, PTL DEF Spec

(* The pool of the proofs about a message never runs more proofs than there are
   workers, and never consumes a result that no worker has found.              *)
THEOREM TypeCorrect == Spec => []TypeOK
<1>1. BaseInv => TypeOK
  BY DEF BaseInv, Phases, PoolInv, TypeOK
<1> QED BY <1>1, BaseInvariant, PTL

(* The errors of the proofs are reported in the order of the jobs, whatever the
   workers do and whichever proofs the solver gives up (ParallelProofs.check).  *)
THEOREM ErrorsOrdered == Spec => []ErrorsInOrder
<1>1. BaseInv => ErrorsInOrder
  BY DEF BaseInv, ErrorsInOrder, Entries
<1> QED BY <1>1, BaseInvariant, PTL

(* A sorting of the links: every link comes behind those that lead to its source. *)
Ranked(m, rank) ==
    /\ rank \in [m.structure -> Nat]
    /\ \A k \in m.structure : \A l \in m.structure : k.target = l.source => rank[k] < rank[l]

KahnStart == [pending |-> <<INITIAL>>, sorted |-> <<>>, visited |-> {}]

(* g has the states of Kahn's algorithm up to step n. *)
KahnSteps(m, g, n) == g = [k \in 0 .. n |-> IF k = 0 THEN KahnStart ELSE Kahn(m, g[k - 1])]

LEMMA KahnExists == ASSUME NEW m PROVE \A n \in Nat : \E g : KahnSteps(m, g, n)
<1> DEFINE T == {n \in Nat : \E g : KahnSteps(m, g, n)}
<1>1. 0 \in T
  <2> DEFINE g == [k \in 0 .. 0 |-> KahnStart]
  <2>1. ASSUME NEW k \in 0 .. 0 PROVE k = 0
    OBVIOUS
  <2>2. KahnSteps(m, g, 0)
    BY <2>1 DEF KahnSteps
  <2> QED BY <2>2
<1>2. ASSUME NEW n \in Nat, n \in T PROVE n + 1 \in T
  <2>1. PICK g : KahnSteps(m, g, n)
    BY <1>2
  <2> DEFINE h == [k \in 0 .. n + 1 |-> IF k = n + 1 THEN Kahn(m, g[n]) ELSE g[k]]
  <2>2. ASSUME NEW k \in 0 .. n PROVE g[k] = IF k = 0 THEN KahnStart ELSE Kahn(m, g[k - 1])
    BY <2>1 DEF KahnSteps
  <2>3. ASSUME NEW k \in 0 .. n + 1 PROVE h[k] = IF k = 0 THEN KahnStart ELSE Kahn(m, h[k - 1])
    <3>1. CASE k = n + 1
      <4>1. h[k] = Kahn(m, g[n]) /\ h[n] = g[n] /\ k # 0 /\ k - 1 = n
        BY <3>1
      <4> HIDE DEF h
      <4> QED BY <4>1
    <3>2. CASE k # n + 1 /\ k # 0
      <4>1. k \in 0 .. n /\ k - 1 \in 0 .. n + 1 /\ k - 1 # n + 1
        BY <3>2
      <4>2. h[k] = g[k] /\ h[k - 1] = g[k - 1]
        BY <3>2, <4>1
      <4> HIDE DEF h
      <4> QED BY <2>2, <3>2, <4>1, <4>2
    <3>3. CASE k = 0
      <4>1. h[k] = g[0] /\ 0 \in 0 .. n
        BY <3>3
      <4> HIDE DEF h
      <4> QED BY <2>2, <3>3, <4>1
    <3> QED BY <3>1, <3>2, <3>3
  <2>4. h = [k \in 0 .. n + 1 |-> h[k]]
    OBVIOUS
  <2> HIDE DEF h
  <2>5. KahnSteps(m, h, n + 1)
    BY <2>3, <2>4 DEF KahnSteps
  <2> QED BY <2>5
<1>3. \A n \in Nat : n \in T
  <2> HIDE DEF T
  <2> QED BY <1>1, <1>2, InductiveSet
<1> QED BY <1>3

LEMMA Sorting ==
  ASSUME NEW m, IsFiniteSet(m.structure)
  PROVE  \E N \in Nat : \E h : KahnSteps(m, h, N) /\ topological_sorting(m) = h[N]
<1> DEFINE N == Cardinality(m.structure) + 1
           After(g) == g = [n \in 0 .. N |-> IF n = 0 THEN [pending |-> <<INITIAL>>, sorted |-> <<>>, visited |-> {}]
                                             ELSE Kahn(m, g[n - 1])]
           h == CHOOSE g : After(g)
<1>1. N \in Nat
  BY FS_CardinalityType
<1>2. topological_sorting(m) = h[N]
  BY DEF topological_sorting
<1> HIDE DEF N
<1>3. PICK g : KahnSteps(m, g, N)
  BY <1>1, KahnExists
<1>4. After(g)
  BY <1>3 DEF KahnSteps, KahnStart
<1>5. After(h)
  <2> HIDE DEF After
  <2> QED BY <1>4
<1> HIDE DEF h
<1>6. KahnSteps(m, h, N)
  BY <1>5 DEF KahnSteps, KahnStart
<1> QED BY <1>1, <1>2, <1>6

(* What is pending has only predecessors that were visited. *)
KahnInv(m, s) ==
    /\ IsSequence(s.pending) /\ IsSequence(s.sorted)
    /\ \A g \in ToSet(s.pending) : g = INITIAL \/ incoming(m, g) \subseteq s.visited

LEMMA HeadTail ==
  ASSUME NEW s, IsSequence(s), s # <<>>
  PROVE  Head(s) \in ToSet(s) /\ IsSequence(Tail(s)) /\ ToSet(Tail(s)) \subseteq ToSet(s)
<1> DEFINE S == ToSet(s)
<1>1. s \in Seq(S)
  BY DEF IsSequence
<1> HIDE DEF S
<1>2. Head(s) \in S /\ Tail(s) \in Seq(S)
  BY <1>1
<1>3. IsSequence(Tail(s)) /\ ToSet(Tail(s)) \subseteq S
  BY <1>2, SequenceType
<1> QED BY <1>2, <1>3 DEF S

LEMMA KahnStep ==
  ASSUME NEW m, IsFiniteSet(m.structure), NEW s, KahnInv(m, s)
  PROVE  LET t == Kahn(m, s)
         IN  /\ KahnInv(m, t) /\ s.visited \subseteq t.visited
             /\ \A l \in t.visited \ s.visited :
                   l \in m.structure /\ (l.source = INITIAL \/ incoming(m, l.source) \subseteq s.visited)
<1> DEFINE t == Kahn(m, s)
<1>1. CASE s.pending = <<>>
  BY <1>1 DEF Kahn
<1>2. CASE s.pending # <<>>
  <2> DEFINE f == Head(s.pending)
             seen == s.visited \cup outgoing(m, f)
             ready == {g \in {l.target : l \in outgoing(m, f)} : incoming(m, g) \subseteq seen}
  <2>1. t = [pending |-> Tail(s.pending) \o InAnyOrder(ready), sorted |-> Append(s.sorted, f), visited |-> seen]
    BY <1>2 DEF Kahn
  <2>2. /\ f \in ToSet(s.pending) /\ IsSequence(Tail(s.pending)) /\ ToSet(Tail(s.pending)) \subseteq ToSet(s.pending)
        /\ IsSequence(s.sorted)
    BY <1>2, HeadTail DEF KahnInv
  <2>3. IsFiniteSet(ready)
    <3> DEFINE O == outgoing(m, f)
    <3>1. IsFiniteSet(O)
      BY FS_Subset DEF outgoing
    <3> HIDE DEF O
    <3>2. IsFiniteSet({l.target : l \in O})
      BY <3>1, LinkImages
    <3> QED BY <3>2, FS_Subset DEF O
  <2>4. \A g \in ready : incoming(m, g) \subseteq seen
    OBVIOUS
  <2>5. s.visited \subseteq seen /\ \A l \in seen \ s.visited : l \in m.structure /\ l.source = f
    BY DEF outgoing
  <2>6. f = INITIAL \/ incoming(m, f) \subseteq s.visited
    BY <2>2 DEF KahnInv
  <2> HIDE DEF t, f, seen, ready
  <2>7. IsSequence(InAnyOrder(ready)) /\ ToSet(InAnyOrder(ready)) = ready
    BY <2>3, InAnyOrderLists DEF Lists
  <2> DEFINE q == Tail(s.pending) \o InAnyOrder(ready)
  <2>8. IsSequence(q) /\ ToSet(q) \subseteq ToSet(s.pending) \cup ready
    BY <2>2, <2>7, SequenceConcat
  <2>9. IsSequence(Append(s.sorted, f))
    BY <2>2, SequenceAppend
  <2>10. t.pending = q /\ t.sorted = Append(s.sorted, f) /\ t.visited = seen
    BY <2>1
  <2> HIDE DEF q
  <2>11. \A g \in ToSet(q) : g = INITIAL \/ incoming(m, g) \subseteq seen
    BY <2>4, <2>5, <2>8 DEF KahnInv
  <2>12. KahnInv(m, t)
    BY <2>8, <2>9, <2>10, <2>11 DEF KahnInv
  <2>13. s.visited \subseteq t.visited
    BY <2>5, <2>10
  <2>14. \A l \in t.visited \ s.visited :
            l \in m.structure /\ (l.source = INITIAL \/ incoming(m, l.source) \subseteq s.visited)
    BY <2>5, <2>6, <2>10
  <2> QED BY <2>12, <2>13, <2>14 DEF t
<1> QED BY <1>1, <1>2

(* A sorting that has visited all links ranks them, and is a sequence. *)
LEMMA SortedRank ==
  ASSUME NEW m, IsFiniteSet(m.structure), \A l \in m.structure : l.target # INITIAL,
         topological_sorting(m).visited = m.structure
  PROVE  IsSequence(topological_sorting(m).sorted) /\ \E rank : Ranked(m, rank)
<1>1. PICK N \in Nat : \E h : KahnSteps(m, h, N) /\ topological_sorting(m) = h[N]
  BY Sorting
<1>2. PICK h : KahnSteps(m, h, N) /\ topological_sorting(m) = h[N]
  BY <1>1
<1>3. ASSUME NEW n \in 0 .. N PROVE h[n] = IF n = 0 THEN KahnStart ELSE Kahn(m, h[n - 1])
  BY <1>2 DEF KahnSteps
<1> DEFINE T == {n \in Nat : n <= N => KahnInv(m, h[n])}
<1>4. 0 \in T
  <2>1. h[0] = KahnStart
    <3>1. 0 \in 0 .. N
      OBVIOUS
    <3> QED BY <1>3, <3>1
  <2>2. KahnInv(m, KahnStart)
    <3>1. KahnStart.pending = <<INITIAL>> /\ KahnStart.sorted = <<>>
      BY DEF KahnStart
    <3> QED BY <3>1, Singleton, EmptySequence DEF KahnInv
  <2> QED BY <2>1, <2>2
<1>5. ASSUME NEW n \in Nat, n \in T PROVE n + 1 \in T
  <2> SUFFICES ASSUME n + 1 <= N PROVE KahnInv(m, h[n + 1])
    OBVIOUS
  <2>1. KahnInv(m, h[n]) /\ n + 1 \in 0 .. N /\ n + 1 # 0 /\ (n + 1) - 1 = n
    BY <1>5
  <2>2. h[n + 1] = Kahn(m, h[n])
    BY <1>3, <2>1
  <2> QED BY <2>1, <2>2, KahnStep
<1>6. \A n \in 0 .. N : KahnInv(m, h[n])
  <2>1. \A n \in Nat : n \in T
    <3> HIDE DEF T
    <3> QED BY <1>4, <1>5, InductiveSet
  <2> QED BY <2>1
<1>7. ASSUME NEW n \in 1 .. N
      PROVE  \A l \in h[n].visited \ h[n - 1].visited :
                 l.source = INITIAL \/ incoming(m, l.source) \subseteq h[n - 1].visited
  <2>1. n - 1 \in 0 .. N /\ n \in 0 .. N /\ n # 0
    OBVIOUS
  <2>2. h[n] = Kahn(m, h[n - 1]) /\ KahnInv(m, h[n - 1])
    BY <1>3, <1>6, <2>1
  <2> QED BY <2>2, KahnStep
<1>8. h[0].visited = {}
  <2>1. 0 \in 0 .. N
    OBVIOUS
  <2>2. h[0] = KahnStart
    BY <1>3, <2>1
  <2> QED BY <2>2 DEF KahnStart
<1> DEFINE At(l) == {n \in 0 .. N : l \in h[n].visited}
           least(l) == CHOOSE n \in At(l) : \A k \in At(l) : n <= k
           rank == [l \in m.structure |-> least(l)]
<1>9. ASSUME NEW l \in m.structure PROVE least(l) \in At(l) /\ \A k \in At(l) : least(l) <= k
  <2> DEFINE A == At(l)
  <2>1. N \in A
    BY <1>2
  <2>2. A \subseteq Nat /\ A # {}
    BY <2>1
  <2> HIDE DEF A
  <2>3. \E n \in A : \A k \in A : n <= k
    BY <2>2, LeastNatural
  <2> DEFINE x == CHOOSE n \in A : \A k \in A : n <= k
  <2>4. x \in A /\ \A k \in A : x <= k
    BY <2>3
  <2> QED BY <2>4 DEF A
<1> HIDE DEF least
<1>10. \A l \in m.structure : rank[l] = least(l) /\ rank[l] \in 0 .. N /\ l \in h[rank[l]].visited
  <2> TAKE l \in m.structure
  <2>1. rank[l] = least(l)
    OBVIOUS
  <2> HIDE DEF rank
  <2>2. least(l) \in At(l)
    BY <1>9
  <2> QED BY <2>1, <2>2
<1>11. rank \in [m.structure -> Nat]
  <2>1. rank = [l \in m.structure |-> rank[l]]
    OBVIOUS
  <2>2. \A l \in m.structure : rank[l] \in Nat
    <3> HIDE DEF rank
    <3> QED BY <1>10
  <2> HIDE DEF rank
  <2> QED BY <2>1, <2>2
<1>12. ASSUME NEW k \in m.structure, NEW l \in m.structure, k.target = l.source PROVE rank[k] < rank[l]
  <2> DEFINE n == rank[l]
  <2>1. n \in 0 .. N /\ l \in h[n].visited /\ n # 0
    BY <1>8, <1>10
  <2>2. n \in 1 .. N /\ n - 1 \in 0 .. N
    BY <2>1
  <2>3. l \notin h[n - 1].visited
    <3>1. SUFFICES ASSUME l \in h[n - 1].visited PROVE FALSE
      OBVIOUS
    <3>2. n - 1 \in At(l)
      BY <2>2, <3>1
    <3>3. n <= n - 1
      BY <1>9, <1>10, <3>2
    <3> QED BY <2>1, <3>3
  <2> HIDE DEF n
  <2>4. l.source # INITIAL
    BY <1>12
  <2>5. incoming(m, l.source) \subseteq h[n - 1].visited
    BY <1>7, <2>1, <2>2, <2>3, <2>4
  <2>6. k \in h[n - 1].visited
    BY <1>12, <2>5 DEF incoming
  <2>7. n - 1 \in At(k)
    BY <2>2, <2>6
  <2>8. rank[k] <= n - 1
    BY <1>9, <1>10, <2>7
  <2>9. rank[k] \in Nat /\ n \in Nat
    BY <1>10, <2>1
  <2> HIDE DEF rank
  <2> QED BY <2>8, <2>9 DEF n
<1> HIDE DEF rank
<1>13. Ranked(m, rank)
  BY <1>11, <1>12 DEF Ranked
<1>14. IsSequence(topological_sorting(m).sorted)
  <2>1. N \in 0 .. N
    OBVIOUS
  <2> QED BY <1>2, <1>6, <2>1 DEF KahnInv
<1> QED BY <1>13, <1>14

(* A message that passed the validation: no inner messages are left, all fields
   have types, only the first field of a path starts without a predecessor,
   fields of implicit size come last, and the links have a topological order. *)
Sound(m) ==
    /\ WellFormed(m) /\ \A f \in DOMAIN m.types : m.types[f].kind # "message"
    /\ \A l \in m.structure : l.source \in DOMAIN m.types \cup {INITIAL} /\ l.target \in DOMAIN m.types \cup {FINAL}
    /\ \A l \in m.structure : l.source = INITIAL => l.first = Undefined
    /\ \A l \in m.structure : \A n \in m.structure : l.size = Implicit /\ n.source = l.target => n.target = FINAL
    /\ \A l \in m.structure : l.source = INITIAL \/ \E k \in m.structure : k.target = l.source
    /\ \E rank : Ranked(m, rank)

LEMMA LinkEnds ==
  ASSUME NEW l, IsLink(l) PROVE l.source # FINAL /\ l.target # INITIAL /\ INITIAL # FINAL
<1>1. INITIAL # FINAL
  <2>1. INITIAL[1] = "Initial" /\ FINAL[1] = "Final"
    BY DEF INITIAL, FINAL
  <2> QED BY <2>1
<1> QED BY <1>1 DEF IsLink

LEMMA ValidatedSound ==
  ASSUME NEW m, WellFormed(m), MessageFields(m) = <<>>, Validation(m),
         NEW P, NEW M, M = [normalize(m) EXCEPT !.parameters = P]
  PROVE  Sound(M)
<1> DEFINE L == m.structure
           K == M.structure
           N == normalize(m)
<1>1. /\ K = {Normalized(m, l) : l \in L} /\ M.types = m.types /\ N.structure = K
  BY NormalizeStructure
<1>2. WellFormed(M)
  BY NormalizeWellFormed
<1>3. \A l \in L : IsLink(l)
  BY DEF WellFormed
<1>4. ASSUME NEW k \in K
      PROVE  \E l \in L : /\ k = Normalized(m, l) /\ IsLink(k) /\ k.source = l.source /\ k.target = l.target
                          /\ k.first = l.first
  <2>1. PICK l \in L : k = Normalized(m, l)
    BY <1>1
  <2>2. IsLink(k) /\ k.source = l.source /\ k.target = l.target /\ k.first = l.first
    BY <1>3, <2>1, NormalizedLink
  <2> QED BY <2>1, <2>2
<1>5. ASSUME NEW l \in L
      PROVE  \E k \in K : k.source = l.source /\ k.target = l.target
  BY <1>1, <1>3, NormalizedLink
<1>6. /\ MissingTypes(m) = {} /\ InitialFirsts(m) = {} /\ unreachable_fields(m) = {}
      /\ ImplicitInside(m) = {} /\ ~Cyclic(N)
  BY DEF Validation
<1> HIDE DEF L, K, N
<1>7. \A f \in DOMAIN M.types : M.types[f].kind # "message"
  BY <1>1, NoMessages
<1>8. ASSUME NEW l \in L
      PROVE  /\ l.source \in DOMAIN m.types \cup {INITIAL} /\ l.target \in DOMAIN m.types \cup {FINAL}
             /\ l.source = INITIAL \/ \E k \in L : k.target = l.source
             /\ l.source = INITIAL => l.first = Undefined
             /\ l.size = Implicit => \A n \in outgoing(m, l.target) : n.target = FINAL
  <2>1. l.source # FINAL /\ l.target # INITIAL
    BY <1>3, LinkEnds
  <2>2. l.source \in StructureFields(m) /\ l.target \in StructureFields(m)
    BY DEF StructureFields, L
  <2>3. l.source \in DOMAIN m.types \cup {INITIAL} /\ l.target \in DOMAIN m.types \cup {FINAL}
    BY <1>6, <2>1, <2>2 DEF MissingTypes
  <2>4. l.source = INITIAL \/ \E k \in L : k.target = l.source
    BY <1>6, <2>2 DEF unreachable_fields, L
  <2>5. l.source = INITIAL => l.first = Undefined
    BY <1>6 DEF InitialFirsts, outgoing, L
  <2>6. l.size = Implicit => \A n \in outgoing(m, l.target) : n.target = FINAL
    BY <1>6 DEF ImplicitInside, L
  <2> QED BY <2>3, <2>4, <2>5, <2>6
<1>9. ASSUME NEW k \in K
      PROVE  /\ k.source \in DOMAIN M.types \cup {INITIAL} /\ k.target \in DOMAIN M.types \cup {FINAL}
             /\ k.source = INITIAL => k.first = Undefined
             /\ k.source = INITIAL \/ \E n \in K : n.target = k.source
             /\ k.target # INITIAL
  <2>1. PICK l \in L : k.source = l.source /\ k.target = l.target /\ k.first = l.first /\ IsLink(k)
    BY <1>4
  <2>2. k.target # INITIAL
    BY <2>1, LinkEnds
  <2>3. l.source = INITIAL \/ \E x \in L : x.target = l.source
    BY <1>8
  <2>4. k.source = INITIAL \/ \E n \in K : n.target = k.source
    <3>1. ASSUME NEW x \in L, x.target = l.source PROVE \E n \in K : n.target = k.source
      <4>1. PICK n \in K : n.target = x.target
        BY <1>5
      <4> QED BY <2>1, <3>1, <4>1
    <3> QED BY <2>1, <2>3, <3>1
  <2> QED BY <1>1, <1>8, <2>1, <2>2, <2>4
<1>10. ASSUME NEW k \in K, NEW n \in K, k.size = Implicit, n.source = k.target PROVE n.target = FINAL
  <2>1. PICK l \in L : k = Normalized(m, l) /\ k.target = l.target
    BY <1>4
  <2>2. PICK o \in L : n.source = o.source /\ n.target = o.target
    BY <1>4
  <2>3. o \in outgoing(m, l.target)
    BY <1>10, <2>1, <2>2 DEF outgoing, L
  <2>4. CASE l.size = Implicit
    BY <1>8, <2>2, <2>3, <2>4
  <2>5. CASE l.size # Implicit
    <3>1. \A x \in outgoing(m, l.target) : x.target = FINAL
      BY <1>10, <2>1, <2>5 DEF Normalized
    <3> QED BY <2>2, <2>3, <3>1
  <2> QED BY <2>4, <2>5
<1>11. \E rank : Ranked(M, rank)
  <2>1. unreachable_fields(N) = {}
    <3>1. \A f \in StructureFields(N) : f = INITIAL \/ \E n \in K : n.target = f
      BY <1>1, <1>9 DEF StructureFields
    <3> QED BY <1>1, <3>1 DEF unreachable_fields
  <2>2. topological_sorting(N).visited = N.structure
    BY <1>6, <2>1 DEF Cyclic
  <2>3. IsFiniteSet(N.structure) /\ \A l \in N.structure : l.target # INITIAL
    BY <1>1, <1>2, <1>9 DEF WellFormed, K
  <2>4. PICK rank : Ranked(N, rank)
    BY <2>2, <2>3, SortedRank
  <2>5. Ranked(M, rank)
    BY <1>1, <2>4 DEF Ranked, K
  <2> QED BY <2>5
<1>12. /\ \A l \in K : l.source \in DOMAIN M.types \cup {INITIAL} /\ l.target \in DOMAIN M.types \cup {FINAL}
       /\ \A l \in K : l.source = INITIAL => l.first = Undefined
       /\ \A l \in K : \A n \in K : l.size = Implicit /\ n.source = l.target => n.target = FINAL
       /\ \A l \in K : l.source = INITIAL \/ \E k \in K : k.target = l.source
  BY <1>9, <1>10
<1> QED BY <1>2, <1>7, <1>11, <1>12 DEF Sound, K

(* The fields of m in some order. *)
AreFields(s, m) ==
    IsSequence(s) /\ \A f \in ToSet(s) : f \notin {INITIAL, FINAL} /\ \E l \in m.structure : l.target = f

LEMMA SortedFields ==
  ASSUME NEW m, WellFormed(m), MessageFields(m) = <<>>, Validation(m),
         NEW P, NEW M, M = [normalize(m) EXCEPT !.parameters = P]
  PROVE  AreFields(Sorted(m), M)
<1> DEFINE K == M.structure
           N == normalize(m)
           S == StructureFields(N) \ {INITIAL, FINAL}
<1>1. N.structure = K
  BY NormalizeStructure
<1>2. Sound(M)
  BY ValidatedSound
<1>3. IsFiniteSet(K) /\ \A l \in K : IsLink(l)
  BY <1>2 DEF Sound, WellFormed
<1>4. \A l \in K : l.target # INITIAL
  BY <1>3, LinkEnds
<1>5. \A l \in K : l.source = INITIAL \/ \E k \in K : k.target = l.source
  BY <1>2 DEF Sound
<1>6. ~Cyclic(N)
  BY DEF Validation
<1>7. Sorted(m) = Kept(topological_sorting(N).sorted, S)
  BY DEF Sorted
<1> HIDE DEF K, N
<1>8. \A f \in StructureFields(N) : f = INITIAL \/ \E n \in K : n.target = f
  BY <1>1, <1>5 DEF StructureFields
<1>9. unreachable_fields(N) = {}
  BY <1>1, <1>8 DEF unreachable_fields
<1>10. topological_sorting(N).visited = N.structure
  BY <1>6, <1>9 DEF Cyclic
<1>11. IsSequence(topological_sorting(N).sorted)
  BY <1>1, <1>3, <1>4, <1>10, SortedRank
<1>12. IsSequence(Sorted(m)) /\ ToSet(Sorted(m)) \subseteq S
  BY <1>7, <1>11, KeptElements
<1>13. \A f \in S : f \notin {INITIAL, FINAL} /\ \E l \in K : l.target = f
  BY <1>8
<1> HIDE DEF S
<1> QED BY <1>12, <1>13 DEF K, AreFields

(* No proof about the message reported an error, though the solver may have given up. *)
Clean(m, valid) == \A j \in MessageJobs(m, valid) : \E r \in {j.result, "UNKNOWN"} : ~HasErrors(j.errors[r])

(* What is known of the message, and of how the check goes on. *)
MessageInv ==
    /\ phase \in Validated => Sound(message) /\ AreFields(fields, message)
    /\ phase \in Validated \ {"verify"} => VerifyOK(message)
    /\ phase \in Decided => \A p \in valid_paths : Possible(message, p)
    /\ phase = "proofs" => proofs = message_proofs(message, valid_paths)
    /\ phase = "outgoing" => HasErrors(error) \/ Clean(message, valid_paths)
    /\ phase = "accepted" => ~HasErrors(error) /\ Clean(message, valid_paths)
    /\ phase = "crashed" => \E p \in AllPaths(message) : ~Continued(p) /\ Continues(p)

LEMMA CleanProofs ==
  ASSUME BaseInv, phase = "proofs", ProofsDone, proofs = message_proofs(message, valid_paths), ~HasErrors(error)
  PROVE  Clean(message, valid_paths)
<1> DEFINE q == Entries(collected)
<1>1. PoolInv /\ error = FlattenSeq(q) /\ IsFiniteSet(message.structure) /\ valid_paths \subseteq AllPaths(message)
  BY DEF BaseInv, Validated, WellFormed, Decided
<1>2. IsSequence(q) /\ (\A x \in ToSet(q) : IsSequence(x))
  BY <1>1, EntriesSequence
<1>3. /\ Len(proofs) \in Nat /\ DOMAIN proofs = 1 .. Len(proofs) /\ collected = Len(proofs)
  BY <1>1, PoolFacts DEF ProofsDone
<1>4. Lists(proofs, MessageJobs(message, valid_paths))
  <2>1. IsFiniteSet(valid_paths)
    BY <1>1, AllPathsMember, FS_Subset
  <2> QED BY <1>1, <2>1, MessageProofs
<1>5. ASSUME NEW j \in MessageJobs(message, valid_paths)
      PROVE  \E r \in {j.result, "UNKNOWN"} : ~HasErrors(j.errors[r])
  <2>1. PICK i \in 1 .. Len(proofs) : proofs[i] = j
    BY <1>3, <1>4 DEF Lists, ToSet
  <2>2. results[i] # None /\ results[i] \in {None, j.result, "UNKNOWN"}
    BY <1>1, <1>3, <2>1 DEF PoolInv
  <2> DEFINE r == results[i]
             x == j.errors[r]
  <2>3. r \in {j.result, "UNKNOWN"}
    BY <2>2
  <2>4. DOMAIN q = 1 .. collected /\ q[i] = x
    BY <1>3, <2>1, <2>2 DEF Entries
  <2> HIDE DEF q, x, r
  <2>5. x \in ToSet(q)
    BY <1>3, <2>1, <2>4 DEF ToSet
  <2>6. ToSet(FlattenSeq(q)) = UNION {ToSet(y) : y \in ToSet(q)}
    BY <1>2, FlattenElements
  <2>7. ToSet(x) \subseteq ToSet(error)
    BY <1>1, <2>5, <2>6
  <2>8. ~HasErrors(x)
    BY <2>7, ErrorsAmong
  <2> QED BY <2>3, <2>8 DEF x
<1> QED BY <1>5 DEF Clean

LEMMA MessageInit == ASSUME Init PROVE MessageInv
BY DEF Init, MessageInv, Validated, Decided

LEMMA MergeMessage == ASSUME BaseInv, MessageInv, Merge PROVE MessageInv'
<1>1. phase' \in {"merge", "rejected"}
  BY MergeBase
<1> QED BY <1>1 DEF MessageInv, Validated, Decided

LEMMA ValidateMessage == ASSUME BaseInv, MessageInv, Validate PROVE MessageInv'
<1>1. /\ WellFormed(message) /\ MessageFields(message) = <<>>
      /\ phase' \in {"verify", "rejected"}
      /\ phase' = "verify" =>
             /\ Validation(message) /\ fields' = Sorted(message)
             /\ message' = [normalize(message) EXCEPT !.parameters = DOMAIN normalize(message).types
                                                                        \ ToSet(Sorted(message))]
  BY ValidateEffect
<1>2. CASE phase' = "verify"
  <2> DEFINE P == DOMAIN normalize(message).types \ ToSet(Sorted(message))
  <2>1. PICK M : M = message'
    OBVIOUS
  <2>2. M = [normalize(message) EXCEPT !.parameters = P] /\ Validation(message) /\ fields' = Sorted(message)
    BY <1>1, <1>2, <2>1
  <2> HIDE DEF P
  <2>4. Sound(M)
    BY <1>1, <2>2, ValidatedSound
  <2>3. AreFields(Sorted(message), M)
    BY <1>1, <2>2, SortedFields
  <2> QED BY <1>2, <2>1, <2>2, <2>3, <2>4 DEF MessageInv, Validated, Decided
<1>3. CASE phase' = "rejected"
  BY <1>3 DEF MessageInv, Validated, Decided
<1> QED BY <1>1, <1>2, <1>3

LEMMA VerifyMessage == ASSUME BaseInv, MessageInv, Verify PROVE MessageInv'
<1>1. /\ phase = "verify" /\ phase' \in {"paths", "rejected"}
      /\ phase' = "paths" => VerifyOK(message)
  BY VerifyEffect
<1>2. UNCHANGED <<message, fields>>
  BY DEF Verify
<1> QED BY <1>1, <1>2 DEF MessageInv, Validated, Decided

LEMMA ProveMessage == ASSUME BaseInv, MessageInv, Prove PROVE MessageInv'
<1>1. /\ phase \in {"paths", "proofs"} /\ PoolStep
      /\ UNCHANGED <<phase, message, declaration, fields, valid_paths, todo, unreachable>>
  BY DEF Prove
<1>2. UNCHANGED proofs
  BY <1>1 DEF PoolStep, TakeJob, CheckProof, Collect
<1> QED BY <1>1, <1>2 DEF MessageInv, Validated, Decided

LEMMA DetermineMessage == ASSUME BaseInv, MessageInv, DetermineValidPaths PROVE MessageInv'
<1>1. /\ phase = "paths" /\ phase' \in {"proofs", "rejected"}
      /\ UNCHANGED <<message, declaration, fields, todo, unreachable>> /\ valid_paths' = ValidPaths
      /\ phase' = "proofs" => proofs' = message_proofs(message, valid_paths')
  BY DetermineEffect
<1>2. \A p \in valid_paths' : Possible(message, p)
  BY <1>1, ValidPathsAre
<1> QED BY <1>1, <1>2 DEF MessageInv, Validated, Decided

LEMMA CheckedMessage == ASSUME BaseInv, MessageInv, ProofsChecked PROVE MessageInv'
<1>1. /\ phase = "proofs" /\ phase' = "outgoing" /\ ProofsDone
      /\ UNCHANGED <<error, message, declaration, fields, valid_paths, unreachable>>
  BY DEF ProofsChecked
<1>2. HasErrors(error) \/ Clean(message, valid_paths)
  BY <1>1, CleanProofs DEF MessageInv
<1> QED BY <1>1, <1>2 DEF MessageInv, Validated, Decided

LEMMA OutgoingErrors ==
  ASSUME BaseInv, CheckOutgoing
  PROVE  /\ phase = "outgoing" /\ phase' \in {"outgoing", "crashed"}
         /\ UNCHANGED <<message, declaration, fields, valid_paths>>
         /\ HasErrors(error) => HasErrors(error')
         /\ phase' = "crashed" => \E p \in AllPaths(message) : ~Continued(p) /\ Continues(p)
<1> DEFINE f == Head(todo)
           seen == {p \in paths(message, f) : ~\E q \in unreachable : Extends(p, q)}
           dead == {p \in seen : ~Continued(p)}
           added == [i \in 1 .. Cardinality(seen) |-> Error("no_satisfiable_condition", f)]
<1>1. /\ phase = "outgoing" /\ UNCHANGED <<message, declaration, fields, valid_paths>>
      /\ phase' \in {"outgoing", "crashed"}
      /\ error' = error \/ error' = error \o added
  BY DEF CheckOutgoing
<1>2. IsSequence(error) /\ IsFiniteSet(message.structure)
  BY <1>1 DEF BaseInv, Validated, WellFormed
<1>3. IsSequence(added)
  <2>1. IsFiniteSet(seen)
    BY <1>2, AllPathsMember, FS_Subset DEF paths
  <2> DEFINE n == Cardinality(seen)
             e == Error("no_satisfiable_condition", f)
  <2>2. added = [i \in 1 .. n |-> e] /\ n \in Nat
    BY <2>1, FS_CardinalityType
  <2> HIDE DEF added, n, e
  <2>3. added \in Seq({e})
    BY <2>2
  <2> QED BY <2>3, SequenceType
<1>4. phase' = "crashed" => \E p \in AllPaths(message) : ~Continued(p) /\ Continues(p)
  <2> SUFFICES ASSUME phase' = "crashed" PROVE \E p \in AllPaths(message) : ~Continued(p) /\ Continues(p)
    OBVIOUS
  <2>1. PICK visited \in (IF dead = seen THEN {dead} ELSE SUBSET dead) : \E p \in visited : Continues(p)
    BY <1>1 DEF CheckOutgoing
  <2>2. PICK p \in visited : Continues(p)
    BY <2>1
  <2>3. visited \subseteq dead
    BY <2>1
  <2> QED BY <2>2, <2>3 DEF paths
<1> HIDE DEF added
<1> QED BY <1>1, <1>2, <1>3, <1>4, ErrorsConcat

LEMMA OutgoingMessage == ASSUME BaseInv, MessageInv, CheckOutgoing PROVE MessageInv'
<1>1. /\ phase = "outgoing" /\ phase' \in {"outgoing", "crashed"}
      /\ UNCHANGED <<message, declaration, fields, valid_paths>>
      /\ HasErrors(error) => HasErrors(error')
      /\ phase' = "crashed" => \E p \in AllPaths(message) : ~Continued(p) /\ Continues(p)
  BY OutgoingErrors
<1>2. \A p : Continued(p)' <=> Continued(p)
  BY <1>1 DEF Continued
<1>3. \A p : Continues(p)' <=> Continues(p)
  BY <1>1 DEF Continues
<1> QED BY <1>1, <1>2, <1>3 DEF MessageInv, Validated, Decided

LEMMA FinishMessage == ASSUME BaseInv, MessageInv, Finish PROVE MessageInv'
<1>1. /\ phase = "outgoing" /\ Propagate(<<>>, "accepted")
      /\ UNCHANGED <<message, declaration, fields, valid_paths, todo, unreachable>>
  BY DEF Finish
<1>2. IsSequence(error)
  BY <1>1 DEF BaseInv
<1>3. error' = error /\ phase' = IF HasErrors(error) THEN "rejected" ELSE "accepted"
  BY <1>1, <1>2, EmptyConcat DEF Propagate
<1> QED BY <1>1, <1>3 DEF MessageInv, Validated, Decided

LEMMA StutterMessage == ASSUME MessageInv, UNCHANGED vars PROVE MessageInv'
<1>1. UNCHANGED <<phase, message, fields, valid_paths, error, proofs>>
  BY DEF vars, poolVars
<1>2. \A p : Continued(p)' <=> Continued(p)
  BY <1>1 DEF Continued
<1>3. \A p : Continues(p)' <=> Continues(p)
  BY <1>1 DEF Continues
<1> QED BY <1>1, <1>2, <1>3 DEF MessageInv

LEMMA MessageStep == ASSUME BaseInv, MessageInv, [Next \/ Ended]_vars PROVE MessageInv'
<1>1. CASE Merge
  BY <1>1, MergeMessage
<1>2. CASE Validate
  BY <1>2, ValidateMessage
<1>3. CASE Verify
  BY <1>3, VerifyMessage
<1>4. CASE Prove
  BY <1>4, ProveMessage
<1>5. CASE DetermineValidPaths
  BY <1>5, DetermineMessage
<1>6. CASE ProofsChecked
  BY <1>6, CheckedMessage
<1>7. CASE CheckOutgoing
  BY <1>7, OutgoingMessage
<1>8. CASE Finish
  BY <1>8, FinishMessage
<1>9. CASE UNCHANGED vars
  BY <1>9, StutterMessage
<1> QED BY <1>1, <1>2, <1>3, <1>4, <1>5, <1>6, <1>7, <1>8, <1>9 DEF Next, Ended

LEMMA MessageInvariant == Spec => [](BaseInv /\ MessageInv)
<1>1. Init => MessageInv
  BY MessageInit
<1>2. BaseInv /\ MessageInv /\ [Next \/ Ended]_vars => MessageInv'
  BY MessageStep
<1> QED BY <1>1, <1>2, BaseInvariant, PTL DEF Spec

LEMMA ChainRank ==
  ASSUME NEW m, NEW rank, Ranked(m, rank), NEW p, Chain(m, p), NEW i \in 1 .. Len(p), NEW j \in 1 .. Len(p), i < j
  PROVE  rank[p[i]] < rank[p[j]]
<1>1. Len(p) \in Nat /\ \A k \in 1 .. Len(p) : p[k] \in m.structure /\ rank[p[k]] \in Nat
  BY DEF Chain, Ranked
<1> DEFINE T == {n \in Nat : i + 1 + n <= Len(p) => rank[p[i]] < rank[p[i + 1 + n]]}
<1>2. ASSUME NEW k \in 1 .. Len(p), k + 1 <= Len(p) PROVE rank[p[k]] < rank[p[k + 1]]
  <2>1. k \in 1 .. Len(p) - 1 /\ k + 1 \in 1 .. Len(p)
    BY <1>1, <1>2
  <2>2. p[k].target = p[k + 1].source
    BY <2>1 DEF Chain
  <2> QED BY <1>1, <2>1, <2>2 DEF Ranked
<1>3. 0 \in T
  BY <1>1, <1>2
<1>4. ASSUME NEW n \in Nat, n \in T PROVE n + 1 \in T
  <2> SUFFICES ASSUME i + 1 + (n + 1) <= Len(p) PROVE rank[p[i]] < rank[p[i + 1 + (n + 1)]]
    OBVIOUS
  <2> DEFINE k == i + 1 + n
  <2>1. k \in 1 .. Len(p) /\ k + 1 <= Len(p) /\ i + 1 + (n + 1) = k + 1 /\ k + 1 \in 1 .. Len(p)
    BY <1>1
  <2>2. rank[p[i]] < rank[p[k]]
    BY <1>4, <2>1
  <2> HIDE DEF k
  <2>3. rank[p[k]] < rank[p[k + 1]]
    BY <1>2, <2>1
  <2> QED BY <1>1, <2>1, <2>2, <2>3
<1>5. \A n \in Nat : n \in T
  <2> HIDE DEF T
  <2> QED BY <1>3, <1>4, InductiveSet
<1>6. PICK n \in Nat : i + 1 + n = j
  <2>1. j - (i + 1) \in Nat /\ i + 1 + (j - (i + 1)) = j
    OBVIOUS
  <2> QED BY <2>1
<1>7. n \in T /\ j <= Len(p)
  BY <1>1, <1>5
<1> QED BY <1>6, <1>7

(* No field comes twice on a path. *)
LEMMA ChainTargets ==
  ASSUME NEW m, Sound(m), NEW p, Chain(m, p), NEW i \in 1 .. Len(p), NEW j \in 1 .. Len(p), p[i].target = p[j].target
  PROVE  i = j
<1>1. PICK rank : Ranked(m, rank)
  BY DEF Sound
<1>2. Len(p) \in Nat /\ \A k \in 1 .. Len(p) : p[k] \in m.structure /\ rank[p[k]] \in Nat
  BY <1>1 DEF Chain, Ranked
<1>3. ASSUME NEW x \in 1 .. Len(p), NEW y \in 1 .. Len(p), p[x].target = p[y].target, x < y PROVE FALSE
  <2>1. x \in 1 .. Len(p) - 1 /\ x + 1 \in 1 .. Len(p) /\ (x + 1 = y \/ x + 1 < y)
    BY <1>2, <1>3
  <2>2. p[x + 1].source = p[x].target
    BY <2>1 DEF Chain
  <2>3. rank[p[y]] < rank[p[x + 1]]
    BY <1>1, <1>2, <1>3, <2>1, <2>2 DEF Ranked
  <2>4. CASE x + 1 = y
    BY <1>2, <2>1, <2>3, <2>4
  <2>5. CASE x + 1 < y
    <3>1. rank[p[x + 1]] < rank[p[y]]
      BY <1>1, <2>1, <2>5, ChainRank
    <3> QED BY <1>2, <2>1, <2>3, <3>1
  <2> QED BY <2>1, <2>4, <2>5
<1>4. i < j \/ j < i \/ i = j
  BY <1>2
<1> QED BY <1>3, <1>4

(* All chains are paths. *)
LEMMA ChainLength ==
  ASSUME NEW m, Sound(m), NEW p, Chain(m, p)
  PROVE  Len(p) <= Cardinality(m.structure) /\ p \in AllPaths(m)
<1>1. IsFiniteSet(m.structure)
  BY DEF Sound, WellFormed
<1>2. p \in [1 .. Len(p) -> m.structure] /\ Len(p) \in Nat /\ Len(p) >= 1
  BY SequenceFunction DEF Chain
<1>3. Cardinality(m.structure) \in Nat
  BY <1>1, FS_CardinalityType
<1>4. IsFiniteSet(1 .. Len(p)) /\ Cardinality(1 .. Len(p)) = Len(p)
  BY <1>2, FS_Interval
<1>5. ASSUME Cardinality(m.structure) < Len(p) PROVE FALSE
  <2> DEFINE S == 1 .. Len(p)
             n == Len(p)
  <2>1. IsFiniteSet(S) /\ Cardinality(m.structure) < Cardinality(S) /\ p \in [S -> m.structure]
    BY <1>2, <1>4, <1>5
  <2> HIDE DEF S
  <2>2. \E x, y \in S : x # y /\ p[x] = p[y]
    BY <1>1, <2>1, FS_PigeonHole
  <2>3. PICK x \in S : \E y \in S : x # y /\ p[x] = p[y]
    BY <2>2
  <2>4. PICK y \in S : x # y /\ p[x] = p[y]
    BY <2>3
  <2>5. x \in 1 .. Len(p) /\ y \in 1 .. Len(p) /\ p[x].target = p[y].target
    BY <2>4 DEF S
  <2> QED BY <2>4, <2>5, ChainTargets
<1>6. Len(p) <= Cardinality(m.structure)
  BY <1>2, <1>3, <1>5
<1>7. Len(p) <= Cardinality(m.structure) + 1
  BY <1>2, <1>3, <1>6
<1> QED BY <1>1, <1>6, <1>7, AllPathsMember

LEMMA PathFacts ==
  ASSUME NEW m, Sound(m), NEW p \in AllPaths(m)
  PROVE  Chain(m, p) /\ p \in Seq(m.structure) /\ Len(p) \in Nat /\ Len(p) >= 1 /\ Last(p) = p[Len(p)] /\ Last(p) \in m.structure
<1>1. IsFiniteSet(m.structure)
  BY DEF Sound, WellFormed
<1>2. Chain(m, p)
  BY <1>1, AllPathsMember
<1>3. p \in Seq(m.structure) /\ Len(p) \in Nat /\ Len(p) >= 1
  BY <1>2 DEF Chain
<1> QED BY <1>2, <1>3 DEF Last

LEMMA LongerPath ==
  ASSUME NEW m, Sound(m), NEW p \in AllPaths(m), NEW l \in outgoing(m, Last(p).target)
  PROVE  /\ Append(p, l) \in AllPaths(m) /\ Extends(Append(p, l), p) /\ Last(Append(p, l)) = l
<1>1. Chain(m, p) /\ p \in Seq(m.structure) /\ Len(p) \in Nat /\ Len(p) >= 1 /\ l \in m.structure
  BY PathFacts DEF outgoing
<1>2. Chain(m, Append(p, l)) /\ Len(Append(p, l)) = Len(p) + 1
  BY <1>1, ChainAppend
<1>3. SubSeq(Append(p, l), 1, Len(p)) = p
  BY <1>1
<1>4. Append(p, l)[Len(p) + 1] = l
  BY <1>1
<1> QED BY <1>1, <1>2, <1>3, <1>4, ChainLength DEF Extends, Last

(* The assertion of _prove_conditions_at_outgoing_links: a path that no valid path
   continues has no outgoing link whose condition can be true, unless the solver gave
   up on a path or the field behind the link never fits into the message.  The check
   ends with a failed assertion only then, for every message.                       *)
THEOREM AssertionJustified == Spec => []AssertionHolds
<1>1. BaseInv /\ MessageInv => AssertionHolds
  <2> SUFFICES ASSUME BaseInv, MessageInv, phase = "crashed", PathsDecided
               PROVE  \E p \in AllPaths(message) : \E l \in outgoing(message, Last(p).target) : NeverFits(message, p, l)
    BY DEF AssertionHolds
  <2>1. Sound(message) /\ \E p \in AllPaths(message) : ~Continued(p) /\ Continues(p)
    BY DEF MessageInv, Validated
  <2>2. PICK p \in AllPaths(message) : ~Continued(p) /\ Continues(p)
    BY <2>1
  <2>3. PICK l \in outgoing(message, Last(p).target) : CanBeTaken(message, p, l)
    BY <2>2 DEF Continues
  <2>4. Append(p, l) \in AllPaths(message) /\ Extends(Append(p, l), p)
    BY <2>1, LongerPath
  <2>5. Append(p, l) \notin valid_paths
    BY <2>2, <2>4 DEF Continued
  <2>6. ~Possible(message, Append(p, l))
    BY <2>4, <2>5 DEF PathsDecided
  <2> QED BY <2>3, <2>6 DEF NeverFits
<1> QED BY <1>1, MessageInvariant, PTL

(* What the solver or a parser knows of the variables are numbers. *)
Numeric(m, v) ==
    /\ v.values \in [Numbers(m) -> Int]
    /\ v.last \in Int /\ v.size \in Int /\ v.end \in Int /\ v.exact \in BOOLEAN

(* The attributes of the target of a link. *)
Entry(m, l, at, v) ==
    LET first == target_first(l, at)
        size == target_size(m, l, at, v)
        open == l.size = Implicit /\ ~v.exact
    IN  [first |-> first, size |-> IF open THEN v.size ELSE size, last |-> IF open THEN v.end ELSE first + size - 1]

IsEntry(e) == e = [first |-> e.first, size |-> e.size, last |-> e.last] /\ e.first \in Int /\ e.size \in Int /\ e.last \in Int

Origin == [first |-> 1, size |-> 0, last |-> 0]

(* The fields that have attributes on the first i links of p. *)
Reached(p, i) == {INITIAL} \cup {p[j].target : j \in 1 .. i}

(* The links of a message that was verified. *)
Verified(m) == Sound(m) /\ VerifyOK(m)

SizeKnown(m, l) ==
    \/ l.size = Implicit /\ l.target # FINAL
    \/ /\ l.size.kind = "value" /\ l.size.factor \in Int /\ l.size.offset \in Int
       /\ l.size.factor # 0 => l.size.of \in Numbers(m)
    \/ /\ l.size = Undefined
       /\ l.target # FINAL => m.types[l.target].size \in Int

LEMMA SizeKinds == Undefined.kind = "undefined" /\ Implicit.kind = "implicit"
BY DEF Undefined, Implicit

LEMMA VerifiedLink ==
  ASSUME NEW m, Verified(m), NEW l \in m.structure
  PROVE  /\ IsLink(l) /\ SizeKnown(m, l) /\ l.target # INITIAL /\ l.source # FINAL /\ l.source # l.target
         /\ l.first # Undefined => l.first.of = l.source /\ l.source # INITIAL
         /\ l.target # FINAL => l.target \in DOMAIN m.types /\ m.types[l.target].kind \in {"scalar", "opaque", "sequence"}
         /\ l.source = INITIAL => l.target # FINAL
<1>1. IsLink(l) /\ Sound(m) /\ VerifyOK(m)
  BY DEF Verified, Sound, WellFormed
<1>2. l.target # INITIAL /\ l.source # FINAL
  BY <1>1, LinkEnds
<1>3. l.source # l.target
  <2>1. PICK rank : Ranked(m, rank)
    BY <1>1 DEF Sound
  <2>2. rank[l] \in Nat
    BY <2>1 DEF Ranked
  <2> QED BY <2>1, <2>2 DEF Ranked
<1>4. l.first # Undefined => l.first.of = l.source /\ l.source # INITIAL
  <2>1. l.first \in {Undefined, First(l.source)}
    BY <1>1 DEF VerifyOK, OtherFirsts
  <2>2. l.source = INITIAL => l.first = Undefined
    BY <1>1 DEF Sound
  <2>3. First(l.source).of = l.source
    BY DEF First
  <2> QED BY <2>1, <2>2, <2>3
<1>5. l.target # FINAL => /\ l.target \in DOMAIN m.types /\ m.types[l.target].kind \in {"scalar", "opaque", "sequence"}
                          /\ m.types[l.target].kind = "scalar" => m.types[l.target].size \in Int
  <2> SUFFICES ASSUME l.target # FINAL
               PROVE  /\ l.target \in DOMAIN m.types /\ m.types[l.target].kind \in {"scalar", "opaque", "sequence"}
                      /\ m.types[l.target].kind = "scalar" => m.types[l.target].size \in Int
    OBVIOUS
  <2>1. l.target \in DOMAIN m.types /\ m.types[l.target].kind # "message"
    BY <1>1 DEF Sound
  <2>2. IsType(m.types[l.target])
    BY <1>1, <2>1 DEF Sound, WellFormed
  <2> QED BY <2>1, <2>2 DEF IsType, Composite
<1>6. l.source = INITIAL => l.target # FINAL
  BY <1>1 DEF VerifyOK, EmptyMessages
<1>7. IF l.target = FINAL THEN l.size = Undefined
      ELSE (l.size # Undefined) = (m.types[l.target].kind \in Composite)
  <2>1. WrongSizes(m) = {}
    BY <1>1 DEF VerifyOK
  <2>2. ~(IF l.target = FINAL THEN l.size # Undefined ELSE (l.size # Undefined) # (m.types[l.target].kind \in Composite))
    BY <2>1 DEF WrongSizes
  <2>3. CASE l.target = FINAL
    BY <2>2, <2>3
  <2>4. CASE l.target # FINAL
    BY <2>2, <2>4
  <2> QED BY <2>3, <2>4
<1>8. IsSize(l.size)
  BY <1>1 DEF IsLink
<1>9. Undefined # Implicit
  BY SizeKinds
<1>10. SizeKnown(m, l)
  <2>1. CASE l.size = Implicit
    BY <1>7, <1>9, <2>1 DEF SizeKnown
  <2>2. CASE l.size = Undefined
    BY <1>5, <1>7, <2>2 DEF SizeKnown, Composite
  <2>3. CASE l.size # Implicit /\ l.size # Undefined
    <3>1. l.size = Multiple(l.size.factor, l.size.of, l.size.offset) /\ l.size.factor \in Int /\ l.size.offset \in Int
      BY <1>8, <2>3 DEF IsSize
    <3>2. l.size.kind = "value"
      BY <3>1 DEF Multiple
    <3>3. l.size.factor # 0 => l.size.of \in Numbers(m)
      BY <3>2 DEF Numbers
    <3> QED BY <3>1, <3>2, <3>3 DEF SizeKnown
  <2> QED BY <2>1, <2>2, <2>3
<1> QED BY <1>1, <1>2, <1>3, <1>4, <1>5, <1>6, <1>10

LEMMA TargetSize ==
  ASSUME NEW m, NEW l, SizeKnown(m, l), NEW at, NEW v, Numeric(m, v), at[l.source].last \in Int
  PROVE  /\ target_size(m, l, at, v) \in Int
         /\ l.size = Implicit => target_size(m, l, at, v) = v.last - at[l.source].last
         /\ l.size = Undefined /\ l.target = FINAL => target_size(m, l, at, v) = 0
<1>1. v.last \in Int /\ v.values \in [Numbers(m) -> Int]
  BY DEF Numeric
<1>2. CASE l.size = Implicit
  <2>1. l.size.kind = "implicit" /\ l.size # Undefined
    BY <1>2, SizeKinds
  <2>2. target_size(m, l, at, v) = v.last - at[l.source].last
    BY <2>1 DEF target_size
  <2> QED BY <1>1, <2>1, <2>2
<1>3. CASE l.size = Undefined
  <2>1. l.size.kind = "undefined" /\ l.size # Implicit
    BY <1>3, SizeKinds
  <2>2. target_size(m, l, at, v) = IF l.target = FINAL THEN 0 ELSE m.types[l.target].size
    BY <2>1 DEF target_size
  <2>3. l.target # FINAL => m.types[l.target].size \in Int
    BY <2>1 DEF SizeKnown
  <2> QED BY <2>1, <2>2, <2>3
<1>4. CASE l.size.kind = "value"
  <2>1. l.size # Implicit /\ l.size # Undefined
    BY <1>4, SizeKinds
  <2>2. l.size.factor \in Int /\ l.size.offset \in Int /\ (l.size.factor # 0 => l.size.of \in Numbers(m))
    BY <2>1 DEF SizeKnown
  <2>3. target_size(m, l, at, v) =
            (IF l.size.factor = 0 THEN 0 ELSE l.size.factor * v.values[l.size.of]) + l.size.offset
    BY <1>4 DEF target_size
  <2>4. l.size.factor # 0 => v.values[l.size.of] \in Int
    BY <1>1, <2>2
  <2>5. CASE l.size.factor = 0
    BY <2>1, <2>2, <2>3, <2>5
  <2>6. CASE l.size.factor # 0
    <3> DEFINE x == v.values[l.size.of]
               y == l.size.factor
    <3>1. x \in Int /\ y \in Int /\ target_size(m, l, at, v) = (y * x) + l.size.offset
      BY <2>2, <2>3, <2>4, <2>6
    <3> HIDE DEF x, y
    <3>2. y * x \in Int
      BY <3>1
    <3> QED BY <2>1, <2>2, <3>1, <3>2
  <2> QED BY <2>5, <2>6
<1> QED BY <1>2, <1>3, <1>4 DEF SizeKnown

LEMMA EntryIs ==
  ASSUME NEW m, Verified(m), NEW l \in m.structure, NEW at, NEW v, Numeric(m, v), IsEntry(at[l.source])
  PROVE  /\ IsEntry(Entry(m, l, at, v)) /\ target_first(l, at) \in Int /\ target_size(m, l, at, v) \in Int
         /\ Entry(m, l, at, v).first = target_first(l, at)
         /\ ~(l.size = Implicit /\ ~v.exact) =>
               /\ Entry(m, l, at, v).size = target_size(m, l, at, v)
               /\ Entry(m, l, at, v).last = target_first(l, at) + target_size(m, l, at, v) - 1
         /\ l.size = Implicit /\ ~v.exact =>
               Entry(m, l, at, v).size = v.size /\ Entry(m, l, at, v).last = v.end
<1> DEFINE first == target_first(l, at)
           size == target_size(m, l, at, v)
           open == l.size = Implicit /\ ~v.exact
           e == Entry(m, l, at, v)
<1>1. IsLink(l) /\ SizeKnown(m, l) /\ (l.first # Undefined => l.first.of = l.source)
  BY VerifiedLink
<1>2. at[l.source].first \in Int /\ at[l.source].last \in Int
  BY DEF IsEntry
<1>3. size \in Int
  BY <1>1, <1>2, TargetSize
<1>4. first \in Int
  BY <1>1, <1>2 DEF target_first
<1>5. e = [first |-> first, size |-> IF open THEN v.size ELSE size, last |-> IF open THEN v.end ELSE first + size - 1]
  BY DEF Entry
<1>6. v.size \in Int /\ v.end \in Int
  BY DEF Numeric
<1> HIDE DEF first, size, open, e
<1>7. e.first = first /\ e.size = (IF open THEN v.size ELSE size) /\ e.last = IF open THEN v.end ELSE first + size - 1
  BY <1>5
<1>8. IsEntry(e)
  <2>1. e = [first |-> e.first, size |-> e.size, last |-> e.last]
    BY <1>5
  <2> QED BY <1>3, <1>4, <1>6, <1>7, <2>1 DEF IsEntry
<1> QED BY <1>3, <1>4, <1>7, <1>8 DEF first, size, open, e

(* The attributes of a target depend on those of its source only. *)
LEMMA EntryAgrees ==
  ASSUME NEW m, Verified(m), NEW l \in m.structure, NEW a, NEW b, a[l.source] = b[l.source],
         NEW u, NEW v, u.values = v.values, u.last = v.last
  PROVE  /\ target_first(l, a) = target_first(l, b) /\ target_size(m, l, a, u) = target_size(m, l, b, v)
         /\ (l.size = Implicit => u.exact = v.exact /\ u.size = v.size /\ u.end = v.end) =>
                Entry(m, l, a, u) = Entry(m, l, b, v)
<1>1. l.first # Undefined => l.first.of = l.source
  BY VerifiedLink
<1>2. target_first(l, a) = target_first(l, b)
  BY <1>1 DEF target_first
<1>3. target_size(m, l, a, u) = target_size(m, l, b, v)
  BY DEF target_size
<1>4. ASSUME l.size = Implicit => u.exact = v.exact /\ u.size = v.size /\ u.end = v.end
      PROVE  Entry(m, l, a, u) = Entry(m, l, b, v)
  <2>1. CASE l.size = Implicit
    BY <1>2, <1>3, <1>4, <2>1 DEF Entry
  <2>2. CASE l.size # Implicit
    BY <1>2, <1>3, <2>2 DEF Entry
  <2> QED BY <2>1, <2>2
<1> QED BY <1>2, <1>3, <1>4

LEMMA SourceDetermines ==
  ASSUME NEW m, Verified(m), NEW l \in m.structure, NEW a, NEW b, a[l.source] = b[l.source], NEW v
  PROVE  Entry(m, l, a, v) = Entry(m, l, b, v)
BY EntryAgrees

(* at has the attributes of the fields on the first n links of p. *)
Located(m, p, n, v, at) ==
    /\ DOMAIN at = Reached(p, n) /\ at = [g \in DOMAIN at |-> at[g]]
    /\ \A g \in Reached(p, n) : IsEntry(at[g])
    /\ at[INITIAL] = Origin
    /\ \A i \in 1 .. n : at[p[i].target] = Entry(m, p[i], at, v)

LEMMA SourceReached ==
  ASSUME NEW m, NEW p, Chain(m, p), NEW n \in Nat, n + 1 <= Len(p)
  PROVE  p[n + 1] \in m.structure /\ p[n + 1].source \in Reached(p, n)
<1>1. Len(p) \in Nat /\ \A k \in 1 .. Len(p) : p[k] \in m.structure
  BY DEF Chain
<1>2. p[n + 1] \in m.structure
  BY <1>1
<1>3. CASE n = 0
  <2>1. p[n + 1].source = INITIAL
    BY <1>3 DEF Chain
  <2> QED BY <1>2, <2>1 DEF Reached
<1>4. CASE n # 0
  <2>1. n \in 1 .. Len(p) - 1 /\ n \in 1 .. n
    BY <1>1, <1>4
  <2>2. p[n + 1].source = p[n].target
    BY <2>1 DEF Chain
  <2> QED BY <1>2, <2>1, <2>2 DEF Reached
<1> QED BY <1>3, <1>4

LEMMA ReachedMore ==
  ASSUME NEW p, NEW n \in Nat
  PROVE  /\ Reached(p, n + 1) = Reached(p, n) \cup {p[n + 1].target}
         /\ INITIAL \in Reached(p, n)
         /\ \A i \in 1 .. n : p[i].target \in Reached(p, n)
<1>1. 1 .. n + 1 = (1 .. n) \cup {n + 1}
  OBVIOUS
<1> QED BY <1>1 DEF Reached

LEMMA NewTarget ==
  ASSUME NEW m, Verified(m), NEW p, Chain(m, p), NEW n \in Nat, n + 1 <= Len(p)
  PROVE  p[n + 1].target \notin Reached(p, n)
<1>1. Len(p) \in Nat /\ p[n + 1] \in m.structure /\ n + 1 \in 1 .. Len(p)
  BY SourceReached DEF Chain
<1>2. p[n + 1].target # INITIAL
  BY <1>1, VerifiedLink
<1>3. ASSUME NEW i \in 1 .. n, p[i].target = p[n + 1].target PROVE FALSE
  <2>1. i \in 1 .. Len(p) /\ i # n + 1
    BY <1>1
  <2> QED BY <1>1, <1>3, <2>1, ChainTargets DEF Verified
<1> QED BY <1>2, <1>3 DEF Reached

LEMMA LocatedStart ==
  ASSUME NEW m, NEW p, NEW v PROVE Located(m, p, 0, v, [f \in {INITIAL} |-> Origin])
<1> DEFINE at == [f \in {INITIAL} |-> Origin]
<1>1. 1 .. 0 = {}
  OBVIOUS
<1>2. Reached(p, 0) = {INITIAL}
  BY <1>1 DEF Reached
<1>3. IsEntry(Origin)
  BY DEF Origin, IsEntry
<1>4. DOMAIN at = {INITIAL} /\ at[INITIAL] = Origin /\ at = [g \in DOMAIN at |-> at[g]]
  OBVIOUS
<1> HIDE DEF at
<1>5. Located(m, p, 0, v, at)
  BY <1>1, <1>2, <1>3, <1>4 DEF Located
<1> QED BY <1>5 DEF at

LEMMA LocatedStep ==
  ASSUME NEW m, Verified(m), NEW p, Chain(m, p), NEW n \in Nat, n + 1 <= Len(p), NEW v, Numeric(m, v),
         NEW at, Located(m, p, n, v, at)
  PROVE  Located(m, p, n + 1, v, Placed(m, p[n + 1], at, v))
<1> DEFINE l == p[n + 1]
           b == Placed(m, l, at, v)
           e == Entry(m, l, at, v)
           R == Reached(p, n)
<1>1. l \in m.structure /\ l.source \in R /\ l.target \notin R
  BY SourceReached, NewTarget
<1>2. DOMAIN at = R /\ (\A g \in R : IsEntry(at[g])) /\ at[INITIAL] = Origin
      /\ \A i \in 1 .. n : at[p[i].target] = Entry(m, p[i], at, v)
  BY DEF Located
<1>3. b = [f \in R \cup {l.target} |-> IF f # l.target THEN at[f] ELSE e]
  BY <1>2 DEF Placed, Entry
<1>4. Reached(p, n + 1) = R \cup {l.target} /\ INITIAL \in R /\ \A i \in 1 .. n : p[i].target \in R
  BY ReachedMore
<1>5. IsEntry(e)
  BY <1>1, <1>2, EntryIs
<1>6. ASSUME NEW i \in 1 .. n PROVE p[i] \in m.structure /\ p[i].source \in R
  <2>1. i - 1 \in Nat /\ (i - 1) + 1 = i /\ i <= Len(p) /\ \A j \in 1 .. i - 1 : j \in 1 .. n
    BY DEF Chain
  <2>2. p[(i - 1) + 1] \in m.structure /\ p[(i - 1) + 1].source \in Reached(p, i - 1)
    BY <2>1, SourceReached
  <2> QED BY <2>1, <2>2 DEF Reached
<1> HIDE DEF l, b, e, R
<1>7. DOMAIN b = R \cup {l.target} /\ b = [g \in DOMAIN b |-> b[g]] /\ b[l.target] = e /\ \A g \in R : b[g] = at[g]
  BY <1>1, <1>3
<1>8. \A g \in R \cup {l.target} : IsEntry(b[g])
  BY <1>2, <1>5, <1>7
<1>9. b[INITIAL] = Origin
  BY <1>2, <1>4, <1>7
<1>10. ASSUME NEW i \in 1 .. n + 1 PROVE b[p[i].target] = Entry(m, p[i], b, v)
  <2>1. CASE i = n + 1
    <3>1. b[l.source] = at[l.source]
      BY <1>1, <1>7
    <3>2. Entry(m, l, b, v) = Entry(m, l, at, v)
      BY <1>1, <3>1, SourceDetermines
    <3> QED BY <1>7, <2>1, <3>2 DEF l, e
  <2>2. CASE i # n + 1
    <3>1. i \in 1 .. n
      BY <2>2
    <3>2. b[p[i].source] = at[p[i].source] /\ b[p[i].target] = at[p[i].target] /\ p[i] \in m.structure
      BY <1>4, <1>6, <1>7, <3>1
    <3>3. Entry(m, p[i], b, v) = Entry(m, p[i], at, v)
      BY <3>2, SourceDetermines
    <3> QED BY <1>2, <3>1, <3>2, <3>3
  <2> QED BY <2>1, <2>2
<1>11. Located(m, p, n + 1, v, b)
  BY <1>4, <1>7, <1>8, <1>9, <1>10 DEF Located
<1> QED BY <1>11 DEF b, l

Start == [f \in {INITIAL} |-> Origin]

(* g has the attributes after each of the first n links of p. *)
Steps(m, p, v, g, n) == g = [k \in 0 .. n |-> IF k = 0 THEN Start ELSE Placed(m, p[k], g[k - 1], v)]

LEMMA StepsExist == ASSUME NEW m, NEW p, NEW v PROVE \A n \in Nat : \E g : Steps(m, p, v, g, n)
<1> DEFINE T == {n \in Nat : \E g : Steps(m, p, v, g, n)}
<1>1. 0 \in T
  <2> DEFINE g == [k \in 0 .. 0 |-> Start]
  <2>1. ASSUME NEW k \in 0 .. 0 PROVE k = 0
    OBVIOUS
  <2>2. Steps(m, p, v, g, 0)
    BY <2>1 DEF Steps
  <2> QED BY <2>2
<1>2. ASSUME NEW n \in Nat, n \in T PROVE n + 1 \in T
  <2>1. PICK g : Steps(m, p, v, g, n)
    BY <1>2
  <2> DEFINE h == [k \in 0 .. n + 1 |-> IF k = n + 1 THEN Placed(m, p[n + 1], g[n], v) ELSE g[k]]
  <2>2. ASSUME NEW k \in 0 .. n PROVE g[k] = IF k = 0 THEN Start ELSE Placed(m, p[k], g[k - 1], v)
    BY <2>1 DEF Steps
  <2>3. ASSUME NEW k \in 0 .. n + 1 PROVE h[k] = IF k = 0 THEN Start ELSE Placed(m, p[k], h[k - 1], v)
    <3>1. CASE k = n + 1
      <4>1. h[k] = Placed(m, p[n + 1], g[n], v) /\ h[n] = g[n] /\ k # 0 /\ k - 1 = n
        BY <3>1
      <4> HIDE DEF h
      <4> QED BY <3>1, <4>1
    <3>2. CASE k # n + 1 /\ k # 0
      <4>1. k \in 0 .. n /\ k - 1 \in 0 .. n + 1 /\ k - 1 # n + 1
        BY <3>2
      <4>2. h[k] = g[k] /\ h[k - 1] = g[k - 1]
        BY <3>2, <4>1
      <4> HIDE DEF h
      <4> QED BY <2>2, <3>2, <4>1, <4>2
    <3>3. CASE k = 0
      <4>1. h[k] = g[0] /\ 0 \in 0 .. n
        BY <3>3
      <4> HIDE DEF h
      <4> QED BY <2>2, <3>3, <4>1
    <3> QED BY <3>1, <3>2, <3>3
  <2>4. h = [k \in 0 .. n + 1 |-> h[k]]
    OBVIOUS
  <2> HIDE DEF h
  <2>5. Steps(m, p, v, h, n + 1)
    BY <2>3, <2>4 DEF Steps
  <2> QED BY <2>5
<1>3. \A n \in Nat : n \in T
  <2> HIDE DEF T
  <2> QED BY <1>1, <1>2, InductiveSet
<1> QED BY <1>3

LEMMA AttributesSteps ==
  ASSUME NEW m, NEW p, NEW v, Len(p) \in Nat
  PROVE  \E g : Steps(m, p, v, g, Len(p)) /\ Attributes(m, p, v) = g[Len(p)]
<1> DEFINE N == Len(p)
           After(g) == g = [i \in 0 .. N |->
                               IF i = 0 THEN [f \in {INITIAL} |-> [first |-> 1, size |-> 0, last |-> 0]]
                               ELSE Placed(m, p[i], g[i - 1], v)]
           h == CHOOSE g : After(g)
<1>2. Attributes(m, p, v) = h[N]
  BY DEF Attributes
<1>3. PICK g : Steps(m, p, v, g, N)
  BY StepsExist
<1>4. After(g)
  BY <1>3 DEF Steps, Start, Origin
<1>5. After(h)
  <2> HIDE DEF After
  <2> QED BY <1>4
<1> HIDE DEF h
<1>6. Steps(m, p, v, h, N)
  BY <1>5 DEF Steps, Start, Origin
<1> QED BY <1>2, <1>6

LEMMA AttributesLocated ==
  ASSUME NEW m, Verified(m), NEW p, Chain(m, p), NEW v, Numeric(m, v)
  PROVE  Located(m, p, Len(p), v, Attributes(m, p, v))
<1>1. Len(p) \in Nat
  BY DEF Chain
<1>2. PICK h : Steps(m, p, v, h, Len(p)) /\ Attributes(m, p, v) = h[Len(p)]
  BY <1>1, AttributesSteps
<1>3. ASSUME NEW k \in 0 .. Len(p) PROVE h[k] = IF k = 0 THEN Start ELSE Placed(m, p[k], h[k - 1], v)
  BY <1>2 DEF Steps
<1> DEFINE T == {n \in Nat : n <= Len(p) => Located(m, p, n, v, h[n])}
<1>4. 0 \in T
  <2>1. h[0] = Start
    <3>1. 0 \in 0 .. Len(p)
      BY <1>1
    <3> QED BY <1>3, <3>1
  <2> QED BY <2>1, LocatedStart DEF Start
<1>5. ASSUME NEW n \in Nat, n \in T PROVE n + 1 \in T
  <2> SUFFICES ASSUME n + 1 <= Len(p) PROVE Located(m, p, n + 1, v, h[n + 1])
    OBVIOUS
  <2>1. Located(m, p, n, v, h[n]) /\ n + 1 \in 0 .. Len(p) /\ n + 1 # 0 /\ (n + 1) - 1 = n
    BY <1>1, <1>5
  <2>2. h[n + 1] = Placed(m, p[n + 1], h[n], v)
    BY <1>3, <2>1
  <2> QED BY <2>1, <2>2, LocatedStep
<1>6. \A n \in Nat : n \in T
  <2> HIDE DEF T
  <2> QED BY <1>4, <1>5, InductiveSet
<1> QED BY <1>1, <1>2, <1>6

(* There is one way to locate the fields. *)
LEMMA LocatedUnique ==
  ASSUME NEW m, Verified(m), NEW p, Chain(m, p), NEW v, NEW a, Located(m, p, Len(p), v, a),
         NEW b, Located(m, p, Len(p), v, b)
  PROVE  a = b
<1>1. Len(p) \in Nat
  BY DEF Chain
<1>2. /\ DOMAIN a = Reached(p, Len(p)) /\ a = [g \in DOMAIN a |-> a[g]] /\ a[INITIAL] = Origin
      /\ DOMAIN b = Reached(p, Len(p)) /\ b = [g \in DOMAIN b |-> b[g]] /\ b[INITIAL] = Origin
      /\ \A i \in 1 .. Len(p) : a[p[i].target] = Entry(m, p[i], a, v) /\ b[p[i].target] = Entry(m, p[i], b, v)
  BY DEF Located
<1> DEFINE T == {n \in Nat : n <= Len(p) => \A g \in Reached(p, n) : a[g] = b[g]}
<1>3. 0 \in T
  <2>1. 1 .. 0 = {}
    OBVIOUS
  <2>2. Reached(p, 0) = {INITIAL}
    BY <2>1 DEF Reached
  <2> QED BY <1>2, <2>2
<1>4. ASSUME NEW n \in Nat, n \in T PROVE n + 1 \in T
  <2> SUFFICES ASSUME n + 1 <= Len(p) PROVE \A g \in Reached(p, n + 1) : a[g] = b[g]
    OBVIOUS
  <2>1. \A g \in Reached(p, n) : a[g] = b[g]
    BY <1>1, <1>4
  <2>2. p[n + 1] \in m.structure /\ p[n + 1].source \in Reached(p, n) /\ n + 1 \in 1 .. Len(p)
    BY <1>1, SourceReached
  <2>3. a[p[n + 1].source] = b[p[n + 1].source]
    BY <2>1, <2>2
  <2>4. Entry(m, p[n + 1], a, v) = Entry(m, p[n + 1], b, v)
    BY <2>2, <2>3, SourceDetermines
  <2>5. a[p[n + 1].target] = b[p[n + 1].target]
    BY <1>2, <2>2, <2>4
  <2> QED BY <2>1, <2>5, ReachedMore
<1>5. \A n \in Nat : n \in T
  <2> HIDE DEF T
  <2> QED BY <1>3, <1>4, InductiveSet
<1>6. \A g \in Reached(p, Len(p)) : a[g] = b[g]
  BY <1>1, <1>5
<1> QED BY <1>2, <1>6

LEMMA SizedEntry ==
  ASSUME NEW m, Verified(m), NEW l \in m.structure, NEW a, NEW b, a[l.source] = b[l.source], l.size # Implicit,
         NEW u, NEW v, u.values = v.values, u.last = v.last
  PROVE  Entry(m, l, a, u) = Entry(m, l, b, v)
BY EntryAgrees

(* The same sizes and positions on the first k links, whatever the solver does not know. *)
LEMMA PrefixAgrees ==
  ASSUME NEW m, Verified(m), NEW p, Chain(m, p), NEW v, Numeric(m, v), NEW at, Located(m, p, Len(p), v, at),
         NEW k \in 1 .. Len(p), NEW w, Numeric(m, w), w.values = v.values, w.last = v.last,
         \A i \in 1 .. k : p[i].size = Implicit =>
             ~w.exact /\ w.size = at[p[i].target].size /\ w.end = at[p[i].target].last
  PROVE  Attributes(m, SubSeq(p, 1, k), w) = [g \in Reached(p, k) |-> at[g]]
<1> DEFINE q == SubSeq(p, 1, k)
           b == [g \in Reached(p, k) |-> at[g]]
<1>1. Chain(m, q) /\ Len(q) = k /\ (\A i \in 1 .. k : q[i] = p[i]) /\ k \in Nat /\ k <= Len(p) /\ Len(p) \in Nat
  BY ChainPrefix DEF Chain
<1>2. Reached(q, k) = Reached(p, k)
  BY <1>1 DEF Reached
<1>3. /\ \A g \in Reached(p, Len(p)) : IsEntry(at[g])
      /\ at[INITIAL] = Origin
      /\ \A i \in 1 .. Len(p) : at[p[i].target] = Entry(m, p[i], at, v)
  BY DEF Located
<1>4. Reached(p, k) \subseteq Reached(p, Len(p)) /\ INITIAL \in Reached(p, k)
      /\ \A i \in 1 .. k : p[i].target \in Reached(p, k)
  BY <1>1 DEF Reached
<1>5. ASSUME NEW i \in 1 .. k PROVE p[i] \in m.structure /\ p[i].source \in Reached(p, k) /\ i \in 1 .. Len(p)
  <2>1. i - 1 \in Nat /\ (i - 1) + 1 = i /\ i <= Len(p) /\ \A j \in 1 .. i - 1 : j \in 1 .. k
    BY <1>1
  <2>2. p[(i - 1) + 1] \in m.structure /\ p[(i - 1) + 1].source \in Reached(p, i - 1)
    BY <2>1, SourceReached
  <2> QED BY <1>1, <2>1, <2>2 DEF Reached
<1>6. DOMAIN b = Reached(p, k) /\ b = [g \in DOMAIN b |-> b[g]] /\ \A g \in Reached(p, k) : b[g] = at[g]
  OBVIOUS
<1> HIDE DEF q, b
<1>7. ASSUME NEW i \in 1 .. k PROVE b[p[i].target] = Entry(m, p[i], b, w)
  <2> DEFINE l == p[i]
             e == Entry(m, l, b, w)
             d == Entry(m, l, at, v)
  <2>1. l \in m.structure /\ b[l.source] = at[l.source] /\ b[l.target] = d /\ at[l.target] = d
        /\ IsEntry(d) /\ IsEntry(at[l.source])
    BY <1>3, <1>4, <1>5, <1>6
  <2>2. l.size = Implicit => ~w.exact /\ w.size = d.size /\ w.end = d.last
    <3>1. l.size = Implicit => ~w.exact /\ w.size = at[l.target].size /\ w.end = at[l.target].last
      OBVIOUS
    <3> HIDE DEF d, l
    <3> QED BY <2>1, <3>1
  <2> HIDE DEF l
  <2>3. CASE l.size # Implicit
    <3>1. Entry(m, l, b, w) = Entry(m, l, at, v)
      BY <2>1, <2>3, SizedEntry
    <3> QED BY <2>1, <3>1 DEF l
  <2>4. CASE l.size = Implicit
    <3>1. target_first(l, b) = target_first(l, at)
      BY <2>1, EntryAgrees
    <3>2. d.first = target_first(l, at)
      BY <2>1, EntryIs
    <3>3. e.first = target_first(l, b) /\ e.size = w.size /\ e.last = w.end /\ IsEntry(e)
      BY <2>1, <2>2, <2>4, EntryIs
    <3> HIDE DEF e, d
    <3>4. e = d
      BY <2>1, <2>2, <2>4, <3>1, <3>2, <3>3 DEF IsEntry
    <3> QED BY <2>1, <3>4 DEF e, l
  <2> QED BY <2>3, <2>4 DEF l
<1>8. Located(m, q, k, w, b)
  <2>1. \A g \in Reached(p, k) : IsEntry(b[g])
    BY <1>3, <1>4, <1>6
  <2>2. b[INITIAL] = Origin
    BY <1>3, <1>4, <1>6
  <2>3. \A i \in 1 .. k : b[q[i].target] = Entry(m, q[i], b, w)
    BY <1>1, <1>7
  <2> QED BY <1>2, <1>6, <2>1, <2>2, <2>3 DEF Located
<1>9. Located(m, q, Len(q), w, Attributes(m, q, w))
  BY <1>1, AttributesLocated
<1>10. Attributes(m, q, w) = b
  BY <1>1, <1>8, <1>9, LocatedUnique
<1> QED BY <1>10 DEF q, b

(* What a condition sees of field f. *)
Seen(f, at, v) == IF f \in DOMAIN at /\ (f = INITIAL => v.exact) THEN at[f] ELSE v.outside[f]

LEMMA TrueAgrees ==
  ASSUME NEW C, \A a \in C : IsAtom(a), NEW b, NEW w, NEW at, NEW v, w.values = v.values, w.last = v.last,
         \A a \in C : a.attr # "Value" /\ a.field # Message =>
             Seen(a.field, b, w).size = Seen(a.field, at, v).size /\ Seen(a.field, b, w).last = Seen(a.field, at, v).last
  PROVE  True(C, b, w) <=> True(C, at, v)
<1>1. ASSUME NEW a \in C PROVE Attribute(a, b, w) = Attribute(a, at, v)
  <2>1. a.attr \in {"Value", "Size", "Remaining"} /\ (a.attr = "Remaining" => a.field # Message)
    BY DEF IsAtom
  <2>2. CASE a.attr = "Value"
    <3>1. Attribute(a, b, w) = w.values[a.field]
      BY <2>2 DEF Attribute
    <3>2. Attribute(a, at, v) = v.values[a.field]
      BY <2>2 DEF Attribute
    <3> QED BY <3>1, <3>2
  <2>3. CASE a.attr = "Size" /\ a.field = Message
    <3>1. Attribute(a, b, w) = w.last
      BY <2>3 DEF Attribute
    <3>2. Attribute(a, at, v) = v.last
      BY <2>3 DEF Attribute
    <3> QED BY <3>1, <3>2
  <2>4. CASE a.attr = "Size" /\ a.field # Message
    <3>1. Seen(a.field, b, w).size = Seen(a.field, at, v).size
      BY <2>4
    <3>2. Attribute(a, b, w) = Seen(a.field, b, w).size /\ Attribute(a, at, v) = Seen(a.field, at, v).size
      BY <2>4 DEF Attribute, Seen
    <3> QED BY <3>1, <3>2
  <2>5. CASE a.attr = "Remaining" /\ a.field # Message
    <3>1. Seen(a.field, b, w).last = Seen(a.field, at, v).last
      BY <2>5
    <3>2. Attribute(a, b, w) = w.last - Seen(a.field, b, w).last /\ Attribute(a, at, v) = v.last - Seen(a.field, at, v).last
      BY <2>5 DEF Attribute, Seen
    <3> QED BY <3>1, <3>2
  <2> QED BY <2>1, <2>2, <2>3, <2>4, <2>5
<1> QED BY <1>1 DEF True

Outside(m, p) == Measured(m) \ {p[i].target : i \in DOMAIN p}
Values(m) == {v \in [Numbers(m) -> 0 .. MaxValue] : \A f \in Scalars(m) : v[f] \in m.types[f].values}
Lasts == {8 * k : k \in 1 .. MaxBits \div 8}
Open(p, exact) == IF HasImplicitSize(p) /\ ~exact THEN Unknowns ELSE {0}

LEMMA ValuationIs ==
  ASSUME NEW m, NEW p, NEW x \in BOOLEAN, NEW v
  PROVE  v \in Valuations(m, p, TRUE, x) <=>
           /\ v = [values |-> v.values, last |-> v.last, size |-> v.size, end |-> v.end, outside |-> v.outside, exact |-> v.exact]
           /\ v.values \in Values(m) /\ v.last \in Lasts /\ v.size \in Open(p, x) /\ v.end \in Open(p, x)
           /\ v.outside \in [Outside(m, p) -> [size : Unknowns, last : Unknowns]] /\ v.exact = x
<1> DEFINE A == Values(m)
           B == Lasts
           C == Open(p, x)
           D == [Outside(m, p) -> [size : Unknowns, last : Unknowns]]
<1>1. Valuations(m, p, TRUE, x) = [values : A, last : B, size : C, end : C, outside : D, exact : {x}]
  BY DEF Valuations, Values, Lasts, Open, Outside
<1> HIDE DEF A, B, C, D
<1>2. v \in [values : A, last : B, size : C, end : C, outside : D, exact : {x}] <=>
        /\ v = [values |-> v.values, last |-> v.last, size |-> v.size, end |-> v.end, outside |-> v.outside, exact |-> v.exact]
        /\ v.values \in A /\ v.last \in B /\ v.size \in C /\ v.end \in C /\ v.outside \in D /\ v.exact \in {x}
  OBVIOUS
<1> QED BY <1>1, <1>2 DEF A, B, C, D

LEMMA ValuationNumeric ==
  ASSUME NEW m, NEW p, NEW x \in BOOLEAN, NEW v \in Valuations(m, p, TRUE, x)
  PROVE  Numeric(m, v)
<1>1. v.values \in Values(m) /\ v.last \in Lasts /\ v.size \in Open(p, x) /\ v.end \in Open(p, x) /\ v.exact = x
  BY ValuationIs
<1>2. v.values \in [Numbers(m) -> Int]
  <2>1. v.values \in [Numbers(m) -> 0 .. MaxValue]
    BY <1>1 DEF Values
  <2>2. 0 .. MaxValue \subseteq Int
    OBVIOUS
  <2> HIDE DEF Numeric
  <2> QED BY <2>1, <2>2
<1>3. v.last \in Int
  <2>1. PICK n \in 1 .. MaxBits \div 8 : v.last = 8 * n
    BY <1>1 DEF Lasts
  <2>2. n \in Int
    OBVIOUS
  <2> QED BY <2>1, <2>2
<1>4. v.size \in Int /\ v.end \in Int
  <2>1. Open(p, x) \subseteq Int
    BY BoundsAssumption DEF Open
  <2> QED BY <1>1, <2>1
<1> QED BY <1>1, <1>2, <1>3, <1>4 DEF Numeric

(* The facts leave the size of one field of a path open. *)
LEMMA ImplicitOnce ==
  ASSUME NEW m, Verified(m), NEW p, Chain(m, p), NEW i \in 1 .. Len(p), NEW j \in 1 .. Len(p),
         p[i].size = Implicit, p[j].size = Implicit
  PROVE  i = j
<1>1. Len(p) \in Nat /\ \A k \in 1 .. Len(p) : p[k] \in m.structure
  BY DEF Chain
<1>2. ASSUME NEW x \in 1 .. Len(p), NEW y \in 1 .. Len(p), p[x].size = Implicit, p[y].size = Implicit, x < y
      PROVE  FALSE
  <2>1. x \in 1 .. Len(p) - 1 /\ x + 1 \in 1 .. Len(p)
    BY <1>1, <1>2
  <2>2. p[x + 1].source = p[x].target
    BY <2>1 DEF Chain
  <2>3. p[x + 1].target = FINAL
    BY <1>1, <1>2, <2>1, <2>2 DEF Verified, Sound
  <2>4. CASE y = x + 1
    <3>1. SizeKnown(m, p[y]) /\ p[y].size.kind = "implicit" /\ p[y].size # Undefined
      BY <1>1, <1>2, VerifiedLink, SizeKinds
    <3>2. p[y].target # FINAL
      BY <3>1 DEF SizeKnown
    <3> QED BY <2>3, <2>4, <3>2
  <2>5. CASE y # x + 1
    <3>1. x + 1 \in 1 .. Len(p) - 1 /\ (x + 1) + 1 \in 1 .. Len(p)
      BY <1>1, <1>2, <2>1, <2>5
    <3>2. p[(x + 1) + 1].source = FINAL
      BY <2>3, <3>1 DEF Chain
    <3> QED BY <1>1, <3>1, <3>2, VerifiedLink
  <2> QED BY <2>4, <2>5
<1>3. i < j \/ j < i \/ i = j
  BY <1>1
<1> QED BY <1>2, <1>3

LEMMA MeasuredFields ==
  ASSUME NEW m, NEW l \in m.structure, NEW a \in l.condition, a.attr # "Value", a.field # Message
  PROVE  a.field \in Measured(m)
BY DEF Measured

(* w tells the solver of the first k links of p what v tells a parser of p. *)
TwinOf(m, p, k, v, at, w) ==
    /\ w.values = v.values /\ w.last = v.last /\ Numeric(m, w)
    /\ Attributes(m, SubSeq(p, 1, k), w) = [g \in Reached(p, k) |-> at[g]]
    /\ \A l \in m.structure : True(l.condition, Attributes(m, SubSeq(p, 1, k), w), w) <=> True(l.condition, at, v)

LEMMA Twin ==
  ASSUME Unknowns = Int, NEW m, Verified(m), NEW p, Chain(m, p), NEW v \in Exact(m),
         NEW at, Located(m, p, Len(p), v, at), NEW k \in 1 .. Len(p)
  PROVE  \E w \in Valuations(m, SubSeq(p, 1, k), TRUE, FALSE) : TwinOf(m, p, k, v, at, w)
<1> DEFINE q == SubSeq(p, 1, k)
           R == Reached(p, k)
           hidden == IF HasImplicitSize(q) THEN at[q[CHOOSE i \in DOMAIN q : q[i].size = Implicit].target] ELSE Origin
           outside == [g \in Outside(m, q) |->
                          IF g \in DOMAIN at THEN [size |-> at[g].size, last |-> at[g].last] ELSE v.outside[g]]
           w == [values |-> v.values, last |-> v.last, size |-> hidden.size, end |-> hidden.last,
                 outside |-> outside, exact |-> FALSE]
<1>1. Chain(m, q) /\ Len(q) = k /\ (\A i \in 1 .. k : q[i] = p[i]) /\ k \in Nat /\ k <= Len(p) /\ Len(p) \in Nat
  BY ChainPrefix DEF Chain
<1>2. DOMAIN q = 1 .. k
  BY <1>1, SequenceFunction DEF Chain
<1>3. /\ v.values \in Values(m) /\ v.last \in Lasts /\ v.exact = TRUE
      /\ v.outside \in [Outside(m, <<>>) -> [size : Unknowns, last : Unknowns]]
  BY ValuationIs DEF Exact
<1>4. Outside(m, <<>>) = Measured(m)
  <2>1. DOMAIN <<>> = {}
    OBVIOUS
  <2> QED BY <2>1 DEF Outside
<1>5. Numeric(m, v)
  BY ValuationNumeric DEF Exact
<1>6. DOMAIN at = Reached(p, Len(p)) /\ \A g \in DOMAIN at : IsEntry(at[g])
  BY DEF Located
<1>7. R \subseteq DOMAIN at /\ R = {INITIAL} \cup {q[i].target : i \in DOMAIN q}
  BY <1>1, <1>2, <1>6 DEF Reached
<1>8. \A i \in 1 .. k : p[i] \in m.structure /\ i \in 1 .. Len(p)
  BY <1>1 DEF Chain
<1>9. IsEntry(Origin)
  BY DEF Origin, IsEntry
<1>10. /\ IsEntry(hidden) /\ (~HasImplicitSize(q) => hidden = Origin)
       /\ \A i \in 1 .. k : p[i].size = Implicit => hidden = at[p[i].target] /\ HasImplicitSize(q)
  <2>1. CASE HasImplicitSize(q)
    <3> DEFINE c == CHOOSE i \in DOMAIN q : q[i].size = Implicit
    <3>1. c \in DOMAIN q /\ q[c].size = Implicit
      BY <2>1 DEF HasImplicitSize
    <3>2. hidden = at[q[c].target]
      BY <2>1
    <3> HIDE DEF c, hidden
    <3>3. IsEntry(hidden)
      BY <1>6, <1>7, <3>1, <3>2
    <3>4. ASSUME NEW i \in 1 .. k, p[i].size = Implicit PROVE hidden = at[p[i].target]
      <4>1. c \in 1 .. Len(p) /\ p[c].size = Implicit /\ q[c] = p[c] /\ i \in 1 .. Len(p)
        BY <1>1, <1>2, <1>8, <3>1
      <4>2. c = i
        BY <3>4, <4>1, ImplicitOnce
      <4> QED BY <3>2, <4>1, <4>2
    <3> QED BY <2>1, <3>3, <3>4
  <2>2. CASE ~HasImplicitSize(q)
    <3>1. hidden = Origin
      BY <2>2
    <3> HIDE DEF hidden
    <3>2. \A i \in 1 .. k : p[i].size # Implicit
      BY <1>1, <1>2, <2>2 DEF HasImplicitSize
    <3> QED BY <1>9, <3>1, <3>2
  <2> QED BY <2>1, <2>2
<1> HIDE DEF hidden
<1>11. DOMAIN outside = Outside(m, q) /\ outside = [g \in Outside(m, q) |-> outside[g]]
       /\ \A g \in Outside(m, q) : outside[g] = IF g \in DOMAIN at THEN [size |-> at[g].size, last |-> at[g].last] ELSE v.outside[g]
  OBVIOUS
<1> HIDE DEF outside
<1>12. Outside(m, q) \subseteq Measured(m)
  BY DEF Outside
<1>13. outside \in [Outside(m, q) -> [size : Unknowns, last : Unknowns]]
  <2>1. ASSUME NEW g \in Outside(m, q) PROVE outside[g] \in [size : Unknowns, last : Unknowns]
    <3>1. CASE g \in DOMAIN at
      <4>1. at[g].size \in Unknowns /\ at[g].last \in Unknowns
        BY <1>6, <3>1 DEF IsEntry
      <4> QED BY <1>11, <3>1, <4>1
    <3>2. CASE g \notin DOMAIN at
      BY <1>3, <1>4, <1>11, <1>12, <3>2
    <3> QED BY <3>1, <3>2
  <2> QED BY <1>11, <2>1
<1>14. /\ w.values = v.values /\ w.last = v.last /\ w.size = hidden.size /\ w.end = hidden.last
       /\ w.outside = outside /\ w.exact = FALSE
       /\ w = [values |-> w.values, last |-> w.last, size |-> w.size, end |-> w.end, outside |-> w.outside, exact |-> w.exact]
  OBVIOUS
<1> HIDE DEF w
<1>15. hidden.size \in Open(q, FALSE) /\ hidden.last \in Open(q, FALSE)
  <2>1. CASE HasImplicitSize(q)
    BY <1>10, <2>1 DEF Open, IsEntry
  <2>2. CASE ~HasImplicitSize(q)
    <3>1. hidden.size = 0 /\ hidden.last = 0
      BY <1>10, <2>2 DEF Origin
    <3> QED BY <2>2, <3>1 DEF Open
  <2> QED BY <2>1, <2>2
<1>16. w \in Valuations(m, q, TRUE, FALSE)
  BY <1>3, <1>13, <1>14, <1>15, ValuationIs
<1>17. Numeric(m, w)
  BY <1>16, ValuationNumeric
<1> DEFINE b == [g \in R |-> at[g]]
<1>18. Attributes(m, q, w) = b
  <2>1. \A i \in 1 .. k : p[i].size = Implicit =>
             ~w.exact /\ w.size = at[p[i].target].size /\ w.end = at[p[i].target].last
    BY <1>10, <1>14
  <2> QED BY <1>5, <1>14, <1>17, <2>1, PrefixAgrees
<1>19. DOMAIN b = R /\ \A g \in R : b[g] = at[g]
  OBVIOUS
<1> HIDE DEF b
<1>20. ASSUME NEW l \in m.structure PROVE True(l.condition, b, w) <=> True(l.condition, at, v)
  <2>1. \A a \in l.condition : IsAtom(a)
    BY VerifiedLink DEF IsLink
  <2>2. ASSUME NEW a \in l.condition, a.attr # "Value", a.field # Message
        PROVE  Seen(a.field, b, w).size = Seen(a.field, at, v).size /\ Seen(a.field, b, w).last = Seen(a.field, at, v).last
    <3> DEFINE f == a.field
    <3>1. f \in Measured(m)
      BY <2>2, MeasuredFields
    <3> HIDE DEF f
    <3>2. CASE f \in R /\ f # INITIAL
      <4>1. Seen(f, b, w) = at[f] /\ Seen(f, at, v) = at[f]
        BY <1>7, <1>19, <3>2 DEF Seen
      <4> QED BY <4>1 DEF f
    <3>3. CASE ~(f \in R /\ f # INITIAL)
      <4>1. f \in Outside(m, q)
        <5>1. ASSUME NEW i \in DOMAIN q, f = q[i].target PROVE FALSE
          <6>1. q[i] \in m.structure
            BY <1>1, <1>2, <1>8
          <6>2. q[i].target # INITIAL
            BY <6>1, VerifiedLink
          <6> QED BY <1>7, <3>3, <5>1, <6>2
        <5> QED BY <3>1, <5>1 DEF Outside
      <4>2. Seen(f, b, w) = outside[f]
        BY <1>14, <1>19, <3>3 DEF Seen
      <4>3. Seen(f, at, v) = IF f \in DOMAIN at THEN at[f] ELSE v.outside[f]
        BY <1>3 DEF Seen
      <4>4. outside[f] = IF f \in DOMAIN at THEN [size |-> at[f].size, last |-> at[f].last] ELSE v.outside[f]
        BY <1>11, <4>1
      <4>5. CASE f \in DOMAIN at
        BY <4>2, <4>3, <4>4, <4>5 DEF f
      <4>6. CASE f \notin DOMAIN at
        BY <4>2, <4>3, <4>4, <4>6 DEF f
      <4> QED BY <4>5, <4>6
    <3> QED BY <3>2, <3>3
  <2> QED BY <1>14, <2>1, <2>2, TrueAgrees
<1>21. TwinOf(m, p, k, v, at, w)
  BY <1>14, <1>17, <1>18, <1>20 DEF TwinOf, b, q, R
<1> QED BY <1>16, <1>21 DEF q

LEMMA OneError == ASSUME NEW check, NEW f PROVE HasErrors(<<Error(check, f)>>)
<1>1. Error(check, f) \in ToSet(<<Error(check, f)>>)
  BY Singleton
<1>2. Error(check, f).severity = "error"
  BY DEF Error
<1> QED BY <1>1, <1>2, ErrorsAmong

(* A proof without an error whose goal must not be satisfiable. *)
LEMMA Refutation ==
  ASSUME NEW sat \in BOOLEAN, NEW e, HasErrors(e), NEW u, NEW job, job = ProofJob(sat, e, u, e),
         \E r \in {job.result, "UNKNOWN"} : ~HasErrors(job.errors[r])
  PROVE  ~sat
<1>1. /\ job.result = IF sat THEN "SAT" ELSE "UNSAT"
      /\ job.errors["SAT"] = e /\ job.errors["UNSAT"] = u /\ job.errors["UNKNOWN"] = e
  BY ProofJobFacts
<1>2. PICK r \in {job.result, "UNKNOWN"} : ~HasErrors(job.errors[r])
  OBVIOUS
<1>3. r # "UNKNOWN" /\ r # "SAT"
  BY <1>1, <1>2
<1> QED BY <1>1, <1>2, <1>3

LEMMA CleanConflicts ==
  ASSUME NEW m, NEW valid, Clean(m, valid), NEW c \in Conflicts(m)
  PROVE  ~InConflict(m, c[1], c[2])
<1> DEFINE e == <<Error("conflict", Last(c[2]).target)>>
           j == conflict_proof(m, c)
<1>1. j \in MessageJobs(m, valid)
  BY DEF MessageJobs, ConflictJobs
<1>2. j = ProofJob(InConflict(m, c[1], c[2]), e, <<>>, e)
  BY DEF conflict_proof
<1>3. InConflict(m, c[1], c[2]) \in BOOLEAN
  BY DEF InConflict, Satisfiable
<1>4. HasErrors(e)
  BY OneError
<1>5. \E r \in {j.result, "UNKNOWN"} : ~HasErrors(j.errors[r])
  BY <1>1 DEF Clean
<1> HIDE DEF e, j
<1> QED BY <1>2, <1>3, <1>4, <1>5, Refutation

LEMMA CleanSizes ==
  ASSUME NEW m, NEW valid, Clean(m, valid), NEW p \in paths(m, FINAL)
  PROVE  ~UnevenSize(m, Front(p))
<1> DEFINE e == <<Error("message_size", FINAL)>>
           q == Front(p)
           j == message_size_proof(m, q)
<1>1. j \in MessageJobs(m, valid)
  <2>1. q \in {Front(x) : x \in paths(m, FINAL)}
    OBVIOUS
  <2> HIDE DEF q
  <2> QED BY <2>1 DEF MessageJobs, SizeJobs
<1>2. j = ProofJob(UnevenSize(m, q), e, <<>>, e)
  BY DEF message_size_proof
<1>3. UnevenSize(m, q) \in BOOLEAN
  BY DEF UnevenSize, Satisfiable
<1>4. HasErrors(e)
  BY OneError
<1>5. \E r \in {j.result, "UNKNOWN"} : ~HasErrors(j.errors[r])
  BY <1>1 DEF Clean
<1> HIDE DEF e, j, q
<1>6. ~UnevenSize(m, q)
  BY <1>2, <1>3, <1>4, <1>5, Refutation
<1> QED BY <1>6 DEF q

LEMMA CleanPositions ==
  ASSUME NEW m, NEW valid, Clean(m, valid), NEW p \in valid
  PROVE  /\ ~NegativeSize(m, p)
         /\ Last(p).target # FINAL /\ m.types[Last(p).target].kind = "opaque" =>
               ~Misaligned(m, p) /\ ~FractionOfByte(m, p)
<1> DEFINE f == Last(p).target
           e(check) == <<Error(check, f)>>
           a == ProofJob(NegativeSize(m, p), e("negative_size"), <<>>, e("negative_size"))
           b == ProofJob(Misaligned(m, p), e("alignment"), <<>>, e("alignment"))
           c == ProofJob(FractionOfByte(m, p), e("multiple"), <<>>, e("multiple"))
           opaque == f # FINAL /\ m.types[f].kind = "opaque"
           S == ToSet(position_proofs(m, p))
<1>1. a \in S /\ (opaque => b \in S /\ c \in S)
  BY PositionProofs
<1>2. S \subseteq MessageJobs(m, valid)
  BY DEF MessageJobs, PositionJobs
<1>3. NegativeSize(m, p) \in BOOLEAN /\ Misaligned(m, p) \in BOOLEAN /\ FractionOfByte(m, p) \in BOOLEAN
  BY DEF NegativeSize, Misaligned, FractionOfByte, Satisfiable
<1>4. HasErrors(e("negative_size")) /\ HasErrors(e("alignment")) /\ HasErrors(e("multiple"))
  BY OneError
<1>5. ASSUME NEW j \in S PROVE \E r \in {j.result, "UNKNOWN"} : ~HasErrors(j.errors[r])
  BY <1>2 DEF Clean
<1> HIDE DEF S, e, opaque
<1>6. ~NegativeSize(m, p)
  <2>1. \E r \in {a.result, "UNKNOWN"} : ~HasErrors(a.errors[r])
    BY <1>1, <1>5
  <2> DEFINE x == e("negative_size")
  <2>2. a = ProofJob(NegativeSize(m, p), x, <<>>, x) /\ HasErrors(x)
    BY <1>4
  <2> HIDE DEF a, x
  <2> QED BY <1>3, <2>1, <2>2, Refutation
<1>7. opaque => ~Misaligned(m, p)
  <2> SUFFICES ASSUME opaque PROVE ~Misaligned(m, p)
    OBVIOUS
  <2>1. \E r \in {b.result, "UNKNOWN"} : ~HasErrors(b.errors[r])
    BY <1>1, <1>5
  <2> DEFINE x == e("alignment")
  <2>2. b = ProofJob(Misaligned(m, p), x, <<>>, x) /\ HasErrors(x)
    BY <1>4
  <2> HIDE DEF b, x
  <2> QED BY <1>3, <2>1, <2>2, Refutation
<1>8. opaque => ~FractionOfByte(m, p)
  <2> SUFFICES ASSUME opaque PROVE ~FractionOfByte(m, p)
    OBVIOUS
  <2>1. \E r \in {c.result, "UNKNOWN"} : ~HasErrors(c.errors[r])
    BY <1>1, <1>5
  <2> DEFINE x == e("multiple")
  <2>2. c = ProofJob(FractionOfByte(m, p), x, <<>>, x) /\ HasErrors(x)
    BY <1>4
  <2> HIDE DEF c, x
  <2> QED BY <1>3, <2>1, <2>2, Refutation
<1> QED BY <1>6, <1>7, <1>8 DEF opaque

(* A parser follows path p for the values v, and finds the fields at at. *)
Follows(m, p, v, at) ==
    /\ Verified(m) /\ p \in AllPaths(m) /\ v \in Exact(m)
    /\ at = Attributes(m, p, v) /\ path_constraints(p, at, v)

LEMMA FollowsFacts ==
  ASSUME NEW m, NEW p, NEW v, NEW at, Follows(m, p, v, at)
  PROVE  /\ Verified(m) /\ Chain(m, p) /\ Len(p) \in Nat /\ Len(p) >= 1 /\ DOMAIN p = 1 .. Len(p)
         /\ v \in Exact(m) /\ v.exact = TRUE /\ Numeric(m, v) /\ Located(m, p, Len(p), v, at)
<1>1. Verified(m) /\ p \in AllPaths(m) /\ v \in Exact(m) /\ at = Attributes(m, p, v)
  BY DEF Follows
<1>2. Chain(m, p) /\ p \in Seq(m.structure) /\ Len(p) \in Nat /\ Len(p) >= 1
  BY <1>1, PathFacts DEF Verified
<1>3. v.exact = TRUE /\ Numeric(m, v)
  BY <1>1, ValuationIs, ValuationNumeric DEF Exact
<1>4. DOMAIN p = 1 .. Len(p)
  BY <1>2
<1>5. Located(m, p, Len(p), v, at)
  BY <1>1, <1>2, <1>3, AttributesLocated
<1> QED BY <1>1, <1>2, <1>3, <1>4, <1>5

LEMMA FollowedLink ==
  ASSUME NEW m, NEW p, NEW v, NEW at, Follows(m, p, v, at), NEW k \in 1 .. Len(p)
  PROVE  /\ p[k] \in m.structure /\ IsEntry(at[p[k].target]) /\ IsEntry(at[p[k].source])
         /\ at[p[k].target].first = target_first(p[k], at)
         /\ at[p[k].target].size = target_size(m, p[k], at, v)
         /\ at[p[k].target].last = at[p[k].target].first + at[p[k].target].size - 1
<1>1. /\ Verified(m) /\ Chain(m, p) /\ Len(p) \in Nat /\ v.exact = TRUE /\ Numeric(m, v)
      /\ Located(m, p, Len(p), v, at)
  BY FollowsFacts
<1>2. k - 1 \in Nat /\ (k - 1) + 1 = k /\ k <= Len(p) /\ \A j \in 1 .. k - 1 : j \in 1 .. Len(p)
  BY <1>1
<1>3. p[(k - 1) + 1] \in m.structure /\ p[(k - 1) + 1].source \in Reached(p, k - 1)
  BY <1>1, <1>2, SourceReached
<1>4. p[k] \in m.structure /\ p[k].source \in Reached(p, Len(p)) /\ p[k].target \in Reached(p, Len(p))
  BY <1>2, <1>3 DEF Reached
<1>5. IsEntry(at[p[k].target]) /\ IsEntry(at[p[k].source]) /\ at[p[k].target] = Entry(m, p[k], at, v)
  BY <1>1, <1>4 DEF Located
<1>6. /\ Entry(m, p[k], at, v).first = target_first(p[k], at)
      /\ Entry(m, p[k], at, v).size = target_size(m, p[k], at, v)
      /\ Entry(m, p[k], at, v).last = target_first(p[k], at) + target_size(m, p[k], at, v) - 1
  BY <1>1, <1>4, <1>5, EntryIs
<1> QED BY <1>4, <1>5, <1>6

(* The solver finds the way of the parser, as far as every field on it. *)
LEMMA PrefixTwin ==
  ASSUME Unknowns = Int, NEW m, NEW p, NEW v, NEW at, Follows(m, p, v, at), NEW k \in 1 .. Len(p)
  PROVE  \E w \in Valuations(m, SubSeq(p, 1, k), TRUE, FALSE) :
            /\ TwinOf(m, p, k, v, at, w)
            /\ path_constraints(SubSeq(p, 1, k), Attributes(m, SubSeq(p, 1, k), w), w)
<1> DEFINE q == SubSeq(p, 1, k)
<1>1. /\ Verified(m) /\ Chain(m, p) /\ Len(p) \in Nat /\ v \in Exact(m) /\ Located(m, p, Len(p), v, at)
      /\ DOMAIN p = 1 .. Len(p) /\ path_constraints(p, at, v)
  BY FollowsFacts DEF Follows
<1>2. PICK w \in Valuations(m, q, TRUE, FALSE) : TwinOf(m, p, k, v, at, w)
  BY <1>1, Twin
<1>3. Chain(m, q) /\ Len(q) = k /\ (\A i \in 1 .. k : q[i] = p[i]) /\ k \in Nat /\ k <= Len(p)
  BY <1>1, ChainPrefix
<1>4. DOMAIN q = 1 .. k
  BY <1>3, SequenceFunction DEF Chain
<1> HIDE DEF q
<1> DEFINE b == Attributes(m, q, w)
<1>5. /\ w.last = v.last /\ b = [g \in Reached(p, k) |-> at[g]]
      /\ \A l \in m.structure : True(l.condition, b, w) <=> True(l.condition, at, v)
  BY <1>2 DEF TwinOf, q
<1> HIDE DEF b
<1>6. ASSUME NEW i \in DOMAIN q PROVE True(q[i].condition, b, w) /\ b[q[i].target].last <= w.last
  <2>1. i \in 1 .. k /\ q[i] = p[i] /\ i \in DOMAIN p
    BY <1>1, <1>3, <1>4
  <2>2. p[i] \in m.structure /\ p[i].target \in Reached(p, k)
    BY <2>1, FollowedLink, <1>1 DEF Reached
  <2>3. True(p[i].condition, at, v) /\ at[p[i].target].last <= v.last
    BY <1>1, <2>1 DEF path_constraints
  <2> QED BY <1>5, <2>1, <2>2, <2>3
<1>7. path_constraints(q, b, w)
  BY <1>6 DEF path_constraints
<1> QED BY <1>2, <1>7 DEF b, q

(* A message that was accepted while the solver decided which paths are possible. *)
Accepted(m, valid) == Verified(m) /\ Clean(m, valid) /\ valid = {p \in AllPaths(m) : Possible(m, p)}

LEMMA FieldPlaced ==
  ASSUME Unknowns = Int, NEW m, NEW valid, Accepted(m, valid), NEW p, NEW v, NEW at, Follows(m, p, v, at),
         NEW k \in 1 .. Len(p)
  PROVE  /\ at[p[k].target].size >= 0
         /\ p[k].target # FINAL /\ m.types[p[k].target].kind = "opaque" =>
               at[p[k].target].first % 8 = 1 /\ at[p[k].target].size % 8 = 0
<1> DEFINE q == SubSeq(p, 1, k)
           f == p[k].target
<1>1. /\ Verified(m) /\ Chain(m, p) /\ Len(p) \in Nat /\ v \in Exact(m)
  BY FollowsFacts
<1>2. Chain(m, q) /\ Last(q) = p[k]
  BY <1>1, ChainPrefix
<1> HIDE DEF q
<1>3. PICK w \in Valuations(m, q, TRUE, FALSE) :
            TwinOf(m, p, k, v, at, w) /\ path_constraints(q, Attributes(m, q, w), w)
  BY PrefixTwin DEF q
<1> DEFINE b == Attributes(m, q, w)
<1>4. /\ w.last = v.last /\ w.values = v.values /\ b = [g \in Reached(p, k) |-> at[g]] /\ path_constraints(q, b, w)
  BY <1>3 DEF TwinOf, q
<1>5. q \in valid
  <2>1. q \in AllPaths(m)
    BY <1>1, <1>2, ChainLength DEF Verified
  <2>2. Possible(m, q)
    BY <1>3 DEF Possible, Satisfiable
  <2> QED BY <2>1, <2>2 DEF Accepted
<1>6. /\ ~NegativeSize(m, q)
      /\ f # FINAL /\ m.types[f].kind = "opaque" => ~Misaligned(m, q) /\ ~FractionOfByte(m, q)
  BY <1>2, <1>5, CleanPositions DEF Accepted
<1>7. /\ p[k] \in m.structure /\ IsEntry(at[f]) /\ at[f].size = target_size(m, p[k], at, v)
  BY FollowedLink
<1>8. b[p[k].source] = at[p[k].source] /\ b[f] = at[f]
  <2>1. k - 1 \in Nat /\ (k - 1) + 1 = k /\ k <= Len(p) /\ k \in 1 .. k /\ \A j \in 1 .. k - 1 : j \in 1 .. k
    BY <1>1
  <2>2. p[(k - 1) + 1].source \in Reached(p, k - 1)
    BY <1>1, <2>1, SourceReached
  <2>3. p[k].source \in Reached(p, k) /\ f \in Reached(p, k)
    BY <2>1, <2>2 DEF Reached
  <2> HIDE DEF b
  <2> QED BY <1>4, <2>3
<1>9. PathSize(m, q, b, w) = at[f].size
  <2> HIDE DEF b
  <2>1. target_size(m, p[k], b, w) = target_size(m, p[k], at, v)
    BY <1>1, <1>4, <1>7, <1>8, EntryAgrees
  <2> QED BY <1>2, <1>7, <2>1 DEF PathSize
<1>10. at[f].size >= 0
  <2>1. ~(PathSize(m, q, b, w) < 0)
    BY <1>3, <1>6 DEF NegativeSize, Satisfiable
  <2>2. at[f].size \in Int
    BY <1>7 DEF IsEntry
  <2> HIDE DEF b
  <2> QED BY <1>9, <2>1, <2>2
<1>11. ASSUME f # FINAL, m.types[f].kind = "opaque" PROVE at[f].first % 8 = 1 /\ at[f].size % 8 = 0
  <2>1. ~(b[Last(q).target].first % 8 # 1)
    BY <1>3, <1>6, <1>11 DEF Misaligned, Satisfiable
  <2>2. ~(PathSize(m, q, b, w) % 8 # 0)
    BY <1>3, <1>6, <1>11 DEF FractionOfByte, Satisfiable
  <2> HIDE DEF b
  <2> QED BY <1>2, <1>8, <1>9, <2>1, <2>2
<1> QED BY <1>10, <1>11

(* Every field starts in the message. *)
LEMMA FieldStarts ==
  ASSUME Unknowns = Int, NEW m, NEW valid, Accepted(m, valid), NEW p, NEW v, NEW at, Follows(m, p, v, at)
  PROVE  \A k \in 1 .. Len(p) : at[p[k].target].first >= 1
<1>1. /\ Verified(m) /\ Chain(m, p) /\ Len(p) \in Nat
  BY FollowsFacts
<1> DEFINE T == {n \in Nat : n + 1 <= Len(p) => at[p[n + 1].target].first >= 1}
<1>2. ASSUME NEW k \in 1 .. Len(p)
      PROVE  /\ p[k] \in m.structure /\ at[p[k].target].first = target_first(p[k], at)
             /\ at[p[k].target].first \in Int /\ at[p[k].target].size \in Int /\ at[p[k].target].size >= 0
             /\ at[p[k].target].last = at[p[k].target].first + at[p[k].target].size - 1
             /\ p[k].first # Undefined => p[k].first.of = p[k].source /\ p[k].source # INITIAL
  <2>1. p[k] \in m.structure /\ IsEntry(at[p[k].target]) /\ at[p[k].target].first = target_first(p[k], at)
        /\ at[p[k].target].last = at[p[k].target].first + at[p[k].target].size - 1
    BY FollowedLink
  <2>2. at[p[k].target].size >= 0
    BY FieldPlaced
  <2>3. p[k].first # Undefined => p[k].first.of = p[k].source /\ p[k].source # INITIAL
    BY <1>1, <2>1, VerifiedLink
  <2> QED BY <2>1, <2>2, <2>3 DEF IsEntry
<1>3. 0 \in T
  <2> SUFFICES ASSUME 0 + 1 <= Len(p) PROVE at[p[0 + 1].target].first >= 1
    OBVIOUS
  <2>1. 1 \in 1 .. Len(p) /\ 0 + 1 = 1
    BY <1>1
  <2>2. p[1].source = INITIAL
    BY <1>1 DEF Chain
  <2>3. at[p[1].target].first = 1
    BY <1>2, <2>1, <2>2 DEF target_first
  <2> QED BY <2>1, <2>3
<1>4. ASSUME NEW n \in Nat, n \in T PROVE n + 1 \in T
  <2> SUFFICES ASSUME (n + 1) + 1 <= Len(p) PROVE at[p[(n + 1) + 1].target].first >= 1
    OBVIOUS
  <2> DEFINE i == n + 1
             k == (n + 1) + 1
  <2>1. i \in 1 .. Len(p) - 1 /\ i \in 1 .. Len(p) /\ k \in 1 .. Len(p) /\ k = i + 1 /\ at[p[i].target].first >= 1
    BY <1>1, <1>4
  <2> HIDE DEF i, k
  <2>2. p[k].source = p[i].target
    BY <1>1, <2>1 DEF Chain
  <2>3. /\ at[p[i].target].first \in Int /\ at[p[i].target].size \in Int /\ at[p[i].target].size >= 0
        /\ at[p[i].target].last = at[p[i].target].first + at[p[i].target].size - 1
    BY <1>2, <2>1
  <2>4. at[p[i].target].last + 1 >= 1
    BY <2>1, <2>3
  <2>5. at[p[k].target].first = target_first(p[k], at) /\ (p[k].first # Undefined => p[k].first.of = p[i].target)
    BY <1>2, <2>1, <2>2
  <2>6. target_first(p[k], at) \in {1, at[p[i].target].first, at[p[i].target].last + 1}
    BY <2>2, <2>5 DEF target_first
  <2>7. at[p[k].target].first >= 1
    BY <2>1, <2>4, <2>5, <2>6
  <2> QED BY <2>7 DEF k
<1>5. \A n \in Nat : n \in T
  <2> HIDE DEF T
  <2> QED BY <1>3, <1>4, InductiveSet
<1> SUFFICES ASSUME NEW k \in 1 .. Len(p) PROVE at[p[k].target].first >= 1
  OBVIOUS
<1>6. k - 1 \in Nat /\ (k - 1) + 1 = k /\ k <= Len(p)
  BY <1>1
<1>7. k - 1 \in T
  BY <1>5, <1>6
<1> QED BY <1>6, <1>7

(* No two conditions are true behind the same path. *)
LEMMA OneLink ==
  ASSUME Unknowns = Int, NEW m, NEW valid, Accepted(m, valid), NEW p, NEW v, NEW at, Follows(m, p, v, at)
  PROVE  Cardinality({l \in outgoing(m, Last(p).target) : True(l.condition, at, v)}) <= 1
<1> DEFINE E == {l \in outgoing(m, Last(p).target) : True(l.condition, at, v)}
<1>1. /\ Verified(m) /\ Chain(m, p) /\ Len(p) \in Nat /\ Len(p) >= 1 /\ p \in AllPaths(m)
  BY FollowsFacts DEF Follows
<1>2. SubSeq(p, 1, Len(p)) = p /\ Len(p) \in 1 .. Len(p)
  BY <1>1 DEF Chain
<1>9. \E w \in Valuations(m, SubSeq(p, 1, Len(p)), TRUE, FALSE) :
            /\ TwinOf(m, p, Len(p), v, at, w)
            /\ path_constraints(SubSeq(p, 1, Len(p)), Attributes(m, SubSeq(p, 1, Len(p)), w), w)
  BY <1>2, PrefixTwin
<1>3. PICK w \in Valuations(m, p, TRUE, FALSE) :
            TwinOf(m, p, Len(p), v, at, w) /\ path_constraints(p, Attributes(m, p, w), w)
  BY <1>2, <1>9, Zenon
<1>4. \A l \in m.structure : True(l.condition, Attributes(m, p, w), w) <=> True(l.condition, at, v)
  BY <1>2, <1>3 DEF TwinOf
<1>5. ASSUME NEW k \in E, NEW l \in E PROVE k = l
  <2> SUFFICES ASSUME k # l PROVE FALSE
    OBVIOUS
  <2> DEFINE L == {k, l}
             c == <<L, p>>
  <2>1. k \in m.structure /\ l \in m.structure /\ k.source = Last(p).target /\ l.source = Last(p).target
    BY DEF outgoing
  <2>2. Cardinality(L) = 2
    <3>1. IsFiniteSet({k}) /\ Cardinality({k}) = 1
      BY FS_Singleton
    <3>2. Cardinality({k} \cup {l}) = Cardinality({k}) + 1
      BY <3>1, FS_AddElement
    <3>3. {k} \cup {l} = L
      OBVIOUS
    <3> HIDE DEF L
    <3> QED BY <3>1, <3>2, <3>3
  <2>3. L \in kSubset(2, m.structure)
    <3>1. L \in SUBSET m.structure
      BY <2>1
    <3> HIDE DEF L
    <3> QED BY <2>2, <3>1 DEF kSubset
  <2>4. \A n \in L : n.source = Last(p).target /\ True(n.condition, Attributes(m, p, w), w)
    BY <1>4, <2>1
  <2> HIDE DEF L
  <2>5. c[1] = L /\ c[2] = p /\ c \in kSubset(2, m.structure) \X AllPaths(m)
    BY <1>1, <2>3
  <2> HIDE DEF c
  <2>6. c \in Conflicts(m)
    BY <2>4, <2>5 DEF Conflicts
  <2>7. ~InConflict(m, L, p)
    BY <2>5, <2>6, CleanConflicts DEF Accepted
  <2>8. InConflict(m, L, p)
    BY <1>3, <2>4 DEF InConflict, Satisfiable
  <2> QED BY <2>7, <2>8
<1> HIDE DEF E
<1>6. ASSUME E = {} PROVE Cardinality(E) <= 1
  BY <1>6, FS_EmptySet
<1>7. ASSUME E # {} PROVE Cardinality(E) <= 1
  <2>1. PICK x : x \in E
    BY <1>7
  <2>2. E = {x}
    BY <1>5, <2>1
  <2>3. Cardinality({x}) = 1
    BY FS_Singleton
  <2> QED BY <2>2, <2>3
<1>8. Cardinality(E) <= 1
  BY <1>6, <1>7
<1> QED BY <1>8 DEF E

(* Each position lies behind the one before it by the size of the field. *)
AddsUp(q, at, pos) ==
    /\ pos = [i \in 0 .. Len(q) |-> pos[i]] /\ pos[0] = 0
    /\ \A i \in 1 .. Len(q) : pos[i] = pos[i - 1] + (IF q[i].first = Undefined THEN at[q[i].target].size ELSE 0)

LEMMA SumOfSizes ==
  ASSUME NEW q, NEW at, Len(q) \in Nat, NEW pos, AddsUp(q, at, pos)
  PROVE  SizeOfFields(q, at) = pos[Len(q)]
<1>10. /\ pos = [i \in 0 .. Len(q) |-> pos[i]] /\ pos[0] = 0
       /\ \A i \in 1 .. Len(q) : pos[i] = pos[i - 1] + (IF q[i].first = Undefined THEN at[q[i].target].size ELSE 0)
  BY DEF AddsUp
<1> DEFINE N == Len(q)
           Sums(g) == g = [i \in 0 .. N |->
                              IF i = 0 THEN 0
                              ELSE g[i - 1] + (IF q[i].first = Undefined THEN at[q[i].target].size ELSE 0)]
           h == CHOOSE g : Sums(g)
<1>1. SizeOfFields(q, at) = h[N]
  BY DEF SizeOfFields
<1> HIDE DEF N
<1>2. Sums(pos)
  <2>1. ASSUME NEW i \in 0 .. N
        PROVE  pos[i] = IF i = 0 THEN 0
                        ELSE pos[i - 1] + (IF q[i].first = Undefined THEN at[q[i].target].size ELSE 0)
    <3>1. CASE i = 0
      BY <1>10, <3>1
    <3>2. CASE i # 0
      <4>1. i \in 1 .. Len(q)
        BY <3>2 DEF N
      <4> QED BY <1>10, <3>2, <4>1
    <3> QED BY <3>1, <3>2
  <2>2. pos = [i \in 0 .. N |-> pos[i]]
    BY <1>10 DEF N
  <2> QED BY <2>1, <2>2
<1>3. Sums(h)
  <2> HIDE DEF Sums
  <2> QED BY <1>2
<1> HIDE DEF h
<1>4. ASSUME NEW i \in 0 .. N
      PROVE  h[i] = IF i = 0 THEN 0 ELSE h[i - 1] + (IF q[i].first = Undefined THEN at[q[i].target].size ELSE 0)
  BY <1>3
<1> HIDE DEF Sums
<1>5. N \in Nat
  BY DEF N
<1> DEFINE T == {n \in Nat : n <= N => h[n] = pos[n]}
<1>6. 0 \in T
  <2>1. 0 \in 0 .. N
    BY <1>5
  <2> QED BY <1>4, <1>10, <2>1
<1>7. ASSUME NEW n \in Nat, n \in T PROVE n + 1 \in T
  <2> SUFFICES ASSUME n + 1 <= N PROVE h[n + 1] = pos[n + 1]
    OBVIOUS
  <2> DEFINE k == n + 1
  <2>1. k \in 0 .. N /\ k \in 1 .. Len(q) /\ k # 0 /\ k - 1 = n /\ h[n] = pos[n]
    BY <1>5, <1>7 DEF N
  <2> HIDE DEF k
  <2>2. h[k] = h[n] + (IF q[k].first = Undefined THEN at[q[k].target].size ELSE 0)
    BY <1>4, <2>1
  <2>3. pos[k] = pos[n] + (IF q[k].first = Undefined THEN at[q[k].target].size ELSE 0)
    BY <1>10, <2>1
  <2>4. h[k] = pos[k]
    BY <2>1, <2>2, <2>3
  <2> QED BY <2>4 DEF k
<1>8. \A n \in Nat : n \in T
  <2> HIDE DEF T
  <2> QED BY <1>6, <1>7, InductiveSet
<1>9. h[N] = pos[N]
  BY <1>5, <1>8
<1> QED BY <1>1, <1>9 DEF N

LEMMA FinalLink == ASSUME NEW m, Verified(m), NEW l \in m.structure, l.target = FINAL PROVE l.size = Undefined
<1>1. WrongSizes(m) = {}
  BY DEF Verified, VerifyOK
<1> QED BY <1>1 DEF WrongSizes

LEMMA InitialOrigin == ASSUME NEW m, NEW p, NEW v, NEW at, Follows(m, p, v, at) PROVE at[INITIAL].last = 0
<1>1. Located(m, p, Len(p), v, at)
  BY FollowsFacts
<1>2. at[INITIAL] = Origin
  BY <1>1 DEF Located
<1>3. Origin.last = 0
  BY DEF Origin
<1> QED BY <1>2, <1>3

(* A field that overlays no other starts behind the field in front of it. *)
LEMMA Behind ==
  ASSUME NEW m, NEW p, NEW v, NEW at, Follows(m, p, v, at), NEW k \in 1 .. Len(p), p[k].first = Undefined
  PROVE  at[p[k].target].last = at[p[k].source].last + at[p[k].target].size
<1>1. /\ IsEntry(at[p[k].target]) /\ IsEntry(at[p[k].source]) /\ at[p[k].target].first = target_first(p[k], at)
      /\ at[p[k].target].last = at[p[k].target].first + at[p[k].target].size - 1
  BY FollowedLink
<1>2. at[INITIAL].last = 0
  BY InitialOrigin
<1>3. at[p[k].target].first = at[p[k].source].last + 1
  <2>1. CASE p[k].source = INITIAL
    BY <1>1, <1>2, <2>1 DEF target_first
  <2>2. CASE p[k].source # INITIAL
    BY <1>1, <2>2 DEF target_first
  <2> QED BY <2>1, <2>2
<1> QED BY <1>1, <1>3 DEF IsEntry

(* The message ends at the end of a byte. *)
LEMMA EndAligned ==
  ASSUME Unknowns = Int, NEW m, NEW valid, Accepted(m, valid), NEW p, NEW v, NEW at, Follows(m, p, v, at),
         Last(p).target = FINAL, TakenForGranted(m, p, at)
  PROVE  at[FINAL].last % 8 = 0
<1> DEFINE n == Len(p)
           k == n - 1
           q == SubSeq(p, 1, k)
<1>1. /\ Verified(m) /\ Chain(m, p) /\ n \in Nat /\ n >= 1 /\ DOMAIN p = 1 .. n /\ p \in AllPaths(m)
  BY FollowsFacts DEF Follows
<1>2. Last(p) = p[n] /\ p[n].target = FINAL /\ p[n] \in m.structure /\ n \in 1 .. n
  BY <1>1, PathFacts DEF Verified
<1>3. n # 1
  <2>1. p[1].source = INITIAL
    BY <1>1 DEF Chain
  <2>2. p[n].source = INITIAL => p[n].target # FINAL
    BY <1>1, <1>2, VerifiedLink
  <2> QED BY <1>2, <2>1, <2>2
<1>4. k \in 1 .. n /\ k \in Nat /\ k + 1 = n /\ k \in 1 .. n - 1 /\ k <= n /\ k >= 1
  BY <1>1, <1>3
<1>5. p[n].source = p[k].target
  <2> HIDE DEF k
  <2>1. p[k + 1].source = p[k].target
    BY <1>1, <1>4 DEF Chain
  <2> QED BY <1>4, <2>1
<1> HIDE DEF n, k
<1>6. q = Front(p)
  BY <1>4 DEF Front, n, k
<1>7. Chain(m, q) /\ Len(q) = k /\ \A i \in 1 .. k : q[i] = p[i]
  BY <1>1, <1>4, ChainPrefix DEF n
<1>8. DOMAIN q = 1 .. k
  BY <1>7, SequenceFunction DEF Chain
<1>9. \E w \in Valuations(m, q, TRUE, FALSE) : TwinOf(m, p, k, v, at, w) /\ path_constraints(q, Attributes(m, q, w), w)
  BY <1>4, PrefixTwin DEF n
<1>10. PICK w \in Valuations(m, q, TRUE, FALSE) : TwinOf(m, p, k, v, at, w) /\ path_constraints(q, Attributes(m, q, w), w)
  BY <1>9
<1> DEFINE b == Attributes(m, q, w)
<1>11. b = [g \in Reached(p, k) |-> at[g]]
  BY <1>10 DEF TwinOf
<1> HIDE DEF q
<1>12. ASSUME NEW i \in 1 .. k
       PROVE  /\ i \in 1 .. n /\ i \in DOMAIN p /\ p[i].target # FINAL /\ p[i] \in m.structure
              /\ p[i].target \in Reached(p, k) /\ b[p[i].target] = at[p[i].target]
  <2>1. i \in 1 .. n - 1 /\ i \in 1 .. n /\ i + 1 \in 1 .. n
    BY <1>1, <1>4
  <2>2. p[i + 1].source = p[i].target
    BY <1>1, <2>1 DEF Chain, n
  <2>3. p[i + 1] \in m.structure /\ p[i] \in m.structure
    BY <2>1, FollowedLink DEF n
  <2>4. p[i].target # FINAL
    BY <1>1, <2>2, <2>3, VerifiedLink
  <2>5. p[i].target \in Reached(p, k)
    BY DEF Reached
  <2> HIDE DEF b
  <2> QED BY <1>1, <1>11, <2>1, <2>3, <2>4, <2>5
<1>13. ASSUME NEW f \in {q[i].target : i \in DOMAIN q}, m.types[f].kind \in Composite PROVE b[f].size % 8 = 0
  <2>1. PICK i \in 1 .. k : f = p[i].target
    BY <1>7, <1>8
  <2>2. b[f] = at[f] /\ f # FINAL /\ i \in 1 .. n /\ i \in DOMAIN p
    BY <1>12, <2>1
  <2>3. CASE m.types[f].kind = "opaque"
    <3>1. at[f].size % 8 = 0
      BY <2>1, <2>2, <2>3, FieldPlaced DEF n
    <3> QED BY <2>2, <3>1
  <2>4. CASE m.types[f].kind = "sequence"
    <3>1. at[f].size % 8 = 0
      BY <2>1, <2>2, <2>4 DEF TakenForGranted
    <3> QED BY <2>2, <3>1
  <2> QED BY <1>13, <2>3, <2>4 DEF Composite
<1>14. SizeOfFields(q, b) % 8 = 0
  <2>1. ~UnevenSize(m, q)
    BY <1>1, <1>2, <1>6, CleanSizes DEF Accepted, paths
  <2> DEFINE C == {f \in {q[i].target : i \in DOMAIN q} : m.types[f].kind \in Composite}
  <2>2. ~((\A f \in C : b[f].size % 8 = 0) /\ SizeOfFields(q, b) % 8 # 0)
    BY <1>10, <2>1 DEF UnevenSize, Satisfiable
  <2>3. \A f \in C : b[f].size % 8 = 0
    BY <1>13
  <2> HIDE DEF C, b
  <2> QED BY <2>2, <2>3
<1> DEFINE pos == [i \in 0 .. k |-> IF i = 0 THEN 0 ELSE at[p[i].target].last]
<1>15. ASSUME NEW i \in 1 .. k
       PROVE  pos[i] = pos[i - 1] + (IF q[i].first = Undefined THEN b[q[i].target].size ELSE 0)
  <2>1. i \in 1 .. n /\ i \in DOMAIN p /\ b[p[i].target] = at[p[i].target] /\ p[i] \in m.structure /\ q[i] = p[i]
    BY <1>7, <1>12
  <2>2. IsEntry(at[p[i].target]) /\ IsEntry(at[p[i].source])
    BY <2>1, FollowedLink DEF n
  <2>3. pos[i] = at[p[i].target].last
    <3>1. i \in 0 .. k /\ i # 0
      BY <1>4
    <3> QED BY <3>1
  <2>4. pos[i - 1] = at[p[i].source].last
    <3>1. CASE i = 1
      <4>1. p[i].source = INITIAL /\ at[INITIAL].last = 0
        BY <1>1, <3>1, InitialOrigin DEF Chain
      <4>2. i - 1 = 0 /\ 0 \in 0 .. k
        BY <1>4, <3>1
      <4>3. pos[0] = 0
        BY <4>2
      <4> HIDE DEF pos
      <4> QED BY <4>1, <4>2, <4>3
    <3>2. CASE i # 1
      <4>1. i - 1 \in 1 .. n - 1 /\ (i - 1) + 1 = i /\ i - 1 \in 0 .. k /\ i - 1 # 0
        BY <1>4, <3>2
      <4>2. p[(i - 1) + 1].source = p[i - 1].target
        BY <1>1, <4>1 DEF Chain, n
      <4>3. pos[i - 1] = at[p[i - 1].target].last
        BY <4>1
      <4> HIDE DEF pos
      <4> QED BY <4>1, <4>2, <4>3
    <3> QED BY <3>1, <3>2
  <2> HIDE DEF pos, b
  <2>5. CASE p[i].first = Undefined
    <3>1. at[p[i].target].last = at[p[i].source].last + at[p[i].target].size
      BY <2>1, <2>5, Behind DEF n
    <3> QED BY <2>1, <2>3, <2>4, <2>5, <3>1
  <2>6. CASE p[i].first # Undefined
    <3>1. at[p[i].target].last = at[p[i].source].last
      BY <2>1, <2>6 DEF TakenForGranted
    <3>2. at[p[i].source].last + 0 = at[p[i].source].last
      BY <2>2 DEF IsEntry
    <3> QED BY <2>1, <2>3, <2>4, <2>6, <3>1, <3>2
  <2> QED BY <2>5, <2>6
<1>16. pos = [i \in 0 .. k |-> pos[i]] /\ pos[0] = 0 /\ pos[k] = at[p[k].target].last
  <2>1. 0 \in 0 .. k /\ k \in 0 .. k /\ k # 0
    BY <1>4
  <2> QED BY <2>1
<1> HIDE DEF pos, b
<1>19. Len(q) = k /\ AddsUp(q, b, pos)
  BY <1>7, <1>15, <1>16 DEF AddsUp
<1>17. SizeOfFields(q, b) = at[p[k].target].last
  BY <1>4, <1>16, <1>19, SumOfSizes
<1>18. at[FINAL].last = at[p[k].target].last
  <2>1. IsEntry(at[FINAL]) /\ IsEntry(at[p[k].target]) /\ at[FINAL].size = target_size(m, p[n], at, v)
    BY <1>2, <1>5, FollowedLink DEF n
  <2>2. CASE p[n].first = Undefined
    <3>1. at[FINAL].last = at[p[k].target].last + at[FINAL].size
      BY <1>2, <1>5, <2>2, Behind DEF n
    <3>2. p[n].size = Undefined
      BY <1>1, <1>2, FinalLink
    <3>3. SizeKnown(m, p[n]) /\ Numeric(m, v) /\ at[p[n].source].last \in Int
      BY <1>1, <1>2, <1>5, <2>1, VerifiedLink, FollowsFacts DEF IsEntry
    <3>4. at[FINAL].size = 0
      BY <1>2, <2>1, <3>2, <3>3, TargetSize
    <3> QED BY <2>1, <3>1, <3>4 DEF IsEntry
  <2>3. CASE p[n].first # Undefined
    BY <1>1, <1>2, <1>5, <2>3 DEF TakenForGranted
  <2> QED BY <2>2, <2>3
<1> QED BY <1>14, <1>17, <1>18

LEMMA AcceptedPath ==
  ASSUME Unknowns = Int, NEW m, NEW valid, Accepted(m, valid), NEW p, NEW v, NEW at, Follows(m, p, v, at)
  PROVE  Unambiguous(m, p, v)
<1> DEFINE f == Last(p).target
<1>1. at = Attributes(m, p, v) /\ p \in AllPaths(m) /\ Verified(m)
  BY DEF Follows, Accepted
<1>2. Len(p) \in 1 .. Len(p) /\ Last(p) = p[Len(p)]
  BY <1>1, PathFacts DEF Verified
<1>3. Cardinality({l \in outgoing(m, f) : True(l.condition, at, v)}) <= 1
  BY OneLink
<1>4. at[f].size >= 0 /\ (f # FINAL /\ m.types[f].kind = "opaque" => at[f].first % 8 = 1 /\ at[f].size % 8 = 0)
  BY <1>2, FieldPlaced
<1>5. at[f].first >= 1
  BY <1>2, FieldStarts
<1>6. f = FINAL /\ TakenForGranted(m, p, at) => at[f].last % 8 = 0
  BY EndAligned
<1> HIDE DEF f
<1> QED BY <1>1, <1>3, <1>4, <1>5, <1>6 DEF Unambiguous, f

(* If the solver may choose any size for what the facts leave open, an accepted message
   has one meaning whatever its fields, sizes and conditions are: behind every path that
   a parser follows at most one link can be taken, every field has a size and starts in
   the message, opaque fields are aligned, and so is the end of the message, although
   the solver may give up on any proof but the ones that decide which paths are possible. *)
THEOREM AcceptedOneMeaning ==
  ASSUME Unknowns = Int
  PROVE  Spec => []AcceptedUnambiguous
<1>1. BaseInv /\ MessageInv => AcceptedUnambiguous
  <2> SUFFICES ASSUME BaseInv, MessageInv, phase = "accepted", PathsDecided,
                      NEW v \in Exact(message), NEW p \in Followed(message, v)
               PROVE  Unambiguous(message, p, v)
    BY DEF AcceptedUnambiguous
  <2>1. Sound(message) /\ VerifyOK(message) /\ Clean(message, valid_paths)
    BY DEF MessageInv, Validated
  <2>2. Verified(message)
    BY <2>1 DEF Verified
  <2>3. Accepted(message, valid_paths)
    BY <2>1, <2>2 DEF Accepted, PathsDecided
  <2> DEFINE at == Attributes(message, p, v)
  <2>4. Follows(message, p, v, at)
    BY <2>2 DEF Follows, Followed
  <2> HIDE DEF at
  <2> QED BY <2>3, <2>4, AcceptedPath
<1> QED BY <1>1, MessageInvariant, PTL

(* The paths in unreachable end at fields that another path continues. *)
Bypassed == \A u \in unreachable :
                u \in AllPaths(message) /\ ~Continued(u) /\ \E p \in paths(message, Last(u).target) : Continued(p)

(* Field f was found to go on, or was left out as all paths to it were seen before. *)
GoesOn(f) ==
    \/ \E p \in paths(message, f) : Continued(p)
    \/ \A p \in paths(message, f) : \E u \in unreachable : Extends(p, u)

(* What is known of the fields whose outgoing links were examined. *)
OutgoingInv ==
    /\ phase \in {"merge", "verify", "paths", "proofs"} => unreachable = {}
    /\ phase = "outgoing" => IsSequence(todo)
    /\ phase \in {"outgoing", "accepted"} =>
           HasErrors(error) \/ (Bypassed /\ \A f \in ToSet(fields) : (phase = "outgoing" /\ f \in ToSet(todo)) \/ GoesOn(f))

LEMMA TailElements ==
  ASSUME NEW s, IsSequence(s), s # <<>>, NEW x \in ToSet(s), x # Head(s)
  PROVE  x \in ToSet(Tail(s))
<1> DEFINE S == ToSet(s)
           t == Tail(s)
<1>1. s \in Seq(S)
  BY DEF IsSequence
<1>2. PICK i \in DOMAIN s : s[i] = x
  BY DEF ToSet
<1> HIDE DEF S
<1>3. Len(s) \in Nat /\ DOMAIN s = 1 .. Len(s) /\ Head(s) = s[1]
  BY <1>1
<1>4. i # 1 /\ i \in 1 .. Len(s)
  BY <1>2, <1>3
<1>5. t \in Seq(S) /\ Len(t) = Len(s) - 1 /\ \A j \in 1 .. Len(t) : t[j] = s[j + 1]
  BY <1>1
<1>6. DOMAIN t = 1 .. Len(t)
  BY <1>5
<1> HIDE DEF t
<1>7. i - 1 \in DOMAIN t /\ (i - 1) + 1 = i
  BY <1>3, <1>4, <1>5, <1>6
<1>8. t[i - 1] = s[(i - 1) + 1]
  BY <1>5, <1>6, <1>7
<1>9. t[i - 1] = x
  BY <1>2, <1>7, <1>8
<1>10. x \in ToSet(t)
  BY <1>7, <1>9 DEF ToSet
<1> QED BY <1>10 DEF t

(* An examined field goes on, or an error was reported for it. *)
LEMMA OutgoingEffect ==
  ASSUME BaseInv, MessageInv, CheckOutgoing, phase' = "outgoing", todo # <<>>
  PROVE  /\ todo' = Tail(todo)
         /\ \/ HasErrors(error')
            \/ \E f : \E more :
                  /\ f = Head(todo) /\ unreachable' = unreachable \cup more
                  /\ more \subseteq paths(message, f)
                  /\ \A u \in more : ~Continued(u)
                  /\ \/ \E p \in paths(message, f) : Continued(p)
                     \/ more = {} /\ \A p \in paths(message, f) : \E u \in unreachable : Extends(p, u)
<1> DEFINE f == Head(todo)
           seen == {p \in paths(message, f) : ~\E q \in unreachable : Extends(p, q)}
           dead == {p \in seen : ~Continued(p)}
           added == [i \in 1 .. Cardinality(seen) |-> Error("no_satisfiable_condition", f)]
<1>1. PICK visited \in (IF dead = seen THEN {dead} ELSE SUBSET dead) :
         /\ unreachable' = unreachable \cup visited /\ todo' = Tail(todo)
         /\ error' = IF dead # seen THEN error ELSE error \o added
  BY DEF CheckOutgoing
<1>2. visited \subseteq dead /\ (dead = seen => visited = dead)
  BY <1>1
<1>3. phase = "outgoing" /\ IsSequence(error) /\ IsFiniteSet(message.structure)
  BY DEF CheckOutgoing, BaseInv, Validated, WellFormed
<1>4. visited \subseteq paths(message, f) /\ \A u \in visited : ~Continued(u)
  BY <1>2
<1>5. CASE dead # seen
  <2>1. \E p \in paths(message, f) : Continued(p)
    BY <1>5
  <2> HIDE DEF dead, seen, f
  <2> QED BY <1>1, <1>4, <2>1 DEF f
<1>6. CASE dead = seen /\ seen = {}
  <2>1. visited = {} /\ \A p \in paths(message, f) : \E u \in unreachable : Extends(p, u)
    BY <1>2, <1>6
  <2> HIDE DEF dead, seen, f
  <2> QED BY <1>1, <1>4, <2>1 DEF f
<1>7. CASE dead = seen /\ seen # {}
  <2>1. IsFiniteSet(seen)
    BY <1>3, AllPathsMember, FS_Subset DEF paths
  <2> DEFINE n == Cardinality(seen)
             e == Error("no_satisfiable_condition", f)
  <2>2. added = [i \in 1 .. n |-> e] /\ n \in Nat /\ n # 0 /\ error' = error \o added
    BY <1>1, <1>7, <2>1, FS_CardinalityType, FS_EmptySet
  <2>3. e.severity = "error"
    BY DEF Error
  <2> HIDE DEF added, n, e, seen, dead
  <2>4. added \in Seq({e}) /\ 1 \in DOMAIN added /\ added[1] = e
    BY <2>2
  <2>5. IsSequence(added) /\ e \in ToSet(added)
    BY <2>4, SequenceType DEF ToSet
  <2>6. HasErrors(added)
    BY <2>3, <2>5, ErrorsAmong
  <2>7. HasErrors(error')
    BY <1>3, <2>2, <2>5, <2>6, ErrorsConcat
  <2> QED BY <1>1, <2>7
<1> QED BY <1>5, <1>6, <1>7

LEMMA OutgoingOutgoing == ASSUME BaseInv, MessageInv, OutgoingInv, CheckOutgoing PROVE OutgoingInv'
<1>1. /\ phase = "outgoing" /\ phase' \in {"outgoing", "crashed"}
      /\ UNCHANGED <<message, declaration, fields, valid_paths>>
      /\ HasErrors(error) => HasErrors(error')
  BY OutgoingErrors
<1>2. CASE phase' = "crashed"
  BY <1>2 DEF OutgoingInv
<1>3. CASE phase' = "outgoing"
  <2>1. todo # <<>> /\ IsSequence(todo)
    BY <1>1 DEF CheckOutgoing, OutgoingInv
  <2>2. todo' = Tail(todo) /\ IsSequence(Tail(todo))
    BY <1>3, <2>1, OutgoingEffect, HeadTail
  <2>3. CASE HasErrors(error')
    BY <1>3, <2>2, <2>3 DEF OutgoingInv
  <2>4. CASE ~HasErrors(error')
    <3>1. Bypassed /\ \A f \in ToSet(fields) : f \in ToSet(todo) \/ GoesOn(f)
      BY <1>1, <2>4 DEF OutgoingInv
    <3>2. PICK f : \E more :
                  /\ f = Head(todo) /\ unreachable' = unreachable \cup more
                  /\ more \subseteq paths(message, f)
                  /\ \A u \in more : ~Continued(u)
                  /\ \/ \E p \in paths(message, f) : Continued(p)
                     \/ more = {} /\ \A p \in paths(message, f) : \E u \in unreachable : Extends(p, u)
      BY <1>3, <2>1, <2>4, OutgoingEffect
    <3>3. PICK more :
                  /\ f = Head(todo) /\ unreachable' = unreachable \cup more
                  /\ more \subseteq paths(message, f)
                  /\ \A u \in more : ~Continued(u)
                  /\ \/ \E p \in paths(message, f) : Continued(p)
                     \/ more = {} /\ \A p \in paths(message, f) : \E u \in unreachable : Extends(p, u)
      BY <3>2
    <3>4. \A p : Continued(p)' <=> Continued(p)
      BY <1>1 DEF Continued
    <3>5. Bypassed'
      <4>1. ASSUME NEW u \in unreachable'
            PROVE  u \in AllPaths(message) /\ ~Continued(u) /\ \E p \in paths(message, Last(u).target) : Continued(p)
        <5>1. CASE u \in unreachable
          BY <3>1, <5>1 DEF Bypassed
        <5>2. CASE u \in more
          <6>1. u \in AllPaths(message) /\ Last(u).target = f
            BY <3>3, <5>2 DEF paths
          <6> QED BY <3>3, <5>2, <6>1
        <5> QED BY <3>3, <5>1, <5>2
      <4> QED BY <1>1, <3>4, <4>1 DEF Bypassed
    <3>6. ASSUME NEW g, GoesOn(g) PROVE GoesOn(g)'
      <4>1. CASE \E p \in paths(message, g) : Continued(p)
        BY <1>1, <3>4, <4>1 DEF GoesOn
      <4>2. CASE \A p \in paths(message, g) : \E u \in unreachable : Extends(p, u)
        <5>1. \A p \in paths(message, g) : \E u \in unreachable' : Extends(p, u)
          BY <3>3, <4>2
        <5> QED BY <1>1, <5>1 DEF GoesOn
      <4> QED BY <3>6, <4>1, <4>2 DEF GoesOn
    <3>7. GoesOn(f)
      BY <3>3 DEF GoesOn
    <3>8. ASSUME NEW g \in ToSet(fields) PROVE g \in ToSet(Tail(todo)) \/ GoesOn(g)'
      <4>1. CASE GoesOn(g)
        BY <3>6, <4>1
      <4>2. CASE g \in ToSet(todo) /\ g # Head(todo)
        BY <2>1, <4>2, TailElements
      <4>3. CASE g = Head(todo)
        BY <3>3, <3>6, <3>7, <4>3
      <4> QED BY <3>1, <4>1, <4>2, <4>3
    <3> QED BY <1>1, <1>3, <2>2, <3>5, <3>8 DEF OutgoingInv
  <2> QED BY <2>3, <2>4
<1> QED BY <1>1, <1>2, <1>3

LEMMA UnchangedOutgoing ==
  ASSUME UNCHANGED <<message, fields, valid_paths, todo, unreachable>>
  PROVE  (Bypassed' <=> Bypassed) /\ \A f : GoesOn(f)' <=> GoesOn(f)
<1>1. \A p : Continued(p)' <=> Continued(p)
  BY DEF Continued
<1> QED BY <1>1 DEF Bypassed, GoesOn

LEMMA OutgoingStep == ASSUME BaseInv, MessageInv, OutgoingInv, [Next \/ Ended]_vars PROVE OutgoingInv'
<1>1. CASE Merge
  <2>1. phase = "merge" /\ phase' \in {"merge", "rejected"} /\ UNCHANGED unreachable
    BY <1>1, MergeBase DEF Merge
  <2> QED BY <2>1 DEF OutgoingInv
<1>2. CASE Validate
  <2>1. phase = "merge" /\ phase' \in {"verify", "rejected"} /\ UNCHANGED unreachable
    BY <1>2, ValidateEffect DEF Validate
  <2> QED BY <2>1 DEF OutgoingInv
<1>3. CASE Verify
  <2>1. phase = "verify" /\ phase' \in {"paths", "rejected"} /\ UNCHANGED unreachable
    BY <1>3, VerifyEffect DEF Verify
  <2> QED BY <2>1 DEF OutgoingInv
<1>4. CASE Prove
  BY <1>4 DEF Prove, OutgoingInv
<1>5. CASE DetermineValidPaths
  <2>1. phase = "paths" /\ phase' \in {"proofs", "rejected"} /\ UNCHANGED unreachable
    BY <1>5, DetermineEffect
  <2> QED BY <2>1 DEF OutgoingInv
<1>6. CASE ProofsChecked
  <2>1. /\ phase = "proofs" /\ phase' = "outgoing" /\ todo' = fields
        /\ UNCHANGED <<error, message, declaration, fields, valid_paths, unreachable>>
    BY <1>6 DEF ProofsChecked
  <2>2. unreachable' = {} /\ IsSequence(fields)
    BY <2>1 DEF OutgoingInv, MessageInv, Validated, AreFields
  <2>3. Bypassed'
    BY <2>2 DEF Bypassed
  <2> QED BY <2>1, <2>2, <2>3 DEF OutgoingInv
<1>7. CASE CheckOutgoing
  BY <1>7, OutgoingOutgoing
<1>8. CASE Finish
  <2>1. /\ phase = "outgoing" /\ todo = <<>> /\ Propagate(<<>>, "accepted")
        /\ UNCHANGED <<message, declaration, fields, valid_paths, todo, unreachable>>
    BY <1>8 DEF Finish
  <2>2. IsSequence(error)
    BY DEF BaseInv
  <2>3. error' = error /\ phase' = IF HasErrors(error) THEN "rejected" ELSE "accepted"
    BY <2>1, <2>2, EmptyConcat DEF Propagate
  <2>4. (Bypassed' <=> Bypassed) /\ \A f : GoesOn(f)' <=> GoesOn(f)
    BY <2>1, UnchangedOutgoing
  <2> QED BY <2>1, <2>3, <2>4, EmptySequence DEF OutgoingInv
<1>9. CASE UNCHANGED vars
  <2>1. UNCHANGED <<message, fields, valid_paths, todo, unreachable>> /\ UNCHANGED <<phase, error>>
    BY <1>9 DEF vars, poolVars
  <2>2. (Bypassed' <=> Bypassed) /\ \A f : GoesOn(f)' <=> GoesOn(f)
    BY <2>1, UnchangedOutgoing
  <2> QED BY <2>1, <2>2 DEF OutgoingInv
<1> QED BY <1>1, <1>2, <1>3, <1>4, <1>5, <1>6, <1>7, <1>8, <1>9 DEF Next, Ended

LEMMA OutgoingInvariant == Spec => [](BaseInv /\ MessageInv /\ OutgoingInv)
<1>1. Init => OutgoingInv
  BY DEF Init, OutgoingInv
<1>2. BaseInv /\ MessageInv /\ OutgoingInv /\ [Next \/ Ended]_vars => OutgoingInv'
  BY OutgoingStep
<1> QED BY <1>1, <1>2, MessageInvariant, PTL DEF Spec

(* Every link lies on a path. *)
LEMMA LinkReached ==
  ASSUME NEW m, Sound(m), NEW l \in m.structure
  PROVE  \E p \in AllPaths(m) : Last(p) = l
<1> DEFINE OnPath(k) == \E p : Chain(m, p) /\ Last(p) = k
<1>1. PICK rank : Ranked(m, rank)
  BY DEF Sound
<1> DEFINE T == {n \in Nat : \E k \in m.structure : rank[k] = n /\ ~OnPath(k)}
<1>2. T = {}
  <2> SUFFICES ASSUME T # {} PROVE FALSE
    OBVIOUS
  <2>1. PICK n \in T : \A i \in T : n <= i
    <3>1. T \subseteq Nat
      OBVIOUS
    <3> HIDE DEF T
    <3> QED BY <3>1, LeastNatural
  <2>2. PICK k \in m.structure : rank[k] = n /\ ~OnPath(k)
    BY <2>1
  <2>3. CASE k.source = INITIAL
    <3> DEFINE p == <<k>>
    <3>1. p \in Seq(m.structure) /\ Len(p) = 1 /\ p[1] = k
      BY OneElement
    <3> HIDE DEF p
    <3>2. Chain(m, p)
      BY <2>3, <3>1 DEF Chain
    <3>3. Last(p) = k
      BY <3>1 DEF Last
    <3> QED BY <2>2, <3>2, <3>3
  <2>4. CASE k.source # INITIAL
    <3>1. PICK j \in m.structure : j.target = k.source
      BY <2>4 DEF Sound
    <3>2. rank[j] < rank[k] /\ rank[j] \in Nat /\ rank[k] \in Nat
      BY <1>1, <3>1 DEF Ranked
    <3>3. rank[j] \notin T
      BY <2>1, <2>2, <3>2
    <3>4. OnPath(j)
      BY <3>2, <3>3
    <3>5. PICK p : Chain(m, p) /\ Last(p) = j
      BY <3>4
    <3>6. k \in outgoing(m, Last(p).target)
      BY <3>1, <3>5 DEF outgoing
    <3>7. Chain(m, Append(p, k)) /\ Len(Append(p, k)) = Len(p) + 1
      BY <3>5, <3>6, ChainAppend
    <3>8. Append(p, k)[Len(p) + 1] = k
      BY <3>5 DEF Chain
    <3>9. Last(Append(p, k)) = k
      BY <3>7, <3>8 DEF Last
    <3> QED BY <2>2, <3>7, <3>9
  <2> QED BY <2>3, <2>4
<1>3. OnPath(l)
  <2>1. rank[l] \in Nat
    BY <1>1 DEF Ranked
  <2> QED BY <1>2, <2>1
<1> QED BY <1>3, ChainLength

(* Path p takes the end of a path that reaches the same field. *)
SplicedAt(m, c, p, k, r) ==
    /\ Chain(m, r) /\ Len(r) = Len(c) + (Len(p) - k) /\ Last(r) = Last(p)
    /\ \A i \in 1 .. Len(c) : r[i] = c[i]

LEMMA Splice ==
  ASSUME NEW m, NEW c, Chain(m, c), NEW p, Chain(m, p), NEW k \in 1 .. Len(p), k < Len(p), Last(c).target = p[k].target
  PROVE  \E r : SplicedAt(m, c, p, k, r)
<1> DEFINE a == Len(c)
           n == Len(c) + (Len(p) - k)
           r == [i \in 1 .. n |-> IF i <= a THEN c[i] ELSE p[k + (i - a)]]
<1>1. /\ c \in Seq(m.structure) /\ p \in Seq(m.structure) /\ a \in Nat /\ Len(p) \in Nat /\ a >= 1
      /\ c[1].source = INITIAL /\ Last(c) = c[a]
      /\ \A i \in 1 .. Len(p) - 1 : p[i + 1].source = p[i].target
      /\ \A i \in 1 .. a - 1 : c[i + 1].source = c[i].target
  BY DEF Chain, Last
<1>2. n \in Nat /\ n > a /\ k \in Nat /\ n = a + (Len(p) - k)
  BY <1>1
<1>3. (\A i \in 1 .. a : c[i] \in m.structure) /\ \A i \in 1 .. Len(p) : p[i] \in m.structure
  BY <1>1
<1>4. \A i \in 1 .. n : r[i] = IF i <= a THEN c[i] ELSE p[k + (i - a)]
  OBVIOUS
<1>5. \A i \in 1 .. n : i > a => k + (i - a) \in 1 .. Len(p)
  BY <1>1, <1>2
<1> HIDE DEF n
<1>6. r \in [1 .. n -> m.structure]
  BY <1>1, <1>2, <1>3, <1>5
<1> HIDE DEF r
<1>7. r \in Seq(m.structure) /\ Len(r) = n
  <2>1. n \in Nat
    BY <1>2
  <2> QED BY ONLY <1>6, <2>1
<1>8. \A i \in 1 .. a : r[i] = c[i]
  <2>1. \A i \in 1 .. a : i \in 1 .. n /\ i <= a
    BY <1>1, <1>2
  <2> QED BY <1>4, <2>1
<1>9. Last(r) = Last(p)
  <2>1. n \in 1 .. n /\ ~(n <= a) /\ k + (n - a) = Len(p)
    BY <1>1, <1>2
  <2>2. r[n] = p[k + (n - a)]
    BY <1>4, <2>1
  <2> QED BY <1>7, <2>1, <2>2 DEF Last
<1>10. ASSUME NEW i \in 1 .. n - 1 PROVE r[i + 1].source = r[i].target
  <2>1. i \in 1 .. n /\ i + 1 \in 1 .. n /\ i \in Nat
    BY <1>2
  <2>2. CASE i < a
    <3>1. i \in 1 .. a - 1 /\ i \in 1 .. a /\ i + 1 \in 1 .. a
      BY <1>1, <2>1, <2>2
    <3> QED BY <1>1, <1>8, <3>1
  <2>3. CASE i = a
    <3>1. i <= a /\ ~(i + 1 <= a) /\ k + ((i + 1) - a) = k + 1
      BY <1>1, <1>2, <2>1, <2>3
    <3>2. r[i] = c[i] /\ r[i + 1] = p[k + ((i + 1) - a)]
      BY <1>4, <2>1, <3>1
    <3>3. p[k + 1].source = p[k].target
      BY <1>1
    <3> QED BY <1>1, <2>3, <3>1, <3>3, <3>2
  <2>4. CASE i > a
    <3> DEFINE j == k + (i - a)
    <3>1. j \in 1 .. Len(p) - 1 /\ k + ((i + 1) - a) = j + 1
      BY <1>1, <1>2, <2>1, <2>4
    <3>2. ~(i <= a) /\ ~(i + 1 <= a)
      BY <1>1, <2>1, <2>4
    <3>3. r[i] = p[j] /\ r[i + 1] = p[k + ((i + 1) - a)]
      BY <1>4, <2>1, <3>2
    <3> HIDE DEF j
    <3> QED BY <1>1, <3>1, <3>3
  <2> QED BY <1>1, <2>1, <2>2, <2>3, <2>4
<1>11. r[1].source = INITIAL
  BY <1>1, <1>8
<1>12. Chain(m, r)
  <2>1. Len(r) >= 1
    BY <1>1, <1>2, <1>7
  <2> QED BY <1>7, <1>10, <1>11, <2>1 DEF Chain
<1>13. Len(r) = Len(c) + (Len(p) - k)
  BY <1>7 DEF n
<1> QED BY <1>8, <1>9, <1>12, <1>13 DEF SplicedAt

LEMMA ExtendsElements ==
  ASSUME NEW m, NEW p, Chain(m, p), NEW q, Chain(m, q)
  PROVE  Extends(q, p) <=> Len(q) > Len(p) /\ \A i \in 1 .. Len(p) : q[i] = p[i]
<1>1. p \in Seq(m.structure) /\ q \in Seq(m.structure) /\ Len(p) \in Nat /\ Len(q) \in Nat /\ Len(p) >= 1
  BY DEF Chain
<1>2. CASE Len(q) > Len(p)
  <2> DEFINE s == SubSeq(q, 1, Len(p))
  <2>1. Len(p) \in 1 .. Len(q)
    BY <1>1, <1>2
  <2>2. s \in Seq(m.structure) /\ Len(s) = Len(p) /\ \A i \in 1 .. Len(p) : s[i] = q[i]
    BY <2>1, ChainPrefix DEF Chain
  <2> HIDE DEF s
  <2>3. s = p <=> \A i \in 1 .. Len(p) : q[i] = p[i]
    <3>1. s \in [1 .. Len(p) -> m.structure] /\ p \in [1 .. Len(p) -> m.structure]
      BY <1>1, <2>2, SequenceFunction
    <3> QED BY <2>2, <3>1
  <2> QED BY <1>2, <2>3 DEF Extends, s
<1>3. CASE ~(Len(q) > Len(p))
  BY <1>3 DEF Extends
<1> QED BY <1>2, <1>3

(* A field that was left out because all paths to it were seen before goes on as well. *)
LEMMA GoesOnContinued ==
  ASSUME Sound(message), valid_paths \subseteq AllPaths(message), Bypassed, NEW f, GoesOn(f), paths(message, f) # {}
  PROVE  \E p \in paths(message, f) : Continued(p)
<1> SUFFICES ASSUME \A p \in paths(message, f) : ~Continued(p) PROVE FALSE
  OBVIOUS
<1>1. \A p \in paths(message, f) : \E u \in unreachable : Extends(p, u)
  BY DEF GoesOn
<1>2. \A p \in AllPaths(message) : Chain(message, p) /\ Len(p) \in Nat /\ Len(p) >= 1 /\ Last(p) = p[Len(p)]
  BY PathFacts
<1>3. unreachable \subseteq AllPaths(message) /\ \A u \in unreachable : ~Continued(u)
  BY DEF Bypassed
<1> DEFINE Gap(n, p, u) == p \in paths(message, f) /\ u \in unreachable /\ Extends(p, u) /\ Len(p) = Len(u) + n
           T == {n \in Nat : \E p, u : Gap(n, p, u)}
<1>4. ASSUME NEW p \in paths(message, f), NEW u \in unreachable, Extends(p, u) PROVE Len(p) - Len(u) \in T
  <2> DEFINE n == Len(p) - Len(u)
  <2>1. Len(p) \in Nat /\ Len(u) \in Nat /\ Len(p) > Len(u)
    BY <1>2, <1>3, <1>4 DEF paths, Extends
  <2>2. n \in Nat /\ Len(p) = Len(u) + n
    BY <2>1
  <2> HIDE DEF n
  <2>3. Gap(n, p, u)
    BY <1>4, <2>2
  <2>4. n \in T
    BY <2>2, <2>3
  <2> QED BY <2>4 DEF n
<1>5. T # {}
  BY <1>1, <1>4
<1>6. PICK n \in T : \A i \in T : n <= i
  <2>1. T \subseteq Nat
    OBVIOUS
  <2> HIDE DEF T
  <2> QED BY <1>5, <2>1, LeastNatural
<1>7. PICK p : \E u : Gap(n, p, u)
  BY <1>6
<1>8. PICK u : Gap(n, p, u)
  BY <1>7
<1>9. n \in Nat
  BY <1>6
<1> HIDE DEF T
<1>10. /\ p \in AllPaths(message) /\ Last(p).target = f /\ u \in unreachable /\ u \in AllPaths(message)
       /\ Extends(p, u) /\ Len(p) = Len(u) + n
  BY <1>3, <1>8 DEF paths
<1> HIDE DEF Gap
<1>11. /\ Chain(message, p) /\ Chain(message, u) /\ Len(p) \in Nat /\ Len(u) \in 1 .. Len(p) /\ Len(u) < Len(p)
       /\ p[Len(u)] = u[Len(u)] /\ Last(u) = u[Len(u)]
  <2>1. Chain(message, p) /\ Chain(message, u) /\ Len(p) \in Nat /\ Len(u) \in Nat /\ Len(u) >= 1 /\ Last(u) = u[Len(u)]
    BY <1>2, <1>10
  <2>2. Len(u) < Len(p) /\ \A i \in 1 .. Len(u) : p[i] = u[i]
    BY <1>10, <2>1, ExtendsElements
  <2> QED BY <2>1, <2>2
<1>12. PICK c \in paths(message, Last(u).target) : Continued(c)
  BY <1>10 DEF Bypassed
<1>13. c \in AllPaths(message) /\ Last(c).target = p[Len(u)].target
  BY <1>11, <1>12 DEF paths
<1>14. Chain(message, c) /\ Len(c) \in Nat /\ Len(c) >= 1
  BY <1>2, <1>13
<1>15. PICK r : SplicedAt(message, c, p, Len(u), r)
  BY <1>11, <1>13, <1>14, Splice
<1>16. /\ Chain(message, r) /\ Len(r) = Len(c) + n /\ Last(r) = Last(p) /\ r \in AllPaths(message)
       /\ \A i \in 1 .. Len(c) : r[i] = c[i]
  <2>1. /\ Chain(message, r) /\ Len(r) = Len(c) + (Len(p) - Len(u)) /\ Last(r) = Last(p)
        /\ \A i \in 1 .. Len(c) : r[i] = c[i]
    BY <1>15 DEF SplicedAt
  <2>2. Len(p) - Len(u) = n
    BY <1>9, <1>10, <1>11
  <2> QED BY <2>1, <2>2, ChainLength
<1>17. r \in paths(message, f)
  BY <1>10, <1>16 DEF paths
<1>18. PICK x \in unreachable : Extends(r, x)
  BY <1>1, <1>17
<1>19. Chain(message, x) /\ Len(x) \in Nat /\ x \in AllPaths(message)
  BY <1>2, <1>3, <1>18
<1>20. Len(r) > Len(x) /\ \A i \in 1 .. Len(x) : r[i] = x[i]
  BY <1>16, <1>18, <1>19, ExtendsElements
<1>21. CASE Len(x) <= Len(c)
  <2>1. PICK q \in valid_paths : Extends(q, c)
    BY <1>12 DEF Continued
  <2>2. Chain(message, q) /\ Len(q) \in Nat
    BY <1>2, <2>1
  <2>3. Len(q) > Len(c) /\ \A i \in 1 .. Len(c) : q[i] = c[i]
    BY <1>14, <2>1, <2>2, ExtendsElements
  <2>4. \A i \in 1 .. Len(x) : i \in 1 .. Len(c)
    BY <1>14, <1>19, <1>21
  <2>5. Len(q) > Len(x) /\ \A i \in 1 .. Len(x) : q[i] = x[i]
    BY <1>14, <1>16, <1>19, <1>20, <1>21, <2>2, <2>3, <2>4
  <2>6. Extends(q, x)
    BY <1>19, <2>2, <2>5, ExtendsElements
  <2> QED BY <1>3, <1>18, <2>1, <2>6 DEF Continued
<1>22. CASE Len(x) > Len(c)
  <2>1. Len(r) - Len(x) \in T
    BY <1>4, <1>17, <1>18
  <2>2. n <= Len(r) - Len(x)
    BY <1>6, <2>1
  <2> QED BY <1>9, <1>14, <1>16, <1>19, <1>22, <2>2
<1> QED BY <1>14, <1>19, <1>21, <1>22

(* What the facts about the first k links leave open does not matter there. *)
Determined(q, k) == \A i \in 1 .. k : q[i].size # Implicit /\ \A a \in q[i].condition : a.field # INITIAL

(* A parser finds the way of the solver, as far as the facts determine it. *)
LEMMA SolvedFollowed ==
  ASSUME Unknowns = Int, NEW m, Verified(m), NEW q \in AllPaths(m), Possible(m, q), NEW k \in 1 .. Len(q), Determined(q, k)
  PROVE  \E v \in Exact(m) : SubSeq(q, 1, k) \in Followed(m, v)
<1> DEFINE p == SubSeq(q, 1, k)
<1>1. Chain(m, q) /\ Len(q) \in Nat /\ DOMAIN q = 1 .. Len(q)
  BY PathFacts, SequenceFunction DEF Verified
<1>2. PICK w \in Valuations(m, q, TRUE, FALSE) : path_constraints(q, Attributes(m, q, w), w)
  BY DEF Possible, Satisfiable
<1> DEFINE at == Attributes(m, q, w)
<1>3. /\ Numeric(m, w) /\ w.values \in Values(m) /\ w.last \in Lasts /\ w.exact = FALSE
      /\ w.outside \in [Outside(m, q) -> [size : Unknowns, last : Unknowns]]
  BY ValuationIs, ValuationNumeric
<1>4. Located(m, q, Len(q), w, at) /\ path_constraints(q, at, w)
  BY <1>1, <1>2, <1>3, AttributesLocated
<1> HIDE DEF at
<1>5. DOMAIN at = Reached(q, Len(q)) /\ \A g \in DOMAIN at : IsEntry(at[g])
  BY <1>4 DEF Located
<1> DEFINE outside == [g \in Measured(m) |->
                          IF g \in DOMAIN at THEN [size |-> at[g].size, last |-> at[g].last] ELSE w.outside[g]]
           v == [values |-> w.values, last |-> w.last, size |-> 0, end |-> 0, outside |-> outside, exact |-> TRUE]
<1>6. /\ DOMAIN outside = Measured(m) /\ outside = [g \in Measured(m) |-> outside[g]]
      /\ \A g \in Measured(m) : outside[g] = IF g \in DOMAIN at THEN [size |-> at[g].size, last |-> at[g].last] ELSE w.outside[g]
  OBVIOUS
<1> HIDE DEF outside
<1>7. \A g \in Measured(m) : g \notin DOMAIN at => g \in Outside(m, q)
  BY <1>1, <1>5 DEF Outside, Reached
<1>8. outside \in [Measured(m) -> [size : Unknowns, last : Unknowns]]
  <2>1. ASSUME NEW g \in Measured(m) PROVE outside[g] \in [size : Unknowns, last : Unknowns]
    <3>1. CASE g \in DOMAIN at
      <4>1. at[g].size \in Unknowns /\ at[g].last \in Unknowns
        BY <1>5, <3>1 DEF IsEntry
      <4> QED BY <1>6, <3>1, <4>1
    <3>2. CASE g \notin DOMAIN at
      BY <1>3, <1>6, <1>7, <3>2
    <3> QED BY <3>1, <3>2
  <2> QED BY <1>6, <2>1
<1>9. /\ v.values = w.values /\ v.last = w.last /\ v.size = 0 /\ v.end = 0 /\ v.outside = outside /\ v.exact = TRUE
      /\ v = [values |-> v.values, last |-> v.last, size |-> v.size, end |-> v.end, outside |-> v.outside, exact |-> v.exact]
  OBVIOUS
<1> HIDE DEF v
<1>10. v \in Valuations(m, <<>>, TRUE, TRUE)
  <2>1. DOMAIN <<>> = {}
    OBVIOUS
  <2>2. Outside(m, <<>>) = Measured(m)
    BY <2>1 DEF Outside
  <2>3. Open(<<>>, TRUE) = {0}
    BY DEF Open
  <2> QED BY <1>3, <1>8, <1>9, <2>2, <2>3, ValuationIs
<1>11. Numeric(m, v)
  BY <1>10, ValuationNumeric
<1>12. Chain(m, p) /\ Len(p) = k /\ (\A i \in 1 .. k : p[i] = q[i] /\ i \in 1 .. Len(q)) /\ k \in Nat /\ k <= Len(q)
  BY <1>1, ChainPrefix
<1>13. DOMAIN p = 1 .. k
  BY <1>12, SequenceFunction DEF Chain
<1> DEFINE b == Attributes(m, p, v)
<1>14. b = [g \in Reached(q, k) |-> at[g]]
  <2>1. \A i \in 1 .. k : q[i].size = Implicit =>
             ~v.exact /\ v.size = at[q[i].target].size /\ v.end = at[q[i].target].last
    BY DEF Determined
  <2> QED BY <1>1, <1>3, <1>4, <1>9, <1>11, <2>1, PrefixAgrees
<1>15. p \in AllPaths(m)
  BY <1>12, ChainLength DEF Verified
<1> HIDE DEF b, p
<1>16. DOMAIN b = Reached(q, k) /\ \A g \in Reached(q, k) : b[g] = at[g]
  BY <1>14
<1>17. Reached(q, k) \subseteq DOMAIN at
  BY <1>5, <1>12 DEF Reached
<1>18. ASSUME NEW i \in 1 .. k PROVE True(p[i].condition, b, v) /\ b[p[i].target].last <= v.last
  <2> DEFINE l == q[i]
  <2>1. i \in DOMAIN q /\ l \in m.structure /\ p[i] = l
    BY <1>1, <1>12 DEF Chain
  <2>2. True(l.condition, at, w) /\ at[l.target].last <= w.last
    BY <1>4, <2>1 DEF path_constraints
  <2>3. \A a \in l.condition : a.field # INITIAL
    BY DEF Determined
  <2>4. l.target \in Reached(q, k)
    BY DEF Reached
  <2> HIDE DEF l
  <2>5. \A a \in l.condition : IsAtom(a)
    BY <2>1, VerifiedLink DEF IsLink
  <2>6. ASSUME NEW a \in l.condition, a.attr # "Value", a.field # Message
        PROVE  Seen(a.field, b, v).size = Seen(a.field, at, w).size /\ Seen(a.field, b, v).last = Seen(a.field, at, w).last
    <3> DEFINE f == a.field
    <3>1. f \in Measured(m) /\ f # INITIAL
      BY <2>1, <2>3, <2>6, MeasuredFields
    <3> HIDE DEF f
    <3>2. CASE f \in Reached(q, k)
      <4>1. Seen(f, b, v) = at[f] /\ Seen(f, at, w) = at[f]
        BY <1>16, <1>17, <3>1, <3>2 DEF Seen
      <4> QED BY <4>1 DEF f
    <3>3. CASE f \notin Reached(q, k)
      <4>1. Seen(f, b, v) = outside[f]
        BY <1>9, <1>16, <3>3 DEF Seen
      <4>2. Seen(f, at, w) = IF f \in DOMAIN at THEN at[f] ELSE w.outside[f]
        BY <3>1 DEF Seen
      <4>3. outside[f] = IF f \in DOMAIN at THEN [size |-> at[f].size, last |-> at[f].last] ELSE w.outside[f]
        BY <1>6, <3>1
      <4>4. CASE f \in DOMAIN at
        BY <4>1, <4>2, <4>3, <4>4 DEF f
      <4>5. CASE f \notin DOMAIN at
        BY <4>1, <4>2, <4>3, <4>5 DEF f
      <4> QED BY <4>4, <4>5
    <3> QED BY <3>2, <3>3
  <2>7. True(l.condition, b, v) <=> True(l.condition, at, w)
    BY <1>9, <2>5, <2>6, TrueAgrees
  <2> QED BY <1>9, <1>16, <2>1, <2>2, <2>4, <2>7
<1>19. path_constraints(p, b, v)
  BY <1>13, <1>18 DEF path_constraints
<1>20. p \in Followed(m, v)
  BY <1>15, <1>19 DEF Followed, b
<1> QED BY <1>10, <1>20 DEF p, Exact

(* A continued path to f leads on, for some values or beyond what the facts determine. *)
LEMMA ContinuedFollowed ==
  ASSUME Unknowns = Int, Verified(message), valid_paths \subseteq AllPaths(message),
         \A q \in valid_paths : Possible(message, q), NEW f, NEW c \in paths(message, f), Continued(c)
  PROVE  \/ \E p \in AllPaths(message) : Last(p).source = f /\ Undetermined(p)
         \/ \E v \in Exact(message) : \E p \in Followed(message, v) : Last(p).source = f
<1>1. PICK q \in valid_paths : Extends(q, c)
  BY DEF Continued
<1>2. c \in AllPaths(message) /\ Last(c).target = f /\ q \in AllPaths(message) /\ Possible(message, q)
  BY <1>1 DEF paths
<1>3. Chain(message, c) /\ Chain(message, q) /\ Len(c) \in Nat /\ Len(c) >= 1 /\ Len(q) \in Nat /\ Last(c) = c[Len(c)]
  BY <1>2, PathFacts DEF Verified
<1>4. Len(q) > Len(c) /\ \A i \in 1 .. Len(c) : q[i] = c[i]
  BY <1>1, <1>3, ExtendsElements
<1> DEFINE k == Len(c) + 1
           p == SubSeq(q, 1, k)
<1>5. k \in 1 .. Len(q) /\ Len(c) \in 1 .. Len(q) - 1 /\ Len(c) \in 1 .. Len(c)
  BY <1>3, <1>4
<1>6. q[k].source = q[Len(c)].target
  BY <1>3, <1>5 DEF Chain
<1>7. q[k].source = f
  BY <1>2, <1>3, <1>4, <1>5, <1>6
<1> HIDE DEF k
<1>8. Chain(message, p) /\ Len(p) = k /\ (\A i \in 1 .. k : p[i] = q[i]) /\ Last(p) = q[k]
  BY <1>3, <1>5, ChainPrefix
<1>9. p \in AllPaths(message) /\ Last(p).source = f
  BY <1>7, <1>8, ChainLength DEF Verified
<1>10. DOMAIN p = 1 .. k
  BY <1>8, SequenceFunction DEF Chain
<1>11. CASE Determined(q, k)
  <2>1. \E v \in Exact(message) : SubSeq(q, 1, k) \in Followed(message, v)
    BY <1>2, <1>5, <1>11, SolvedFollowed
  <2> QED BY <1>9, <2>1
<1> HIDE DEF p
<1>12. CASE ~Determined(q, k)
  <2>1. Undetermined(p)
    BY <1>8, <1>10, <1>12 DEF Determined, Undetermined
  <2> QED BY <1>9, <2>1
<1> QED BY <1>11, <1>12

(* If the solver may choose any size for what the facts leave open, every field of an
   accepted message can be reached and the message goes on behind it for some values,
   unless the facts do not determine how.  The shortcut of
   _prove_conditions_at_outgoing_links loses nothing: a path behind one that was seen to
   end can take the place of another that goes on, whatever the order of the paths is. *)
THEOREM FieldsGoOn ==
  ASSUME Unknowns = Int
  PROVE  Spec => []FieldsContinue
<1>1. BaseInv /\ MessageInv /\ OutgoingInv => FieldsContinue
  <2> SUFFICES ASSUME BaseInv, MessageInv, OutgoingInv, phase = "accepted", NEW f \in ToSet(fields)
               PROVE  \/ \E p \in AllPaths(message) : Last(p).source = f /\ Undetermined(p)
                      \/ \E v \in Exact(message) : \E p \in Followed(message, v) : Last(p).source = f
    BY DEF FieldsContinue
  <2>1. /\ Sound(message) /\ VerifyOK(message) /\ ~HasErrors(error) /\ AreFields(fields, message)
        /\ \A q \in valid_paths : Possible(message, q)
    BY DEF MessageInv, Validated, Decided
  <2>2. Verified(message) /\ valid_paths \subseteq AllPaths(message)
    BY <2>1 DEF Verified, BaseInv, Decided
  <2>3. Bypassed /\ GoesOn(f)
    BY <2>1 DEF OutgoingInv
  <2>4. PICK l \in message.structure : l.target = f
    BY <2>1 DEF AreFields
  <2>5. PICK r \in AllPaths(message) : Last(r) = l
    BY <2>1, LinkReached
  <2>6. paths(message, f) # {}
    BY <2>4, <2>5 DEF paths
  <2>7. PICK c \in paths(message, f) : Continued(c)
    BY <2>1, <2>2, <2>3, <2>6, GoesOnContinued
  <2> QED BY <2>1, <2>2, <2>7, ContinuedFollowed
<1> QED BY <1>1, OutgoingInvariant, PTL

=============================================================================
