---------------------------- MODULE CountingLemmas ----------------------------
(***************************************************************************)
(* How the number of threads at given places changes when one thread       *)
(* moves, and the number of messages of a kind when a queue grows or       *)
(* shrinks: the steps behind every accounting invariant of this project.   *)
(***************************************************************************)
EXTENDS Integers, Sequences, FiniteSets, FiniteSetTheorems, TLAPS

\* The threads of T that the program counter f puts at a place in L.
Places(T, f, L) == {x \in T : f[x] \in L}

\* 1 when the place l is one of L, 0 otherwise.
Is(l, L) == IF l \in L THEN 1 ELSE 0

\* The thread t moves from the place a of f to the place b of g, alone.
Moves(T, f, g, t, a, b) ==
    /\ t \in T
    /\ f[t] = a
    /\ g[t] = b
    /\ \A x \in T \ {t} : g[x] = f[x]

\* Counts of threads are natural numbers, at most the number of threads.
LEMMA PlacesCount ==
    ASSUME NEW T, IsFiniteSet(T), NEW f, NEW L
    PROVE  /\ Cardinality(Places(T, f, L)) \in Nat
           /\ IsFiniteSet(Places(T, f, L))
           /\ Cardinality(Places(T, f, L)) <= Cardinality(T)
BY FS_Subset, FS_CardinalityType DEF Places

\* Moving one thread from a to b changes the count of L by one at most.
LEMMA PlacesMove ==
    ASSUME NEW T, IsFiniteSet(T), NEW f, NEW g, NEW t, NEW a, NEW b, NEW L,
           Moves(T, f, g, t, a, b)
    PROVE  Cardinality(Places(T, g, L)) =
               Cardinality(Places(T, f, L)) - Is(a, L) + Is(b, L)
<1> USE DEF Moves
<1> DEFINE A == Places(T, f, L)
           B == Places(T, g, L)
           C == {x \in T \ {t} : f[x] \in L}
<1>1. IsFiniteSet(C)
  BY FS_Subset
<1>2. Cardinality(C) \in Nat
  BY <1>1, FS_CardinalityType
<1>3. t \notin C
  OBVIOUS
<1>4. A = IF f[t] \in L THEN C \cup {t} ELSE C
  BY DEF Places
<1>5. B = IF g[t] \in L THEN C \cup {t} ELSE C
  BY DEF Places
<1>6. Cardinality(C \cup {t}) = Cardinality(C) + 1
  BY <1>1, <1>3, FS_AddElement
<1> HIDE DEF A, B, C
<1>7. Cardinality(A) = Cardinality(C) + Is(a, L)
  BY <1>2, <1>4, <1>6 DEF Is
<1>8. Cardinality(B) = Cardinality(C) + Is(b, L)
  BY <1>2, <1>5, <1>6 DEF Is
<1>9. Is(a, L) \in {0, 1} /\ Is(b, L) \in {0, 1}
  BY DEF Is
<1> QED
  BY <1>2, <1>7, <1>8, <1>9 DEF A, B

\* No thread is at L exactly when the count of L is zero.
LEMMA PlacesEmpty ==
    ASSUME NEW T, IsFiniteSet(T), NEW f, NEW L
    PROVE  Cardinality(Places(T, f, L)) = 0 <=> \A x \in T : f[x] \notin L
BY PlacesCount, FS_EmptySet DEF Places

\* Counting two disjoint sets of places together adds the counts.
LEMMA PlacesUnion ==
    ASSUME NEW T, IsFiniteSet(T), NEW f, NEW K, NEW L, K \cap L = {}
    PROVE  Cardinality(Places(T, f, K \cup L)) =
               Cardinality(Places(T, f, K)) + Cardinality(Places(T, f, L))
<1>1. Places(T, f, K \cup L) = Places(T, f, K) \cup Places(T, f, L)
  BY DEF Places
<1>2. Places(T, f, K) \cap Places(T, f, L) = {}
  BY DEF Places
<1>3. IsFiniteSet(Places(T, f, K)) /\ IsFiniteSet(Places(T, f, L))
  BY PlacesCount
<1>4. Cardinality(Places(T, f, K) \cup Places(T, f, L)) =
        Cardinality(Places(T, f, K)) + Cardinality(Places(T, f, L))
        - Cardinality(Places(T, f, K) \cap Places(T, f, L))
  BY <1>3, FS_Union
<1>5. Cardinality({}) = 0
  BY FS_EmptySet
<1>6. /\ Cardinality(Places(T, f, K)) \in Nat
      /\ Cardinality(Places(T, f, L)) \in Nat
  BY PlacesCount
<1>7. Cardinality(Places(T, f, K \cup L)) =
        Cardinality(Places(T, f, K)) + Cardinality(Places(T, f, L)) - 0
  BY <1>1, <1>2, <1>4, <1>5, Zenon
<1> QED
  BY <1>6, <1>7

-------------------------------------------------------------------------------
\* What Append adds.
LEMMA AppendFacts ==
    ASSUME NEW S, NEW q \in Seq(S), NEW e \in S
    PROVE  /\ Append(q, e) \in Seq(S)
           /\ Len(Append(q, e)) = Len(q) + 1
           /\ DOMAIN Append(q, e) = 1 .. Len(q) + 1
           /\ DOMAIN q = 1 .. Len(q) /\ Len(q) \in Nat
           /\ \A k \in 1 .. Len(q) : Append(q, e)[k] = q[k]
           /\ Append(q, e)[Len(q) + 1] = e
OBVIOUS

\* What Tail leaves.
LEMMA TailFacts ==
    ASSUME NEW S, NEW q \in Seq(S), q # << >>
    PROVE  /\ Tail(q) \in Seq(S)
           /\ Len(q) \in Nat \ {0} /\ Len(Tail(q)) = Len(q) - 1
           /\ DOMAIN q = 1 .. Len(q) /\ DOMAIN Tail(q) = 1 .. Len(q) - 1
           /\ \A k \in 1 .. Len(q) - 1 : Tail(q)[k] = q[k + 1]
           /\ Head(q) = q[1] /\ Head(q) \in S
OBVIOUS

\* The positions of q whose message has the type ty.
Typed(q, ty) == {k \in DOMAIN q : q[k].type = ty}

\* They are finitely many.
LEMMA TypedCount ==
    ASSUME NEW S, NEW q \in Seq(S), NEW ty
    PROVE  IsFiniteSet(Typed(q, ty)) /\ Cardinality(Typed(q, ty)) \in Nat
<1>1. IsFiniteSet(1 .. Len(q))
  BY FS_Interval
<1>2. Typed(q, ty) \subseteq 1 .. Len(q)
  BY DEF Typed
<1> QED
  BY <1>1, <1>2, FS_Subset, FS_CardinalityType

\* A message that is appended is counted with those of its type.
LEMMA TypedAppend ==
    ASSUME NEW S, NEW q \in Seq(S), NEW e \in S, NEW ty
    PROVE  Cardinality(Typed(Append(q, e), ty)) =
               Cardinality(Typed(q, ty)) + Is(e.type, {ty})
<1> DEFINE r == Append(q, e)
<1>1. /\ DOMAIN r = 1 .. Len(q) + 1
      /\ DOMAIN q = 1 .. Len(q) /\ Len(q) \in Nat
      /\ \A k \in 1 .. Len(q) : r[k] = q[k]
      /\ r[Len(q) + 1] = e
  BY AppendFacts
<1> HIDE DEF r
<1>2. CASE e.type = ty
  <2>1. Typed(r, ty) = Typed(q, ty) \cup {Len(q) + 1}
    BY <1>1, <1>2 DEF Typed
  <2>2. Len(q) + 1 \notin Typed(q, ty)
    BY <1>1 DEF Typed
  <2> QED
    BY ZenonT(40), <1>2, <2>1, <2>2, TypedCount, FS_AddElement DEF Is, r
<1>3. CASE e.type # ty
  <2>1. Typed(r, ty) = Typed(q, ty)
    BY <1>1, <1>3 DEF Typed
  <2> QED
    BY <1>3, <2>1, TypedCount DEF Is, r
<1> QED
  BY <1>2, <1>3

\* The message that is removed is no longer counted.
LEMMA TypedTail ==
    ASSUME NEW S, NEW q \in Seq(S), q # << >>, NEW ty
    PROVE  Cardinality(Typed(Tail(q), ty)) =
               Cardinality(Typed(q, ty)) - Is(Head(q).type, {ty})
<1> DEFINE r == Tail(q)
           A == Typed(r, ty)
           B == Typed(q, ty) \ {1}
           f == [k \in A |-> k + 1]
<1>1. /\ Len(q) \in Nat \ {0} /\ DOMAIN q = 1 .. Len(q)
      /\ DOMAIN r = 1 .. Len(q) - 1
      /\ \A k \in 1 .. Len(q) - 1 : r[k] = q[k + 1]
      /\ Head(q) = q[1]
  BY TailFacts
<1>2. r \in Seq(S)
  BY TailFacts
<1> HIDE DEF r
<1>3. IsFiniteSet(A)
  BY <1>2, TypedCount
<1>4. f \in Bijection(A, B)
  <2>1. \A k \in A : k \in Int /\ k + 1 \in B
    BY <1>1 DEF Typed
  <2> HIDE DEF A, B
  <2>2. f \in [A -> B] /\ \A j, k \in A : f[j] = f[k] => j = k
    BY <2>1
  <2>3. ASSUME NEW b \in B PROVE \E a \in A : f[a] = b
    <3>1. b - 1 \in A /\ b \in Int
      BY <1>1, <2>3 DEF Typed, A, B
    <3>2. f[b - 1] = b
      BY <3>1
    <3> QED
      BY <3>1, <3>2
  <2> HIDE DEF f
  <2>4. f \in Injection(A, B)
    BY <2>2 DEF Injection, IsInjective
  <2>5. f \in Surjection(A, B)
    BY <2>2, <2>3 DEF Surjection
  <2> QED
    BY <2>4, <2>5 DEF Bijection
<1>5. Cardinality(B) = Cardinality(A)
  BY <1>3, <1>4, FS_Bijection DEF ExistsBijection
<1>6. Cardinality(B) = IF 1 \in Typed(q, ty) THEN Cardinality(Typed(q, ty)) - 1
                       ELSE Cardinality(Typed(q, ty))
  BY TypedCount, FS_RemoveElement
<1>7. 1 \in Typed(q, ty) <=> Head(q).type = ty
  BY <1>1 DEF Typed
<1> QED
  BY <1>5, <1>6, <1>7, TypedCount DEF Is, r
===============================================================================
