------------------------------ MODULE QueueCounts ------------------------------
(***************************************************************************)
(* How many elements of a queue are of one kind, and what sending and      *)
(* taking an element make of that number.  The event channels of           *)
(* ServiceLoop and App are such queues: the proofs about session records   *)
(* count the events that will still write one.                             *)
(***************************************************************************)
EXTENDS Naturals, Sequences, FiniteSets, FunctionTheorems, FiniteSetTheorems, TLAPS

\* The places of q that hold an element of T, and their number.
Places(q, T) == {i \in 1 .. Len(q) : q[i] \in T}
Count(q, T) == Cardinality(Places(q, T))

-------------------------------------------------------------------------------
\* The number is a natural number, and zero for the empty queue.
LEMMA CountType ==
    ASSUME NEW S, NEW T, NEW q \in Seq(S)
    PROVE  /\ IsFiniteSet(Places(q, T))
           /\ Count(q, T) \in Nat
           /\ Places(q, T) \subseteq 1 .. Len(q)
           /\ q = <<>> => Count(q, T) = 0
  <1>1. IsFiniteSet(1 .. Len(q))
    BY FS_Interval
  <1>2. Places(q, T) \in SUBSET (1 .. Len(q))
    BY DEF Places
  <1>3. IsFiniteSet(Places(q, T))
    BY <1>1, <1>2, FS_Subset
  <1>4. Count(q, T) \in Nat
    BY <1>3, FS_CardinalityType DEF Count
  <1>5. ASSUME q = <<>> PROVE Count(q, T) = 0
    <2>1. Places(q, T) = {}
      BY <1>2, <1>5
    <2>. QED
      BY <2>1, FS_EmptySet DEF Count
  <1>. QED
    BY <1>2, <1>3, <1>4, <1>5

\* Sending an element of T adds one, sending another adds none.
LEMMA CountAppend ==
    ASSUME NEW S, NEW T, NEW q \in Seq(S), NEW e \in S
    PROVE  Count(Append(q, e), T) = Count(q, T) + (IF e \in T THEN 1 ELSE 0)
  <1>. DEFINE r == Append(q, e)
              n == Len(q) + 1
  <1>1. /\ r \in Seq(S) /\ Len(r) = n /\ r[n] = e
        /\ \A i \in 1 .. Len(q) : r[i] = q[i]
    OBVIOUS
  <1>2. Count(q, T) \in Nat /\ IsFiniteSet(Places(q, T))
    BY CountType
  <1>3. n \notin Places(q, T)
    BY DEF Places
  <1>4. CASE e \in T
    <2>1. Places(r, T) = Places(q, T) \cup {n}
      BY <1>1, <1>4 DEF Places
    <2>2. Count(r, T) = Count(q, T) + 1
      BY <2>1, <1>2, <1>3, FS_AddElement DEF Count
    <2>. QED
      BY <2>2, <1>4
  <1>5. CASE e \notin T
    <2>1. Places(r, T) = Places(q, T)
      BY <1>1, <1>5 DEF Places
    <2>. QED
      BY <2>1, <1>2, <1>5 DEF Count
  <1>. QED
    BY <1>4, <1>5

\* Taking the oldest element takes one away if it is in T.
LEMMA CountTail ==
    ASSUME NEW S, NEW T, NEW q \in Seq(S), q # <<>>
    PROVE  Count(q, T) = Count(Tail(q), T) + (IF Head(q) \in T THEN 1 ELSE 0)
  <1>. DEFINE r == Tail(q)
              A == Places(r, T)
              B == Places(q, T) \ {1}
              f == [i \in A |-> i + 1]
  <1>1. /\ r \in Seq(S) /\ Len(q) \in Nat /\ Len(q) >= 1 /\ Len(r) = Len(q) - 1
        /\ Head(q) = q[1]
        /\ \A i \in 1 .. Len(r) : r[i] = q[i + 1]
    OBVIOUS
  <1>2. /\ IsFiniteSet(A) /\ Count(r, T) \in Nat
        /\ IsFiniteSet(Places(q, T)) /\ Count(q, T) \in Nat
    BY <1>1, CountType
  <1>3. f \in Bijection(A, B)
    <2>1. \A i \in A : i \in Nat /\ i + 1 \in B
      BY <1>1 DEF Places
    <2>2. f \in [A -> B]
      BY <2>1
    <2>3. \A i, j \in A : f[i] = f[j] => i = j
      BY <2>1
    <2>4. \A k \in B : k - 1 \in A /\ f[k - 1] = k
      BY <1>1 DEF Places
    <2>5. \A k \in B : \E i \in A : f[i] = k
      BY <2>4
    <2>. HIDE DEF f, A, B
    <2>6. f \in Injection(A, B)
      BY <2>2, <2>3 DEF Injection, IsInjective
    <2>7. f \in Surjection(A, B)
      BY <2>2, <2>5 DEF Surjection
    <2>. QED
      BY <2>6, <2>7 DEF Bijection
  <1>4. Cardinality(B) = Count(r, T)
    <2>1. ExistsBijection(A, B)
      BY <1>3 DEF ExistsBijection
    <2>. HIDE DEF f, B
    <2>2. Cardinality(B) = Cardinality(A)
      BY <1>2, <2>1, FS_Bijection
    <2>. QED
      BY <2>2 DEF Count
  <1>5. Cardinality(B) =
           IF 1 \in Places(q, T) THEN Count(q, T) - 1 ELSE Count(q, T)
    BY <1>2, FS_RemoveElement DEF Count
  <1>6. 1 \in Places(q, T) <=> Head(q) \in T
    BY <1>1 DEF Places
  <1>. QED
    BY <1>2, <1>4, <1>5, <1>6

\* The elements of two kinds are as many as those of the one and of the other.
LEMMA CountUnion ==
    ASSUME NEW S, NEW T, NEW U, NEW q \in Seq(S), T \cap U = {}
    PROVE  Count(q, T \cup U) = Count(q, T) + Count(q, U)
  <1>1. /\ IsFiniteSet(Places(q, T)) /\ IsFiniteSet(Places(q, U))
        /\ Count(q, T) \in Nat /\ Count(q, U) \in Nat
    BY CountType
  <1>2. Places(q, T \cup U) = Places(q, T) \cup Places(q, U)
    BY DEF Places
  <1>3. Places(q, T) \cap Places(q, U) = {}
    BY DEF Places
  <1>4. Cardinality(Places(q, T) \cap Places(q, U)) = 0
    BY <1>3, FS_EmptySet
  <1>5. Cardinality(Places(q, T) \cup Places(q, U)) = Count(q, T) + Count(q, U)
    <2>. DEFINE A == Places(q, T)
                B == Places(q, U)
    <2>1. Cardinality(A) \in Nat /\ Cardinality(B) \in Nat /\ Cardinality(A \cap B) = 0
      BY <1>1, <1>4 DEF Count
    <2>2. Cardinality(A \cup B) = Cardinality(A) + Cardinality(B) - Cardinality(A \cap B)
      BY <1>1, FS_Union, Zenon
    <2>3. Cardinality(A \cup B) = Cardinality(A) + Cardinality(B)
      BY <2>1, <2>2
    <2>. QED
      BY <2>3 DEF Count
  <1>. QED
    BY <1>2, <1>5 DEF Count

===============================================================================
