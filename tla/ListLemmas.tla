------------------------------ MODULE ListLemmas ------------------------------
(***************************************************************************)
(* What the list operations of the models return: the linked lists and the *)
(* arrays of the code are sequences here, and their insertions and         *)
(* removals are the operators of SequencesExt.                             *)
(***************************************************************************)
EXTENDS Integers, SequencesExt, SequenceTheorems, FiniteSetTheorems, TLAPS

\* A region put in front of a list, as on the dead list.
LEMMA ConsProperties ==
    ASSUME NEW S, NEW s \in Seq(S), NEW e \in S
    PROVE  /\ Cons(e, s) \in Seq(S)
           /\ Len(Cons(e, s)) = Len(s) + 1
           /\ Cons(e, s)[1] = e
           /\ \A j \in 2..(Len(s) + 1) : Cons(e, s)[j] = s[j - 1]
<1>1. <<e>> \in Seq(S) /\ Len(<<e>>) = 1 /\ <<e>>[1] = e
  OBVIOUS
<1> QED  BY <1>1, ConcatProperties, LenProperties DEF Cons

\* t is s with e inserted after its first i elements.
Insertion(t, s, i, e) ==
    /\ Len(t) = Len(s) + 1
    /\ \A j \in 1..i : t[j] = s[j]
    /\ t[i + 1] = e
    /\ \A j \in (i + 2)..(Len(s) + 1) : t[j] = s[j - 1]

\* Insertion in the middle of a list, as stream_write does it.
LEMMA InsertAtProperties ==
    ASSUME NEW S, NEW s \in Seq(S), NEW e \in S, NEW i \in 0..Len(s)
    PROVE  InsertAt(s, i + 1, e) \in Seq(S) /\ Insertion(InsertAt(s, i + 1, e), s, i, e)
<1> DEFINE front == SubSeq(s, 1, i)
           back  == SubSeq(s, i + 1, Len(s))
<1>1. Len(s) \in Nat /\ \A j \in 1..Len(s) : s[j] \in S
  BY LenProperties, ElementOfSeq
<1>2. /\ front \in Seq(S) /\ Len(front) = i
      /\ \A j \in 1..i : front[j] = s[j]
  BY <1>1, SubSeqProperties
<1>3. /\ back \in Seq(S) /\ Len(back) = Len(s) - i
      /\ \A j \in 1..(Len(s) - i) : back[j] = s[i + j]
  <2>1. \A j \in (i + 1)..Len(s) : s[j] \in S
    BY <1>1
  <2>2. /\ back \in Seq(S)
        /\ Len(back) = IF i + 1 <= Len(s) THEN Len(s) - (i + 1) + 1 ELSE 0
        /\ \A j \in 1..(Len(s) - (i + 1) + 1) : back[j] = s[(i + 1) + j - 1]
    BY <1>1, <2>1, SubSeqProperties
  <2> QED  BY <1>1, <2>2
<1>4. <<e>> \in Seq(S) /\ Len(<<e>>) = 1 /\ <<e>>[1] = e
  OBVIOUS
<1>5. /\ front \o <<e>> \in Seq(S) /\ Len(front \o <<e>>) = i + 1
      /\ \A j \in 1..(i + 1) : (front \o <<e>>)[j] = IF j <= i THEN s[j] ELSE e
  BY <1>1, <1>2, <1>4, ConcatProperties
<1>6. InsertAt(s, i + 1, e) = (front \o <<e>>) \o back
  <2>1. (i + 1) - 1 = i
    BY <1>1
  <2> QED  BY <2>1 DEF InsertAt
<1> DEFINE mid == front \o <<e>>
           all == mid \o back
<1>7. mid \in Seq(S) /\ back \in Seq(S) /\ Len(mid) = i + 1 /\ Len(back) = Len(s) - i
  BY <1>3, <1>5
<1>8. /\ \A j \in 1..(i + 1) : mid[j] = IF j <= i THEN s[j] ELSE e
      /\ \A j \in 1..(Len(s) - i) : back[j] = s[i + j]
      /\ InsertAt(s, i + 1, e) = all
  BY <1>3, <1>5, <1>6
<1> HIDE DEF front, back, mid
<1>9. /\ all \in Seq(S) /\ Len(all) = Len(mid) + Len(back)
      /\ \A j \in 1..(Len(mid) + Len(back)) :
            all[j] = IF j <= Len(mid) THEN mid[j] ELSE back[j - Len(mid)]
  BY <1>7, ConcatProperties
<1> HIDE DEF all
<1>10. i \in Nat /\ i <= Len(s) /\ Len(s) \in Nat
  BY <1>1
<1>11. all \in Seq(S) /\ Len(all) = Len(s) + 1
  BY <1>7, <1>9, <1>10
<1>12. ASSUME NEW j \in 1..i
       PROVE  all[j] = s[j]
  <2>1. j \in 1..(Len(mid) + Len(back)) /\ j <= Len(mid) /\ j \in 1..(i + 1) /\ j <= i
    BY <1>7, <1>10
  <2>2. all[j] = mid[j] /\ mid[j] = s[j]
    BY <2>1, <1>8, <1>9
  <2> QED  BY <2>2
<1>13. all[i + 1] = e
  <2>1. i + 1 \in 1..(Len(mid) + Len(back)) /\ i + 1 <= Len(mid) /\ i + 1 \in 1..(i + 1)
        /\ ~(i + 1 <= i)
    BY <1>7, <1>10
  <2>2. all[i + 1] = mid[i + 1] /\ mid[i + 1] = e
    BY <2>1, <1>8, <1>9
  <2> QED  BY <2>2
<1>14. ASSUME NEW j \in (i + 2)..(Len(s) + 1)
       PROVE  all[j] = s[j - 1]
  <2>1. j \in 1..(Len(mid) + Len(back)) /\ ~(j <= Len(mid))
    BY <1>7, <1>10
  <2>2. all[j] = back[j - (i + 1)]
    BY <2>1, <1>7, <1>9
  <2>3. j - (i + 1) \in 1..(Len(s) - i) /\ i + (j - (i + 1)) = j - 1
    BY <1>10
  <2> QED  BY <2>2, <2>3, <1>8
<1>15. Insertion(all, s, i, e)
  BY <1>11, <1>12, <1>13, <1>14 DEF Insertion
<1> QED  BY <1>8, <1>11, <1>15

\* Removal from the middle of a list, as alloc_databuf does it.
LEMMA RemoveAtProperties ==
    ASSUME NEW S, NEW s \in Seq(S), NEW i \in 1..Len(s)
    PROVE  /\ RemoveAt(s, i) \in Seq(S)
           /\ Len(RemoveAt(s, i)) = Len(s) - 1
           /\ \A j \in 1..(Len(s) - 1) :
                 RemoveAt(s, i)[j] = IF j < i THEN s[j] ELSE s[j + 1]
<1> DEFINE front == SubSeq(s, 1, i - 1)
           back  == SubSeq(s, i + 1, Len(s))
<1>1. Len(s) \in Nat /\ \A j \in 1..Len(s) : s[j] \in S
  BY LenProperties, ElementOfSeq
<1>2. /\ front \in Seq(S) /\ Len(front) = i - 1
      /\ \A j \in 1..(i - 1) : front[j] = s[j]
  BY <1>1, SubSeqProperties
<1>3. /\ back \in Seq(S) /\ Len(back) = Len(s) - i
      /\ \A j \in 1..(Len(s) - i) : back[j] = s[i + j]
  <2>1. \A j \in (i + 1)..Len(s) : s[j] \in S
    BY <1>1
  <2>2. /\ back \in Seq(S)
        /\ Len(back) = IF i + 1 <= Len(s) THEN Len(s) - (i + 1) + 1 ELSE 0
        /\ \A j \in 1..(Len(s) - (i + 1) + 1) : back[j] = s[(i + 1) + j - 1]
    BY <1>1, <2>1, SubSeqProperties
  <2> QED  BY <1>1, <2>2
<1>4. RemoveAt(s, i) = front \o back
  BY DEF RemoveAt
<1> HIDE DEF front, back
<1> DEFINE all == front \o back
<1>5. /\ all \in Seq(S) /\ Len(all) = Len(front) + Len(back)
      /\ \A j \in 1..(Len(front) + Len(back)) :
            all[j] = IF j <= Len(front) THEN front[j] ELSE back[j - Len(front)]
  BY <1>2, <1>3, ConcatProperties
<1>6. RemoveAt(s, i) = all
  BY <1>4
<1> HIDE DEF all
<1>7. i \in Nat \ {0} /\ i <= Len(s) /\ Len(s) \in Nat
  BY <1>1
<1>8. all \in Seq(S) /\ Len(all) = Len(s) - 1
  BY <1>2, <1>3, <1>5, <1>7
<1>9. ASSUME NEW j \in 1..(Len(s) - 1)
      PROVE  all[j] = IF j < i THEN s[j] ELSE s[j + 1]
  <2>1. j \in 1..(Len(front) + Len(back))
    BY <1>2, <1>3, <1>7
  <2>2. CASE j < i
    BY <2>1, <2>2, <1>2, <1>5, <1>7
  <2>3. CASE j >= i
    <3>1. all[j] = back[j - (i - 1)]
      BY <2>1, <2>3, <1>2, <1>5, <1>7, SMTT(30)
    <3>2. j - (i - 1) \in 1..(Len(s) - i) /\ i + (j - (i - 1)) = j + 1
      BY <2>3, <1>7
    <3> QED  BY <2>3, <3>1, <3>2, <1>3, <1>7
  <2> QED  BY <2>2, <2>3, <1>7
<1> QED  BY <1>6, <1>8, <1>9

-----------------------------------------------------------------------------
(***************************************************************************)
(* Counting the elements of a list                                         *)
(***************************************************************************)

\* The places of s that hold a member of T; a count is the number of them.
Places(s, T) == {j \in 1..Len(s) : s[j] \in T}

\* There are finitely many.
LEMMA PlacesFinite ==
    ASSUME NEW s, Len(s) \in Nat, NEW T
    PROVE  IsFiniteSet(Places(s, T)) /\ Cardinality(Places(s, T)) \in Nat
<1>1. IsFiniteSet(1..Len(s))
  BY FS_Interval
<1>2. IsFiniteSet(Places(s, T))
  BY <1>1, FS_Subset DEF Places
<1> QED  BY <1>2, FS_CardinalityType

\* A one-to-one map shows that two sets have the same size.
LEMMA SameSize ==
    ASSUME NEW A, NEW B, IsFiniteSet(A), NEW f \in [A -> B],
           \A x, y \in A : f[x] = f[y] => x = y,
           \A b \in B : \E x \in A : f[x] = b
    PROVE  IsFiniteSet(B) /\ Cardinality(B) = Cardinality(A)
<1>1. f \in Bijection(A, B)
  BY DEF Bijection, Injection, Surjection, IsInjective
<1>2. ExistsBijection(A, B)
  BY <1>1 DEF ExistsBijection
<1> QED  BY <1>2, FS_Bijection

\* An insertion adds its element to the count, and shifts the places behind it.
LEMMA PlacesInserted ==
    ASSUME NEW s, NEW t, NEW e, NEW T, Len(s) \in Nat, NEW i \in 0..Len(s),
           Insertion(t, s, i, e)
    PROVE  Cardinality(Places(t, T)) = Cardinality(Places(s, T)) + (IF e \in T THEN 1 ELSE 0)
<1> DEFINE A == Places(s, T)
           B == Places(t, T) \ {i + 1}
           f == [j \in A |-> IF j <= i THEN j ELSE j + 1]
<1>1. /\ i \in Nat /\ i <= Len(s) /\ Len(t) = Len(s) + 1 /\ t[i + 1] = e
      /\ \A j \in 1..i : t[j] = s[j]
      /\ \A j \in (i + 2)..(Len(s) + 1) : t[j] = s[j - 1]
  BY DEF Insertion
<1>2. ASSUME NEW j \in A PROVE f[j] \in B
  <2>1. j \in 1..Len(s) /\ s[j] \in T
    BY DEF Places
  <2>2. CASE j <= i
    <3>1. j \in 1..i /\ j \in 1..Len(t) /\ j # i + 1
      BY <1>1, <2>1, <2>2
    <3> QED  BY <1>1, <2>1, <2>2, <3>1 DEF Places
  <2>3. CASE j > i
    <3>1. j + 1 \in (i + 2)..(Len(s) + 1) /\ (j + 1) - 1 = j /\ j + 1 \in 1..Len(t)
          /\ j + 1 # i + 1 /\ ~(j <= i)
      BY <1>1, <2>1, <2>3
    <3>2. t[j + 1] = s[j]
      <4>1. t[j + 1] = s[(j + 1) - 1]
        BY <1>1, <3>1
      <4> QED  BY <4>1, <3>1
    <3> QED  BY <2>1, <3>1, <3>2 DEF Places
  <2> QED  BY <1>1, <2>1, <2>2, <2>3
<1>3. ASSUME NEW x \in A, NEW y \in A, f[x] = f[y] PROVE x = y
  <2>1. x \in Int /\ y \in Int
    BY DEF Places
  <2> QED  BY <1>1, <1>3, <2>1
<1>4. ASSUME NEW b \in B PROVE \E x \in A : f[x] = b
  <2>1. b \in 1..(Len(s) + 1) /\ b # i + 1 /\ t[b] \in T
    BY <1>1 DEF Places
  <2>2. CASE b <= i
    <3>1. b \in 1..i /\ b \in 1..Len(s)
      BY <1>1, <2>1, <2>2
    <3>2. b \in A
      BY <1>1, <2>1, <3>1 DEF Places
    <3> QED  BY <2>2, <3>2
  <2>3. CASE b > i
    <3>1. b \in (i + 2)..(Len(s) + 1) /\ b - 1 \in 1..Len(s) /\ ~(b - 1 <= i) /\ (b - 1) + 1 = b
      BY <1>1, <2>1, <2>3
    <3>2. b - 1 \in A
      BY <1>1, <2>1, <3>1 DEF Places
    <3>3. f[b - 1] = b
      BY <3>1, <3>2
    <3> QED  BY <3>2, <3>3
  <2> QED  BY <1>1, <2>1, <2>2, <2>3
<1>5. IsFiniteSet(A) /\ IsFiniteSet(Places(t, T)) /\ Cardinality(Places(t, T)) \in Nat
      /\ Cardinality(A) \in Nat
  BY <1>1, PlacesFinite
<1>6. Cardinality(B) = Cardinality(A)
  <2>1. f \in [A -> B]
    BY <1>2
  <2> HIDE DEF A, B, f
  <2> QED  BY <1>3, <1>4, <1>5, <2>1, SameSize
<1>7. Cardinality(B) = IF i + 1 \in Places(t, T) THEN Cardinality(Places(t, T)) - 1
                                                 ELSE Cardinality(Places(t, T))
  BY <1>5, FS_RemoveElement
<1>8. i + 1 \in Places(t, T) <=> e \in T
  BY <1>1 DEF Places
<1> QED  BY <1>5, <1>6, <1>7, <1>8

\* A list is its tail with its head put in front.
LEMMA TailInsertion ==
    ASSUME NEW S, NEW s \in Seq(S), s # <<>>
    PROVE  Insertion(s, Tail(s), 0, Head(s)) /\ Len(Tail(s)) \in Nat /\ Tail(s) \in Seq(S)
<1>1. /\ Len(s) \in Nat /\ Len(s) # 0 /\ Len(Tail(s)) = Len(s) - 1 /\ Head(s) = s[1]
      /\ \A j \in 1..(Len(s) - 1) : Tail(s)[j] = s[j + 1]
      /\ Tail(s) \in Seq(S)
  BY HeadTailProperties, LenProperties, EmptySeq
<1>2. ASSUME NEW j \in 2..(Len(Tail(s)) + 1) PROVE s[j] = Tail(s)[j - 1]
  BY <1>1
<1> QED  BY <1>1, <1>2 DEF Insertion

\* Cons inserts in front, Append behind.
LEMMA EndInsertions ==
    ASSUME NEW S, NEW s \in Seq(S), NEW e \in S
    PROVE  /\ Insertion(Cons(e, s), s, 0, e) /\ Cons(e, s) \in Seq(S)
           /\ Insertion(Append(s, e), s, Len(s), e) /\ Append(s, e) \in Seq(S)
           /\ Len(s) \in Nat
<1>1. Len(s) \in Nat
  BY LenProperties
<1>2. Insertion(Cons(e, s), s, 0, e) /\ Cons(e, s) \in Seq(S)
  BY <1>1, ConsProperties DEF Insertion
<1>3. /\ Append(s, e) \in Seq(S) /\ Len(Append(s, e)) = Len(s) + 1
      /\ \A j \in 1..Len(s) : Append(s, e)[j] = s[j]
      /\ Append(s, e)[Len(s) + 1] = e
  BY AppendProperties
<1>4. Insertion(Append(s, e), s, Len(s), e)
  BY <1>1, <1>3 DEF Insertion
<1> QED  BY <1>1, <1>2, <1>3, <1>4

\* What is removed was inserted.
LEMMA RemovalInsertion ==
    ASSUME NEW S, NEW s \in Seq(S), NEW i \in 1..Len(s)
    PROVE  Insertion(s, RemoveAt(s, i), i - 1, s[i]) /\ Len(RemoveAt(s, i)) \in Nat
<1>1. /\ Len(s) \in Nat /\ Len(RemoveAt(s, i)) = Len(s) - 1
      /\ \A j \in 1..(Len(s) - 1) : RemoveAt(s, i)[j] = IF j < i THEN s[j] ELSE s[j + 1]
  BY RemoveAtProperties, LenProperties
<1>2. ASSUME NEW j \in 1..(i - 1) PROVE s[j] = RemoveAt(s, i)[j]
  BY <1>1
<1>3. ASSUME NEW j \in ((i - 1) + 2)..(Len(RemoveAt(s, i)) + 1)
      PROVE  s[j] = RemoveAt(s, i)[j - 1]
  <2>1. j - 1 \in 1..(Len(s) - 1) /\ ~(j - 1 < i) /\ (j - 1) + 1 = j
    BY <1>1
  <2> QED  BY <1>1, <2>1
<1> QED  BY <1>1, <1>2, <1>3 DEF Insertion

\* The count of an empty list.
LEMMA PlacesEmpty ==
    ASSUME NEW T
    PROVE  Cardinality(Places(<<>>, T)) = 0
<1>1. Places(<<>>, T) = {}
  BY DEF Places
<1> QED  BY <1>1, FS_EmptySet

\* The count of two lists in a row is the sum of theirs.
LEMMA PlacesConcat ==
    ASSUME NEW S, NEW s \in Seq(S), NEW t \in Seq(S), NEW T
    PROVE  Cardinality(Places(s \o t, T)) = Cardinality(Places(s, T)) + Cardinality(Places(t, T))
<1> DEFINE C == Places(s \o t, T)
           A == Places(s, T)
           D == Places(t, T)
           B == C \ A
           f == [j \in D |-> Len(s) + j]
<1>1. /\ Len(s) \in Nat /\ Len(t) \in Nat /\ Len(s \o t) = Len(s) + Len(t)
      /\ \A j \in 1..(Len(s) + Len(t)) :
            (s \o t)[j] = IF j <= Len(s) THEN s[j] ELSE t[j - Len(s)]
  BY ConcatProperties, LenProperties
<1>2. A \subseteq C
  BY <1>1 DEF Places
<1>3. ASSUME NEW j \in D PROVE f[j] \in B
  <2>1. /\ j \in 1..Len(t) /\ t[j] \in T /\ Len(s) + j \in 1..(Len(s) + Len(t))
        /\ ~(Len(s) + j <= Len(s)) /\ (Len(s) + j) - Len(s) = j
    BY <1>1 DEF Places
  <2>2. (s \o t)[Len(s) + j] = t[j]
    BY <1>1, <2>1
  <2> QED  BY <1>1, <2>1, <2>2 DEF Places
<1>4. ASSUME NEW x \in D, NEW y \in D, f[x] = f[y] PROVE x = y
  BY <1>1, <1>4 DEF Places
<1>5. ASSUME NEW b \in B PROVE \E x \in D : f[x] = b
  <2>1. b \in 1..(Len(s) + Len(t)) /\ (s \o t)[b] \in T /\ ~(b \in 1..Len(s) /\ s[b] \in T)
    BY <1>1 DEF Places
  <2>2. b > Len(s)
    BY <1>1, <2>1
  <2>3. b - Len(s) \in D /\ Len(s) + (b - Len(s)) = b
    BY <1>1, <2>1, <2>2 DEF Places
  <2> QED  BY <2>3
<1>6. /\ IsFiniteSet(A) /\ IsFiniteSet(C) /\ IsFiniteSet(D)
      /\ Cardinality(A) \in Nat /\ Cardinality(C) \in Nat /\ Cardinality(D) \in Nat
  <2>1. Len(s \o t) \in Nat
    BY <1>1
  <2> QED  BY <1>1, <2>1, PlacesFinite
<1>7. Cardinality(B) = Cardinality(D)
  <2>1. f \in [D -> B]
    BY <1>3
  <2> HIDE DEF B, D, f
  <2> QED  BY <1>4, <1>5, <1>6, <2>1, SameSize
<1>8. Cardinality(B) = Cardinality(C) - Cardinality(A)
  <2>1. C \cap A = A
    BY <1>2
  <2>2. Cardinality(C \ A) = Cardinality(C) - Cardinality(C \cap A)
    <3> HIDE DEF A, C
    <3> QED  BY <1>6, FS_Difference
  <2> QED  BY <2>1, <2>2
<1> HIDE DEF A, B, C, D
<1>9. Cardinality(C) = Cardinality(A) + Cardinality(D)
  BY <1>6, <1>7, <1>8
<1> QED  BY <1>9 DEF A, C, D

=============================================================================
