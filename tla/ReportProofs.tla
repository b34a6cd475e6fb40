---------------------------- MODULE ReportProofs ----------------------------
(***************************************************************************)
(* Facts about reports, for summaries of any size.  What a recursive       *)
(* function computes is shown by induction on sets of naturals: a set that *)
(* holds 0 and with every number its successor holds all of 0 .. n.        *)
(***************************************************************************)
EXTENDS Report, FiniteSetTheorems, SequenceTheorems, WellFoundedInduction, TLAPS

(* A set of naturals has a least element.                                  *)
LEMMA LeastNatural ==
  ASSUME NEW T \in SUBSET Nat, T # {}
  PROVE  \E n \in T : \A m \in T : n <= m
<1> DEFINE R == OpToRel(<, Nat)
<1>1. IsWellFoundedOn(R, Nat) BY NatLessThanWellFounded
<1>2. \A x, y \in Nat : x < y => <<x, y>> \in R
  BY DEF OpToRel
<1> HIDE DEF R
<1>3. PICK n \in T : \A y \in T : ~(<<y, n>> \in R)
  BY <1>1, WFMin
<1>4. \A m \in T : ~(m < n) BY <1>2, <1>3
<1> QED BY <1>3, <1>4

(* Induction up to n, over a set.                                          *)
LEMMA Induct ==
  ASSUME NEW n \in Nat, NEW S, 0 \in S, \A i \in 0 .. (n - 1) : i \in S => i + 1 \in S
  PROVE  \A i \in 0 .. n : i \in S
<1> SUFFICES ASSUME NEW k \in 0 .. n, k \notin S PROVE FALSE
  OBVIOUS
<1> DEFINE T == {i \in 0 .. n : i \notin S}
<1>1. PICK m \in T : \A j \in T : m <= j
  <2>1. T \in SUBSET Nat /\ k \in T OBVIOUS
  <2> HIDE DEF T
  <2> QED BY <2>1, LeastNatural
<1>2. m # 0 BY <1>1
<1>3. m - 1 \in 0 .. (n - 1) /\ m - 1 \notin T BY <1>1, <1>2
<1> QED BY <1>1, <1>2, <1>3

(* Induction over the length of a sequence, over a set of sequences.       *)
LEMMA SequenceInduct ==
  ASSUME NEW V, NEW S, <<>> \in S,
         \A s \in Seq(V), x \in V : s \in S => Append(s, x) \in S
  PROVE  \A s \in Seq(V) : s \in S
<1> SUFFICES ASSUME NEW s \in Seq(V) PROVE s \in S
  OBVIOUS
<1> DEFINE n == Len(s)
           T == {k \in 0 .. n : SubSeq(s, 1, k) \in S}
<1>1. n \in Nat OBVIOUS
<1>2. 0 \in T
  <2>1. SubSeq(s, 1, 0) = <<>> BY SubSeqEmpty
  <2>2. SubSeq(s, 1, 0) \in S BY <2>1
  <2>3. 0 \in 0 .. n BY <1>1
  <2> QED BY <2>2, <2>3, Zenon
<1>3. ASSUME NEW k \in 0 .. (n - 1), k \in T PROVE k + 1 \in T
  <2>1. SubSeq(s, 1, k) \in Seq(V) /\ s[k + 1] \in V BY <1>1
  <2>2. SubSeq(s, 1, k + 1) = Append(SubSeq(s, 1, k), s[k + 1]) BY <1>1
  <2>3. SubSeq(s, 1, k) \in S BY <1>3
  <2>4. SubSeq(s, 1, k + 1) \in S BY <2>1, <2>2, <2>3
  <2> QED BY <1>1, <2>4
<1> HIDE DEF T
<1>4. \A k \in 0 .. n : k \in T BY <1>1, <1>2, <1>3, Induct
<1>5. SubSeq(s, 1, n) \in S BY <1>1, <1>4 DEF T
<1> QED BY <1>5, SubSeqFull

(* A sequence with one more element of its kind.                           *)
LEMMA AppendType ==
  ASSUME NEW V, NEW s \in Seq(V), NEW x \in V
  PROVE  Append(s, x) \in Seq(V)
OBVIOUS

----------------------------------------------------------------------------
(* Flattened sequences and sums                                            *)

Flattening(flat, seqs, V) ==
  /\ flat \in [0 .. Len(seqs) -> Seq(V)]
  /\ flat[0] = <<>>
  /\ \A i \in 1 .. Len(seqs) : flat[i] = flat[i - 1] \o seqs[i]
  /\ FlattenSeq(seqs) = flat[Len(seqs)]

Concatenating(f, seqs, k) ==
  f = [i \in 1 .. k |-> IF i = 1 THEN seqs[i] ELSE f[i - 1] \o seqs[i]]

(* The recursive function in FlattenSeq exists.                            *)
LEMMA FlattenRecursion ==
  ASSUME NEW n \in Nat, NEW seqs
  PROVE  \E f : Concatenating(f, seqs, n)
<1> DEFINE S == {k \in 0 .. n : \E f : Concatenating(f, seqs, k)}
<1>1. 0 \in S
  <2>1. Concatenating(<<>>, seqs, 0) BY DEF Concatenating
  <2> QED BY <2>1
<1>2. ASSUME NEW k \in 0 .. (n - 1), k \in S PROVE k + 1 \in S
  <2>1. PICK f : Concatenating(f, seqs, k) BY <1>2
  <2> DEFINE g == [i \in 1 .. (k + 1) |-> IF i = 1 THEN seqs[i] ELSE f[i - 1] \o seqs[i]]
  <2>2. \A i \in 1 .. k : f[i] = IF i = 1 THEN seqs[i] ELSE f[i - 1] \o seqs[i]
    BY <2>1 DEF Concatenating
  <2>3. \A i \in 1 .. k : g[i] = f[i]
    BY <2>2
  <2>4. g = [i \in 1 .. (k + 1) |-> IF i = 1 THEN seqs[i] ELSE g[i - 1] \o seqs[i]]
    <3>1. \A i \in 1 .. (k + 1) : i # 1 => i - 1 \in 1 .. k OBVIOUS
    <3> DEFINE F(i) == IF i = 1 THEN seqs[i] ELSE f[i - 1] \o seqs[i]
               G(i) == IF i = 1 THEN seqs[i] ELSE g[i - 1] \o seqs[i]
    <3>2. \A i \in 1 .. (k + 1) : F(i) = G(i)
      <4> HIDE DEF g
      <4> QED BY <2>3, <3>1
    <3> HIDE DEF F, G
    <3>3. [i \in 1 .. (k + 1) |-> F(i)] = [i \in 1 .. (k + 1) |-> G(i)] BY <3>2
    <3> QED BY <3>3, Zenon DEF F, G
  <2> HIDE DEF g
  <2>5. Concatenating(g, seqs, k + 1)
    BY <2>4 DEF Concatenating
  <2> QED BY <2>5
<1> HIDE DEF S
<1>3. \A k \in 0 .. n : k \in S BY <1>1, <1>2, Induct
<1> QED BY <1>3 DEF S

(* FlattenSeq is the last of the concatenations of the first sequences.    *)
LEMMA FlattenPrefixes ==
  ASSUME NEW V, NEW seqs \in Seq(Seq(V))
  PROVE  \E flat : Flattening(flat, seqs, V)
<1>1. CASE Len(seqs) = 0
  <2> DEFINE flat == [i \in 0 .. 0 |-> <<>>]
  <2>1. FlattenSeq(seqs) = <<>> BY <1>1 DEF FlattenSeq
  <2>2. Flattening(flat, seqs, V) BY <1>1, <2>1 DEF Flattening
  <2> QED BY <2>2
<1>2. CASE Len(seqs) # 0
  <2> DEFINE n == Len(seqs)
             h == CHOOSE f : Concatenating(f, seqs, n)
  <2>0. n \in Nat \ {0} BY <1>2
  <2>1. Concatenating(h, seqs, n) BY <2>0, FlattenRecursion
  <2>2. FlattenSeq(seqs) = h[n]
    BY <2>0 DEF FlattenSeq, Concatenating
  <2> HIDE DEF h
  <2>3. \A i \in 1 .. n : h[i] = IF i = 1 THEN seqs[i] ELSE h[i - 1] \o seqs[i]
    BY <2>1, Zenon DEF Concatenating
  <2>4. \A i \in 0 .. n : i = 0 \/ h[i] \in Seq(V)
    <3> DEFINE T == {i \in 0 .. n : i = 0 \/ h[i] \in Seq(V)}
    <3>1. 0 \in T BY <2>0
    <3>2. ASSUME NEW i \in 0 .. (n - 1), i \in T PROVE i + 1 \in T
      <4>1. seqs[i + 1] \in Seq(V) BY <2>0
      <4>2. h[i + 1] = IF i + 1 = 1 THEN seqs[i + 1] ELSE h[i] \o seqs[i + 1]
        <5>1. i + 1 \in 1 .. n /\ (i + 1) - 1 = i BY <2>0
        <5> QED BY <2>3, <5>1
      <4>3. i # 0 => h[i] \in Seq(V) BY <3>2
      <4>4. h[i + 1] \in Seq(V) 
        <5>1. CASE i = 0 BY <4>1, <4>2, <5>1
        <5>2. CASE i # 0 BY <4>1, <4>2, <4>3, <5>2, ConcatProperties
        <5> QED BY <5>1, <5>2
      <4> QED BY <4>4, <2>0
    <3> HIDE DEF T
    <3>3. \A i \in 0 .. n : i \in T BY <2>0, <3>1, <3>2, Induct
    <3> QED BY <3>3 DEF T
  <2> DEFINE flat == [i \in 0 .. n |-> IF i = 0 THEN <<>> ELSE h[i]]
  <2>5. flat \in [0 .. n -> Seq(V)] BY <2>4
  <2>6. flat[0] = <<>> /\ \A i \in 1 .. n : flat[i] = h[i] BY <2>0
  <2> HIDE DEF flat
  <2>7. ASSUME NEW i \in 1 .. n PROVE flat[i] = flat[i - 1] \o seqs[i]
    <3>1. seqs[i] \in Seq(V) BY <2>0
    <3>2. <<>> \o seqs[i] = seqs[i] BY <3>1, ConcatEmptySeq
    <3>3. CASE i = 1 
      <4>1. h[i] = seqs[i] /\ i - 1 = 0 BY <2>3, <3>3
      <4> QED BY <2>6, <3>2, <4>1
    <3>4. CASE i # 1
      <4>1. i - 1 \in 1 .. n BY <3>4
      <4>2. h[i] = h[i - 1] \o seqs[i] BY <2>3, <3>4
      <4> QED BY <2>6, <4>1, <4>2
    <3> QED BY <3>3, <3>4
  <2>8. FlattenSeq(seqs) = flat[n] BY <2>0, <2>2, <2>6
  <2>9. \A i \in 1 .. n : flat[i] = flat[i - 1] \o seqs[i] BY <2>7
  <2>10. Flattening(flat, seqs, V) BY <2>5, <2>6, <2>8, <2>9, Zenon DEF Flattening
  <2> QED BY <2>10
<1> QED BY <1>1, <1>2

(* A flattened sequence is a sequence of the same elements.                *)
LEMMA FlattenType ==
  ASSUME NEW V, NEW seqs \in Seq(Seq(V))
  PROVE  FlattenSeq(seqs) \in Seq(V)
<1>1. PICK flat : Flattening(flat, seqs, V) BY FlattenPrefixes
<1>2. Len(seqs) \in 0 .. Len(seqs) BY LenProperties
<1> QED BY <1>1, <1>2 DEF Flattening

(* Every element comes from one of the sequences.                          *)
LEMMA FlattenElements ==
  ASSUME NEW V, NEW seqs \in Seq(Seq(V)), NEW k \in DOMAIN FlattenSeq(seqs)
  PROVE  \E i \in DOMAIN seqs : \E j \in DOMAIN seqs[i] : FlattenSeq(seqs)[k] = seqs[i][j]
<1> DEFINE W == UNION {{seqs[i][j] : j \in DOMAIN seqs[i]} : i \in DOMAIN seqs}
<1>1. \A i \in DOMAIN seqs : seqs[i] \in Seq(W)
  <2> TAKE i \in DOMAIN seqs
  <2>1. seqs[i] \in Seq(V) OBVIOUS
  <2>2. \A j \in 1 .. Len(seqs[i]) : seqs[i][j] \in W BY <2>1
  <2> HIDE DEF W
  <2> QED BY <2>1, <2>2
<1>2. seqs \in Seq(Seq(W))
  <2> HIDE DEF W
  <2> QED BY <1>1
<1>3. FlattenSeq(seqs) \in Seq(W)
  <2> HIDE DEF W
  <2> QED BY <1>2, FlattenType
<1>4. FlattenSeq(seqs)[k] \in W
  <2> HIDE DEF W
  <2> QED BY <1>3
<1> QED BY <1>4

(* What FlattenSeq does with one more sequence, and with none.             *)
LEMMA FlattenStep ==
  ASSUME NEW V, NEW seqs \in Seq(Seq(V)), NEW last \in Seq(V)
  PROVE  FlattenSeq(Append(seqs, last)) = FlattenSeq(seqs) \o last
<1> DEFINE more == Append(seqs, last)
           n == Len(seqs)
<1>1. /\ more \in Seq(Seq(V)) /\ Len(more) = n + 1 /\ n \in Nat
      /\ \A i \in 1 .. n : more[i] = seqs[i]
      /\ more[n + 1] = last
  OBVIOUS
<1> HIDE DEF more
<1>2. PICK f : Flattening(f, seqs, V) BY FlattenPrefixes
<1>3. PICK g : Flattening(g, more, V) BY <1>1, FlattenPrefixes
<1>4. /\ f[0] = <<>> /\ \A i \in 1 .. n : f[i] = f[i - 1] \o seqs[i]
      /\ FlattenSeq(seqs) = f[n]
  BY <1>2, Zenon DEF Flattening
<1>5. /\ g[0] = <<>> /\ \A i \in 1 .. (n + 1) : g[i] = g[i - 1] \o more[i]
      /\ FlattenSeq(more) = g[n + 1]
  BY <1>1, <1>3, Zenon DEF Flattening
<1> DEFINE S == {i \in 0 .. n : f[i] = g[i]}
<1>6. 0 \in S BY <1>1, <1>4, <1>5
<1>7. ASSUME NEW i \in 0 .. (n - 1), i \in S PROVE i + 1 \in S
  <2>1. i + 1 \in 1 .. n /\ i + 1 \in 1 .. (n + 1) /\ (i + 1) - 1 = i BY <1>1
  <2>2. f[i + 1] = f[i] \o seqs[i + 1] BY <1>4, <2>1
  <2>3. g[i + 1] = g[i] \o seqs[i + 1] BY <1>1, <1>5, <2>1
  <2>4. f[i] = g[i] BY <1>7
  <2>5. i + 1 \in 0 .. n BY <1>1
  <2> QED BY <2>2, <2>3, <2>4, <2>5
<1> HIDE DEF S
<1>8. \A i \in 0 .. n : i \in S BY <1>1, <1>6, <1>7, Induct
<1>9. f[n] = g[n] BY <1>1, <1>8 DEF S
<1>10. n + 1 \in 1 .. (n + 1) /\ (n + 1) - 1 = n BY <1>1
<1>11. g[n + 1] = g[n] \o last BY <1>1, <1>5, <1>10
<1> QED BY <1>4, <1>5, <1>9, <1>11 DEF more

(* No sequences flatten to nothing.                                        *)
LEMMA FlattenNone == FlattenSeq(<<>>) = <<>>
BY DEF FlattenSeq

Adding(f, numbers, n) == f = [i \in 0 .. n |-> IF i = 0 THEN 0 ELSE f[i - 1] + numbers[i]]

(* The recursive function in Total exists.                                 *)
LEMMA TotalRecursion ==
  ASSUME NEW n \in Nat, NEW numbers
  PROVE  \E f : Adding(f, numbers, n)
<1> DEFINE S == {k \in 0 .. n : \E f : Adding(f, numbers, k)}
<1>1. 0 \in S
  <2> DEFINE zero == [i \in 0 .. 0 |-> 0]
  <2>1. zero = [i \in 0 .. 0 |-> IF i = 0 THEN 0 ELSE zero[i - 1] + numbers[i]] OBVIOUS
  <2> HIDE DEF zero
  <2>2. Adding(zero, numbers, 0) BY <2>1 DEF Adding
  <2> QED BY <2>2
<1>2. ASSUME NEW k \in 0 .. (n - 1), k \in S PROVE k + 1 \in S
  <2>1. PICK f : Adding(f, numbers, k) BY <1>2
  <2> DEFINE F(i) == IF i = 0 THEN 0 ELSE f[i - 1] + numbers[i]
             g == [i \in 0 .. (k + 1) |-> F(i)]
             G(i) == IF i = 0 THEN 0 ELSE g[i - 1] + numbers[i]
  <2>2. \A i \in 0 .. k : f[i] = F(i)
    BY <2>1 DEF Adding
  <2>3. \A i \in 0 .. k : g[i] = f[i]
    BY <2>2
  <2>4. \A i \in 0 .. (k + 1) : F(i) = G(i)
    <3>1. \A i \in 0 .. (k + 1) : i # 0 => i - 1 \in 0 .. k OBVIOUS
    <3> HIDE DEF g
    <3> QED BY <2>3, <3>1
  <2>5. g = [i \in 0 .. (k + 1) |-> G(i)]
    <3> HIDE DEF F, G
    <3> QED BY <2>4
  <2>6. Adding(g, numbers, k + 1)
    <3> HIDE DEF g
    <3> QED BY <2>5, Zenon DEF Adding
  <2> HIDE DEF g
  <2> QED BY <2>6
<1> HIDE DEF S
<1>3. \A k \in 0 .. n : k \in S BY <1>1, <1>2, Induct
<1> QED BY <1>3 DEF S

(* Total adds one number after the other.                                  *)
LEMMA TotalStep ==
  ASSUME NEW numbers \in Seq(Nat), NEW last \in Nat
  PROVE  Total(Append(numbers, last)) = Total(numbers) + last
<1> DEFINE more == Append(numbers, last)
           n == Len(numbers)
           f == CHOOSE f : Adding(f, numbers, n)
           g == CHOOSE g : Adding(g, more, n + 1)
<1>1. /\ more \in Seq(Nat) /\ Len(more) = n + 1 /\ n \in Nat
      /\ \A i \in 1 .. n : more[i] = numbers[i]
      /\ more[n + 1] = last
  OBVIOUS
<1> HIDE DEF more
<1>2. Adding(f, numbers, n) /\ Adding(g, more, n + 1)
  BY <1>1, TotalRecursion
<1>3. Total(numbers) = f[n] /\ Total(more) = g[n + 1]
  BY <1>1 DEF Total, Adding
<1> HIDE DEF f, g
<1>4. \A i \in 0 .. n : f[i] = IF i = 0 THEN 0 ELSE f[i - 1] + numbers[i]
  BY <1>2, Zenon DEF Adding
<1>5. \A i \in 0 .. (n + 1) : g[i] = IF i = 0 THEN 0 ELSE g[i - 1] + more[i]
  BY <1>2, Zenon DEF Adding
<1> DEFINE S == {i \in 0 .. n : f[i] = g[i]}
<1>6. 0 \in S BY <1>1, <1>4, <1>5
<1>7. ASSUME NEW i \in 0 .. (n - 1), i \in S PROVE i + 1 \in S
  <2>1. i + 1 \in 0 .. n /\ i + 1 \in 0 .. (n + 1) /\ i + 1 # 0 /\ (i + 1) - 1 = i BY <1>1
  <2>2. f[i + 1] = f[i] + numbers[i + 1] BY <1>4, <2>1
  <2>3. g[i + 1] = g[i] + more[i + 1] BY <1>5, <2>1
  <2>4. f[i] = g[i] /\ more[i + 1] = numbers[i + 1] BY <1>1, <1>7, <2>1
  <2> QED BY <2>1, <2>2, <2>3, <2>4
<1> HIDE DEF S
<1>8. \A i \in 0 .. n : i \in S BY <1>1, <1>6, <1>7, Induct
<1>9. f[n] = g[n] BY <1>1, <1>8 DEF S
<1>10. g[n + 1] = g[n] + last
  <2>1. n + 1 \in 0 .. (n + 1) /\ n + 1 # 0 /\ (n + 1) - 1 = n BY <1>1
  <2> QED BY <1>1, <1>5, <2>1
<1> QED BY <1>3, <1>9, <1>10 DEF more

(* The total of no numbers.                                                *)
LEMMA TotalNone == Total(<<>>) = 0
<1>1. PICK f : Adding(f, <<>>, 0) BY TotalRecursion
<1> DEFINE g == CHOOSE g : Adding(g, <<>>, 0)
<1>2. Adding(g, <<>>, 0) BY <1>1
<1>3. Total(<<>>) = g[0] BY DEF Total, Adding
<1> HIDE DEF g
<1> QED BY <1>2, <1>3 DEF Adding

(* A total of naturals is a natural.                                       *)
LEMMA TotalType ==
  ASSUME NEW numbers \in Seq(Nat)
  PROVE  Total(numbers) \in Nat
<1> DEFINE S == {s \in Seq(Nat) : Total(s) \in Nat}
<1>1. <<>> \in S BY TotalNone
<1>2. \A s \in Seq(Nat), x \in Nat : s \in S => Append(s, x) \in S
  BY TotalStep
<1> HIDE DEF S
<1>3. \A s \in Seq(Nat) : s \in S BY <1>1, <1>2, SequenceInduct
<1> QED BY <1>3 DEF S

----------------------------------------------------------------------------
(* Counting                                                                *)

Where(s, S) == {i \in DOMAIN s : s[i] \in S}
Count(s, S) == Cardinality(Where(s, S))

(* A count takes one more element after the other.                         *)
LEMMA CountStep ==
  ASSUME NEW V, NEW s \in Seq(V), NEW x \in V, NEW S
  PROVE  /\ IsFiniteSet(Where(s, S)) /\ Count(s, S) \in Nat
         /\ Count(Append(s, x), S) = Count(s, S) + (IF x \in S THEN 1 ELSE 0)
<1> DEFINE n == Len(s)
<1>1. n \in Nat /\ DOMAIN s = 1 .. n OBVIOUS
<1>2. IsFiniteSet(1 .. n) BY <1>1, FS_Interval
<1>3. IsFiniteSet(Where(s, S)) BY <1>1, <1>2, FS_Subset DEF Where
<1>4. Count(s, S) \in Nat BY <1>3, FS_CardinalityType DEF Count
<1>5. Where(Append(s, x), S) = Where(s, S) \cup (IF x \in S THEN {n + 1} ELSE {})
  BY <1>1 DEF Where
<1>6. n + 1 \notin Where(s, S) BY <1>1 DEF Where
<1>7. CASE x \in S
  <2>1. Where(Append(s, x), S) = Where(s, S) \cup {n + 1} BY <1>5, <1>7
  <2> QED BY <1>3, <1>4, <1>6, <1>7, <2>1, FS_AddElement DEF Count
<1>8. CASE x \notin S
  <2>1. Where(Append(s, x), S) = Where(s, S) BY <1>5, <1>8
  <2> QED BY <1>3, <1>4, <1>8, <2>1 DEF Count
<1> QED BY <1>3, <1>4, <1>7, <1>8

(* In an empty sequence nothing is counted.                                *)
LEMMA CountNone == ASSUME NEW S PROVE Count(<<>>, S) = 0
<1>1. Where(<<>>, S) = {} BY DEF Where
<1> QED BY <1>1, FS_EmptySet DEF Count

(* The counts of two sequences add up.                                     *)
LEMMA CountConcat ==
  ASSUME NEW V, NEW s \in Seq(V), NEW t \in Seq(V), NEW S
  PROVE  /\ Count(s, S) \in Nat /\ Count(t, S) \in Nat
         /\ Count(s \o t, S) = Count(s, S) + Count(t, S)
<1> DEFINE T == {r \in Seq(V) : Count(r, S) \in Nat /\ Count(s \o r, S) = Count(s, S) + Count(r, S)}
<1>0. \A r \in Seq(V) : Count(r, S) \in Nat
  <2>1. CASE V = {}
    <3>1. \A r \in Seq(V) : r = <<>>  BY <2>1
    <3> QED BY <3>1, CountNone
  <2>2. CASE V # {}
    BY <2>2, CountStep
  <2> QED BY <2>1, <2>2
<1>1. <<>> \in T
  <2>1. s \o <<>> = s BY ConcatEmptySeq
  <2> QED BY <1>0, <2>1, CountNone
<1>2. ASSUME NEW r \in Seq(V), NEW x \in V, r \in T PROVE Append(r, x) \in T
  <2>1. s \o Append(r, x) = Append(s \o r, x) OBVIOUS
  <2>2. s \o r \in Seq(V) /\ Append(r, x) \in Seq(V) OBVIOUS
  <2>3. Count(s \o r, S) = Count(s, S) + Count(r, S) BY <1>2
  <2>4. Count(Append(s \o r, x), S) = Count(s \o r, S) + (IF x \in S THEN 1 ELSE 0)
    BY <2>2, CountStep
  <2>5. Count(Append(r, x), S) = Count(r, S) + (IF x \in S THEN 1 ELSE 0)
    BY CountStep
  <2>6. Count(s, S) \in Nat /\ Count(r, S) \in Nat BY <1>0
  <2>7. Count(s \o Append(r, x), S) = Count(s, S) + Count(Append(r, x), S)
    BY <2>1, <2>3, <2>4, <2>5, <2>6
  <2> QED BY <1>0, <2>2, <2>7
<1> HIDE DEF T
<1>3. \A r \in Seq(V) : r \in T BY <1>1, <1>2, SequenceInduct
<1> QED BY <1>0, <1>3 DEF T

(* The elements of a flattened sequence are those of its sequences.        *)
LEMMA CountFlatten ==
  ASSUME NEW V, NEW seqs \in Seq(Seq(V)), NEW S
  PROVE  Count(FlattenSeq(seqs), S) = Total([i \in DOMAIN seqs |-> Count(seqs[i], S)])
<1> DEFINE C(ss) == [i \in DOMAIN ss |-> Count(ss[i], S)]
           T == {ss \in Seq(Seq(V)) : Count(FlattenSeq(ss), S) = Total(C(ss))}
<1>1. <<>> \in T
  <2>1. C(<<>>) = <<>> OBVIOUS
  <2> QED BY <2>1, CountNone, TotalNone, FlattenNone
<1>2. ASSUME NEW ss \in Seq(Seq(V)), NEW x \in Seq(V), ss \in T PROVE Append(ss, x) \in T
  <2>1. \A r \in Seq(V) : Count(r, S) \in Nat BY CountConcat
  <2>2. C(ss) \in Seq(Nat) BY <2>1
  <2>3. C(Append(ss, x)) = Append(C(ss), Count(x, S)) OBVIOUS
  <2>4. Total(C(Append(ss, x))) = Total(C(ss)) + Count(x, S)
    BY <2>1, <2>2, <2>3, TotalStep
  <2>5. FlattenSeq(Append(ss, x)) = FlattenSeq(ss) \o x BY FlattenStep
  <2>6. FlattenSeq(ss) \in Seq(V) BY FlattenType
  <2>7. Count(FlattenSeq(Append(ss, x)), S) = Count(FlattenSeq(ss), S) + Count(x, S)
    BY <2>5, <2>6, CountConcat
  <2>8. Count(FlattenSeq(ss), S) = Total(C(ss)) BY <1>2
  <2>9. Count(FlattenSeq(Append(ss, x)), S) = Total(C(Append(ss, x))) BY <2>4, <2>7, <2>8
  <2>10. Append(ss, x) \in Seq(Seq(V)) OBVIOUS
  <2> QED BY <2>9, <2>10, Zenon
<1> HIDE DEF T
<1>3. \A ss \in Seq(Seq(V)) : ss \in T BY <1>1, <1>2, SequenceInduct
<1> QED BY <1>3 DEF T

----------------------------------------------------------------------------
(* Every report is a sequence of lines                                     *)

IsSequence(s) == \E V : s \in Seq(V)

(* Two sequences, of whatever elements, make one.                          *)
LEMMA ConcatSequence ==
  ASSUME NEW s, NEW t, IsSequence(s), IsSequence(t)
  PROVE  IsSequence(s \o t)
<1>1. PICK V : s \in Seq(V) BY DEF IsSequence
<1>2. PICK W : t \in Seq(W) BY DEF IsSequence
<1>3. s \in Seq(V \cup W) /\ t \in Seq(V \cup W)
  BY <1>1, <1>2
<1>4. s \o t \in Seq(V \cup W) BY <1>3, ConcatProperties
<1> QED BY <1>4 DEF IsSequence

(* So do the sequences of a sequence, and the values of a function.        *)
LEMMA FlattenSequence ==
  ASSUME NEW n \in Nat, NEW seqs, seqs = [i \in 1 .. n |-> seqs[i]],
         \A i \in 1 .. n : IsSequence(seqs[i])
  PROVE  IsSequence(FlattenSeq(seqs))
<1> DEFINE V == UNION {{seqs[i][j] : j \in DOMAIN seqs[i]} : i \in 1 .. n}
<1>1. ASSUME NEW i \in 1 .. n PROVE seqs[i] \in Seq(V)
  <2>1. PICK W : seqs[i] \in Seq(W) BY DEF IsSequence
  <2>2. \A j \in 1 .. Len(seqs[i]) : seqs[i][j] \in V BY <2>1
  <2> HIDE DEF V
  <2> QED BY <2>1, <2>2
<1> HIDE DEF V
<1>2. seqs \in Seq(Seq(V)) BY <1>1
<1> QED BY <1>2, FlattenType DEF IsSequence

(* A function of 1 .. n is a sequence.                                     *)
LEMMA FunctionSequence ==
  ASSUME NEW n \in Nat, NEW f, f = [i \in 1 .. n |-> f[i]]
  PROVE  IsSequence(f)
<1> DEFINE V == {f[i] : i \in 1 .. n}
<1>1. f \in Seq(V) OBVIOUS
<1> HIDE DEF V
<1> QED BY <1>1 DEF IsSequence

(* So are the tuples that lines are put together from.                     *)
LEMMA TupleSequence ==
  ASSUME NEW x, NEW y, NEW z
  PROVE  /\ IsSequence(<<>>) /\ IsSequence(<<x>>)
         /\ IsSequence(<<x, y>>) /\ IsSequence(<<x, y, z>>)
<1>1. <<>> \in Seq({}) OBVIOUS
<1>2. <<x>> \in Seq({x}) OBVIOUS
<1>3. <<x, y>> \in Seq({x, y}) OBVIOUS
<1>4. <<x, y, z>> \in Seq({x, y, z}) OBVIOUS
<1> QED BY <1>1, <1>2, <1>3, <1>4 DEF IsSequence

SummariesOf(Lists, Characters) == [config : Seq(Lists), hosts : Seq(HostResults(Characters))]

HostLines(Characters) == {<<"host", name>> : name \in Seq(Characters)}
RowLines(Characters) ==
  {<<"row", p, state, reason>> : p \in PortNumbers, state \in PortStates, reason \in Seq(Characters)}
TextBody(Characters) == HostLines(Characters) \cup RowLines(Characters) \cup {<<"blank">>}

HostRows(h, reasons) ==
  [i \in DOMAIN h.ports |->
     <<"row", h.ports[i].port, h.ports[i].state, IF reasons THEN h.ports[i].reason ELSE <<>> >>]

(* The rows of a host, one for each result.                                *)
LEMMA HostRowsType ==
  ASSUME NEW Characters, NEW h \in HostResults(Characters), NEW reasons
  PROVE  /\ HostRows(h, reasons) \in Seq(RowLines(Characters))
         /\ Len(HostRows(h, reasons)) = Len(h.ports) /\ Len(h.ports) \in Nat
         /\ DOMAIN h.ports = 1 .. Len(h.ports)
         /\ h.ports \in Seq(PortResults(Characters))
<1>1. h.ports \in Seq(PortResults(Characters)) BY DEF HostResults
<1>2. DOMAIN h.ports = 1 .. Len(h.ports) /\ Len(h.ports) \in Nat
  BY <1>1
<1>3. <<>> \in Seq(Characters) OBVIOUS
<1>4. ASSUME NEW i \in 1 .. Len(h.ports)
      PROVE  <<"row", h.ports[i].port, h.ports[i].state,
               IF reasons THEN h.ports[i].reason ELSE <<>> >> \in RowLines(Characters)
  <2> DEFINE reason == IF reasons THEN h.ports[i].reason ELSE <<>>
  <2>1. h.ports[i] \in PortResults(Characters) BY <1>1
  <2>2. /\ h.ports[i].port \in PortNumbers /\ h.ports[i].state \in PortStates
        /\ h.ports[i].reason \in Seq(Characters)
    BY <2>1 DEF PortResults
  <2>3. reason \in Seq(Characters) BY <1>3, <2>2
  <2> HIDE DEF reason
  <2>4. <<"row", h.ports[i].port, h.ports[i].state, reason>> \in RowLines(Characters)
    BY <2>2, <2>3 DEF RowLines
  <2> QED BY <2>4 DEF reason
<1> QED BY <1>1, <1>2, <1>4 DEF HostRows

(* What a text mode that lists rows puts out for one host.                 *)
LEMMA HostBlockType ==
  ASSUME NEW Characters, NEW h \in HostResults(Characters), NEW reasons,
         NEW tail \in Seq({<<"blank">>})
  PROVE  << <<"host", h.host>> >> \o HostRows(h, reasons) \o tail \in Seq(TextBody(Characters))
<1>1. << <<"host", h.host>> >> \in Seq(TextBody(Characters))
  BY DEF HostResults, TextBody, HostLines
<1>2. HostRows(h, reasons) \in Seq(TextBody(Characters))
  BY HostRowsType DEF TextBody
<1>3. tail \in Seq(TextBody(Characters))
  BY DEF TextBody
<1> QED BY <1>1, <1>2, <1>3, ConcatProperties

(* print_host and print_ports_only are made of such blocks.                *)
LEMMA PrintHostType ==
  ASSUME NEW Characters, NEW h \in HostResults(Characters), NEW o
  PROVE  /\ print_host(h, o)
              = << <<"host", h.host>> >> \o HostRows(h, ShowsReason(o)) \o << <<"blank">> >>
         /\ print_host(h, o) \in Seq(TextBody(Characters))
<1>1. print_host(h, o)
        = << <<"host", h.host>> >> \o HostRows(h, ShowsReason(o)) \o << <<"blank">> >>
  BY DEF print_host, HostRows
<1>2. << <<"blank">> >> \in Seq({<<"blank">>}) OBVIOUS
<1> QED BY <1>1, <1>2, HostBlockType

AfterHost(i, s) == IF NotLastHost(i, s) THEN << <<"blank">> >> ELSE <<>>
PortsOnlyBlock(i, s) ==
  << <<"host", s.hosts[i].host>> >> \o HostRows(s.hosts[i], FALSE) \o AfterHost(i, s)
PortsOnlyBlocks(s) == [i \in DOMAIN s.hosts |-> PortsOnlyBlock(i, s)]

(* The ports-only report is the blocks of its hosts one after the other.   *)
LEMMA PrintPortsOnlyType ==
  ASSUME NEW Lists, NEW Characters, NEW s \in SummariesOf(Lists, Characters)
  PROVE  /\ print_ports_only(s) = FlattenSeq(PortsOnlyBlocks(s))
         /\ PortsOnlyBlocks(s) \in Seq(Seq(TextBody(Characters)))
         /\ Len(PortsOnlyBlocks(s)) = Len(s.hosts)
<1>1. s.hosts \in Seq(HostResults(Characters)) BY DEF SummariesOf
<1>2. ASSUME NEW i \in DOMAIN s.hosts
      PROVE  PortsOnlyBlock(i, s) \in Seq(TextBody(Characters))
  <2>1. s.hosts[i] \in HostResults(Characters) BY <1>1
  <2>2. AfterHost(i, s) \in Seq({<<"blank">>})
    <3>1. <<>> \in Seq({<<"blank">>}) /\ << <<"blank">> >> \in Seq({<<"blank">>}) OBVIOUS
    <3> QED BY <3>1, Zenon DEF AfterHost
  <2> QED BY <2>1, <2>2, HostBlockType DEF PortsOnlyBlock
<1>3. print_ports_only(s) = FlattenSeq(PortsOnlyBlocks(s))
  BY DEF print_ports_only, PortsOnlyBlocks, PortsOnlyBlock, AfterHost, HostRows
<1> QED BY <1>1, <1>2, <1>3 DEF PortsOnlyBlocks

----------------------------------------------------------------------------
(* XML                                                                     *)

Escaped(Characters) ==
  (Characters \cup {Entity[c] : c \in Special}) \ (Special \cup {"control"})
Tag(kind, name) == <<kind, name>>
Tags == {Tag(kind, name) : kind \in {"begin", "end"}, name \in {"asioscan", "host", "ports", "port"}}
XmlBody(Characters) ==
  UNION {Tags, {<<"begin", "port", p>> : p \in PortNumbers},
         {<<"empty", "address", name>> : name \in Seq(Escaped(Characters))},
         {<<"empty", "state", state, reason>> :
            state \in PortStates, reason \in Seq(Escaped(Characters))}}

(* An escaped text has no character left that XML gives a meaning.         *)
LEMMA EscapeCharType ==
  ASSUME NEW Characters, NEW c \in Characters
  PROVE  EscapeChar(c) \in Seq(Escaped(Characters))
<1>1. CASE c = "control" BY <1>1 DEF EscapeChar
<1>2. CASE c \in Special
  <2>1. Entity[c] \notin Special \cup {"control"} BY <1>2 DEF Entity, Special
  <2>2. Entity[c] \in Escaped(Characters) BY <1>2, <2>1 DEF Escaped
  <2>3. c # "control" BY <1>2 DEF Special
  <2>4. EscapeChar(c) = <<Entity[c]>> BY <1>2, <2>3 DEF EscapeChar
  <2> QED BY <2>2, <2>4
<1>3. CASE c \notin Special \cup {"control"}
  <2>1. EscapeChar(c) = <<c>> BY <1>3 DEF EscapeChar
  <2>2. c \in Escaped(Characters) BY <1>3 DEF Escaped
  <2> QED BY <2>1, <2>2
<1> QED BY <1>1, <1>2, <1>3

EscapedParts(text) == [i \in DOMAIN text |-> EscapeChar(text[i])]

(* What escape_xml returns has no character that XML gives a meaning.      *)
LEMMA EscapeType ==
  ASSUME NEW Characters, NEW text \in Seq(Characters)
  PROVE  /\ escape_xml(text) = FlattenSeq(EscapedParts(text))
         /\ EscapedParts(text) \in Seq(Seq(Escaped(Characters)))
         /\ escape_xml(text) \in Seq(Escaped(Characters))
<1>1. \A i \in 1 .. Len(text) : EscapeChar(text[i]) \in Seq(Escaped(Characters))
  BY EscapeCharType
<1>2. EscapedParts(text) \in Seq(Seq(Escaped(Characters))) BY <1>1 DEF EscapedParts
<1>3. escape_xml(text) = FlattenSeq(EscapedParts(text)) BY DEF escape_xml, EachOf, EscapedParts
<1> QED BY <1>2, <1>3, FlattenType

(* The tags of the elements that have contents are lines of the body.      *)
LEMMA TagsType ==
  ASSUME NEW Characters, NEW kind \in {"begin", "end"},
         NEW name \in {"asioscan", "host", "ports", "port"}
  PROVE  Tag(kind, name) \in XmlBody(Characters)
BY DEF Tags, XmlBody

(* The lines of a result, of a host's results and of a host.               *)
LEMMA XmlPortType ==
  ASSUME NEW Characters, NEW r \in PortResults(Characters)
  PROVE  XmlPort(r) \in Seq(XmlBody(Characters))
<1>1. /\ r.port \in PortNumbers /\ r.state \in PortStates
      /\ r.reason \in Seq(Characters)
  BY DEF PortResults
<1>2. escape_xml(r.reason) \in Seq(Escaped(Characters)) BY <1>1, EscapeType
<1>3. <<"begin", "port", r.port>> \in XmlBody(Characters)
  BY <1>1 DEF XmlBody
<1>4. <<"empty", "state", r.state, escape_xml(r.reason)>> \in XmlBody(Characters)
  BY <1>1, <1>2 DEF XmlBody
<1>5. <<"end", "port">> \in XmlBody(Characters) BY TagsType DEF Tag
<1> QED BY <1>3, <1>4, <1>5 DEF XmlPort

PortBlocks(h) == [i \in DOMAIN h.ports |-> XmlPort(h.ports[i])]

(* The lines of the ports of a host.                                       *)
LEMMA XmlPortsType ==
  ASSUME NEW Characters, NEW h \in HostResults(Characters)
  PROVE  /\ PortBlocks(h) \in Seq(Seq(XmlBody(Characters)))
         /\ EachOf(XmlPort, h.ports) = FlattenSeq(PortBlocks(h))
         /\ XmlPorts(h) \in Seq(XmlBody(Characters))
<1>1. h.ports \in Seq(PortResults(Characters)) BY DEF HostResults
<1>2. PortBlocks(h) \in Seq(Seq(XmlBody(Characters)))
  <2>1. \A i \in 1 .. Len(h.ports) : XmlPort(h.ports[i]) \in Seq(XmlBody(Characters))
    BY <1>1, XmlPortType
  <2> QED BY <1>1, <2>1 DEF PortBlocks
<1>3. EachOf(XmlPort, h.ports) = FlattenSeq(PortBlocks(h)) BY DEF EachOf, PortBlocks
<1>4. EachOf(XmlPort, h.ports) \in Seq(XmlBody(Characters)) BY <1>2, <1>3, FlattenType
<1>5. /\ << <<"begin", "ports">> >> \in Seq(XmlBody(Characters))
      /\ << <<"end", "ports">> >> \in Seq(XmlBody(Characters))
  <2>1. Tag("begin", "ports") \in XmlBody(Characters) /\ Tag("end", "ports") \in XmlBody(Characters)
    BY TagsType
  <2> QED BY <2>1 DEF Tag
<1>6. <<>> \in Seq(XmlBody(Characters)) OBVIOUS
<1>7. XmlPorts(h) \in Seq(XmlBody(Characters))
  BY <1>4, <1>5, <1>6, ConcatProperties DEF XmlPorts
<1> QED BY <1>2, <1>3, <1>7

(* The lines of a host.                                                    *)
LEMMA XmlHostType ==
  ASSUME NEW Characters, NEW h \in HostResults(Characters)
  PROVE  XmlHost(h) \in Seq(XmlBody(Characters))
<1>1. escape_xml(h.host) \in Seq(Escaped(Characters)) BY EscapeType DEF HostResults
<1>2. /\ << <<"begin", "host">>, <<"empty", "address", escape_xml(h.host)>> >>
            \in Seq(XmlBody(Characters))
      /\ << <<"end", "host">> >> \in Seq(XmlBody(Characters))
  <2>1. Tag("begin", "host") \in XmlBody(Characters) /\ Tag("end", "host") \in XmlBody(Characters)
    BY TagsType
  <2>2. <<"empty", "address", escape_xml(h.host)>> \in XmlBody(Characters)
    BY <1>1 DEF XmlBody
  <2> QED BY <2>1, <2>2 DEF Tag
<1> QED BY <1>2, XmlPortsType, ConcatProperties DEF XmlHost

HostBlocks(s) == [i \in DOMAIN s.hosts |-> XmlHost(s.hosts[i])]

(* The lines of all hosts.                                                 *)
LEMMA XmlHostsType ==
  ASSUME NEW Lists, NEW Characters, NEW s \in SummariesOf(Lists, Characters)
  PROVE  /\ HostBlocks(s) \in Seq(Seq(XmlBody(Characters)))
         /\ EachOf(XmlHost, s.hosts) = FlattenSeq(HostBlocks(s))
         /\ EachOf(XmlHost, s.hosts) \in Seq(XmlBody(Characters))
<1>1. s.hosts \in Seq(HostResults(Characters)) BY DEF SummariesOf
<1>2. HostBlocks(s) \in Seq(Seq(XmlBody(Characters)))
  <2>1. \A i \in 1 .. Len(s.hosts) : XmlHost(s.hosts[i]) \in Seq(XmlBody(Characters))
    BY <1>1, XmlHostType
  <2> QED BY <1>1, <2>1 DEF HostBlocks
<1>3. EachOf(XmlHost, s.hosts) = FlattenSeq(HostBlocks(s)) BY DEF EachOf, HostBlocks
<1> QED BY <1>2, <1>3, FlattenType

----------------------------------------------------------------------------
(* The whole reports                                                       *)

NormalBlocks(s, o) == [i \in DOMAIN s.hosts |-> print_host(s.hosts[i], o)]

(* A normal or verbose report is a header, the hosts and three figures.    *)
LEMMA NormalReport ==
  ASSUME NEW Lists, NEW Characters, NEW s \in SummariesOf(Lists, Characters), NEW o,
         o.text_mode \notin {"Quiet", "Summary", "PortsOnly", "HostsOnly"}
  PROVE  /\ NormalBlocks(s, o) \in Seq(Seq(TextBody(Characters)))
         /\ TextLines(s, o)
              = << <<"header">> >> \o FlattenSeq(NormalBlocks(s, o)) \o print_summary(s)
         /\ s.hosts \in Seq(HostResults(Characters))
<1>1. s.hosts \in Seq(HostResults(Characters)) BY DEF SummariesOf
<1>2. \A i \in 1 .. Len(s.hosts) : print_host(s.hosts[i], o) \in Seq(TextBody(Characters))
  <2> TAKE i \in 1 .. Len(s.hosts)
  <2>1. s.hosts[i] \in HostResults(Characters) BY <1>1
  <2> QED BY <2>1, PrintHostType
<1>3. NormalBlocks(s, o) \in Seq(Seq(TextBody(Characters)))
  BY <1>1, <1>2 DEF NormalBlocks
<1>4. TextLines(s, o) = << <<"header">> >> \o FlattenSeq(NormalBlocks(s, o)) \o print_summary(s)
  BY DEF TextLines, EachOf, NormalBlocks
<1> QED BY <1>1, <1>3, <1>4

OpenLine(h, r) == IF IsOpen(r) THEN << <<"open", h.host, r.port>> >> ELSE <<>>
OpenLines(Characters) ==
  {<<"open", name, p>> : name \in Seq(Characters), p \in PortNumbers}
QuietParts(h) == [j \in DOMAIN h.ports |-> OpenLine(h, h.ports[j])]
QuietHosts(s) == [i \in DOMAIN s.hosts |-> QuietHost(s.hosts[i])]

(* The quiet report has a line for each open result.                       *)
LEMMA QuietHostType ==
  ASSUME NEW Characters, NEW h \in HostResults(Characters)
  PROVE  /\ QuietHost(h) = FlattenSeq(QuietParts(h))
         /\ QuietParts(h) \in Seq(Seq(OpenLines(Characters)))
         /\ QuietHost(h) \in Seq(OpenLines(Characters))
<1>1. h.ports \in Seq(PortResults(Characters)) /\ h.host \in Seq(Characters)
  BY DEF HostResults
<1>2. ASSUME NEW j \in 1 .. Len(h.ports)
      PROVE  OpenLine(h, h.ports[j]) \in Seq(OpenLines(Characters))
  <2>1. h.ports[j] \in PortResults(Characters) BY <1>1
  <2>2. h.ports[j].port \in PortNumbers BY <2>1 DEF PortResults
  <2>3. <<"open", h.host, h.ports[j].port>> \in OpenLines(Characters)
    BY <1>1, <2>2 DEF OpenLines
  <2> QED BY <2>3 DEF OpenLine
<1>3. QuietParts(h) \in Seq(Seq(OpenLines(Characters))) BY <1>1, <1>2 DEF QuietParts
<1>4. QuietHost(h) = FlattenSeq(QuietParts(h))
  BY DEF QuietHost, EachOf, QuietParts, OpenLine
<1> QED BY <1>3, <1>4, FlattenType

(* The quiet report is the open ports of the hosts one after the other.    *)
LEMMA QuietReport ==
  ASSUME NEW Lists, NEW Characters, NEW s \in SummariesOf(Lists, Characters)
  PROVE  /\ print_quiet(s) = FlattenSeq(QuietHosts(s))
         /\ QuietHosts(s) \in Seq(Seq(OpenLines(Characters)))
         /\ print_quiet(s) \in Seq(OpenLines(Characters))
<1>1. s.hosts \in Seq(HostResults(Characters)) BY DEF SummariesOf
<1>2. \A i \in 1 .. Len(s.hosts) : QuietHost(s.hosts[i]) \in Seq(OpenLines(Characters))
  BY <1>1, QuietHostType
<1>3. QuietHosts(s) \in Seq(Seq(OpenLines(Characters))) BY <1>1, <1>2 DEF QuietHosts
<1>4. print_quiet(s) = FlattenSeq(QuietHosts(s)) BY DEF print_quiet, EachOf, QuietHosts
<1> QED BY <1>3, <1>4, FlattenType

(* Whatever the options, a report is a sequence of lines.                  *)
LEMMA ReportIsSequence ==
  ASSUME NEW Lists, NEW Characters, NEW s \in SummariesOf(Lists, Characters), NEW o
  PROVE  IsSequence(ReportLines(s, o))
<1>1. IsSequence(XmlLines(s))
  <2>1. IsSequence(scaninfo(s)) BY TupleSequence DEF scaninfo
  <2>2. IsSequence(EachOf(XmlHost, s.hosts)) BY XmlHostsType DEF IsSequence
  <2> DEFINE hosts == EachOf(XmlHost, s.hosts)
             figures == << <<"empty", "runstats", runstats(s)>>, <<"end", "asioscan">> >>
  <2>3. XmlLines(s) = << <<"begin", "asioscan">> >> \o scaninfo(s) \o hosts \o figures
    BY DEF XmlLines
  <2>4. IsSequence(figures) BY TupleSequence
  <2> HIDE DEF figures, hosts
  <2>5. IsSequence(<< <<"begin", "asioscan">> >>) BY TupleSequence
  <2> QED BY <2>1, <2>2, <2>3, <2>4, <2>5, ConcatSequence DEF hosts
<1>2. IsSequence(print_quiet(s)) BY QuietReport DEF IsSequence
<1>3. IsSequence(print_summary_only(s))
  <2> DEFINE f == print_summary_only(s)
  <2>1. f = [i \in 1 .. 4 |-> f[i]] BY DEF print_summary_only
  <2> HIDE DEF f
  <2>2. IsSequence(f) BY <2>1, FunctionSequence
  <2> QED BY <2>2 DEF f
<1>4. IsSequence(print_ports_only(s)) BY PrintPortsOnlyType, FlattenType DEF IsSequence
<1>5. IsSequence(print_hosts_only(s))
  <2>1. Len(s.hosts) \in Nat /\ DOMAIN s.hosts = 1 .. Len(s.hosts) BY DEF SummariesOf
  <2> DEFINE f == print_hosts_only(s)
  <2>2. f = [i \in 1 .. Len(s.hosts) |-> f[i]] BY <2>1 DEF print_hosts_only
  <2> HIDE DEF f
  <2>3. IsSequence(f) BY <2>1, <2>2, FunctionSequence
  <2> QED BY <2>3 DEF f
<1>6. ASSUME o.text_mode \notin {"Quiet", "Summary", "PortsOnly", "HostsOnly"}
      PROVE  IsSequence(TextLines(s, o))
  <2>1. /\ NormalBlocks(s, o) \in Seq(Seq(TextBody(Characters)))
        /\ TextLines(s, o)
             = << <<"header">> >> \o FlattenSeq(NormalBlocks(s, o)) \o print_summary(s)
    BY <1>6, NormalReport
  <2>2. IsSequence(FlattenSeq(NormalBlocks(s, o))) BY <2>1, FlattenType DEF IsSequence
  <2>3. IsSequence(print_summary(s)) BY TupleSequence DEF print_summary
  <2>4. IsSequence(<< <<"header">> >>) BY TupleSequence
  <2> QED BY <2>1, <2>2, <2>3, <2>4, ConcatSequence
<1>7. IsSequence(TextLines(s, o))
  <2>1. CASE o.text_mode = "Quiet" BY <1>2, <2>1 DEF TextLines
  <2>2. CASE o.text_mode = "Summary" BY <1>3, <2>2 DEF TextLines
  <2>3. CASE o.text_mode = "PortsOnly" BY <1>4, <2>3 DEF TextLines
  <2>4. CASE o.text_mode = "HostsOnly" BY <1>5, <2>4 DEF TextLines
  <2> QED BY <1>6, <2>1, <2>2, <2>3, <2>4
<1> QED BY <1>1, <1>7 DEF ReportLines

----------------------------------------------------------------------------
(* What a reader makes of a text report                                    *)

(* A set of line numbers that is not empty has a largest.                  *)
LEMMA MaxOfPrefix ==
  ASSUME NEW n \in Nat, NEW S \in SUBSET (1 .. n), S # {}
  PROVE  Max(S) \in S /\ \A j \in S : Max(S) >= j
<1> DEFINE T == {n - j : j \in S}
<1>1. T \in SUBSET Nat /\ T # {}
  <2>1. PICK j \in S : TRUE OBVIOUS
  <2>2. n - j \in T OBVIOUS
  <2> QED BY <2>2
<1>2. PICK m \in T : \A j \in T : m <= j
  <2> HIDE DEF T
  <2> QED BY <1>1, LeastNatural
<1>3. PICK k \in S : m = n - k BY <1>2
<1>4. \A j \in S : k >= j
  <2> TAKE j \in S
  <2>1. n - j \in T OBVIOUS
  <2>2. n - k <= n - j BY <1>2, <1>3, <2>1
  <2>3. j \in Int /\ k \in Int OBVIOUS
  <2> HIDE DEF T
  <2> QED BY <2>2, <2>3
<1> QED BY <1>3, <1>4 DEF Max

(* The nearest line above that has a word in a field.                      *)
LEMMA AboveIs ==
  ASSUME NEW lines, NEW i \in Nat, NEW k \in 1 .. i, NEW field, NEW word,
         lines[k][field] = word, \A j \in (k + 1) .. i : lines[j][field] # word
  PROVE  Above(lines, i, field, word) = lines[k]
<1> DEFINE S == {j \in 1 .. i : lines[j][field] = word}
<1>1. k \in S /\ S \in SUBSET (1 .. i) OBVIOUS
<1>2. \A j \in S : ~(j > k)
  <2> TAKE j \in S
  <2>1. j > k => j \in (k + 1) .. i OBVIOUS
  <2> QED BY <2>1
<1> HIDE DEF S
<1>3. Max(S) \in S /\ Max(S) >= k BY <1>1, MaxOfPrefix
<1>4. Max(S) = k
  <2>1. Max(S) \in 1 .. i BY <1>1, <1>3
  <2>2. ~(Max(S) > k) BY <1>2, <1>3
  <2> QED BY <1>3, <2>1, <2>2
<1> QED BY <1>4 DEF Above, S

(* The same of a line that names a host.                                   *)
LEMMA HostAboveIs ==
  ASSUME NEW lines, NEW i \in Nat, NEW k \in 1 .. i,
         lines[k][1] = "host", \A j \in (k + 1) .. i : lines[j][1] # "host"
  PROVE  Above(lines, i, 1, "host") = lines[k]
<1> DEFINE field == 1
           word == "host"
<1>1. lines[k][field] = word /\ \A j \in (k + 1) .. i : lines[j][field] # word OBVIOUS
<1> HIDE DEF field, word
<1>2. Above(lines, i, field, word) = lines[k] BY <1>1, AboveIs
<1> QED BY <1>2 DEF field, word

(* It does not change when lines are added below.                          *)
LEMMA AboveStays ==
  ASSUME NEW V, NEW lines \in Seq(V), NEW l \in V, NEW i \in 1 .. Len(lines),
         NEW field, NEW word, \E k \in 1 .. i : lines[k][field] = word
  PROVE  Above(Append(lines, l), i, field, word) = Above(lines, i, field, word)
<1> DEFINE more == Append(lines, l)
           S == {j \in 1 .. i : lines[j][field] = word}
           T == {j \in 1 .. i : more[j][field] = word}
<1>1. i \in Nat /\ \A j \in 1 .. i : more[j] = lines[j] OBVIOUS
<1> HIDE DEF more
<1>2. S = T /\ S # {} /\ S \in SUBSET (1 .. i) BY <1>1
<1> HIDE DEF S, T
<1>3. Max(S) \in S BY <1>1, <1>2, MaxOfPrefix
<1>4. more[Max(T)] = lines[Max(S)] BY <1>1, <1>2, <1>3
<1> QED BY <1>4 DEF Above, more, S, T

ResultRows(Characters) ==
  {<<name, p, state>> : name \in Seq(Characters), p \in PortNumbers, state \in PortStates}

TextPart(lines, i) ==
  IF lines[i][1] = "row"
  THEN << <<Above(lines, i, 1, "host")[2], lines[i][2], lines[i][3]>> >> ELSE <<>>
TextParts(lines) == [i \in DOMAIN lines |-> TextPart(lines, i)]

(* The lines seen so far, the rows read off them, and the host that holds. *)
TextRead(lines, rows, Characters, V) ==
  /\ lines \in Seq(V)
  /\ \A i \in DOMAIN lines : lines[i][1] = "row" => \E j \in 1 .. i : lines[j][1] = "host"
  /\ TextParts(lines) \in Seq(Seq(ResultRows(Characters)))
  /\ FlattenSeq(TextParts(lines)) = rows

TextHost(lines, name) ==
  \E k \in DOMAIN lines :
    /\ lines[k] = <<"host", name>>
    /\ \A j \in (k + 1) .. Len(lines) : lines[j][1] # "host"

(* One more line leaves what was read from those before it.                *)
LEMMA TextPartsStep ==
  ASSUME NEW V, NEW lines \in Seq(V), NEW l \in V,
         \A i \in DOMAIN lines : lines[i][1] = "row" => \E j \in 1 .. i : lines[j][1] = "host"
  PROVE  TextParts(Append(lines, l))
           = Append(TextParts(lines), TextPart(Append(lines, l), Len(lines) + 1))
<1> DEFINE n == Len(lines)
           more == Append(lines, l)
<1>1. /\ n \in Nat /\ more \in Seq(V) /\ DOMAIN more = 1 .. (n + 1) /\ DOMAIN lines = 1 .. n
      /\ \A i \in 1 .. n : more[i] = lines[i]
  OBVIOUS
<1>2. ASSUME NEW i \in 1 .. n, lines[i][1] = "row"
      PROVE  Above(more, i, 1, "host") = Above(lines, i, 1, "host")
  BY <1>1, <1>2, AboveStays
<1> HIDE DEF more
<1>3. ASSUME NEW i \in 1 .. n PROVE TextPart(more, i) = TextPart(lines, i)
  BY <1>1, <1>2 DEF TextPart
<1>4. TextParts(more) = [i \in 1 .. (n + 1) |-> TextPart(more, i)]
      /\ TextParts(lines) = [i \in 1 .. n |-> TextPart(lines, i)]
  BY <1>1 DEF TextParts
<1>5. TextParts(more) = Append(TextParts(lines), TextPart(more, n + 1))
  BY <1>1, <1>3, <1>4
<1> QED BY <1>5 DEF more

(* A line that is no row adds nothing to the rows.                         *)
LEMMA ReadOther ==
  ASSUME NEW V, NEW Characters, NEW lines, NEW rows, TextRead(lines, rows, Characters, V),
         NEW l \in V, l[1] # "row"
  PROVE  TextRead(Append(lines, l), rows, Characters, V)
<1> DEFINE n == Len(lines)
           more == Append(lines, l)
<1>1. lines \in Seq(V) BY DEF TextRead
<1>2. /\ n \in Nat /\ more \in Seq(V) /\ DOMAIN more = 1 .. (n + 1) /\ DOMAIN lines = 1 .. n
      /\ \A i \in 1 .. n : more[i] = lines[i]
      /\ more[n + 1] = l
  BY <1>1
<1>3. TextParts(more) = Append(TextParts(lines), TextPart(more, n + 1))
  BY <1>1, TextPartsStep DEF TextRead
<1> HIDE DEF more
<1>4. TextPart(more, n + 1) = <<>> BY <1>2 DEF TextPart
<1>5. TextParts(lines) \in Seq(Seq(ResultRows(Characters))) BY DEF TextRead
<1>6. <<>> \in Seq(ResultRows(Characters)) OBVIOUS
<1>7. TextParts(more) \in Seq(Seq(ResultRows(Characters)))
  BY <1>3, <1>4, <1>5, <1>6, AppendType
<1>8. FlattenSeq(TextParts(more)) = FlattenSeq(TextParts(lines)) \o <<>>
  BY <1>3, <1>4, <1>5, <1>6, FlattenStep
<1>9. FlattenSeq(TextParts(lines)) \in Seq(ResultRows(Characters)) BY <1>5, FlattenType
<1>10. FlattenSeq(TextParts(more)) = FlattenSeq(TextParts(lines))
  BY <1>8, <1>9, ConcatEmptySeq
<1>11. \A i \in 1 .. (n + 1) : more[i][1] = "row" => \E j \in 1 .. i : more[j][1] = "host"
  <2> SUFFICES ASSUME NEW i \in 1 .. (n + 1), more[i][1] = "row"
               PROVE  \E j \in 1 .. i : more[j][1] = "host"
    OBVIOUS
  <2>1. i \in 1 .. n BY <1>2
  <2>2. PICK j \in 1 .. i : lines[j][1] = "host" BY <1>2, <2>1 DEF TextRead
  <2> QED BY <1>2, <2>1, <2>2
<1>12. TextRead(more, rows, Characters, V)
  BY <1>2, <1>7, <1>10, <1>11 DEF TextRead
<1> QED BY <1>12 DEF more

(* A row is read under the host that holds.                                *)
LEMMA ReadRow ==
  ASSUME NEW V, NEW Characters, NEW lines, NEW rows, TextRead(lines, rows, Characters, V),
         NEW name \in Seq(Characters), TextHost(lines, name),
         NEW l \in V, NEW p \in PortNumbers, NEW state \in PortStates, NEW reason,
         l = <<"row", p, state, reason>>
  PROVE  /\ TextRead(Append(lines, l), Append(rows, <<name, p, state>>), Characters, V)
         /\ TextHost(Append(lines, l), name)
<1> DEFINE n == Len(lines)
           more == Append(lines, l)
<1>1. lines \in Seq(V) BY DEF TextRead
<1>2. /\ n \in Nat /\ more \in Seq(V) /\ DOMAIN more = 1 .. (n + 1) /\ DOMAIN lines = 1 .. n
      /\ \A i \in 1 .. n : more[i] = lines[i]
      /\ more[n + 1] = l /\ Len(more) = n + 1
  BY <1>1
<1>3. TextParts(more) = Append(TextParts(lines), TextPart(more, n + 1))
  BY <1>1, TextPartsStep DEF TextRead
<1> HIDE DEF more
<1>4. PICK k \in 1 .. n : /\ lines[k] = <<"host", name>>
                          /\ \A j \in (k + 1) .. n : lines[j][1] # "host"
  BY <1>2 DEF TextHost
<1>5. /\ more[k] = <<"host", name>> /\ k \in 1 .. (n + 1)
      /\ \A j \in (k + 1) .. (n + 1) : more[j][1] # "host"
  <2>1. more[n + 1][1] # "host" BY <1>2
  <2>2. \A j \in (k + 1) .. (n + 1) : j # n + 1 => j \in (k + 1) .. n /\ j \in 1 .. n
    BY <1>2, <1>4
  <2> QED BY <1>2, <1>4, <2>1, <2>2, SMTT(30)
<1>6. Above(more, n + 1, 1, "host") = <<"host", name>>
  <2>1. more[k][1] = "host" BY <1>5
  <2>2. n + 1 \in Nat BY <1>2
  <2> DEFINE i == n + 1
  <2>3. i \in Nat /\ k \in 1 .. i /\ \A j \in (k + 1) .. i : more[j][1] # "host"
    BY <1>5, <2>2
  <2> HIDE DEF i, n
  <2>4. Above(more, i, 1, "host") = more[k] BY <2>1, <2>3, HostAboveIs
  <2> QED BY <1>5, <2>4 DEF i
<1>7. TextPart(more, n + 1) = << <<name, p, state>> >>
  BY <1>2, <1>6 DEF TextPart
<1>8. TextParts(lines) \in Seq(Seq(ResultRows(Characters))) BY DEF TextRead
<1>9. << <<name, p, state>> >> \in Seq(ResultRows(Characters))
  <2>1. <<name, p, state>> \in ResultRows(Characters) BY DEF ResultRows
  <2> QED BY <2>1
<1>10. TextParts(more) \in Seq(Seq(ResultRows(Characters)))
  BY <1>3, <1>7, <1>8, <1>9, AppendType
<1>11. FlattenSeq(TextParts(more)) = FlattenSeq(TextParts(lines)) \o << <<name, p, state>> >>
  BY <1>3, <1>7, <1>8, <1>9, FlattenStep
<1>12. FlattenSeq(TextParts(lines)) = rows /\ rows \in Seq(ResultRows(Characters))
  BY <1>8, FlattenType DEF TextRead
<1>13. FlattenSeq(TextParts(more)) = Append(rows, <<name, p, state>>)
  BY <1>11, <1>12
<1>14. \A i \in 1 .. (n + 1) : more[i][1] = "row" => \E j \in 1 .. i : more[j][1] = "host"
  <2> SUFFICES ASSUME NEW i \in 1 .. (n + 1), more[i][1] = "row"
               PROVE  \E j \in 1 .. i : more[j][1] = "host"
    OBVIOUS
  <2>1. CASE i \in 1 .. n
    <3>1. PICK j \in 1 .. i : lines[j][1] = "host" BY <1>2, <2>1 DEF TextRead
    <3> QED BY <1>2, <2>1, <3>1
  <2>2. CASE i = n + 1 BY <1>5, <2>2
  <2> QED BY <1>2, <2>1, <2>2
<1>15. TextRead(more, Append(rows, <<name, p, state>>), Characters, V)
  BY <1>2, <1>10, <1>13, <1>14 DEF TextRead
<1>16. TextHost(more, name) BY <1>2, <1>5 DEF TextHost
<1> QED BY <1>15, <1>16 DEF more

HostResultRows(h) == [i \in DOMAIN h.ports |-> <<h.host, h.ports[i].port, h.ports[i].state>>]
IsHostBlock(block, h) ==
  \E reasons, tail : /\ tail \in Seq({<<"blank">>})
                     /\ block = << <<"host", h.host>> >> \o HostRows(h, reasons) \o tail

(* Concatenation, one element at a time.                                   *)
LEMMA ConcatPrefix ==
  ASSUME NEW V, NEW s \in Seq(V), NEW t \in Seq(V), NEW k \in 0 .. (Len(t) - 1)
  PROVE  /\ s \o SubSeq(t, 1, k + 1) = Append(s \o SubSeq(t, 1, k), t[k + 1])
         /\ SubSeq(t, 1, k + 1) = Append(SubSeq(t, 1, k), t[k + 1])
         /\ s \o SubSeq(t, 1, 0) = s /\ s \o SubSeq(t, 1, Len(t)) = s \o t
         /\ t[k + 1] \in V /\ s \o SubSeq(t, 1, k) \in Seq(V)
<1>1. /\ Len(t) \in Nat /\ k + 1 \in 1 .. Len(t) /\ SubSeq(t, 1, k) \in Seq(V) /\ t[k + 1] \in V
  OBVIOUS
<1>2. SubSeq(t, 1, k + 1) = Append(SubSeq(t, 1, k), t[k + 1]) OBVIOUS
<1>3. s \o Append(SubSeq(t, 1, k), t[k + 1]) = Append(s \o SubSeq(t, 1, k), t[k + 1])
  BY <1>1
<1>4. SubSeq(t, 1, 0) = <<>> BY SubSeqEmpty
<1>5. s \o <<>> = s BY ConcatEmptySeq
<1>6. SubSeq(t, 1, Len(t)) = t BY SubSeqFull
<1> QED BY <1>1, <1>2, <1>3, <1>4, <1>5, <1>6, ConcatProperties

(* Lines that are no rows add nothing, however many.                       *)
LEMMA ReadOthers ==
  ASSUME NEW V, NEW Characters, NEW lines, NEW rows, TextRead(lines, rows, Characters, V),
         NEW others \in Seq(V), \A i \in 1 .. Len(others) : others[i][1] # "row"
  PROVE  TextRead(lines \o others, rows, Characters, V)
<1> DEFINE n == Len(others)
           S == {k \in 0 .. n : TextRead(lines \o SubSeq(others, 1, k), rows, Characters, V)}
<1>1. lines \in Seq(V) /\ n \in Nat BY DEF TextRead
<1>2. 0 \in S
  <2>1. SubSeq(others, 1, 0) = <<>> BY SubSeqEmpty
  <2>2. lines \o SubSeq(others, 1, 0) = lines BY <1>1, <2>1, ConcatEmptySeq
  <2>3. TextRead(lines \o SubSeq(others, 1, 0), rows, Characters, V) BY <2>2, Zenon
  <2>4. 0 \in 0 .. n BY <1>1
  <2> QED BY <2>3, <2>4, Zenon
<1>3. ASSUME NEW k \in 0 .. (n - 1), k \in S PROVE k + 1 \in S
  <2>1. /\ lines \o SubSeq(others, 1, k + 1) = Append(lines \o SubSeq(others, 1, k), others[k + 1])
        /\ others[k + 1] \in V
    BY <1>1, ConcatPrefix
  <2>2. others[k + 1][1] # "row" BY <1>1
  <2>3. TextRead(lines \o SubSeq(others, 1, k), rows, Characters, V) BY <1>3
  <2>4. TextRead(lines \o SubSeq(others, 1, k + 1), rows, Characters, V)
    BY <2>1, <2>2, <2>3, ReadOther
  <2> QED BY <1>1, <2>4
<1> HIDE DEF S
<1>4. n \in S BY <1>1, <1>2, <1>3, Induct
<1>5. lines \o SubSeq(others, 1, n) = lines \o others BY SubSeqFull
<1> QED BY <1>4, <1>5 DEF S

(* A reader who comes to a host's block has its results at its end.        *)
LEMMA ReadHostBlock ==
  ASSUME NEW Characters, NEW V, TextBody(Characters) \subseteq V,
         NEW h \in HostResults(Characters), NEW block, IsHostBlock(block, h),
         NEW lines, NEW rows, TextRead(lines, rows, Characters, V)
  PROVE  TextRead(lines \o block, rows \o HostResultRows(h), Characters, V)
<1>1. PICK reasons, tail : /\ tail \in Seq({<<"blank">>})
                           /\ block = << <<"host", h.host>> >> \o HostRows(h, reasons) \o tail
  BY DEF IsHostBlock
<1> DEFINE m == Len(h.ports)
           table == HostRows(h, reasons)
           found == HostResultRows(h)
           first == Append(lines, <<"host", h.host>>)
<1>2. /\ m \in Nat /\ DOMAIN h.ports = 1 .. m /\ h.ports \in Seq(PortResults(Characters))
      /\ table \in Seq(RowLines(Characters)) /\ Len(table) = m
  BY HostRowsType
<1>3. h.host \in Seq(Characters) BY DEF HostResults
<1>4. lines \in Seq(V) /\ rows \in Seq(ResultRows(Characters))
  BY FlattenType DEF TextRead
<1>5. table \in Seq(V)
  <2>1. RowLines(Characters) \subseteq V BY DEF TextBody
  <2> HIDE DEF table
  <2> QED BY <1>2, <2>1
<1>6. <<"host", h.host>> \in V
  <2>1. <<"host", h.host>> \in HostLines(Characters) BY <1>3 DEF HostLines
  <2> QED BY <2>1 DEF TextBody
<1>7. first \in Seq(V) /\ TextRead(first, rows, Characters, V) /\ TextHost(first, h.host)
  <2>1. TextRead(first, rows, Characters, V) BY <1>6, ReadOther
  <2>2. Len(first) \in Nat /\ Len(first) \in DOMAIN first /\ first[Len(first)] = <<"host", h.host>>
    BY <1>4, <1>6
  <2> HIDE DEF first
  <2>3. \A j \in (Len(first) + 1) .. Len(first) : FALSE BY <2>2
  <2>4. TextHost(first, h.host) BY <2>2, <2>3 DEF TextHost
  <2> QED BY <2>1, <2>4 DEF TextRead
<1>8. found \in Seq(ResultRows(Characters)) /\ Len(found) = m
  <2>1. ASSUME NEW i \in 1 .. m
        PROVE  <<h.host, h.ports[i].port, h.ports[i].state>> \in ResultRows(Characters)
    <3>1. h.ports[i] \in PortResults(Characters) BY <1>2
    <3>2. h.ports[i].port \in PortNumbers /\ h.ports[i].state \in PortStates
      BY <3>1 DEF PortResults
    <3> QED BY <1>3, <3>2 DEF ResultRows
  <2> QED BY <1>2, <2>1 DEF HostResultRows
<1> DEFINE Have(k) == /\ TextRead(first \o SubSeq(table, 1, k), rows \o SubSeq(found, 1, k), Characters, V)
                      /\ TextHost(first \o SubSeq(table, 1, k), h.host)
           S == {k \in 0 .. m : Have(k)}
<1>9. 0 \in S
  <2>1. SubSeq(table, 1, 0) = <<>> /\ SubSeq(found, 1, 0) = <<>> BY SubSeqEmpty
  <2>2. first \o <<>> = first /\ rows \o <<>> = rows BY <1>4, <1>7, ConcatEmptySeq
  <2> HIDE DEF first, table, found
  <2>3. Have(0) BY <1>7, <2>1, <2>2
  <2> QED BY <1>2, <2>3
<1>10. ASSUME NEW k \in 0 .. (m - 1), k \in S PROVE k + 1 \in S
  <2>1. k + 1 \in 1 .. m BY <1>2
  <2>2. table[k + 1] = <<"row", h.ports[k + 1].port, h.ports[k + 1].state,
                         IF reasons THEN h.ports[k + 1].reason ELSE <<>> >>
        /\ found[k + 1] = <<h.host, h.ports[k + 1].port, h.ports[k + 1].state>>
    BY <1>2, <2>1 DEF HostRows, HostResultRows
  <2>3. h.ports[k + 1].port \in PortNumbers /\ h.ports[k + 1].state \in PortStates
    <3>1. h.ports[k + 1] \in PortResults(Characters) BY <1>2, <2>1
    <3> QED BY <3>1 DEF PortResults
  <2> HIDE DEF table, found, first
  <2>4. Have(k) BY <1>10
  <2>5. /\ first \o SubSeq(table, 1, k + 1) = Append(first \o SubSeq(table, 1, k), table[k + 1])
        /\ table[k + 1] \in V
    BY <1>2, <1>5, <1>7, ConcatPrefix
  <2>6. rows \o SubSeq(found, 1, k + 1) = Append(rows \o SubSeq(found, 1, k), found[k + 1])
    BY <1>4, <1>8, ConcatPrefix
  <2>7. Have(k + 1)
    BY <1>3, <2>2, <2>3, <2>4, <2>5, <2>6, ReadRow, ZenonT(40)
  <2> QED BY <2>1, <2>7
<1> HIDE DEF S
<1>11. m \in S BY <1>2, <1>9, <1>10, Induct
<1>12. Have(m) BY <1>11 DEF S
<1>13. SubSeq(table, 1, m) = table /\ SubSeq(found, 1, m) = found
  <2> HIDE DEF table, found
  <2> QED BY <1>2, <1>8, SubSeqFull
<1>14. TextRead(first \o table, rows \o found, Characters, V)
  BY <1>12, <1>13
<1>15. tail \in Seq(V) /\ \A i \in 1 .. Len(tail) : tail[i][1] # "row"
  BY <1>1 DEF TextBody
<1>16. TextRead((first \o table) \o tail, rows \o found, Characters, V)
  BY <1>14, <1>15, ReadOthers
<1>17. (first \o table) \o tail = lines \o block
  <2> HIDE DEF table
  <2> DEFINE one == << <<"host", h.host>> >>
  <2>1. one \in Seq(V) /\ first = lines \o one BY <1>4, <1>6, AppendIsConcat
  <2> HIDE DEF one, first
  <2>2. block = (one \o table) \o tail BY <1>1 DEF one, table
  <2>a. lines \in Seq(V) /\ one \in Seq(V) /\ table \in Seq(V) BY <1>4, <1>5, <2>1
  <2>3. (lines \o one) \o table = lines \o (one \o table) BY <2>a, ConcatAssociative
  <2>4. one \o table \in Seq(V) BY <1>5, <2>1, ConcatProperties
  <2>b. lines \in Seq(V) /\ tail \in Seq(V) BY <1>4, <1>15
  <2> DEFINE opened == one \o table
  <2>c. opened \in Seq(V) BY <2>4
  <2> HIDE DEF opened
  <2>d. (lines \o opened) \o tail = lines \o (opened \o tail)
    BY <2>b, <2>c, ConcatAssociative
  <2>5. (lines \o (one \o table)) \o tail = lines \o ((one \o table) \o tail)
    BY <2>d DEF opened
  <2> QED BY <2>1, <2>2, <2>3, <2>5
<1> QED BY <1>16, <1>17

Cat(s, t) == s \o t

(* Three sequences in a row.                                               *)
LEMMA Chain ==
  ASSUME NEW V, NEW s \in Seq(V), NEW t \in Seq(V), NEW u \in Seq(V)
  PROVE  Cat(Cat(s, t), u) = Cat(s, Cat(t, u))
BY DEF Cat

(* A sequence is one over every larger set.                                *)
LEMMA LargerSet ==
  ASSUME NEW V, NEW W, V \subseteq W, NEW s \in Seq(V)
  PROVE  s \in Seq(W)
OBVIOUS

(* Two sequences of sequences are flattened one after the other.           *)
LEMMA FlattenConcat ==
  ASSUME NEW V, NEW s \in Seq(Seq(V)), NEW t \in Seq(Seq(V))
  PROVE  FlattenSeq(s \o t) = FlattenSeq(s) \o FlattenSeq(t)
<1> DEFINE S == {r \in Seq(Seq(V)) : FlattenSeq(s \o r) = FlattenSeq(s) \o FlattenSeq(r)}
<1>0. FlattenSeq(s) \in Seq(V) BY FlattenType
<1>1. <<>> \in S
  <2>1. s \o <<>> = s /\ FlattenSeq(s) \o <<>> = FlattenSeq(s) BY <1>0, ConcatEmptySeq
  <2>2. <<>> \in Seq(Seq(V)) OBVIOUS
  <2> QED BY <2>1, <2>2, FlattenNone
<1>2. ASSUME NEW r \in Seq(Seq(V)), NEW x \in Seq(V), r \in S PROVE Append(r, x) \in S
  <2>1. s \o Append(r, x) = Append(s \o r, x) OBVIOUS
  <2>2. s \o r \in Seq(Seq(V)) BY ConcatProperties
  <2> DEFINE a == FlattenSeq(s)
             b == FlattenSeq(r)
             sr == s \o r
  <2>3. FlattenSeq(sr) = Cat(a, b) BY <1>2 DEF Cat
  <2>4. FlattenSeq(Append(r, x)) = Cat(b, x) BY FlattenStep DEF Cat
  <2>5. a \in Seq(V) /\ b \in Seq(V) BY FlattenType
  <2> HIDE DEF sr, a, b
  <2>6. FlattenSeq(Append(sr, x)) = Cat(FlattenSeq(sr), x) BY <2>2, FlattenStep DEF Cat, sr
  <2>7. Cat(Cat(a, b), x) = Cat(a, Cat(b, x)) BY <2>5, Chain
  <2>8. FlattenSeq(Append(sr, x)) = Cat(a, FlattenSeq(Append(r, x)))
    BY <2>3, <2>4, <2>6, <2>7
  <2>9. FlattenSeq(s \o Append(r, x)) = FlattenSeq(s) \o FlattenSeq(Append(r, x))
    BY <2>1, <2>8 DEF Cat, a, sr
  <2>10. Append(r, x) \in Seq(Seq(V)) BY AppendType
  <2> QED BY <2>9, <2>10
<1> HIDE DEF S
<1>3. \A r \in Seq(Seq(V)) : r \in S BY <1>1, <1>2, SequenceInduct
<1> QED BY <1>3 DEF S

(* What a concatenation is.                                                *)
LEMMA ConcatIs ==
  ASSUME NEW V, NEW s \in Seq(V), NEW t \in Seq(V)
  PROVE  s \o t = [i \in 1 .. (Len(s) + Len(t)) |-> IF i <= Len(s) THEN s[i] ELSE t[i - Len(s)]]
<1> DEFINE u == s \o t
           n == Len(s) + Len(t)
<1>1. u \in Seq(V) /\ Len(u) = n BY ConcatProperties
<1>2. \A i \in 1 .. n : u[i] = IF i <= Len(s) THEN s[i] ELSE t[i - Len(s)]
  BY ConcatProperties
<1> HIDE DEF u, n
<1>3. u = [i \in 1 .. n |-> u[i]] BY <1>1
<1>4. u = [i \in 1 .. n |-> IF i <= Len(s) THEN s[i] ELSE t[i - Len(s)]] BY <1>2, <1>3
<1> QED BY <1>4 DEF u, n

(* A function on 1 .. n is a sequence.                                     *)
LEMMA Tabulated ==
  ASSUME NEW n \in Nat, NEW g, g = [i \in 1 .. n |-> g[i]], NEW U, \A i \in 1 .. n : g[i] \in U
  PROVE  g \in Seq(U) /\ Len(g) = n
OBVIOUS

Mapping(f, s) == [i \in DOMAIN s |-> f[s[i]]]
MapEach(f, seqs) == [i \in DOMAIN seqs |-> Mapping(f, seqs[i])]

(* A function is applied to a sequence element by element.                 *)
LEMMA MapType ==
  ASSUME NEW V, NEW W, NEW f \in [V -> W], NEW s \in Seq(V)
  PROVE  Mapping(f, s) \in Seq(W) /\ Len(Mapping(f, s)) = Len(s)
BY DEF Mapping

(* To two sequences in a row as to each of them.                           *)
LEMMA MapConcat ==
  ASSUME NEW V, NEW f, NEW s \in Seq(V), NEW t \in Seq(V)
  PROVE  Mapping(f, s \o t) = Mapping(f, s) \o Mapping(f, t)
<1> DEFINE m == Len(s)
           n == Len(t)
           u == s \o t
<1>2. m \in Nat /\ n \in Nat /\ DOMAIN s = 1 .. m /\ DOMAIN t = 1 .. n
      /\ DOMAIN u = 1 .. (m + n)
      /\ \A i \in 1 .. (m + n) : u[i] = IF i <= m THEN s[i] ELSE t[i - m]
  OBVIOUS
<1> DEFINE a == Mapping(f, s)
           b == Mapping(f, t)
           c == Mapping(f, u)
           W == {f[s[i]] : i \in 1 .. m} \cup {f[t[i]] : i \in 1 .. n}
<1> HIDE DEF u
<1>3. /\ a = [i \in 1 .. m |-> f[s[i]]] /\ b = [i \in 1 .. n |-> f[t[i]]]
      /\ c = [i \in 1 .. (m + n) |-> f[u[i]]]
  BY <1>2 DEF Mapping
<1>4. a \in Seq(W) /\ b \in Seq(W) /\ Len(a) = m /\ Len(b) = n
  <2>1. /\ \A i \in 1 .. m : f[s[i]] \in W
        /\ \A i \in 1 .. n : f[t[i]] \in W
    OBVIOUS
  <2> HIDE DEF a, b, W, m, n
  <2> QED BY <1>2, <1>3, <2>1
<1> HIDE DEF a, b, c, W, m, n
<1>5. a \o b = [i \in 1 .. (m + n) |-> IF i <= m THEN a[i] ELSE b[i - m]]
  <2>1. a \o b = [i \in 1 .. (Len(a) + Len(b)) |-> IF i <= Len(a) THEN a[i] ELSE b[i - Len(a)]]
    BY <1>4, ConcatIs
  <2> QED BY <1>4, <2>1
<1>6. \A i \in 1 .. (m + n) : c[i] = IF i <= m THEN a[i] ELSE b[i - m]
  <2> TAKE i \in 1 .. (m + n)
  <2>1. c[i] = f[u[i]] BY <1>3
  <2>2. CASE i <= m
    <3>1. i \in 1 .. m /\ u[i] = s[i] BY <1>2, <2>2
    <3>2. a[i] = f[s[i]] BY <1>3, <3>1
    <3> QED BY <2>1, <2>2, <3>1, <3>2
  <2>3. CASE ~(i <= m)
    <3>1. i - m \in 1 .. n /\ u[i] = t[i - m] BY <1>2, <2>3
    <3>2. b[i - m] = f[t[i - m]] BY <1>3, <3>1
    <3> QED BY <2>1, <2>3, <3>1, <3>2
  <2> QED BY <2>2, <2>3
<1>7. c = [i \in 1 .. (m + n) |-> c[i]] BY <1>3
<1>8. c = a \o b BY <1>5, <1>6, <1>7
<1> QED BY <1>8 DEF a, b, c, u

(* To the sequences of a sequence as to their concatenation.               *)
LEMMA MapFlatten ==
  ASSUME NEW V, NEW W, NEW f \in [V -> W], NEW seqs \in Seq(Seq(V))
  PROVE  /\ MapEach(f, seqs) \in Seq(Seq(W)) /\ Len(MapEach(f, seqs)) = Len(seqs)
         /\ Mapping(f, FlattenSeq(seqs)) = FlattenSeq(MapEach(f, seqs))
<1> DEFINE S == {ss \in Seq(Seq(V)) : Mapping(f, FlattenSeq(ss)) = FlattenSeq(MapEach(f, ss))}
<1>1. ASSUME NEW ss \in Seq(Seq(V))
      PROVE  MapEach(f, ss) \in Seq(Seq(W)) /\ Len(MapEach(f, ss)) = Len(ss)
  <2>1. \A i \in 1 .. Len(ss) : Mapping(f, ss[i]) \in Seq(W) BY MapType, SMTT(30)
  <2> DEFINE g == MapEach(f, ss)
             U == Seq(W)
             n == Len(ss)
  <2>2. n \in Nat /\ g = [i \in 1 .. n |-> g[i]] /\ \A i \in 1 .. n : g[i] \in U
    BY <2>1 DEF MapEach
  <2> HIDE DEF g, U, n
  <2>3. g \in Seq(U) /\ Len(g) = n BY <2>2, Tabulated
  <2> QED BY <2>3 DEF g, U, n
<1>2. <<>> \in S
  <2>1. MapEach(f, <<>>) = <<>> /\ Mapping(f, <<>>) = <<>> BY DEF MapEach, Mapping
  <2>2. <<>> \in Seq(Seq(V)) OBVIOUS
  <2> QED BY <2>1, <2>2, FlattenNone
<1>3. ASSUME NEW ss \in Seq(Seq(V)), NEW s \in Seq(V), ss \in S PROVE Append(ss, s) \in S
  <2>1. MapEach(f, Append(ss, s)) = Append(MapEach(f, ss), Mapping(f, s)) BY DEF MapEach
  <2>2. FlattenSeq(Append(ss, s)) = FlattenSeq(ss) \o s /\ FlattenSeq(ss) \in Seq(V)
    BY FlattenStep, FlattenType
  <2>3. Mapping(f, FlattenSeq(ss) \o s) = Mapping(f, FlattenSeq(ss)) \o Mapping(f, s)
    BY <2>2, MapConcat
  <2>4. Mapping(f, s) \in Seq(W) /\ MapEach(f, ss) \in Seq(Seq(W)) BY <1>1, MapType
  <2>5. FlattenSeq(Append(MapEach(f, ss), Mapping(f, s)))
          = FlattenSeq(MapEach(f, ss)) \o Mapping(f, s)
    BY <2>4, FlattenStep
  <2>6. Mapping(f, FlattenSeq(ss)) = FlattenSeq(MapEach(f, ss)) BY <1>3
  <2>7. Append(ss, s) \in Seq(Seq(V)) BY AppendType
  <2> QED BY <2>1, <2>2, <2>3, <2>5, <2>6, <2>7
<1> HIDE DEF S
<1>4. \A ss \in Seq(Seq(V)) : ss \in S BY <1>2, <1>3, SequenceInduct
<1> QED BY <1>1, <1>4 DEF S

(* Flattening twice is flattening the flattened.                           *)
LEMMA FlattenTwice ==
  ASSUME NEW V, NEW lists \in Seq(Seq(Seq(V)))
  PROVE  /\ FlattenSeq(lists) \in Seq(Seq(V))
         /\ [i \in DOMAIN lists |-> FlattenSeq(lists[i])] \in Seq(Seq(V))
         /\ FlattenSeq(FlattenSeq(lists)) = FlattenSeq([i \in DOMAIN lists |-> FlattenSeq(lists[i])])
<1> DEFINE Inner(ls) == [i \in DOMAIN ls |-> FlattenSeq(ls[i])]
           S == {ls \in Seq(Seq(Seq(V))) : FlattenSeq(FlattenSeq(ls)) = FlattenSeq(Inner(ls))}
<1>1. ASSUME NEW ls \in Seq(Seq(Seq(V))) PROVE Inner(ls) \in Seq(Seq(V))
  <2>1. \A i \in 1 .. Len(ls) : FlattenSeq(ls[i]) \in Seq(V) BY FlattenType
  <2> DEFINE g == Inner(ls)
             U == Seq(V)
             n == Len(ls)
  <2>2. n \in Nat /\ g = [i \in 1 .. n |-> g[i]] /\ \A i \in 1 .. n : g[i] \in U
    BY <2>1
  <2> HIDE DEF g, U, n
  <2>3. g \in Seq(U) BY <2>2, Tabulated
  <2> QED BY <2>3 DEF g, U
<1>2. <<>> \in S
  <2>1. Inner(<<>>) = <<>> OBVIOUS
  <2>2. <<>> \in Seq(Seq(Seq(V))) OBVIOUS
  <2> QED BY <2>1, <2>2, FlattenNone
<1>3. ASSUME NEW ls \in Seq(Seq(Seq(V))), NEW l \in Seq(Seq(V)), ls \in S
      PROVE  Append(ls, l) \in S
  <2>1. Inner(Append(ls, l)) = Append(Inner(ls), FlattenSeq(l)) OBVIOUS
  <2>2. FlattenSeq(Append(ls, l)) = FlattenSeq(ls) \o l /\ FlattenSeq(ls) \in Seq(Seq(V))
    BY FlattenStep, FlattenType
  <2>3. FlattenSeq(FlattenSeq(ls) \o l) = FlattenSeq(FlattenSeq(ls)) \o FlattenSeq(l)
    BY <2>2, FlattenConcat
  <2>4. FlattenSeq(l) \in Seq(V) /\ Inner(ls) \in Seq(Seq(V)) BY <1>1, FlattenType
  <2>5. FlattenSeq(FlattenSeq(ls)) = FlattenSeq(Inner(ls)) BY <1>3
  <2>6. Append(ls, l) \in Seq(Seq(Seq(V))) BY AppendType
  <2> HIDE DEF Inner
  <2>7. FlattenSeq(Append(Inner(ls), FlattenSeq(l))) = FlattenSeq(Inner(ls)) \o FlattenSeq(l)
    BY <2>4, FlattenStep
  <2>8. FlattenSeq(FlattenSeq(Append(ls, l))) = FlattenSeq(Inner(Append(ls, l)))
    BY <2>1, <2>2, <2>3, <2>5, <2>7
  <2> QED BY <2>6, <2>8
<1> HIDE DEF S
<1>4. \A ls \in Seq(Seq(Seq(V))) : ls \in S BY <1>2, <1>3, SequenceInduct
<1>5. FlattenSeq(FlattenSeq(lists)) = FlattenSeq(Inner(lists)) BY <1>4 DEF S
<1> QED BY <1>1, <1>5, FlattenType

(* What a host's results are read as.                                      *)
LEMMA HostResultRowsType ==
  ASSUME NEW Characters, NEW h \in HostResults(Characters)
  PROVE  /\ HostResultRows(h) \in Seq(ResultRows(Characters))
         /\ Len(HostResultRows(h)) = Len(h.ports)
<1> DEFINE m == Len(h.ports)
<1>1. h.ports \in Seq(PortResults(Characters)) /\ m \in Nat /\ DOMAIN h.ports = 1 .. m
  BY HostRowsType
<1>2. h.host \in Seq(Characters) BY DEF HostResults
<1>3. ASSUME NEW i \in 1 .. m
      PROVE  <<h.host, h.ports[i].port, h.ports[i].state>> \in ResultRows(Characters)
  <2>1. h.ports[i] \in PortResults(Characters) BY <1>1
  <2>2. h.ports[i].port \in PortNumbers /\ h.ports[i].state \in PortStates
    BY <2>1 DEF PortResults
  <2> QED BY <1>2, <2>2 DEF ResultRows
<1> QED BY <1>1, <1>3 DEF HostResultRows

ResultLists(hosts) == [i \in DOMAIN hosts |-> HostResultRows(hosts[i])]

(* The results of a summary are those of its hosts, one list after another. *)
LEMMA ResultsType ==
  ASSUME NEW Characters, NEW Lists, NEW s \in SummariesOf(Lists, Characters)
  PROVE  /\ s.hosts \in Seq(HostResults(Characters))
         /\ ResultLists(s.hosts) \in Seq(Seq(ResultRows(Characters)))
         /\ Results(s) = FlattenSeq(ResultLists(s.hosts))
         /\ Results(s) \in Seq(ResultRows(Characters))
<1>1. s.hosts \in Seq(HostResults(Characters)) BY DEF SummariesOf
<1>2. ResultLists(s.hosts) \in Seq(Seq(ResultRows(Characters)))
  <2>1. \A i \in 1 .. Len(s.hosts) : HostResultRows(s.hosts[i]) \in Seq(ResultRows(Characters))
    BY <1>1, HostResultRowsType
  <2> QED BY <1>1, <2>1 DEF ResultLists
<1>3. Results(s) = FlattenSeq(ResultLists(s.hosts))
  BY DEF Results, EachOf, ResultLists, HostResultRows
<1> QED BY <1>1, <1>2, <1>3, FlattenType

(* A reader who goes through the blocks of the hosts has all results.      *)
LEMMA ReadBlocks ==
  ASSUME NEW Characters, NEW V, TextBody(Characters) \subseteq V,
         NEW hosts \in Seq(HostResults(Characters)), NEW blocks \in Seq(Seq(V)),
         Len(blocks) = Len(hosts), \A i \in 1 .. Len(hosts) : IsHostBlock(blocks[i], hosts[i]),
         ResultLists(hosts) \in Seq(Seq(ResultRows(Characters))),
         NEW lines, NEW rows, TextRead(lines, rows, Characters, V)
  PROVE  TextRead(lines \o FlattenSeq(blocks), rows \o FlattenSeq(ResultLists(hosts)), Characters, V)
<1> DEFINE n == Len(hosts)
           lists == ResultLists(hosts)
<1>1. /\ n \in Nat /\ Len(lists) = n /\ Len(blocks) = n
      /\ \A i \in 1 .. n : lists[i] = HostResultRows(hosts[i])
  BY DEF ResultLists
<1>2. PICK flat : Flattening(flat, blocks, V) BY FlattenPrefixes
<1>3. PICK res : Flattening(res, lists, ResultRows(Characters)) BY FlattenPrefixes
<1>4. lines \in Seq(V) /\ rows \in Seq(ResultRows(Characters))
  BY FlattenType DEF TextRead
<1> HIDE DEF lists
<1> DEFINE S == {k \in 0 .. n : TextRead(lines \o flat[k], rows \o res[k], Characters, V)}
<1>5. /\ flat[0] = <<>> /\ \A i \in 1 .. n : flat[i] = flat[i - 1] \o blocks[i]
      /\ \A i \in 0 .. n : flat[i] \in Seq(V)
      /\ FlattenSeq(blocks) = flat[n]
  BY <1>1, <1>2, Zenon DEF Flattening
<1>6. /\ res[0] = <<>> /\ \A i \in 1 .. n : res[i] = res[i - 1] \o lists[i]
      /\ \A i \in 0 .. n : res[i] \in Seq(ResultRows(Characters))
      /\ FlattenSeq(lists) = res[n]
  BY <1>1, <1>3, Zenon DEF Flattening
<1>7. 0 \in S
  <2>1. lines \o flat[0] = lines /\ rows \o res[0] = rows
    BY <1>4, <1>5, <1>6, ConcatEmptySeq
  <2>2. TextRead(lines \o flat[0], rows \o res[0], Characters, V) BY <2>1, Zenon
  <2>3. 0 \in 0 .. n BY <1>1
  <2> QED BY <2>2, <2>3, Zenon
<1>8. ASSUME NEW k \in 0 .. (n - 1), k \in S PROVE k + 1 \in S
  <2>1. k + 1 \in 1 .. n /\ (k + 1) - 1 = k /\ k \in 0 .. n BY <1>1
  <2>2. flat[k + 1] = flat[k] \o blocks[k + 1] /\ flat[k] \in Seq(V) BY <1>5, <2>1
  <2>3. res[k + 1] = res[k] \o lists[k + 1] /\ res[k] \in Seq(ResultRows(Characters))
    BY <1>6, <2>1
  <2>4. blocks[k + 1] \in Seq(V) /\ hosts[k + 1] \in HostResults(Characters)
    BY <1>1, <2>1
  <2>5. lists[k + 1] = HostResultRows(hosts[k + 1])
        /\ lists[k + 1] \in Seq(ResultRows(Characters))
    BY <1>1, <2>1, <2>4, HostResultRowsType
  <2>6. TextRead(lines \o flat[k], rows \o res[k], Characters, V) BY <1>8
  <2>7. IsHostBlock(blocks[k + 1], hosts[k + 1]) BY <2>1
  <2>8. TextRead((lines \o flat[k]) \o blocks[k + 1],
                 (rows \o res[k]) \o HostResultRows(hosts[k + 1]), Characters, V)
    BY <2>4, <2>6, <2>7, ReadHostBlock
  <2>9. lines \o flat[k + 1] = (lines \o flat[k]) \o blocks[k + 1]
    <3> DEFINE before == flat[k]
               block == blocks[k + 1]
    <3>1. lines \in Seq(V) /\ before \in Seq(V) /\ block \in Seq(V)
      BY <1>4, <2>2, <2>4
    <3>2. flat[k + 1] = before \o block BY <2>2
    <3> HIDE DEF before, block
    <3>c. Cat(Cat(lines, before), block) = Cat(lines, Cat(before, block)) BY <3>1, Chain
    <3>3. (lines \o before) \o block = lines \o (before \o block) BY <3>c DEF Cat
    <3> QED BY <3>2, <3>3 DEF before, block
  <2>10. rows \o res[k + 1] = (rows \o res[k]) \o lists[k + 1]
    <3> DEFINE R == ResultRows(Characters)
               before == res[k]
               list == lists[k + 1]
    <3>1. rows \in Seq(R) /\ before \in Seq(R) /\ list \in Seq(R)
      BY <1>4, <2>3, <2>5
    <3>2. res[k + 1] = before \o list BY <2>3
    <3> HIDE DEF R, before, list
    <3>c. Cat(Cat(rows, before), list) = Cat(rows, Cat(before, list)) BY <3>1, Chain
    <3>3. (rows \o before) \o list = rows \o (before \o list) BY <3>c DEF Cat
    <3> QED BY <3>2, <3>3 DEF before, list
  <2>11. TextRead(lines \o flat[k + 1], rows \o res[k + 1], Characters, V)
    BY <2>5, <2>8, <2>9, <2>10
  <2> QED BY <2>1, <2>11
<1> HIDE DEF S
<1>9. n \in S
  <2>1. \A k \in 0 .. (n - 1) : k \in S => k + 1 \in S BY <1>8
  <2>2. \A k \in 0 .. n : k \in S BY <1>1, <1>7, <2>1, Induct
  <2> QED BY <1>1, <2>2
<1>10. TextRead(lines \o flat[n], rows \o res[n], Characters, V) BY <1>9 DEF S
<1> QED BY <1>5, <1>6, <1>10 DEF lists

(* Nothing has been read of no lines.                                      *)
LEMMA ReadNothing ==
  ASSUME NEW Characters, NEW V
  PROVE  TextRead(<<>>, <<>>, Characters, V)
<1>1. TextParts(<<>>) = <<>> BY DEF TextParts
<1>2. <<>> \in Seq(V) /\ <<>> \in Seq(Seq(ResultRows(Characters))) OBVIOUS
<1>3. \A i \in DOMAIN <<>> : FALSE OBVIOUS
<1> QED BY <1>1, <1>2, <1>3, FlattenNone DEF TextRead

(* What is read of a report, from what the reader keeps.                   *)
LEMMA ReadTextIs ==
  ASSUME NEW Characters, NEW V, NEW lines, NEW rows, TextRead(lines, rows, Characters, V)
  PROVE  ReadText(lines) = rows
BY DEF TextRead, ReadText, TextParts, TextPart

(* print_summary's lines are no rows.                                      *)
LEMMA PrintSummaryLines ==
  ASSUME NEW s
  PROVE  /\ Len(print_summary(s)) = 3
         /\ \A i \in 1 .. 3 : print_summary(s)[i][1] = "stat"
         /\ print_summary(s) \in Seq({print_summary(s)[i] : i \in 1 .. 3})
<1>1. Len(print_summary(s)) = 3 BY DEF print_summary
<1>2. \A i \in 1 .. 3 : print_summary(s)[i][1] = "stat"
  <2>1. print_summary(s)[1][1] = "stat" /\ print_summary(s)[2][1] = "stat"
        /\ print_summary(s)[3][1] = "stat"
    BY DEF print_summary
  <2> QED BY <2>1
<1>3. print_summary(s) = [i \in 1 .. 3 |-> print_summary(s)[i]] BY DEF print_summary
<1> DEFINE f == print_summary(s)
<1> HIDE DEF f
<1>4. f = [i \in 1 .. 3 |-> f[i]] => f \in Seq({f[i] : i \in 1 .. 3}) OBVIOUS
<1> QED BY <1>1, <1>2, <1>3, <1>4 DEF f

(* The results that are read off a normal or verbose report are those of   *)
(* the summary.                                                            *)
LEMMA ReadNormal ==
  ASSUME NEW Lists, NEW Characters, NEW s \in SummariesOf(Lists, Characters), NEW o,
         o.text_mode \notin {"Quiet", "Summary", "PortsOnly", "HostsOnly"}
  PROVE  ReadText(TextLines(s, o)) = Results(s)
<1> DEFINE figures == print_summary(s)
           V == TextBody(Characters) \cup {<<"header">>} \cup {figures[i] : i \in 1 .. 3}
           blocks == NormalBlocks(s, o)
           hosts == s.hosts
<1>1. /\ blocks \in Seq(Seq(TextBody(Characters))) /\ hosts \in Seq(HostResults(Characters))
      /\ TextLines(s, o) = << <<"header">> >> \o FlattenSeq(blocks) \o figures
      /\ ResultLists(hosts) \in Seq(Seq(ResultRows(Characters)))
      /\ Results(s) = FlattenSeq(ResultLists(hosts))
      /\ Results(s) \in Seq(ResultRows(Characters))
  BY NormalReport, ResultsType
<1>2. Len(blocks) = Len(hosts) BY <1>1 DEF NormalBlocks
<1>3. ASSUME NEW i \in 1 .. Len(hosts) PROVE IsHostBlock(blocks[i], hosts[i])
  <2>1. hosts[i] \in HostResults(Characters) /\ i \in DOMAIN hosts BY <1>1
  <2>2. blocks[i] = print_host(hosts[i], o) BY <2>1 DEF NormalBlocks
  <2>3. << <<"blank">> >> \in Seq({<<"blank">>}) OBVIOUS
  <2> QED BY <2>1, <2>2, <2>3, PrintHostType DEF IsHostBlock
<1>4. TextBody(Characters) \subseteq V /\ <<"header">> \in V /\ figures \in Seq(V)
  <2>1. figures \in Seq({figures[i] : i \in 1 .. 3}) BY PrintSummaryLines
  <2> HIDE DEF figures
  <2>2. {figures[i] : i \in 1 .. 3} \subseteq V OBVIOUS
  <2>3. figures \in Seq(V)
    <3> HIDE DEF V
    <3> QED BY <2>1, <2>2, LargerSet
  <2> QED BY <2>3
<1>5. \A i \in 1 .. Len(figures) : figures[i][1] # "row" BY PrintSummaryLines
<1> HIDE DEF figures, V, blocks, hosts
<1>6. blocks \in Seq(Seq(V)) BY <1>1, <1>4
<1> DEFINE first == << <<"header">> >>
<1>7. TextRead(first, <<>>, Characters, V)
  <2>1. TextRead(<<>>, <<>>, Characters, V) BY ReadNothing
  <2>2. TextRead(Append(<<>>, <<"header">>), <<>>, Characters, V)
    BY <1>4, <2>1, ReadOther
  <2>3. Append(<<>>, <<"header">>) = << <<"header">> >> OBVIOUS
  <2> QED BY <2>2, <2>3
<1> HIDE DEF first
<1>8. TextRead(first \o FlattenSeq(blocks), <<>> \o Results(s), Characters, V)
  BY <1>1, <1>2, <1>3, <1>4, <1>6, <1>7, ReadBlocks
<1>9. <<>> \o Results(s) = Results(s) BY <1>1, ConcatEmptySeq
<1>10. TextRead((first \o FlattenSeq(blocks)) \o figures, Results(s), Characters, V)
  BY <1>4, <1>5, <1>8, <1>9, ReadOthers
<1>11. ReadText((first \o FlattenSeq(blocks)) \o figures) = Results(s)
  BY <1>10, ReadTextIs
<1> QED BY <1>1, <1>11 DEF first

(* So are those read off a list of ports.                                  *)
LEMMA ReadPortsOnly ==
  ASSUME NEW Lists, NEW Characters, NEW s \in SummariesOf(Lists, Characters)
  PROVE  ReadText(print_ports_only(s)) = Results(s)
<1> DEFINE V == TextBody(Characters)
           blocks == PortsOnlyBlocks(s)
           hosts == s.hosts
<1>1. /\ blocks \in Seq(Seq(V)) /\ hosts \in Seq(HostResults(Characters))
      /\ print_ports_only(s) = FlattenSeq(blocks) /\ Len(blocks) = Len(hosts)
      /\ ResultLists(hosts) \in Seq(Seq(ResultRows(Characters)))
      /\ Results(s) = FlattenSeq(ResultLists(hosts))
      /\ Results(s) \in Seq(ResultRows(Characters))
  BY PrintPortsOnlyType, ResultsType
<1>2. ASSUME NEW i \in 1 .. Len(hosts) PROVE IsHostBlock(blocks[i], hosts[i])
  <2>1. i \in DOMAIN hosts BY <1>1
  <2>2. blocks[i] = << <<"host", hosts[i].host>> >> \o HostRows(hosts[i], FALSE) \o AfterHost(i, s)
    BY <2>1 DEF PortsOnlyBlocks, PortsOnlyBlock
  <2>3. AfterHost(i, s) \in Seq({<<"blank">>})
    <3>1. <<>> \in Seq({<<"blank">>}) /\ << <<"blank">> >> \in Seq({<<"blank">>}) OBVIOUS
    <3> QED BY <3>1, Zenon DEF AfterHost
  <2> QED BY <2>2, <2>3 DEF IsHostBlock
<1> HIDE DEF V, blocks, hosts
<1>3. TextRead(<<>>, <<>>, Characters, V) BY ReadNothing
<1>4. TextRead(<<>> \o FlattenSeq(blocks), <<>> \o Results(s), Characters, V)
  BY <1>1, <1>2, <1>3, ReadBlocks DEF V
<1>5. <<>> \o FlattenSeq(blocks) = FlattenSeq(blocks) /\ <<>> \o Results(s) = Results(s)
  BY <1>1, FlattenType, ConcatEmptySeq
<1> QED BY <1>1, <1>4, <1>5, ReadTextIs

----------------------------------------------------------------------------
(* Escaping and reading back                                               *)

ReadChar(x) ==
  IF \E c \in Special : Entity[c] = x THEN CHOOSE c \in Special : Entity[c] = x ELSE x
PrintableChar(c) == IF c = "control" THEN <<>> ELSE <<c>>
PrintableParts(text) == [i \in DOMAIN text |-> PrintableChar(text[i])]

(* No two characters share an entity.                                      *)
LEMMA EntityIsUnique ==
  ASSUME NEW c \in Special
  PROVE  ReadChar(Entity[c]) = c
<1>1. \A d \in Special : Entity[d] = Entity[c] => d = c BY DEF Special, Entity
<1> DEFINE x == Entity[c]
<1>2. \A d \in Special : Entity[d] = x => d = c BY <1>1
<1>3. \E d \in Special : Entity[d] = x OBVIOUS
<1> HIDE DEF x
<1>4. (CHOOSE d \in Special : Entity[d] = x) = c BY <1>2, <1>3
<1>5. ReadChar(x) = c BY <1>3, <1>4 DEF ReadChar
<1> QED BY <1>5 DEF x

(* What is made of one character is read as the character.                 *)
LEMMA ReadOneChar ==
  ASSUME NEW Characters, \A c \in Special : Entity[c] \notin Characters,
         NEW c \in Characters
  PROVE  Unescaped(EscapeChar(c)) = PrintableChar(c)
<1>1. \A y : Unescaped(<<y>>) = <<ReadChar(y)>>
  <2> TAKE y
  <2> DEFINE one == <<y>>
  <2>1. DOMAIN one = 1 .. 1 /\ one[1] = y OBVIOUS
  <2>2. Unescaped(one) = [i \in DOMAIN one |-> ReadChar(one[i])] BY DEF Unescaped, ReadChar
  <2> HIDE DEF one
  <2>3. Unescaped(one) = <<ReadChar(y)>> BY <2>1, <2>2
  <2> QED BY <2>3 DEF one
<1>2. Unescaped(<<>>) = <<>> BY DEF Unescaped
<1>3. CASE c = "control" BY <1>2, <1>3 DEF EscapeChar, PrintableChar
<1>4. CASE c # "control" /\ c \in Special
  <2>1. EscapeChar(c) = <<Entity[c]>> BY <1>4 DEF EscapeChar
  <2>2. Unescaped(<<Entity[c]>>) = <<ReadChar(Entity[c])>> BY <1>1
  <2>3. ReadChar(Entity[c]) = c BY <1>4, EntityIsUnique
  <2>4. PrintableChar(c) = <<c>> BY <1>4 DEF PrintableChar
  <2> QED BY <2>1, <2>2, <2>3, <2>4
<1>5. CASE c # "control" /\ c \notin Special
  <2>1. EscapeChar(c) = <<c>> BY <1>5 DEF EscapeChar
  <2>2. ReadChar(c) = c BY DEF ReadChar
  <2> QED BY <1>1, <1>5, <2>1, <2>2 DEF PrintableChar
<1> QED BY <1>3, <1>4, <1>5

(* Texts are read one after another.                                       *)
LEMMA UnescapedConcat ==
  ASSUME NEW V, NEW s \in Seq(V), NEW t \in Seq(V)
  PROVE  Unescaped(s \o t) = Unescaped(s) \o Unescaped(t)
<1> DEFINE f == [x \in V |-> ReadChar(x)]
<1>1. ASSUME NEW u \in Seq(V) PROVE Unescaped(u) = Mapping(f, u)
  <2>1. \A i \in DOMAIN u : f[u[i]] = ReadChar(u[i]) OBVIOUS
  <2>2. Unescaped(u) = [i \in DOMAIN u |-> ReadChar(u[i])] BY DEF Unescaped, ReadChar
  <2> HIDE DEF f
  <2> QED BY <2>1, <2>2 DEF Mapping
<1>2. s \o t \in Seq(V) BY ConcatProperties
<1> HIDE DEF f
<1>3. Mapping(f, s \o t) = Mapping(f, s) \o Mapping(f, t) BY MapConcat
<1> DEFINE u == s \o t
<1> HIDE DEF u
<1>4. Unescaped(u) = Mapping(f, u) BY <1>1, <1>2 DEF u
<1>5. Unescaped(s) = Mapping(f, s) /\ Unescaped(t) = Mapping(f, t) BY <1>1
<1> QED BY <1>3, <1>4, <1>5 DEF u

(* A text that was escaped is read as the text without control characters. *)
LEMMA EscapedIsReadBack ==
  ASSUME NEW Characters, \A c \in Special : Entity[c] \notin Characters,
         NEW text \in Seq(Characters)
  PROVE  /\ Unescaped(escape_xml(text)) = Printable(text)
         /\ Printable(text) \in Seq(Characters)
<1> DEFINE S == {t \in Seq(Characters) :
                   Unescaped(escape_xml(t)) = Printable(t) /\ Printable(t) \in Seq(Characters)}
<1>1. \A t : Printable(t) = FlattenSeq(PrintableParts(t))
  BY DEF Printable, EachOf, PrintableParts, PrintableChar
<1>2. <<>> \in S
  <2>1. EscapedParts(<<>>) = <<>> /\ PrintableParts(<<>>) = <<>>
    BY DEF EscapedParts, PrintableParts
  <2>2. escape_xml(<<>>) = <<>> BY <2>1, FlattenNone DEF escape_xml, EachOf, EscapedParts
  <2>3. Printable(<<>>) = <<>> BY <1>1, <2>1, FlattenNone
  <2>4. Unescaped(<<>>) = <<>> BY DEF Unescaped
  <2>5. <<>> \in Seq(Characters) OBVIOUS
  <2> QED BY <2>2, <2>3, <2>4, <2>5
<1>3. ASSUME NEW t \in Seq(Characters), NEW c \in Characters, t \in S
      PROVE  Append(t, c) \in S
  <2> DEFINE more == Append(t, c)
  <2>1. more \in Seq(Characters) /\ DOMAIN more = 1 .. (Len(t) + 1) /\ Len(t) \in Nat
        /\ DOMAIN t = 1 .. Len(t)
        /\ more[Len(t) + 1] = c /\ \A i \in 1 .. Len(t) : more[i] = t[i]
    OBVIOUS
  <2> HIDE DEF more
  <2>2. EscapedParts(more) = Append(EscapedParts(t), EscapeChar(c)) BY <2>1 DEF EscapedParts
  <2>3. PrintableParts(more) = Append(PrintableParts(t), PrintableChar(c))
    BY <2>1 DEF PrintableParts
  <2>4. EscapeChar(c) \in Seq(Escaped(Characters)) BY EscapeCharType
  <2>5. PrintableChar(c) \in Seq(Characters) BY DEF PrintableChar
  <2>6. EscapedParts(t) \in Seq(Seq(Escaped(Characters))) /\ escape_xml(t) = FlattenSeq(EscapedParts(t))
        /\ escape_xml(more) = FlattenSeq(EscapedParts(more))
        /\ escape_xml(t) \in Seq(Escaped(Characters))
    BY <2>1, EscapeType
  <2>7. PrintableParts(t) \in Seq(Seq(Characters))
    <3>1. \A i \in DOMAIN t : PrintableChar(t[i]) \in Seq(Characters) BY DEF PrintableChar
    <3> QED BY <2>1, <3>1 DEF PrintableParts
  <2>8. escape_xml(more) = escape_xml(t) \o EscapeChar(c)
    BY <2>2, <2>4, <2>6, FlattenStep
  <2>9. Printable(more) = Printable(t) \o PrintableChar(c)
    BY <1>1, <2>3, <2>5, <2>7, FlattenStep
  <2>10. Unescaped(escape_xml(more)) = Unescaped(escape_xml(t)) \o Unescaped(EscapeChar(c))
    BY <2>4, <2>6, <2>8, UnescapedConcat
  <2>11. Unescaped(EscapeChar(c)) = PrintableChar(c) BY ReadOneChar
  <2>12. Unescaped(escape_xml(t)) = Printable(t) /\ Printable(t) \in Seq(Characters) BY <1>3
  <2>13. Unescaped(escape_xml(more)) = Printable(more) BY <2>9, <2>10, <2>11, <2>12
  <2>14. Printable(more) \in Seq(Characters) BY <2>5, <2>9, <2>12, ConcatProperties
  <2>15. more \in S BY <2>1, <2>13, <2>14
  <2> QED BY <2>15 DEF more
<1> HIDE DEF S
<1>4. \A t \in Seq(Characters) : t \in S BY <1>2, <1>3, SequenceInduct
<1> QED BY <1>4 DEF S

----------------------------------------------------------------------------
(* What a reader makes of an XML report                                    *)

(* The nearest line above with a name in its second field.                 *)
LEMMA NameAboveIs ==
  ASSUME NEW lines, NEW i \in Nat, NEW k \in 1 .. i, NEW name,
         lines[k][2] = name, \A j \in (k + 1) .. i : lines[j][2] # name
  PROVE  Above(lines, i, 2, name) = lines[k]
<1> DEFINE field == 2
<1>1. lines[k][field] = name /\ \A j \in (k + 1) .. i : lines[j][field] # name OBVIOUS
<1> HIDE DEF field
<1>2. Above(lines, i, field, name) = lines[k] BY <1>1, AboveIs
<1> QED BY <1>2 DEF field

XmlPart(lines, i) ==
  IF lines[i][2] = "state"
  THEN << <<Unescaped(Above(lines, i, 2, "address")[3]), Above(lines, i, 2, "port")[3],
            lines[i][3]>> >>
  ELSE <<>>
XmlParts(lines) == [i \in DOMAIN lines |-> XmlPart(lines, i)]

Named(lines, i, name) == \E j \in 1 .. i : lines[j][2] = name

(* The lines seen so far and the rows read off them.                       *)
XmlRead(lines, rows, Characters, V) ==
  /\ lines \in Seq(V)
  /\ \A i \in DOMAIN lines :
       lines[i][2] = "state" => Named(lines, i, "address") /\ Named(lines, i, "port")
  /\ XmlParts(lines) \in Seq(Seq(ResultRows(Characters)))
  /\ FlattenSeq(XmlParts(lines)) = rows

(* The element of a name that holds at the end of the lines.               *)
Holds(lines, name, l) ==
  \E k \in DOMAIN lines :
    /\ lines[k] = l /\ l[2] = name
    /\ \A j \in (k + 1) .. Len(lines) : lines[j][2] # name

(* A line under another name leaves it.                                    *)
LEMMA HoldsOn ==
  ASSUME NEW V, NEW lines \in Seq(V), NEW name, NEW l, Holds(lines, name, l),
         NEW x \in V, x[2] # name
  PROVE  Holds(Append(lines, x), name, l)
<1> DEFINE n == Len(lines)
           more == Append(lines, x)
<1>1. /\ n \in Nat /\ DOMAIN more = 1 .. (n + 1) /\ DOMAIN lines = 1 .. n /\ Len(more) = n + 1
      /\ \A i \in 1 .. n : more[i] = lines[i]
      /\ more[n + 1] = x
  OBVIOUS
<1>2. PICK k \in 1 .. n : /\ lines[k] = l /\ l[2] = name
                          /\ \A j \in (k + 1) .. n : lines[j][2] # name
  BY <1>1 DEF Holds
<1> HIDE DEF more, n
<1>3. k \in DOMAIN more /\ more[k] = l /\ l[2] = name BY <1>1, <1>2
<1>4. \A j \in (k + 1) .. (n + 1) : more[j][2] # name
  <2> TAKE j \in (k + 1) .. (n + 1)
  <2>1. CASE j = n + 1 BY <1>1, <2>1
  <2>2. CASE j # n + 1
    <3>1. j \in (k + 1) .. n /\ j \in 1 .. n BY <1>1, <2>2
    <3> QED BY <1>1, <1>2, <3>1
  <2> QED BY <2>1, <2>2
<1>5. Holds(more, name, l) BY <1>1, <1>3, <1>4 DEF Holds
<1> QED BY <1>5 DEF more

(* A line under the name takes its place.                                  *)
LEMMA HoldsNow ==
  ASSUME NEW V, NEW lines \in Seq(V), NEW l \in V, NEW name, l[2] = name
  PROVE  Holds(Append(lines, l), name, l)
<1> DEFINE more == Append(lines, l)
<1>1. Len(more) \in Nat /\ Len(more) \in DOMAIN more /\ more[Len(more)] = l OBVIOUS
<1> HIDE DEF more
<1>2. \A j \in (Len(more) + 1) .. Len(more) : FALSE BY <1>1
<1>3. Holds(more, name, l) BY <1>1, <1>2 DEF Holds
<1> QED BY <1>3 DEF more

(* The line that holds is the one a reader finds above.                    *)
LEMMA HoldsIsAbove ==
  ASSUME NEW V, NEW lines \in Seq(V), NEW name, NEW l, Holds(lines, name, l)
  PROVE  Above(lines, Len(lines), 2, name) = l /\ Named(lines, Len(lines), name)
<1>1. PICK k \in 1 .. Len(lines) :
        /\ lines[k] = l /\ l[2] = name
        /\ \A j \in (k + 1) .. Len(lines) : lines[j][2] # name
  BY DEF Holds
<1>2. Named(lines, Len(lines), name) BY <1>1 DEF Named
<1> DEFINE n == Len(lines)
<1>3. n \in Nat /\ k \in 1 .. n /\ lines[k][2] = name
      /\ \A j \in (k + 1) .. n : lines[j][2] # name
  BY <1>1
<1> HIDE DEF n
<1>4. Above(lines, n, 2, name) = lines[k] BY <1>3, NameAboveIs
<1> QED BY <1>1, <1>2, <1>4 DEF n

(* One more line adds one more part.                                       *)
LEMMA XmlPartsStep ==
  ASSUME NEW V, NEW lines \in Seq(V), NEW l \in V,
         \A i \in DOMAIN lines :
           lines[i][2] = "state" => Named(lines, i, "address") /\ Named(lines, i, "port")
  PROVE  XmlParts(Append(lines, l))
           = Append(XmlParts(lines), XmlPart(Append(lines, l), Len(lines) + 1))
<1> DEFINE n == Len(lines)
           more == Append(lines, l)
<1>1. /\ n \in Nat /\ more \in Seq(V) /\ DOMAIN more = 1 .. (n + 1) /\ DOMAIN lines = 1 .. n
      /\ \A i \in 1 .. n : more[i] = lines[i]
  OBVIOUS
<1>2. ASSUME NEW i \in 1 .. n, lines[i][2] = "state"
      PROVE  /\ Above(more, i, 2, "address") = Above(lines, i, 2, "address")
             /\ Above(more, i, 2, "port") = Above(lines, i, 2, "port")
  <2>1. /\ \E k \in 1 .. i : lines[k][2] = "address"
        /\ \E k \in 1 .. i : lines[k][2] = "port"
    BY <1>1, <1>2 DEF Named
  <2> QED BY <1>1, <2>1, AboveStays
<1> HIDE DEF more
<1>3. ASSUME NEW i \in 1 .. n PROVE XmlPart(more, i) = XmlPart(lines, i)
  BY <1>1, <1>2 DEF XmlPart
<1>4. XmlParts(more) = [i \in 1 .. (n + 1) |-> XmlPart(more, i)]
      /\ XmlParts(lines) = [i \in 1 .. n |-> XmlPart(lines, i)]
  BY <1>1 DEF XmlParts
<1>5. XmlParts(more) = Append(XmlParts(lines), XmlPart(more, n + 1))
  BY <1>1, <1>3, <1>4
<1> QED BY <1>5 DEF more

(* A line that is not named "state" adds nothing, a line so named a row.   *)
LEMMA ReadXmlLine ==
  ASSUME NEW V, NEW Characters, NEW lines, NEW rows, XmlRead(lines, rows, Characters, V),
         NEW l \in V, NEW part \in Seq(ResultRows(Characters)),
         XmlPart(Append(lines, l), Len(lines) + 1) = part,
         l[2] = "state" => Named(lines, Len(lines), "address") /\ Named(lines, Len(lines), "port")
  PROVE  XmlRead(Append(lines, l), rows \o part, Characters, V)
<1> DEFINE n == Len(lines)
           more == Append(lines, l)
<1>1. lines \in Seq(V) BY DEF XmlRead
<1>2. /\ n \in Nat /\ more \in Seq(V) /\ DOMAIN more = 1 .. (n + 1) /\ DOMAIN lines = 1 .. n
      /\ \A i \in 1 .. n : more[i] = lines[i]
      /\ more[n + 1] = l
  BY <1>1
<1>3. XmlParts(more) = Append(XmlParts(lines), part)
  BY <1>1, XmlPartsStep DEF XmlRead
<1> HIDE DEF more
<1>4. XmlParts(lines) \in Seq(Seq(ResultRows(Characters))) BY DEF XmlRead
<1>5. XmlParts(more) \in Seq(Seq(ResultRows(Characters)))
  BY <1>3, <1>4, AppendType
<1>6. FlattenSeq(XmlParts(more)) = FlattenSeq(XmlParts(lines)) \o part
  BY <1>3, <1>4, FlattenStep
<1>7. FlattenSeq(XmlParts(more)) = rows \o part BY <1>6 DEF XmlRead
<1>8. \A name : \A i \in 1 .. n : Named(lines, i, name) => Named(more, i, name)
  BY <1>2 DEF Named
<1>9. \A name : Named(lines, n, name) => Named(more, n + 1, name)
  BY <1>2 DEF Named
<1>10. ASSUME NEW i \in 1 .. (n + 1), more[i][2] = "state"
       PROVE  Named(more, i, "address") /\ Named(more, i, "port")
  <2>1. CASE i \in 1 .. n
    <3>1. lines[i][2] = "state" BY <1>2, <1>10, <2>1
    <3>2. Named(lines, i, "address") /\ Named(lines, i, "port")
      BY <1>2, <2>1, <3>1 DEF XmlRead
    <3> QED BY <1>8, <2>1, <3>2
  <2>2. CASE i = n + 1 BY <1>2, <1>9, <1>10, <2>2
  <2> QED BY <1>2, <2>1, <2>2
<1>11. XmlRead(more, rows \o part, Characters, V)
  BY <1>2, <1>5, <1>7, <1>10 DEF XmlRead
<1> QED BY <1>11 DEF more

(* A line without a result adds none.                                      *)
LEMMA ReadXmlOther ==
  ASSUME NEW V, NEW Characters, NEW lines, NEW rows, XmlRead(lines, rows, Characters, V),
         NEW l \in V, l[2] # "state"
  PROVE  XmlRead(Append(lines, l), rows, Characters, V)
<1>1. lines \in Seq(V) /\ rows \in Seq(ResultRows(Characters)) BY FlattenType DEF XmlRead
<1>2. XmlPart(Append(lines, l), Len(lines) + 1) = <<>> BY <1>1 DEF XmlPart
<1>3. <<>> \in Seq(ResultRows(Characters)) OBVIOUS
<1>4. XmlRead(Append(lines, l), rows \o <<>>, Characters, V)
  BY <1>2, <1>3, ReadXmlLine
<1>5. rows \o <<>> = rows BY <1>1, ConcatEmptySeq
<1> QED BY <1>4, <1>5

(* The line of a result adds it, under the host and the port that hold.    *)
LEMMA ReadXmlState ==
  ASSUME NEW V, NEW Characters, NEW lines, NEW rows, XmlRead(lines, rows, Characters, V),
         NEW text, NEW p \in PortNumbers, NEW state \in PortStates, NEW reason, NEW name,
         name = Unescaped(text), name \in Seq(Characters),
         Holds(lines, "address", <<"empty", "address", text>>),
         Holds(lines, "port", <<"begin", "port", p>>),
         <<"empty", "state", state, reason>> \in V
  PROVE  XmlRead(Append(lines, <<"empty", "state", state, reason>>),
                 Append(rows, <<name, p, state>>), Characters, V)
<1> DEFINE n == Len(lines)
           l == <<"empty", "state", state, reason>>
           more == Append(lines, l)
           row == <<name, p, state>>
           address == <<"empty", "address", text>>
           port == <<"begin", "port", p>>
<1>1. /\ lines \in Seq(V) /\ rows \in Seq(ResultRows(Characters)) /\ l \in V
      /\ l[2] = "state" /\ l[3] = state /\ address[3] = text /\ port[3] = p
  BY FlattenType DEF XmlRead
<1> HIDE DEF l, address, port
<1>2. /\ n \in Nat /\ more \in Seq(V) /\ more[n + 1] = l /\ Len(more) = n + 1
      /\ Holds(more, "address", address) /\ Holds(more, "port", port)
  <2>1. l[2] # "address" /\ l[2] # "port" BY <1>1
  <2>2. Holds(lines, "address", address) /\ Holds(lines, "port", port) BY DEF address, port
  <2>3. Holds(more, "address", address) BY <1>1, <2>1, <2>2, HoldsOn
  <2>4. Holds(more, "port", port) BY <1>1, <2>1, <2>2, HoldsOn
  <2> QED BY <1>1, <2>3, <2>4
<1>3. /\ Above(more, n + 1, 2, "address") = address
      /\ Above(more, n + 1, 2, "port") = port
  <2> HIDE DEF more
  <2> QED BY <1>2, HoldsIsAbove
<1>4. XmlPart(more, n + 1) = <<row>>
  <2> HIDE DEF more
  <2> QED BY <1>1, <1>2, <1>3 DEF XmlPart
<1>5. row \in ResultRows(Characters) BY DEF ResultRows
<1>6. <<row>> \in Seq(ResultRows(Characters))
  <2> HIDE DEF row
  <2> QED BY <1>5
<1>7. Named(lines, n, "address") /\ Named(lines, n, "port")
  <2>1. Holds(lines, "address", address) /\ Holds(lines, "port", port) BY DEF address, port
  <2> QED BY <1>1, <2>1, HoldsIsAbove
<1> HIDE DEF row
<1>8. XmlRead(more, rows \o <<row>>, Characters, V)
  BY <1>1, <1>4, <1>6, <1>7, ReadXmlLine
<1>9. rows \o <<row>> = Append(rows, row)
  <2> DEFINE R == ResultRows(Characters)
  <2>1. rows \in Seq(R) /\ row \in R BY <1>1, <1>5 DEF row
  <2> HIDE DEF R
  <2> QED BY <2>1, AppendIsConcat
<1> QED BY <1>8, <1>9 DEF l, row

AddressLine(h) == <<"empty", "address", escape_xml(h.host)>>
FoundRow(h, r) == <<Printable(h.host), r.port, r.state>>
FoundRows(h) == [i \in DOMAIN h.ports |-> FoundRow(h, h.ports[i])]

(* Three lines are added one after the other.                              *)
LEMMA AppendThree ==
  ASSUME NEW V, NEW s \in Seq(V), NEW x \in V, NEW y \in V, NEW z \in V
  PROVE  s \o <<x, y, z>> = Append(Append(Append(s, x), y), z)
OBVIOUS

(* A reader who knows the host reads a result of it.                       *)
LEMMA ReadXmlPort ==
  ASSUME NEW Characters, \A c \in Special : Entity[c] \notin Characters,
         NEW V, XmlBody(Characters) \subseteq V,
         NEW h \in HostResults(Characters), NEW r \in PortResults(Characters),
         NEW lines, NEW rows, XmlRead(lines, rows, Characters, V),
         Holds(lines, "address", AddressLine(h))
  PROVE  /\ XmlRead(lines \o XmlPort(r), Append(rows, FoundRow(h, r)), Characters, V)
         /\ Holds(lines \o XmlPort(r), "address", AddressLine(h))
<1> DEFINE text == escape_xml(r.reason)
           first == <<"begin", "port", r.port>>
           second == <<"empty", "state", r.state, text>>
           third == <<"end", "port">>
           address == AddressLine(h)
           one == Append(lines, first)
           two == Append(one, second)
           three == Append(two, third)
<1>1. /\ r.port \in PortNumbers /\ r.state \in PortStates /\ r.reason \in Seq(Characters)
      /\ h.host \in Seq(Characters)
  BY DEF PortResults, HostResults
<1>2. first \in V /\ second \in V /\ third \in V
  <2>1. text \in Seq(Escaped(Characters)) BY <1>1, EscapeType
  <2> HIDE DEF text
  <2>2. first \in XmlBody(Characters) BY <1>1 DEF XmlBody
  <2>3. second \in XmlBody(Characters) BY <1>1, <2>1 DEF XmlBody
  <2>4. third \in XmlBody(Characters) BY TagsType DEF Tag
  <2> QED BY <2>2, <2>3, <2>4
<1>3. /\ first[2] = "port" /\ second[2] = "state" /\ third[2] = "port"
  OBVIOUS
<1>4. lines \in Seq(V) BY DEF XmlRead
<1> HIDE DEF address, first, third
<1>5. /\ XmlRead(one, rows, Characters, V) /\ Holds(one, "address", address)
      /\ Holds(one, "port", first) /\ one \in Seq(V)
  <2>1. XmlRead(one, rows, Characters, V) BY <1>2, <1>3, ReadXmlOther
  <2>2. Holds(one, "address", address) BY <1>2, <1>3, <1>4, HoldsOn DEF address
  <2>3. Holds(one, "port", first) BY <1>2, <1>3, <1>4, HoldsNow
  <2> QED BY <1>2, <1>4, <2>1, <2>2, <2>3, AppendType
<1> HIDE DEF one, text
<1>6. /\ XmlRead(two, Append(rows, FoundRow(h, r)), Characters, V)
      /\ Holds(two, "address", address) /\ two \in Seq(V)
  <2> DEFINE host == escape_xml(h.host)
             name == Printable(h.host)
  <2>1. name = Unescaped(host) /\ name \in Seq(Characters) BY <1>1, EscapedIsReadBack
  <2>2. address = <<"empty", "address", host>> BY DEF address, AddressLine
  <2>3. first = <<"begin", "port", r.port>> BY DEF first
  <2> HIDE DEF host, name
  <2>4. XmlRead(two, Append(rows, <<name, r.port, r.state>>), Characters, V)
    BY <1>1, <1>2, <1>5, <2>1, <2>2, <2>3, ReadXmlState
  <2>5. FoundRow(h, r) = <<name, r.port, r.state>> BY DEF FoundRow, name
  <2> HIDE DEF second
  <2>6. Holds(two, "address", address) BY <1>2, <1>3, <1>5, HoldsOn
  <2>7. two \in Seq(V) BY <1>2, <1>5, AppendType
  <2> QED BY <2>4, <2>5, <2>6, <2>7 DEF second
<1> HIDE DEF two, second
<1>7. /\ XmlRead(three, Append(rows, FoundRow(h, r)), Characters, V)
      /\ Holds(three, "address", address)
  <2>1. XmlRead(three, Append(rows, FoundRow(h, r)), Characters, V)
    BY <1>2, <1>3, <1>6, ReadXmlOther
  <2>2. Holds(three, "address", address) BY <1>2, <1>3, <1>6, HoldsOn
  <2> QED BY <2>1, <2>2
<1>8. three = lines \o <<first, second, third>> BY <1>2, <1>4, AppendThree DEF one, two
<1>9. XmlPort(r) = <<first, second, third>> BY DEF XmlPort, first, second, third, text
<1> QED BY <1>7, <1>8, <1>9 DEF address

(* The rows of a host.                                                     *)
LEMMA FoundRowsType ==
  ASSUME NEW Characters, NEW h \in HostResults(Characters),
         \A c \in Special : Entity[c] \notin Characters
  PROVE  /\ FoundRows(h) \in Seq(ResultRows(Characters)) /\ Len(FoundRows(h)) = Len(h.ports)
         /\ \A i \in DOMAIN h.ports : FoundRows(h)[i] = FoundRow(h, h.ports[i])
         /\ h.ports \in Seq(PortResults(Characters)) /\ Len(h.ports) \in Nat
         /\ DOMAIN h.ports = 1 .. Len(h.ports)
<1>1. h.host \in Seq(Characters) BY DEF HostResults
<1>2. /\ h.ports \in Seq(PortResults(Characters)) /\ Len(h.ports) \in Nat
      /\ DOMAIN h.ports = 1 .. Len(h.ports)
  BY HostRowsType
<1>3. Printable(h.host) \in Seq(Characters) BY <1>1, EscapedIsReadBack
<1>4. ASSUME NEW i \in 1 .. Len(h.ports) PROVE FoundRow(h, h.ports[i]) \in ResultRows(Characters)
  <2>1. h.ports[i] \in PortResults(Characters) BY <1>2
  <2>2. h.ports[i].port \in PortNumbers /\ h.ports[i].state \in PortStates
    BY <2>1 DEF PortResults
  <2> QED BY <1>3, <2>2 DEF FoundRow, ResultRows
<1> QED BY <1>2, <1>4 DEF FoundRows

(* One after another it reads them all.                                    *)
LEMMA ReadXmlPorts ==
  ASSUME NEW Characters, \A c \in Special : Entity[c] \notin Characters,
         NEW V, XmlBody(Characters) \subseteq V,
         NEW h \in HostResults(Characters),
         NEW lines, NEW rows, XmlRead(lines, rows, Characters, V),
         Holds(lines, "address", AddressLine(h))
  PROVE  XmlRead(lines \o EachOf(XmlPort, h.ports), rows \o FoundRows(h), Characters, V)
<1> DEFINE R == ResultRows(Characters)
           m == Len(h.ports)
           blocks == PortBlocks(h)
           found == FoundRows(h)
           address == AddressLine(h)
<1>1. /\ m \in Nat /\ DOMAIN h.ports = 1 .. m /\ h.ports \in Seq(PortResults(Characters))
      /\ found \in Seq(R) /\ Len(found) = m
      /\ \A i \in 1 .. m : found[i] = FoundRow(h, h.ports[i])
  BY FoundRowsType
<1>2. /\ blocks \in Seq(Seq(V)) /\ EachOf(XmlPort, h.ports) = FlattenSeq(blocks)
      /\ Len(blocks) = m /\ \A i \in 1 .. m : blocks[i] = XmlPort(h.ports[i])
  <2>1. blocks \in Seq(Seq(XmlBody(Characters))) /\ EachOf(XmlPort, h.ports) = FlattenSeq(blocks)
    BY XmlPortsType
  <2>2. Len(blocks) = m /\ \A i \in 1 .. m : blocks[i] = XmlPort(h.ports[i])
    BY <1>1 DEF PortBlocks
  <2> HIDE DEF blocks
  <2>3. blocks \in Seq(Seq(V)) BY <2>1
  <2> QED BY <2>1, <2>2, <2>3
<1>3. lines \in Seq(V) /\ rows \in Seq(R) BY FlattenType DEF XmlRead
<1> HIDE DEF blocks, found, address, R
<1>4. PICK flat : Flattening(flat, blocks, V) BY <1>2, FlattenPrefixes
<1>5. /\ flat[0] = <<>> /\ \A i \in 1 .. m : flat[i] = flat[i - 1] \o blocks[i]
      /\ \A i \in 0 .. m : flat[i] \in Seq(V)
      /\ FlattenSeq(blocks) = flat[m]
  BY <1>2, <1>4, Zenon DEF Flattening
<1> DEFINE Have(k) == /\ XmlRead(lines \o flat[k], rows \o SubSeq(found, 1, k), Characters, V)
                      /\ Holds(lines \o flat[k], "address", address)
           S == {k \in 0 .. m : Have(k)}
<1>6. 0 \in S
  <2>1. SubSeq(found, 1, 0) = <<>> BY SubSeqEmpty
  <2>2. lines \o <<>> = lines /\ rows \o <<>> = rows BY <1>3, ConcatEmptySeq
  <2>3. Have(0) BY <1>5, <2>1, <2>2, Zenon DEF address
  <2>4. 0 \in 0 .. m BY <1>1
  <2> QED BY <2>3, <2>4, Zenon
<1>7. ASSUME NEW k \in 0 .. (m - 1), k \in S PROVE k + 1 \in S
  <2>1. k + 1 \in 1 .. m /\ (k + 1) - 1 = k /\ k \in 0 .. m /\ k + 1 \in 0 .. m BY <1>1
  <2>2. Have(k) BY <1>7, Zenon
  <2>3. h.ports[k + 1] \in PortResults(Characters) BY <1>1, <2>1
  <2> DEFINE before == flat[k]
             block == blocks[k + 1]
             seen == rows \o SubSeq(found, 1, k)
             r == h.ports[k + 1]
  <2>4. before \in Seq(V) /\ block \in Seq(V) /\ flat[k + 1] = before \o block
        /\ block = XmlPort(r)
    <3>1. before \in Seq(V) /\ flat[k + 1] = before \o block BY <1>5, <2>1
    <3>2. block \in Seq(V) BY <1>2, <2>1
    <3>3. block = XmlPort(r) BY <1>2, <2>1
    <3> QED BY <3>1, <3>2, <3>3
  <2>5. rows \o SubSeq(found, 1, k + 1) = Append(seen, FoundRow(h, r))
    <3>1. found \in Seq(R) /\ Len(found) = m BY <1>1
    <3>2. k \in 0 .. (Len(found) - 1) BY <3>1
    <3>3. rows \o SubSeq(found, 1, k + 1) = Append(rows \o SubSeq(found, 1, k), found[k + 1])
      BY <1>3, <3>1, <3>2, ConcatPrefix
    <3>4. found[k + 1] = FoundRow(h, r) BY <1>1, <2>1
    <3> QED BY <3>3, <3>4
  <2>6. lines \o flat[k + 1] = (lines \o before) \o block
    <3> HIDE DEF before, block
    <3>1. Cat(Cat(lines, before), block) = Cat(lines, Cat(before, block)) BY <1>3, <2>4, Chain
    <3> QED BY <2>4, <3>1 DEF Cat
  <2> HIDE DEF seen, r, block
  <2>7. /\ XmlRead((lines \o before) \o block, Append(seen, FoundRow(h, r)), Characters, V)
        /\ Holds((lines \o before) \o block, "address", address)
    <3>1. XmlRead(lines \o before, seen, Characters, V) /\ Holds(lines \o before, "address", AddressLine(h))
      BY <2>2 DEF seen, address
    <3>2. r \in PortResults(Characters) BY <2>3 DEF r
    <3> HIDE DEF before
    <3> QED BY <2>4, <3>1, <3>2, ReadXmlPort DEF address
  <2>8. Have(k + 1) BY <2>5, <2>6, <2>7 
  <2> QED BY <2>1, <2>8, Zenon
<1> HIDE DEF S
<1>8. m \in S
  <2>1. \A k \in 0 .. (m - 1) : k \in S => k + 1 \in S BY <1>7
  <2>2. \A k \in 0 .. m : k \in S BY <1>1, <1>6, <2>1, Induct
  <2> QED BY <1>1, <2>2
<1>9. SubSeq(found, 1, m) = found BY <1>1, SubSeqFull
<1>10. XmlRead(lines \o flat[m], rows \o found, Characters, V) BY <1>8, <1>9 DEF S
<1> QED BY <1>2, <1>5, <1>10 DEF found

(* A reader who comes to a host element has its results at its end.        *)
LEMMA ReadXmlHost ==
  ASSUME NEW Characters, \A c \in Special : Entity[c] \notin Characters,
         NEW V, XmlBody(Characters) \subseteq V,
         NEW h \in HostResults(Characters),
         NEW lines, NEW rows, XmlRead(lines, rows, Characters, V)
  PROVE  XmlRead(lines \o XmlHost(h), rows \o FoundRows(h), Characters, V)
<1> DEFINE opening == <<"begin", "host">>
           address == AddressLine(h)
           closing == <<"end", "host">>
           listing == <<"begin", "ports">>
           listed == <<"end", "ports">>
           ports == EachOf(XmlPort, h.ports)
           found == FoundRows(h)
           R == ResultRows(Characters)
<1>1. /\ opening \in V /\ closing \in V /\ listing \in V /\ listed \in V
  <2>1. /\ opening \in XmlBody(Characters) /\ closing \in XmlBody(Characters)
        /\ listing \in XmlBody(Characters) /\ listed \in XmlBody(Characters)
    BY TagsType DEF Tag
  <2> QED BY <2>1
<1>2. address \in V /\ address[2] = "address" /\ address[2] # "state"
  <2>1. escape_xml(h.host) \in Seq(Escaped(Characters)) BY EscapeType DEF HostResults
  <2>2. address \in XmlBody(Characters) BY <2>1 DEF AddressLine, XmlBody
  <2>3. address[2] = "address" BY DEF AddressLine
  <2> QED BY <2>2, <2>3
<1>3. opening[2] = "host" /\ closing[2] = "host" /\ listing[2] = "ports" /\ listed[2] = "ports"
  OBVIOUS
<1>4. ports \in Seq(V)
  <2>1. ports \in Seq(XmlBody(Characters)) BY XmlPortsType, FlattenType
  <2> HIDE DEF ports
  <2> QED BY <2>1, LargerSet
<1>5. lines \in Seq(V) /\ rows \in Seq(R) /\ found \in Seq(R)
  BY FlattenType, FoundRowsType DEF XmlRead
<1>6. XmlHost(h) = <<opening, address>> \o XmlPorts(h) \o <<closing>>
  BY DEF XmlHost, AddressLine
<1>7. XmlPorts(h) = IF h.ports = <<>> THEN <<>> ELSE <<listing>> \o ports \o <<listed>>
  BY DEF XmlPorts
<1> HIDE DEF opening, address, closing, listing, listed, ports, found, R
<1> DEFINE first == Append(lines, opening)
           second == Append(first, address)
<1>8. /\ XmlRead(second, rows, Characters, V) /\ Holds(second, "address", AddressLine(h))
      /\ second \in Seq(V)
  <2>1. XmlRead(first, rows, Characters, V) BY <1>1, <1>3, ReadXmlOther
  <2>2. first \in Seq(V) BY <1>1, <1>5, AppendType
  <2> HIDE DEF first
  <2>3. XmlRead(second, rows, Characters, V) BY <1>2, <2>1, ReadXmlOther
  <2>4. Holds(second, "address", address) BY <1>2, <2>2, HoldsNow
  <2> QED BY <1>2, <2>2, <2>3, <2>4, AppendType DEF address
<1>9. second = lines \o <<opening, address>> BY <1>1, <1>2, <1>5
<1> HIDE DEF first, second
<1>10. XmlRead(second \o XmlPorts(h), rows \o found, Characters, V)
  <2>1. CASE h.ports = <<>>
    <3>1. found = <<>> BY <2>1 DEF found, FoundRows
    <3>2. second \o <<>> = second /\ rows \o <<>> = rows BY <1>5, <1>8, ConcatEmptySeq
    <3> QED BY <1>7, <1>8, <2>1, <3>1, <3>2
  <2>2. CASE h.ports # <<>>
    <3> DEFINE third == Append(second, listing)
    <3>1. /\ XmlRead(third, rows, Characters, V) /\ Holds(third, "address", AddressLine(h))
          /\ third \in Seq(V)
      <4>1. XmlRead(third, rows, Characters, V) BY <1>1, <1>3, <1>8, ReadXmlOther
      <4>2. Holds(third, "address", AddressLine(h)) BY <1>1, <1>3, <1>8, HoldsOn
      <4> QED BY <1>1, <1>8, <4>1, <4>2, AppendType
    <3> HIDE DEF third
    <3>2. XmlRead(third \o ports, rows \o found, Characters, V)
      BY <3>1, ReadXmlPorts DEF ports, found
    <3>3. third \o ports \in Seq(V) BY <1>4, <3>1, ConcatProperties
    <3>4. XmlRead(Append(third \o ports, listed), rows \o found, Characters, V)
      BY <1>1, <1>3, <3>2, ReadXmlOther
    <3>5. Append(third \o ports, listed) = second \o (<<listing>> \o ports \o <<listed>>)
      <4>1. third = second \o <<listing>> BY <1>1, <1>8, AppendIsConcat DEF third
      <4>2. Append(third \o ports, listed) = (third \o ports) \o <<listed>>
        BY <1>1, <3>3, AppendIsConcat
      <4> DEFINE one == <<listing>>
                 last == <<listed>>
      <4>3. one \in Seq(V) /\ last \in Seq(V) BY <1>1
      <4> HIDE DEF one, last
      <4>4. one \o ports \in Seq(V) BY <1>4, <4>3, ConcatProperties
      <4>5. Cat(Cat(second, one), ports) = Cat(second, Cat(one, ports))
        BY <1>4, <1>8, <4>3, Chain
      <4>6. Cat(Cat(second, Cat(one, ports)), last) = Cat(second, Cat(Cat(one, ports), last))
        BY <1>8, <4>3, <4>4, Chain, SMTT(30) DEF Cat
      <4> QED BY <4>1, <4>2, <4>5, <4>6 DEF Cat, one, last
    <3> QED BY <1>7, <2>2, <3>4, <3>5
  <2> QED BY <2>1, <2>2
<1>11. XmlPorts(h) \in Seq(V)
  <2>1. XmlPorts(h) \in Seq(XmlBody(Characters)) BY XmlPortsType
  <2> QED BY <2>1, LargerSet
<1> DEFINE all == second \o XmlPorts(h)
<1>12. all \in Seq(V) BY <1>8, <1>11, ConcatProperties
<1>13. XmlRead(Append(all, closing), rows \o found, Characters, V)
  BY <1>1, <1>3, <1>10, ReadXmlOther
<1>14. Append(all, closing) = lines \o XmlHost(h)
  <2> DEFINE head == <<opening, address>>
             last == <<closing>>
             body == XmlPorts(h)
  <2>1. head \in Seq(V) /\ last \in Seq(V) BY <1>1, <1>2
  <2>2. Append(all, closing) = all \o last BY <1>1, <1>12, AppendIsConcat
  <2>3. second = lines \o head BY <1>9
  <2>4. body \in Seq(V) BY <1>11
  <2>5. XmlHost(h) = (head \o body) \o last BY <1>6
  <2>6. all = second \o body OBVIOUS
  <2> HIDE DEF head, last, body, all
  <2> DEFINE mid == Cat(head, body)
  <2>7. mid \in Seq(V) BY <2>1, <2>4, ConcatProperties DEF Cat
  <2>8. Cat(Cat(lines, head), body) = Cat(lines, Cat(head, body))
    BY <1>5, <2>1, <2>4, Chain
  <2> HIDE DEF mid
  <2>9. Cat(Cat(lines, mid), last) = Cat(lines, Cat(mid, last))
    BY <1>5, <2>1, <2>7, Chain
  <2> QED BY <2>2, <2>3, <2>5, <2>6, <2>8, <2>9 DEF Cat, mid
<1> QED BY <1>13, <1>14 DEF found

FoundLists(hosts) == [i \in DOMAIN hosts |-> FoundRows(hosts[i])]

(* A reader who goes through the host elements has all results.            *)
LEMMA ReadXmlHosts ==
  ASSUME NEW Characters, \A c \in Special : Entity[c] \notin Characters,
         NEW V, XmlBody(Characters) \subseteq V, NEW Lists,
         NEW s \in SummariesOf(Lists, Characters),
         NEW lines, NEW rows, XmlRead(lines, rows, Characters, V)
  PROVE  /\ FoundLists(s.hosts) \in Seq(Seq(ResultRows(Characters)))
         /\ XmlRead(lines \o EachOf(XmlHost, s.hosts), rows \o FlattenSeq(FoundLists(s.hosts)),
                    Characters, V)
<1> DEFINE hosts == s.hosts
           n == Len(hosts)
           lists == FoundLists(hosts)
           blocks == HostBlocks(s)
           R == ResultRows(Characters)
<1>1. hosts \in Seq(HostResults(Characters)) /\ n \in Nat /\ DOMAIN hosts = 1 .. n
  BY DEF SummariesOf
<1>2. /\ lists \in Seq(Seq(R)) /\ Len(lists) = n
      /\ \A i \in 1 .. n : lists[i] = FoundRows(hosts[i])
  <2>1. \A i \in 1 .. n : FoundRows(hosts[i]) \in Seq(R)
    <3> TAKE i \in 1 .. n
    <3>1. hosts[i] \in HostResults(Characters) BY <1>1
    <3> QED BY <3>1, FoundRowsType
  <2> HIDE DEF R
  <2> QED BY <1>1, <2>1 DEF FoundLists
<1>3. /\ blocks \in Seq(Seq(V)) /\ EachOf(XmlHost, hosts) = FlattenSeq(blocks)
      /\ Len(blocks) = n /\ \A i \in 1 .. n : blocks[i] = XmlHost(hosts[i])
  <2>1. blocks \in Seq(Seq(XmlBody(Characters))) /\ EachOf(XmlHost, hosts) = FlattenSeq(blocks)
    BY XmlHostsType
  <2>2. Len(blocks) = n /\ \A i \in 1 .. n : blocks[i] = XmlHost(hosts[i])
    BY <1>1 DEF HostBlocks
  <2> HIDE DEF blocks
  <2>3. blocks \in Seq(Seq(V)) BY <2>1
  <2> QED BY <2>1, <2>2, <2>3
<1>4. lines \in Seq(V) /\ rows \in Seq(R) BY FlattenType DEF XmlRead
<1> HIDE DEF blocks, lists, R, hosts
<1>5. PICK flat : Flattening(flat, blocks, V) BY <1>3, FlattenPrefixes
<1>6. PICK res : Flattening(res, lists, R) BY <1>2, FlattenPrefixes
<1>7. /\ flat[0] = <<>> /\ \A i \in 1 .. n : flat[i] = flat[i - 1] \o blocks[i]
      /\ \A i \in 0 .. n : flat[i] \in Seq(V)
      /\ FlattenSeq(blocks) = flat[n]
  BY <1>3, <1>5, Zenon DEF Flattening
<1>8. /\ res[0] = <<>> /\ \A i \in 1 .. n : res[i] = res[i - 1] \o lists[i]
      /\ \A i \in 0 .. n : res[i] \in Seq(R)
      /\ FlattenSeq(lists) = res[n]
  BY <1>2, <1>6, Zenon DEF Flattening
<1> DEFINE S == {k \in 0 .. n : XmlRead(lines \o flat[k], rows \o res[k], Characters, V)}
<1>9. 0 \in S
  <2>1. lines \o flat[0] = lines /\ rows \o res[0] = rows
    BY <1>4, <1>7, <1>8, ConcatEmptySeq
  <2>2. XmlRead(lines \o flat[0], rows \o res[0], Characters, V) BY <2>1, Zenon
  <2>3. 0 \in 0 .. n BY <1>1
  <2> QED BY <2>2, <2>3, Zenon
<1>10. ASSUME NEW k \in 0 .. (n - 1), k \in S PROVE k + 1 \in S
  <2> DEFINE before == flat[k]
             block == blocks[k + 1]
             seen == res[k]
             list == lists[k + 1]
             h == hosts[k + 1]
  <2>1. k + 1 \in 1 .. n /\ (k + 1) - 1 = k /\ k \in 0 .. n /\ k + 1 \in 0 .. n BY <1>1
  <2>2. before \in Seq(V) /\ flat[k + 1] = before \o block BY <1>7, <2>1
  <2>3. block \in Seq(V) BY <1>3, <2>1
  <2>4. seen \in Seq(R) /\ res[k + 1] = seen \o list BY <1>8, <2>1
  <2>5. list \in Seq(R) BY <1>2, <2>1
  <2>6. h \in HostResults(Characters) BY <1>1, <2>1
  <2>7. block = XmlHost(h) /\ list = FoundRows(h) BY <1>2, <1>3, <2>1
  <2>8. XmlRead(lines \o before, rows \o seen, Characters, V) BY <1>10, Zenon
  <2> HIDE DEF before, block, seen, list, h
  <2>9. XmlRead((lines \o before) \o block, (rows \o seen) \o list, Characters, V)
    BY <2>6, <2>7, <2>8, ReadXmlHost
  <2>10. Cat(Cat(lines, before), block) = Cat(lines, Cat(before, block))
    BY <1>4, <2>2, <2>3, Chain
  <2>11. Cat(Cat(rows, seen), list) = Cat(rows, Cat(seen, list))
    BY <1>4, <2>4, <2>5, Chain
  <2>12. XmlRead(lines \o flat[k + 1], rows \o res[k + 1], Characters, V)
    BY <2>2, <2>4, <2>9, <2>10, <2>11 DEF Cat
  <2> QED BY <2>1, <2>12, Zenon
<1> HIDE DEF S
<1>11. n \in S
  <2>1. \A k \in 0 .. (n - 1) : k \in S => k + 1 \in S BY <1>10
  <2>2. \A k \in 0 .. n : k \in S BY <1>1, <1>9, <2>1, Induct
  <2> QED BY <1>1, <2>2
<1>12. XmlRead(lines \o flat[n], rows \o res[n], Characters, V) BY <1>11, Zenon DEF S
<1> QED BY <1>2, <1>3, <1>7, <1>8, <1>12 DEF lists, hosts, R

(* The printable results of a summary are those of its hosts.              *)
LEMMA PrintableResultsAre ==
  ASSUME NEW Characters, \A c \in Special : Entity[c] \notin Characters, NEW Lists,
         NEW s \in SummariesOf(Lists, Characters)
  PROVE  PrintableResults(s) = FlattenSeq(FoundLists(s.hosts))
<1> DEFINE R == ResultRows(Characters)
           W == {<<Printable(row[1]), row[2], row[3]>> : row \in R}
           f == [row \in R |-> <<Printable(row[1]), row[2], row[3]>>]
           lists == ResultLists(s.hosts)
           all == Results(s)
<1>1. /\ s.hosts \in Seq(HostResults(Characters)) /\ lists \in Seq(Seq(R))
      /\ all = FlattenSeq(lists) /\ all \in Seq(R)
  BY ResultsType
<1>2. f \in [R -> W] OBVIOUS
<1>3. PrintableResults(s) = Mapping(f, all)
  <2>1. \A i \in DOMAIN all : f[all[i]] = <<Printable(all[i][1]), all[i][2], all[i][3]>>
    <3> HIDE DEF R
    <3> QED BY <1>1
  <2>2. PrintableResults(s) = [i \in DOMAIN all |-> <<Printable(all[i][1]), all[i][2], all[i][3]>>]
    BY DEF PrintableResults
  <2> HIDE DEF f, all
  <2> QED BY <2>1, <2>2 DEF Mapping
<1>4. FoundLists(s.hosts) = MapEach(f, lists)
  <2>1. ASSUME NEW i \in DOMAIN s.hosts PROVE FoundRows(s.hosts[i]) = Mapping(f, lists[i])
    <3> DEFINE h == s.hosts[i]
               q == HostResultRows(h)
    <3>1. h \in HostResults(Characters) BY <1>1
    <3>2. q \in Seq(R) /\ Len(q) = Len(h.ports) /\ h.ports \in Seq(PortResults(Characters))
      BY <3>1, HostResultRowsType, HostRowsType
    <3>3. \A j \in DOMAIN h.ports : q[j] = <<h.host, h.ports[j].port, h.ports[j].state>>
      BY DEF HostResultRows
    <3>4. lists[i] = q BY DEF ResultLists
    <3> HIDE DEF q, h, R, f
    <3>5. DOMAIN q = DOMAIN h.ports BY <3>2
    <3>6. \A j \in DOMAIN h.ports : f[q[j]] = FoundRow(h, h.ports[j])
      BY <3>2, <3>3, <3>5 DEF f, FoundRow
    <3>7. FoundRows(h) = Mapping(f, q) BY <3>5, <3>6 DEF FoundRows, Mapping
    <3> QED BY <3>4, <3>7 DEF h
  <2>2. DOMAIN lists = DOMAIN s.hosts BY DEF ResultLists
  <2> HIDE DEF f, lists
  <2> QED BY <2>1, <2>2 DEF FoundLists, MapEach
<1> HIDE DEF f, R, W, lists, all
<1> QED BY <1>1, <1>2, <1>3, <1>4, MapFlatten, ZenonT(40)

(* Nothing has been read of no lines; what is kept is what is read.        *)
LEMMA ReadXmlIs ==
  ASSUME NEW Characters, NEW V
  PROVE  /\ XmlRead(<<>>, <<>>, Characters, V)
         /\ \A lines, rows : XmlRead(lines, rows, Characters, V) => ReadXml(lines) = rows
<1>1. XmlParts(<<>>) = <<>> BY DEF XmlParts
<1>2. <<>> \in Seq(V) /\ <<>> \in Seq(Seq(ResultRows(Characters))) OBVIOUS
<1>3. \A i \in DOMAIN <<>> : FALSE OBVIOUS
<1>4. XmlRead(<<>>, <<>>, Characters, V) BY <1>1, <1>2, <1>3, FlattenNone DEF XmlRead
<1>5. \A lines : ReadXml(lines) = FlattenSeq(XmlParts(lines)) BY DEF ReadXml, XmlParts, XmlPart
<1> QED BY <1>4, <1>5 DEF XmlRead

(* The results that are read off an XML report are those of the summary    *)
(* but for the control characters.                                         *)
LEMMA ReadXmlReport ==
  ASSUME NEW Characters, \A c \in Special : Entity[c] \notin Characters, NEW Lists,
         NEW s \in SummariesOf(Lists, Characters)
  PROVE  ReadXml(XmlLines(s)) = PrintableResults(s)
<1> DEFINE root == <<"begin", "asioscan">>
           ended == <<"end", "asioscan">>
           config == <<"empty", "scaninfo", s.config[1]>>
           figures == <<"empty", "runstats", runstats(s)>>
           V == XmlBody(Characters) \cup {root, ended, config, figures}
           hosts == EachOf(XmlHost, s.hosts)
           found == FlattenSeq(FoundLists(s.hosts))
           info == scaninfo(s)
<1>1. /\ XmlBody(Characters) \subseteq V
      /\ root \in V /\ ended \in V /\ config \in V /\ figures \in V
  <2> HIDE DEF root, ended, config, figures
  <2> QED OBVIOUS
<1>2. root[2] = "asioscan" /\ ended[2] = "asioscan" /\ config[2] = "scaninfo" /\ figures[2] = "runstats"
  OBVIOUS
<1>3. info = <<>> \/ info = <<config>> BY DEF scaninfo
<1>4. XmlLines(s) = <<root>> \o info \o hosts \o <<figures, ended>> BY DEF XmlLines
<1>5. hosts \in Seq(V)
  <2>1. hosts \in Seq(XmlBody(Characters)) BY XmlHostsType
  <2> HIDE DEF hosts, V
  <2> QED BY <1>1, <2>1, LargerSet
<1> HIDE DEF root, ended, config, figures, V, hosts, info
<1>6. <<root>> \in Seq(V) /\ XmlRead(<<root>>, <<>>, Characters, V)
  <2>1. XmlRead(<<>>, <<>>, Characters, V) BY ReadXmlIs
  <2>2. XmlRead(Append(<<>>, root), <<>>, Characters, V) BY <1>1, <1>2, <2>1, ReadXmlOther
  <2>3. Append(<<>>, root) = <<root>> OBVIOUS
  <2> QED BY <1>1, <2>2, <2>3
<1> DEFINE begun == <<root>> \o info
<1>7. begun \in Seq(V) /\ XmlRead(begun, <<>>, Characters, V)
  <2>1. CASE info = <<>> BY <1>6, <2>1, ConcatEmptySeq
  <2>2. CASE info = <<config>>
    <3> DEFINE one == <<root>>
    <3> HIDE DEF one
    <3>1. one \in Seq(V) /\ XmlRead(one, <<>>, Characters, V) BY <1>6 DEF one
    <3>2. XmlRead(Append(one, config), <<>>, Characters, V) BY <1>1, <1>2, <3>1, ReadXmlOther
    <3>3. Append(one, config) = one \o <<config>> BY <1>1, <3>1, AppendIsConcat
    <3>4. Append(one, config) \in Seq(V) BY <1>1, <3>1, AppendType
    <3> QED BY <2>2, <3>2, <3>3, <3>4 DEF one
  <2> QED BY <1>3, <2>1, <2>2
<1> DEFINE listed == begun \o hosts
<1>8. /\ FoundLists(s.hosts) \in Seq(Seq(ResultRows(Characters)))
      /\ XmlRead(listed, <<>> \o found, Characters, V)
  <2> HIDE DEF begun
  <2> QED BY <1>1, <1>7, ReadXmlHosts DEF hosts
<1>9. <<>> \o found = found /\ found \in Seq(ResultRows(Characters)) 
  BY <1>8, FlattenType, ConcatEmptySeq
<1>10. listed \in Seq(V) BY <1>5, <1>7, ConcatProperties
<1> HIDE DEF found, listed, begun
<1>11. XmlRead(Append(Append(listed, figures), ended), found, Characters, V)
  <2>1. XmlRead(Append(listed, figures), found, Characters, V)
    BY <1>1, <1>2, <1>8, <1>9, ReadXmlOther
  <2> QED BY <1>1, <1>2, <2>1, ReadXmlOther
<1>12. Append(Append(listed, figures), ended) = listed \o <<figures, ended>>
  BY <1>1, <1>10
<1>13. ReadXml(XmlLines(s)) = found
  BY <1>4, <1>11, <1>12, ReadXmlIs DEF listed, begun
<1> QED BY <1>8, <1>13, PrintableResultsAre DEF found

(* The quiet report has the open results of the summary.                   *)
LEMMA QuietIsOpenResults ==
  ASSUME NEW Lists, NEW Characters, NEW s \in SummariesOf(Lists, Characters)
  PROVE  print_quiet(s)
           = EachOf(LAMBDA r : IF r[3] = "Open" THEN << <<"open", r[1], r[2]>> >> ELSE <<>>,
                    Results(s))
<1> DEFINE R == ResultRows(Characters)
           W == Seq(OpenLines(Characters))
           Opened(r) == IF r[3] = "Open" THEN << <<"open", r[1], r[2]>> >> ELSE <<>>
           f == [r \in R |-> Opened(r)]
           lists == ResultLists(s.hosts)
           all == Results(s)
           hosts == s.hosts
           n == Len(hosts)
<1>1. /\ hosts \in Seq(HostResults(Characters)) /\ lists \in Seq(Seq(R))
      /\ all = FlattenSeq(lists) /\ all \in Seq(R)
  BY ResultsType
<1>2. f \in [R -> W]
  <2> SUFFICES ASSUME NEW r \in R PROVE Opened(r) \in W OBVIOUS
  <2>1. r[1] \in Seq(Characters) /\ r[2] \in PortNumbers BY DEF ResultRows
  <2>2. <<"open", r[1], r[2]>> \in OpenLines(Characters) BY <2>1 DEF OpenLines
  <2> QED BY <2>2
<1>3. [i \in DOMAIN all |-> Opened(all[i])] = Mapping(f, all)
  <2>1. \A i \in DOMAIN all : f[all[i]] = Opened(all[i])
    <3> HIDE DEF R
    <3> QED BY <1>1
  <2> HIDE DEF f, all, Opened
  <2> QED BY <2>1 DEF Mapping
<1>4. EachOf(LAMBDA r : IF r[3] = "Open" THEN << <<"open", r[1], r[2]>> >> ELSE <<>>, Results(s))
        = FlattenSeq([i \in DOMAIN all |-> Opened(all[i])])
  BY DEF EachOf
<1>5. ASSUME NEW i \in DOMAIN hosts PROVE QuietHost(hosts[i]) = FlattenSeq(Mapping(f, lists[i]))
  <2> DEFINE h == hosts[i]
             q == HostResultRows(h)
  <2>1. h \in HostResults(Characters) BY <1>1
  <2>2. q \in Seq(R) /\ Len(q) = Len(h.ports) /\ h.ports \in Seq(PortResults(Characters))
    BY <2>1, HostResultRowsType, HostRowsType
  <2>3. \A j \in DOMAIN h.ports : q[j] = <<h.host, h.ports[j].port, h.ports[j].state>>
    BY DEF HostResultRows
  <2>4. lists[i] = q BY DEF ResultLists
  <2>5. QuietHost(h) = FlattenSeq(QuietParts(h)) BY <2>1, QuietHostType
  <2> HIDE DEF q, h, R
  <2>6. DOMAIN q = DOMAIN h.ports BY <2>2
  <2>7. \A j \in DOMAIN h.ports : f[q[j]] = OpenLine(h, h.ports[j])
    <3> TAKE j \in DOMAIN h.ports
    <3> DEFINE r == q[j]
    <3>1. r \in R BY <2>2, <2>6
    <3>2. r[1] = h.host /\ r[2] = h.ports[j].port /\ r[3] = h.ports[j].state BY <2>3
    <3> HIDE DEF r
    <3>3. f[r] = Opened(r) BY <3>1
    <3> QED BY <3>2, <3>3 DEF r, OpenLine, IsOpen
  <2> HIDE DEF f
  <2>8. QuietParts(h) = Mapping(f, q) BY <2>6, <2>7 DEF QuietParts, Mapping
  <2> QED BY <2>4, <2>5, <2>8 DEF h
<1>6. print_quiet(s) = FlattenSeq(QuietHosts(s)) BY QuietReport
<1>7. DOMAIN lists = DOMAIN hosts /\ QuietHosts(s) = [i \in DOMAIN hosts |-> QuietHost(hosts[i])]
  BY DEF ResultLists, QuietHosts
<1> HIDE DEF f, R, W, lists, hosts, all, Opened
<1> DEFINE each == MapEach(f, lists)
<1>8. each \in Seq(Seq(W)) /\ Mapping(f, all) = FlattenSeq(each)
  BY <1>1, <1>2, MapFlatten
<1>9. FlattenSeq(FlattenSeq(each)) = FlattenSeq([i \in DOMAIN each |-> FlattenSeq(each[i])])
  <2> HIDE DEF each
  <2> QED BY <1>8, FlattenTwice DEF W
<1>10. [i \in DOMAIN each |-> FlattenSeq(each[i])] = QuietHosts(s)
  <2>1. DOMAIN each = DOMAIN hosts /\ \A i \in DOMAIN hosts : each[i] = Mapping(f, lists[i])
    BY <1>7 DEF MapEach
  <2> HIDE DEF each
  <2>2. \A i \in DOMAIN hosts : FlattenSeq(each[i]) = QuietHost(hosts[i]) BY <1>5, <2>1
  <2> QED BY <1>7, <2>1, <2>2
<1> QED BY <1>3, <1>4, <1>6, <1>8, <1>9, <1>10

----------------------------------------------------------------------------
(* Blank lines                                                             *)

(* A block begins with its host and has a blank line at most at its end.   *)
LEMMA PortsOnlyBlockShape ==
  ASSUME NEW Lists, NEW Characters, NEW s \in SummariesOf(Lists, Characters),
         NEW k \in 1 .. Len(s.hosts)
  PROVE  LET b == PortsOnlyBlock(k, s) IN
         /\ b \in Seq(TextBody(Characters)) /\ Len(b) > 0
         /\ b[1][1] = "host" /\ \A i \in 2 .. Len(b) : b[i][1] # "host"
         /\ \A i \in 1 .. (Len(b) - 1) : b[i] # <<"blank">>
         /\ b[Len(b)] = <<"blank">> <=> k < Len(s.hosts)
<1> DEFINE V == TextBody(Characters)
           h == s.hosts[k]
           first == <<"host", h.host>>
           blank == <<"blank">>
           rows == HostRows(h, FALSE)
           m == Len(h.ports)
<1>1. h \in HostResults(Characters) BY DEF SummariesOf
<1>2. /\ m \in Nat /\ rows \in Seq(RowLines(Characters)) /\ Len(rows) = m
  BY <1>1, HostRowsType
<1>3. first \in V /\ first[1] = "host" /\ blank \in V /\ blank[1] = "blank"
  <2>1. first \in HostLines(Characters) BY <1>1 DEF HostLines, HostResults
  <2> QED BY <2>1 DEF TextBody
<1>4. \A i \in 1 .. m : rows[i][1] = "row"
  <2> TAKE i \in 1 .. m
  <2>1. rows[i] \in RowLines(Characters)
    <3> HIDE DEF rows
    <3> QED BY <1>2
  <2> HIDE DEF rows
  <2> QED BY <2>1 DEF RowLines
<1>5. rows \in Seq(V)
  <2> HIDE DEF rows
  <2>1. RowLines(Characters) \subseteq V BY DEF TextBody
  <2> QED BY <1>2, <2>1, LargerSet
<1> DEFINE t == <<first>> \o rows
<1>6. /\ t \in Seq(V) /\ Len(t) = m + 1 /\ t[1] = first
      /\ \A i \in 2 .. (m + 1) : t[i] = rows[i - 1]
  <2> HIDE DEF rows, first, V
  <2> QED BY <1>2, <1>3, <1>5
<1>7. \A i \in 2 .. (m + 1) : t[i][1] = "row"
  <2> TAKE i \in 2 .. (m + 1)
  <2>1. i - 1 \in 1 .. m BY <1>2
  <2> HIDE DEF t, rows, m
  <2> QED BY <1>4, <1>6, <2>1
<1>8. PortsOnlyBlock(k, s) = t \o AfterHost(k, s) BY DEF PortsOnlyBlock
<1> HIDE DEF t, rows, first, V, m
<1>9. \A i \in 1 .. (m + 1) : t[i] # blank
  <2> TAKE i \in 1 .. (m + 1)
  <2>1. CASE i = 1 BY <1>3, <1>6, <2>1
  <2>2. CASE i # 1
    <3>1. i \in 2 .. (m + 1) BY <1>2, <2>2
    <3> QED BY <1>7, <3>1
  <2> QED BY <2>1, <2>2
<1>10. CASE k < Len(s.hosts)
  <2>1. PortsOnlyBlock(k, s) = t \o <<blank>> BY <1>8, <1>10 DEF AfterHost, NotLastHost
  <2> DEFINE b == Append(t, blank)
  <2>2. PortsOnlyBlock(k, s) = b BY <1>3, <1>6, <2>1, AppendIsConcat
  <2>3. /\ b \in Seq(V) /\ Len(b) = m + 2 /\ b[m + 2] = blank
        /\ \A i \in 1 .. (m + 1) : b[i] = t[i]
    BY <1>2, <1>3, <1>6
  <2> HIDE DEF b
  <2>4. Len(b) > 0 /\ Len(b) - 1 = m + 1 /\ 1 \in 1 .. (m + 1) BY <1>2, <2>3
  <2>5. b[1][1] = "host" BY <1>3, <1>6, <2>3, <2>4
  <2>6. \A i \in 2 .. Len(b) : b[i][1] # "host"
    <3> TAKE i \in 2 .. Len(b)
    <3>1. CASE i = m + 2 BY <1>3, <2>3, <3>1
    <3>2. CASE i # m + 2
      <4>1. i \in 2 .. (m + 1) /\ i \in 1 .. (m + 1) BY <1>2, <2>3, <3>2
      <4> QED BY <1>7, <2>3, <4>1
    <3> QED BY <3>1, <3>2
  <2>7. \A i \in 1 .. (Len(b) - 1) : b[i] # blank BY <1>9, <2>3, <2>4
  <2> QED BY <1>10, <2>2, <2>3, <2>4, <2>5, <2>6, <2>7 DEF V
<1>11. CASE ~(k < Len(s.hosts))
  <2>1. PortsOnlyBlock(k, s) = t \o <<>> BY <1>8, <1>11 DEF AfterHost, NotLastHost
  <2>2. PortsOnlyBlock(k, s) = t BY <1>6, <2>1, ConcatEmptySeq
  <2>3. t[Len(t)] # blank /\ \A i \in 1 .. (Len(t) - 1) : t[i] # blank BY <1>2, <1>6, <1>9
  <2>4. \A i \in 2 .. Len(t) : t[i][1] # "host" BY <1>6, <1>7
  <2> QED BY <1>2, <1>3, <1>6, <1>11, <2>2, <2>3, <2>4 DEF V
<1> QED BY <1>10, <1>11

(* The blank lines of the first k blocks of n.                             *)
Separated(w, k, n) ==
  /\ \A i \in 1 .. (Len(w) - 1) : w[i] = <<"blank">> => w[i + 1][1] = "host"
  /\ \A i \in 2 .. Len(w) : w[i][1] = "host" => w[i - 1] = <<"blank">>
  /\ k > 0 => Len(w) > 0 /\ (w[Len(w)] = <<"blank">> <=> k < n)
  /\ k = 0 => w = <<>>

(* One more block keeps the lines separated.                               *)
LEMMA SeparatedStep ==
  ASSUME NEW V, NEW w \in Seq(V), NEW b \in Seq(V), NEW n \in Nat, NEW k \in 0 .. (n - 1),
         Separated(w, k, n), Len(b) > 0,
         b[1][1] = "host", \A i \in 2 .. Len(b) : b[i][1] # "host",
         \A i \in 1 .. (Len(b) - 1) : b[i] # <<"blank">>,
         b[Len(b)] = <<"blank">> <=> k + 1 < n
  PROVE  Separated(w \o b, k + 1, n)
<1> DEFINE p == Len(w)
           q == Len(b)
           u == w \o b
           blank == <<"blank">>
<1>1. /\ p \in Nat /\ q \in Nat /\ q > 0 /\ Len(u) = p + q
      /\ \A i \in 1 .. p : u[i] = w[i]
      /\ \A i \in 1 .. q : u[p + i] = b[i]
  OBVIOUS
<1> HIDE DEF u
<1>2. p > 0 => w[p] = blank
  <2>1. p > 0 => k > 0 BY DEF Separated
  <2> QED BY <2>1 DEF Separated
<1>3. ASSUME NEW i \in 1 .. (Len(u) - 1), u[i] = blank PROVE u[i + 1][1] = "host"
  <2>1. CASE i < p
    <3>1. i \in 1 .. (p - 1) /\ i \in 1 .. p /\ i + 1 \in 1 .. p BY <1>1, <2>1
    <3>2. w[i] = blank /\ u[i + 1] = w[i + 1] BY <1>1, <1>3, <3>1
    <3> QED BY <3>1, <3>2 DEF Separated
  <2>2. CASE i = p
    <3>1. u[i + 1] = b[1] BY <1>1, <2>2
    <3> QED BY <3>1
  <2>3. CASE i > p
    <3> DEFINE j == i - p
    <3>1. j \in 1 .. (q - 1) /\ j \in 1 .. q /\ i = p + j BY <1>1, <2>3
    <3> HIDE DEF j
    <3>2. b[j] = blank BY <1>1, <1>3, <3>1
    <3> QED BY <3>1, <3>2
  <2> QED BY <1>1, <2>1, <2>2, <2>3
<1>4. ASSUME NEW i \in 2 .. Len(u), u[i][1] = "host" PROVE u[i - 1] = blank
  <2>1. CASE i <= p
    <3>1. i \in 2 .. p /\ i \in 1 .. p /\ i - 1 \in 1 .. p BY <1>1, <2>1
    <3>2. w[i][1] = "host" /\ u[i - 1] = w[i - 1] BY <1>1, <1>4, <3>1
    <3> QED BY <3>1, <3>2 DEF Separated
  <2>2. CASE i = p + 1
    <3>1. p \in 1 .. p /\ i - 1 = p BY <1>1, <2>2
    <3> QED BY <1>1, <1>2, <3>1
  <2>3. CASE i > p + 1
    <3> DEFINE j == i - p
    <3>1. j \in 2 .. q /\ j \in 1 .. q /\ i = p + j BY <1>1, <2>3
    <3> HIDE DEF j
    <3>2. b[j][1] = "host" BY <1>1, <1>4, <3>1
    <3> QED BY <3>1, <3>2
  <2> QED BY <1>1, <2>1, <2>2, <2>3
<1>5. Len(u) > 0 /\ u[Len(u)] = b[q] BY <1>1
<1>6. Separated(u, k + 1, n)
  BY <1>3, <1>4, <1>5 DEF Separated
<1> QED BY <1>6 DEF u

(* One blank line lies between two hosts, none at the end.                 *)
LEMMA PortsOnlySeparated ==
  ASSUME NEW Lists, NEW Characters, NEW s \in SummariesOf(Lists, Characters)
  PROVE  LET w == print_ports_only(s) IN
         /\ \A i \in DOMAIN w : w[i] = <<"blank">> => i < Len(w) /\ w[i + 1][1] = "host"
         /\ \A i \in 2 .. Len(w) : w[i][1] = "host" => w[i - 1] = <<"blank">>
<1> DEFINE V == TextBody(Characters)
           n == Len(s.hosts)
           blocks == PortsOnlyBlocks(s)
<1>1. /\ n \in Nat /\ blocks \in Seq(Seq(V)) /\ Len(blocks) = n
      /\ print_ports_only(s) = FlattenSeq(blocks)
      /\ \A i \in 1 .. n : blocks[i] = PortsOnlyBlock(i, s)
  BY PrintPortsOnlyType DEF SummariesOf, PortsOnlyBlocks
<1> HIDE DEF blocks, V
<1>2. PICK flat : Flattening(flat, blocks, V) BY <1>1, FlattenPrefixes
<1>3. /\ flat[0] = <<>> /\ \A i \in 1 .. n : flat[i] = flat[i - 1] \o blocks[i]
      /\ \A i \in 0 .. n : flat[i] \in Seq(V)
      /\ FlattenSeq(blocks) = flat[n]
  BY <1>1, <1>2, Zenon DEF Flattening
<1> DEFINE S == {k \in 0 .. n : Separated(flat[k], k, n)}
<1>4. 0 \in S
  <2>1. Separated(<<>>, 0, n)
    <3>1. 1 .. (Len(<<>>) - 1) = {} /\ 2 .. Len(<<>>) = {} OBVIOUS
    <3> QED BY <3>1 DEF Separated
  <2>2. 0 \in 0 .. n BY <1>1
  <2> QED BY <1>3, <2>1, <2>2
<1>5. ASSUME NEW k \in 0 .. (n - 1), k \in S PROVE k + 1 \in S
  <2> DEFINE w == flat[k]
             b == blocks[k + 1]
  <2>1. k + 1 \in 1 .. n /\ (k + 1) - 1 = k /\ k \in 0 .. n /\ k + 1 \in 0 .. n BY <1>1
  <2>2. w \in Seq(V) /\ flat[k + 1] = w \o b BY <1>3, <2>1
  <2>3. /\ b \in Seq(V) /\ Len(b) > 0
        /\ b[1][1] = "host" /\ \A i \in 2 .. Len(b) : b[i][1] # "host"
        /\ \A i \in 1 .. (Len(b) - 1) : b[i] # <<"blank">>
        /\ b[Len(b)] = <<"blank">> <=> k + 1 < n
    <3>1. b = PortsOnlyBlock(k + 1, s) BY <1>1, <2>1
    <3> HIDE DEF b
    <3> QED BY <2>1, <3>1, PortsOnlyBlockShape DEF V
  <2>4. Separated(w, k, n) BY <1>5
  <2> HIDE DEF w, b
  <2>5. Separated(w \o b, k + 1, n) BY <1>1, <2>2, <2>3, <2>4, SeparatedStep
  <2>6. Separated(flat[k + 1], k + 1, n) BY <2>2, <2>5
  <2> QED BY <2>1, <2>6
<1> HIDE DEF S
<1>6. n \in S
  <2>1. \A k \in 0 .. (n - 1) : k \in S => k + 1 \in S BY <1>5
  <2>2. \A k \in 0 .. n : k \in S BY <1>1, <1>4, <2>1, Induct
  <2> QED BY <1>1, <2>2
<1> DEFINE w == flat[n]
<1>7. Separated(w, n, n) /\ w \in Seq(V) BY <1>1, <1>3, <1>6 DEF S
<1> HIDE DEF w, n
<1>8. \A i \in DOMAIN w : w[i] = <<"blank">> => i < Len(w) /\ w[i + 1][1] = "host"
  <2> SUFFICES ASSUME NEW i \in DOMAIN w, w[i] = <<"blank">>
               PROVE  i < Len(w) /\ w[i + 1][1] = "host"
    OBVIOUS
  <2>1. i \in 1 .. Len(w) /\ Len(w) \in Nat BY <1>7
  <2>2. n # 0 => w[Len(w)] # <<"blank">> BY <1>1, <1>7 DEF Separated, n
  <2>3. n # 0 BY <1>7, <2>1 DEF Separated
  <2>4. i < Len(w) BY <2>1, <2>2, <2>3
  <2>5. i \in 1 .. (Len(w) - 1) BY <2>1, <2>4
  <2> QED BY <1>7, <2>4, <2>5 DEF Separated
<1>9. \A i \in 2 .. Len(w) : w[i][1] = "host" => w[i - 1] = <<"blank">>
  BY <1>7 DEF Separated
<1> QED BY <1>1, <1>3, <1>8, <1>9 DEF w

----------------------------------------------------------------------------
(* The figures of a report                                                 *)

(* Counts of short and of uniform sequences.                               *)
LEMMA CountOne ==
  ASSUME NEW x, NEW S
  PROVE  Count(<<x>>, S) = IF x \in S THEN 1 ELSE 0
<1> DEFINE V == {x}
           none == <<>>
<1>1. none \in Seq(V) /\ x \in V /\ Append(none, x) = <<x>> OBVIOUS
<1>2. Count(none, S) = 0 BY CountNone
<1> HIDE DEF none, V
<1>3. Count(Append(none, x), S) = Count(none, S) + (IF x \in S THEN 1 ELSE 0)
  BY <1>1, CountStep
<1> QED BY <1>1, <1>2, <1>3

(* Tuples, one element after the other.                                    *)
LEMMA TuplesAppended ==
  ASSUME NEW x, NEW y, NEW z
  PROVE  Append(<<x>>, y) = <<x, y>> /\ Append(<<x, y>>, z) = <<x, y, z>>
<1> DEFINE V == {x, y, z}
           one == <<x>>
           two == <<x, y>>
           three == <<x, y, z>>
<1>1. one \in Seq(V) /\ Len(one) = 1 /\ one[1] = x OBVIOUS
<1>2. two \in Seq(V) /\ Len(two) = 2 /\ two[1] = x /\ two[2] = y OBVIOUS
<1>3. three \in Seq(V) /\ Len(three) = 3 /\ three[1] = x /\ three[2] = y /\ three[3] = z OBVIOUS
<1>4. y \in V /\ z \in V OBVIOUS
<1> HIDE DEF V, one, two, three
<1>5. Append(one, y) = two
  <2> DEFINE more == Append(one, y)
  <2>1. more \in Seq(V) /\ Len(more) = Len(one) + 1 /\ more[Len(one) + 1] = y
        /\ (\A i \in 1 .. Len(one) : more[i] = one[i])
    BY <1>1, <1>4, AppendProperties, ZenonT(40)
  <2> HIDE DEF more
  <2>2. more = [i \in 1 .. 2 |-> more[i]] /\ two = [i \in 1 .. 2 |-> two[i]] BY <1>1, <1>2, <2>1
  <2>3. \A i \in 1 .. 2 : more[i] = two[i] BY <1>1, <1>2, <2>1
  <2>4. more = two BY <2>2, <2>3
  <2> QED BY <2>4 DEF more
<1>6. Append(two, z) = three
  <2> DEFINE more == Append(two, z)
  <2>1. more \in Seq(V) /\ Len(more) = Len(two) + 1 /\ more[Len(two) + 1] = z
        /\ (\A i \in 1 .. Len(two) : more[i] = two[i])
    <3>1. two \in Seq(V) /\ z \in V BY <1>2, <1>4
    <3> QED BY <3>1, AppendProperties
  <2> HIDE DEF more
  <2>2. more = [i \in 1 .. 3 |-> more[i]] /\ three = [i \in 1 .. 3 |-> three[i]]
    BY <1>2, <1>3, <2>1
  <2>3. \A i \in 1 .. 3 : more[i] = three[i] BY <1>2, <1>3, <2>1
  <2>4. more = three BY <2>2, <2>3
  <2> QED BY <2>4 DEF more
<1> QED BY <1>5, <1>6 DEF one, two, three

(* The count of three.                                                     *)
LEMMA CountThree ==
  ASSUME NEW x, NEW y, NEW z, NEW S
  PROVE  Count(<<x, y, z>>, S)
           = (IF x \in S THEN 1 ELSE 0) + (IF y \in S THEN 1 ELSE 0) + (IF z \in S THEN 1 ELSE 0)
<1> DEFINE V == {x, y, z}
           one == <<x>>
           two == <<x, y>>
           three == <<x, y, z>>
<1>1. /\ one \in Seq(V) /\ two \in Seq(V) /\ y \in V /\ z \in V
      /\ Append(one, y) = two /\ Append(two, z) = three
  <2>1. one \in Seq(V) /\ two \in Seq(V) OBVIOUS
  <2>2. Append(one, y) = two /\ Append(two, z) = three BY TuplesAppended
  <2>3. y \in V /\ z \in V OBVIOUS
  <2> HIDE DEF one, two, three, V
  <2> QED BY <2>1, <2>2, <2>3
<1>2. Count(one, S) = IF x \in S THEN 1 ELSE 0 BY CountOne
<1> HIDE DEF one, two, three, V
<1>3. Count(two, S) = Count(one, S) + (IF y \in S THEN 1 ELSE 0) BY <1>1, CountStep
<1>4. Count(three, S) = Count(two, S) + (IF z \in S THEN 1 ELSE 0) BY <1>1, CountStep
<1> QED BY <1>2, <1>3, <1>4 DEF three

(* A count where nothing, or everything, is counted.                       *)
LEMMA CountUniform ==
  ASSUME NEW V, NEW s \in Seq(V), NEW S
  PROVE  /\ (\A i \in DOMAIN s : s[i] \notin S) => Count(s, S) = 0
         /\ (\A i \in DOMAIN s : s[i] \in S) => Count(s, S) = Len(s)
<1>1. DOMAIN s = 1 .. Len(s) /\ Len(s) \in Nat OBVIOUS
<1>2. ASSUME \A i \in DOMAIN s : s[i] \notin S PROVE Count(s, S) = 0
  <2>1. Where(s, S) = {} BY <1>2 DEF Where
  <2> QED BY <2>1, FS_EmptySet DEF Count
<1>3. ASSUME \A i \in DOMAIN s : s[i] \in S PROVE Count(s, S) = Len(s)
  <2>1. Where(s, S) = 1 .. Len(s) BY <1>1, <1>3 DEF Where
  <2> QED BY <1>1, <2>1, FS_Interval DEF Count
<1> QED BY <1>2, <1>3

(* Two sequences whose elements are alike in what is counted.              *)
LEMMA CountAlike ==
  ASSUME NEW s, NEW t, NEW S, NEW T, DOMAIN s = DOMAIN t,
         \A i \in DOMAIN s : s[i] \in S <=> t[i] \in T
  PROVE  Count(s, S) = Count(t, T)
<1>1. Where(s, S) = Where(t, T) BY DEF Where
<1> QED BY <1>1 DEF Count

(* A total of ones is their number.                                        *)
LEMMA TotalOnes ==
  ASSUME NEW n \in Nat
  PROVE  Total([i \in 1 .. n |-> 1]) = n
<1> DEFINE Ones(k) == [i \in 1 .. k |-> 1]
           S == {k \in 0 .. n : Total(Ones(k)) = k}
<1>1. 0 \in S
  <2>1. Ones(0) = <<>> OBVIOUS
  <2> QED BY <2>1, TotalNone
<1>2. ASSUME NEW k \in 0 .. (n - 1), k \in S PROVE k + 1 \in S
  <2>1. Ones(k + 1) = Append(Ones(k), 1) /\ Ones(k) \in Seq(Nat) OBVIOUS
  <2>2. Total(Ones(k)) = k /\ k + 1 \in 0 .. n BY <1>2
  <2> HIDE DEF Ones
  <2>3. Total(Ones(k + 1)) = Total(Ones(k)) + 1 BY <2>1, TotalStep
  <2> QED BY <2>2, <2>3
<1> HIDE DEF S
<1>3. \A k \in 0 .. n : k \in S BY <1>1, <1>2, Induct
<1>4. n \in S BY <1>3
<1> QED BY <1>4 DEF S

Positive == {x \in Nat : x > 0}

(* The numbers above zero are no more than their total, or than there are. *)
LEMMA PositivesBounded ==
  ASSUME NEW numbers \in Seq(Nat)
  PROVE  /\ Count(numbers, Positive) \in Nat
         /\ Count(numbers, Positive) <= Total(numbers)
         /\ Count(numbers, Positive) <= Len(numbers)
<1> DEFINE Bounded(r) == /\ Count(r, Positive) \in Nat /\ Total(r) \in Nat
                         /\ Count(r, Positive) <= Total(r) /\ Count(r, Positive) <= Len(r)
           S == {t \in Seq(Nat) : Bounded(t)}
<1>1. <<>> \in S
  <2>1. Count(<<>>, Positive) = 0 /\ Total(<<>>) = 0 /\ Len(<<>>) = 0 BY CountNone, TotalNone
  <2>2. <<>> \in Seq(Nat) OBVIOUS
  <2> QED BY <2>1, <2>2
<1>2. ASSUME NEW r \in Seq(Nat), NEW x \in Nat, r \in S PROVE Append(r, x) \in S
  <2> DEFINE more == Append(r, x)
  <2>1. Bounded(r) BY <1>2
  <2>2. Count(more, Positive) = Count(r, Positive) + (IF x \in Positive THEN 1 ELSE 0)
    <3> DEFINE N == Nat
    <3>1. r \in Seq(N) /\ x \in N OBVIOUS
    <3> HIDE DEF N, S
    <3> QED BY <3>1, CountStep
  <2>3. Total(more) = Total(r) + x BY TotalStep
  <2>4. Len(more) = Len(r) + 1 /\ Len(r) \in Nat /\ more \in Seq(Nat) OBVIOUS
  <2>5. x \in Positive <=> x > 0 BY DEF Positive
  <2> HIDE DEF more
  <2>6. Bounded(more) BY <2>1, <2>2, <2>3, <2>4, <2>5
  <2>7. more \in S BY <2>4, <2>6
  <2> QED BY <2>7 DEF more
<1> HIDE DEF S
<1>3. \A r \in Seq(Nat) : r \in S BY <1>1, <1>2, SequenceInduct
<1> QED BY <1>3 DEF S

(* The number of results of a host that are in a state.                    *)
LEMMA CountByState ==
  ASSUME NEW Characters, NEW h \in HostResults(Characters), NEW state
  PROVE  /\ count_by_state(h, state) \in Nat
         /\ count_by_state(h, state) = Count(h.ports, {r \in PortResults(Characters) : r.state = state})
<1> DEFINE S == {r \in PortResults(Characters) : r.state = state}
<1>1. h.ports \in Seq(PortResults(Characters)) BY DEF HostResults
<1>2. \A i \in DOMAIN h.ports : h.ports[i] \in S <=> h.ports[i].state = state
  <2> TAKE i \in DOMAIN h.ports
  <2>1. h.ports[i] \in PortResults(Characters) BY <1>1
  <2> QED BY <2>1
<1> HIDE DEF S
<1>3. {i \in DOMAIN h.ports : h.ports[i].state = state} = Where(h.ports, S) BY <1>2 DEF Where
<1>4. Count(h.ports, S) \in Nat
  <2> DEFINE V == PortResults(Characters)
  <2>1. h.ports \in Seq(V) BY <1>1
  <2> HIDE DEF V
  <2> QED BY <2>1, CountConcat
<1>5. count_by_state(h, state) = Count(h.ports, S) BY <1>3 DEF count_by_state, Count
<1> QED BY <1>4, <1>5 DEF S

(* At most as many hosts are up as there are open ports, or hosts.         *)
LEMMA HostsUpBounded ==
  ASSUME NEW Lists, NEW Characters, NEW s \in SummariesOf(Lists, Characters)
  PROVE  /\ hosts_up(s) \in Nat /\ hosts_up(s) <= total_open_ports(s)
         /\ hosts_up(s) <= total_hosts(s) /\ total_hosts(s) \in Nat
<1> DEFINE numbers == [i \in DOMAIN s.hosts |-> open_ports(s.hosts[i])]
           n == Len(s.hosts)
<1>1. n \in Nat /\ DOMAIN s.hosts = 1 .. n /\ s.hosts \in Seq(HostResults(Characters))
  BY DEF SummariesOf
<1>2. ASSUME NEW i \in 1 .. n PROVE open_ports(s.hosts[i]) \in Nat
  <2>1. s.hosts[i] \in HostResults(Characters) BY <1>1
  <2> QED BY <2>1, CountByState DEF open_ports
<1>3. numbers \in Seq(Nat) /\ Len(numbers) = n
  <2>1. numbers = [i \in 1 .. n |-> numbers[i]] /\ \A i \in 1 .. n : numbers[i] \in Nat
    BY <1>1, <1>2
  <2> HIDE DEF numbers
  <2> QED BY <1>1, <2>1, Tabulated
<1>4. {i \in DOMAIN s.hosts : open_ports(s.hosts[i]) > 0} = Where(numbers, Positive)
  BY <1>1, <1>2 DEF Where, Positive
<1>5. hosts_up(s) = Count(numbers, Positive) BY <1>4 DEF hosts_up, Count
<1>6. total_open_ports(s) = Total(numbers) BY DEF total_open_ports, SumOf
<1>7. total_hosts(s) = n BY DEF total_hosts
<1>8. /\ Count(numbers, Positive) \in Nat /\ Count(numbers, Positive) <= Total(numbers)
      /\ Count(numbers, Positive) <= Len(numbers)
  <2> HIDE DEF numbers
  <2> QED BY <1>3, PositivesBounded
<1> QED BY <1>1, <1>3, <1>5, <1>6, <1>7, <1>8

(* What is counted over the blocks of the hosts is the sum of what is      *)
(* counted in each.                                                        *)
LEMMA CountBlocks ==
  ASSUME NEW V, NEW blocks \in Seq(Seq(V)), NEW S, NEW numbers,
         DOMAIN numbers = DOMAIN blocks, numbers = [i \in DOMAIN numbers |-> numbers[i]],
         \A i \in DOMAIN blocks : Count(blocks[i], S) = numbers[i]
  PROVE  Count(FlattenSeq(blocks), S) = Total(numbers)
<1> DEFINE counts == [i \in DOMAIN blocks |-> Count(blocks[i], S)]
<1>1. counts = numbers OBVIOUS
<1>2. Count(FlattenSeq(blocks), S) = Total(counts) BY CountFlatten
<1> QED BY <1>1, <1>2

(* The kinds of line that make up the hosts of a text report.              *)
LEMMA BodyKinds ==
  ASSUME NEW Characters, NEW l \in TextBody(Characters)
  PROVE  l[1] \in {"host", "row", "blank"}
<1>1. CASE l \in HostLines(Characters) BY <1>1 DEF HostLines
<1>2. CASE l \in RowLines(Characters) BY <1>2 DEF RowLines
<1>3. CASE l \in {<<"blank">>} BY <1>3
<1> QED BY <1>1, <1>2, <1>3 DEF TextBody

(* What is counted in the block of a host.                                 *)
LEMMA CountHostBlock ==
  ASSUME NEW Characters, NEW h \in HostResults(Characters), NEW o, NEW S, <<"blank">> \notin S
  PROVE  /\ Count(print_host(h, o), S)
              = (IF <<"host", h.host>> \in S THEN 1 ELSE 0) + Count(HostRows(h, ShowsReason(o)), S)
         /\ Count(HostRows(h, ShowsReason(o)), S) \in Nat
<1> DEFINE V == TextBody(Characters)
           first == << <<"host", h.host>> >>
           rows == HostRows(h, ShowsReason(o))
           last == << <<"blank">> >>
<1>1. print_host(h, o) = (first \o rows) \o last BY PrintHostType
<1>2. /\ first \in Seq(V) /\ rows \in Seq(V) /\ last \in Seq(V)
  <2>1. first \in Seq(V) BY DEF HostResults, TextBody, HostLines
  <2>2. last \in Seq(V) BY DEF TextBody
  <2>3. rows \in Seq(RowLines(Characters)) BY HostRowsType
  <2>4. RowLines(Characters) \subseteq V BY DEF TextBody
  <2> HIDE DEF rows, V
  <2>5. rows \in Seq(V) BY <2>3, <2>4, LargerSet
  <2> QED BY <2>1, <2>2, <2>5
<1>3. /\ Count(first, S) = IF <<"host", h.host>> \in S THEN 1 ELSE 0
      /\ Count(last, S) = 0
  BY CountOne
<1> HIDE DEF first, rows, last, V
<1> DEFINE some == first \o rows
<1>4. some \in Seq(V) BY <1>2, ConcatProperties
<1>5. Count(some, S) = Count(first, S) + Count(rows, S) /\ Count(rows, S) \in Nat
  BY <1>2, CountConcat
<1> HIDE DEF some
<1>6. Count(some \o last, S) = Count(some, S) + Count(last, S) BY <1>2, <1>4, CountConcat
<1>7. print_host(h, o) = some \o last BY <1>1 DEF some
<1>8. Count(print_host(h, o), S) = (Count(first, S) + Count(rows, S)) + Count(last, S)
  BY <1>5, <1>6, <1>7
<1> QED BY <1>3, <1>5, <1>8 DEF rows

(* The sets of the lines that name hosts, are rows and are open rows.      *)
RowSets(Characters, V, Hosts, Rows, Open) ==
  /\ TextBody(Characters) \subseteq V
  /\ \A l \in V : l \in Hosts <=> l[1] = "host"
  /\ \A l \in V : l \in Rows <=> l[1] = "row"
  /\ \A l \in V : l \in Open <=> l[1] = "row" /\ l[3] = "Open"

(* The hosts, the rows and the open rows of a host's block.                *)
LEMMA HostBlockFigures ==
  ASSUME NEW Characters, NEW V, NEW Hosts, NEW Rows, NEW Open,
         RowSets(Characters, V, Hosts, Rows, Open),
         NEW h \in HostResults(Characters), NEW o
  PROVE  /\ Count(print_host(h, o), Hosts) = 1
         /\ Count(print_host(h, o), Rows) = HostPorts(h)
         /\ Count(print_host(h, o), Open) = open_ports(h)
<1> DEFINE rows == HostRows(h, ShowsReason(o))
           first == <<"host", h.host>>
           blank == <<"blank">>
           m == Len(h.ports)
<1>0. /\ TextBody(Characters) \subseteq V
      /\ \A l \in V : l \in Hosts <=> l[1] = "host"
      /\ \A l \in V : l \in Rows <=> l[1] = "row"
      /\ \A l \in V : l \in Open <=> l[1] = "row" /\ l[3] = "Open"
  BY DEF RowSets
<1>1. /\ rows \in Seq(RowLines(Characters)) /\ Len(rows) = m /\ m \in Nat
      /\ DOMAIN h.ports = 1 .. m /\ h.ports \in Seq(PortResults(Characters))
  BY HostRowsType
<1>2. first \in V /\ first[1] = "host"
  <2>1. first \in HostLines(Characters) BY DEF HostLines, HostResults
  <2> QED BY <1>0, <2>1 DEF TextBody
<1>3. \A i \in 1 .. m : rows[i] \in V /\ rows[i][1] = "row"
                        /\ rows[i][3] = h.ports[i].state
  <2> TAKE i \in 1 .. m
  <2>1. rows[i] \in RowLines(Characters)
    <3> HIDE DEF rows
    <3> QED BY <1>1
  <2>2. rows[i][1] = "row" /\ rows[i][3] = h.ports[i].state BY <1>1 DEF HostRows
  <2> QED BY <1>0, <2>1, <2>2 DEF TextBody
<1>4. DOMAIN rows = 1 .. m
  <2> HIDE DEF rows
  <2> QED BY <1>1
<1> HIDE DEF rows
<1>5. Count(rows, Hosts) = 0
  <2>1. \A i \in DOMAIN rows : rows[i] \notin Hosts BY <1>0, <1>3, <1>4
  <2> QED BY <1>1, <2>1, CountUniform
<1>6. Count(rows, Rows) = m
  <2>1. \A i \in DOMAIN rows : rows[i] \in Rows BY <1>0, <1>3, <1>4
  <2> QED BY <1>1, <2>1, CountUniform
<1>7. Count(rows, Open) = open_ports(h)
  <2> DEFINE Found == {r \in PortResults(Characters) : r.state = "Open"}
  <2>1. \A i \in DOMAIN rows : rows[i] \in Open <=> h.ports[i] \in Found
    <3> TAKE i \in DOMAIN rows
    <3>1. h.ports[i] \in PortResults(Characters) BY <1>1, <1>4
    <3> QED BY <1>0, <1>3, <1>4, <3>1
  <2>2. DOMAIN rows = DOMAIN h.ports BY <1>1, <1>4
  <2>3. open_ports(h) = Count(h.ports, Found) BY CountByState DEF open_ports
  <2> HIDE DEF Found
  <2>4. Count(rows, Open) = Count(h.ports, Found) BY <2>1, <2>2, CountAlike
  <2> QED BY <2>3, <2>4
<1>8. /\ blank \notin Hosts /\ blank \notin Rows /\ blank \notin Open
      /\ first \in Hosts /\ first \notin Rows /\ first \notin Open
  <2>1. blank \in V /\ blank[1] = "blank" BY <1>0 DEF TextBody
  <2> HIDE DEF first, blank
  <2> QED BY <1>0, <1>2, <2>1
<1>9. Count(print_host(h, o), Hosts) = 1 + Count(rows, Hosts)
  BY <1>8, CountHostBlock DEF rows
<1>10. Count(print_host(h, o), Rows) = 0 + Count(rows, Rows)
  BY <1>8, CountHostBlock DEF rows
<1>11. Count(print_host(h, o), Open) = 0 + Count(rows, Open)
  BY <1>8, CountHostBlock DEF rows
<1>12. open_ports(h) \in Nat BY CountByState DEF open_ports
<1> QED BY <1>1, <1>5, <1>6, <1>7, <1>9, <1>10, <1>11, <1>12 DEF HostPorts

(* Where a host, a row or an open row is.                                  *)
Kinds(w, kind) == {i \in DOMAIN w : w[i][1] = kind}
OpenRows(w) == {i \in Kinds(w, "row") : w[i][3] = "Open"}

(* The figures at the end of a normal report count the lines above.        *)
LEMMA NormalStatistics ==
  ASSUME NEW Lists, NEW Characters, NEW s \in SummariesOf(Lists, Characters), NEW o,
         o.text_mode \notin {"Quiet", "Summary", "PortsOnly", "HostsOnly"}, NEW w, NEW n,
         w = TextLines(s, o), n = Len(w)
  PROVE  /\ Kinds(w, "stat") = (n - 2) .. n
         /\ w[n - 2] = <<"stat", "hosts", Cardinality(Kinds(w, "host"))>>
         /\ w[n - 1] = <<"stat", "ports", Cardinality(Kinds(w, "row"))>>
         /\ w[n] = <<"stat", "open", Cardinality(OpenRows(w))>>
<1> DEFINE figures == print_summary(s)
           V == TextBody(Characters) \cup {<<"header">>} \cup {figures[i] : i \in 1 .. 3}
           blocks == NormalBlocks(s, o)
           body == FlattenSeq(blocks)
           header == << <<"header">> >>
           hosts == s.hosts
           m == Len(body)
           Hosts == {l \in V : l[1] = "host"}
           Rows == {l \in V : l[1] = "row"}
           Open == {l \in V : l[1] = "row" /\ l[3] = "Open"}
<1>1. /\ blocks \in Seq(Seq(TextBody(Characters))) /\ hosts \in Seq(HostResults(Characters))
      /\ w = (header \o body) \o figures
  BY NormalReport
<1>2. /\ figures[1] = <<"stat", "hosts", total_hosts(s)>>
      /\ figures[2] = <<"stat", "ports", total_ports(s)>>
      /\ figures[3] = <<"stat", "open", total_open_ports(s)>>
      /\ Len(figures) = 3
  BY DEF print_summary
<1>3. /\ TextBody(Characters) \subseteq V /\ header \in Seq(V) /\ figures \in Seq(V)
  <2>1. figures \in Seq({figures[i] : i \in 1 .. 3}) BY PrintSummaryLines
  <2> HIDE DEF figures
  <2>2. {figures[i] : i \in 1 .. 3} \subseteq V OBVIOUS
  <2>3. figures \in Seq(V)
    <3> HIDE DEF V
    <3> QED BY <2>1, <2>2, LargerSet
  <2>4. <<"header">> \in V OBVIOUS
  <2> HIDE DEF V
  <2>5. header \in Seq(V) BY <2>4
  <2>6. TextBody(Characters) \subseteq V BY DEF V
  <2> QED BY <2>3, <2>5, <2>6
<1>4. /\ DOMAIN hosts = 1 .. Len(hosts) /\ Len(hosts) \in Nat /\ DOMAIN blocks = DOMAIN hosts
      /\ \A i \in DOMAIN hosts : blocks[i] = print_host(hosts[i], o)
  BY <1>1 DEF NormalBlocks
<1>5. \A i \in 1 .. 3 : figures[i][1] = "stat" BY PrintSummaryLines
<1>6. header[1][1] = "header" /\ Len(header) = 1 OBVIOUS
<1> HIDE DEF figures, V, blocks, hosts, header
<1>7. blocks \in Seq(Seq(V)) BY <1>1, <1>3
<1>8. body \in Seq(TextBody(Characters)) /\ body \in Seq(V) BY <1>1, <1>7, FlattenType
<1> HIDE DEF body
<1>9. \A i \in 1 .. m : body[i][1] \in {"host", "row", "blank"}
  <2> TAKE i \in 1 .. m
  <2>1. body[i] \in TextBody(Characters) BY <1>8
  <2> QED BY <2>1, BodyKinds
<1> DEFINE top == header \o body
<1>10. /\ top \in Seq(V) /\ Len(top) = m + 1 /\ m \in Nat /\ top[1] = header[1]
       /\ \A i \in 1 .. m : top[i + 1] = body[i]
  <2>1. header \in Seq(V) /\ body \in Seq(V) BY <1>3, <1>8
  <2>2. top \in Seq(V) /\ Len(top) = Len(header) + m BY <2>1, ConcatProperties
  <2>3. top = [i \in 1 .. (Len(header) + Len(body)) |->
                 IF i <= Len(header) THEN header[i] ELSE body[i - Len(header)]]
    BY <2>1, ConcatIs
  <2>4. m \in Nat BY <2>1
  <2> HIDE DEF top, m
  <2>5. top = [i \in 1 .. (m + 1) |-> IF i <= 1 THEN header[i] ELSE body[i - 1]]
    BY <1>6, <2>3, <2>4 DEF m
  <2>6. top[1] = header[1] BY <2>4, <2>5
  <2>7. \A i \in 1 .. m : top[i + 1] = body[i] BY <2>4, <2>5
  <2> QED BY <1>6, <2>2, <2>4, <2>6, <2>7
<1> HIDE DEF top
<1>11. /\ w = top \o figures /\ w \in Seq(V) /\ n = m + 4 /\ DOMAIN w = 1 .. n
       /\ \A i \in 1 .. (m + 1) : w[i] = top[i]
       /\ w[m + 2] = figures[1] /\ w[m + 3] = figures[2] /\ w[m + 4] = figures[3]
  <2>1. w = top \o figures BY <1>1 DEF top
  <2>2. Len(figures) = 3 BY <1>2
  <2>3. w \in Seq(V) /\ Len(w) = Len(top) + Len(figures)
    <3>1. top \in Seq(V) /\ figures \in Seq(V) BY <1>3, <1>10
    <3>2. top \o figures \in Seq(V) /\ Len(top \o figures) = Len(top) + Len(figures)
      BY <3>1, ConcatProperties
    <3> QED BY <2>1, <3>2
  <2>4. \A i \in 1 .. Len(w) : w[i] = IF i <= Len(top) THEN top[i] ELSE figures[i - Len(top)]
    <3>1. w = [i \in 1 .. (Len(top) + Len(figures)) |->
                 IF i <= Len(top) THEN top[i] ELSE figures[i - Len(top)]]
      BY <1>3, <1>10, <2>1, ConcatIs
    <3> QED BY <2>3, <3>1
  <2> QED BY <1>10, <2>1, <2>2, <2>3, <2>4
<1>12. \A i \in 1 .. n : w[i][1] = "stat" <=> i \in (n - 2) .. n
  <2> TAKE i \in 1 .. n
  <2>1. CASE i = 1 BY <1>6, <1>10, <1>11, <2>1
  <2>2. CASE i \in 2 .. (m + 1)
    <3>1. i - 1 \in 1 .. m /\ (i - 1) + 1 = i /\ i \in 1 .. (m + 1) BY <1>10, <2>2
    <3>2. w[i] = body[i - 1] BY <1>10, <1>11, <3>1
    <3>3. w[i][1] # "stat" BY <1>9, <3>1, <3>2
    <3> QED BY <1>10, <1>11, <2>2, <3>3
  <2>3. CASE i = m + 2 BY <1>2, <1>10, <1>11, <2>3
  <2>4. CASE i = m + 3 BY <1>2, <1>10, <1>11, <2>4
  <2>5. CASE i = m + 4 BY <1>2, <1>10, <1>11, <2>5
  <2>6. m \in Nat /\ n = m + 4 BY <1>10, <1>11
  <2>7. i = 1 \/ i \in 2 .. (m + 1) \/ i = m + 2 \/ i = m + 3 \/ i = m + 4 BY <2>6
  <2> QED BY <2>1, <2>2, <2>3, <2>4, <2>5, <2>7
<1>13. Kinds(w, "stat") = (n - 2) .. n
  <2>1. (n - 2) .. n \subseteq 1 .. n BY <1>10, <1>11
  <2> QED BY <1>11, <1>12, <2>1 DEF Kinds
<1>14. ASSUME NEW S, \A i \in 1 .. Len(header) : header[i] \notin S,
              \A i \in 1 .. 3 : figures[i] \notin S
       PROVE  Count(w, S) = Count(body, S)
  <2>1. Count(header, S) = 0 BY <1>3, <1>6, <1>14, CountUniform
  <2>2. \A i \in DOMAIN figures : figures[i] \notin S BY <1>2, <1>3, <1>14
  <2>3. Count(figures, S) = 0 BY <1>3, <2>2, CountUniform
  <2>4. Count(top, S) = Count(header, S) + Count(body, S) /\ Count(body, S) \in Nat
    BY <1>3, <1>8, CountConcat DEF top
  <2>5. Count(w, S) = Count(top, S) + Count(figures, S)
    BY <1>3, <1>10, <1>11, CountConcat
  <2> QED BY <2>1, <2>3, <2>4, <2>5
<1>15. /\ \A i \in 1 .. 3 : figures[i] \notin Hosts /\ figures[i] \notin Rows /\ figures[i] \notin Open
       /\ \A i \in 1 .. Len(header) : header[i] \notin Hosts /\ header[i] \notin Rows /\ header[i] \notin Open
  BY <1>5, <1>6
<1>16. ASSUME NEW i \in DOMAIN hosts
       PROVE  /\ Count(blocks[i], Hosts) = 1
              /\ Count(blocks[i], Rows) = HostPorts(hosts[i])
              /\ Count(blocks[i], Open) = open_ports(hosts[i])
  <2>1. hosts[i] \in HostResults(Characters) /\ blocks[i] = print_host(hosts[i], o)
    BY <1>1, <1>4
  <2> DEFINE h == hosts[i]
  <2>2. h \in HostResults(Characters) /\ blocks[i] = print_host(h, o) BY <2>1
  <2> HIDE DEF h
  <2>3. TextBody(Characters) \subseteq V BY <1>3
  <2>4. RowSets(Characters, V, Hosts, Rows, Open) BY <2>3 DEF RowSets
  <2> HIDE DEF Hosts, Rows, Open
  <2>5. /\ Count(print_host(h, o), Hosts) = 1
        /\ Count(print_host(h, o), Rows) = HostPorts(h)
        /\ Count(print_host(h, o), Open) = open_ports(h)
    BY <2>2, <2>4, HostBlockFigures
  <2> QED BY <2>2, <2>5 DEF h
<1>17. /\ \A i \in DOMAIN w : w[i] \in Hosts <=> w[i][1] = "host"
       /\ \A i \in DOMAIN w : w[i] \in Rows <=> w[i][1] = "row"
       /\ \A i \in DOMAIN w : w[i] \in Open <=> w[i][1] = "row" /\ w[i][3] = "Open"
  <2>1. \A i \in DOMAIN w : w[i] \in V BY <1>11
  <2> QED BY <2>1
<1> HIDE DEF Hosts, Rows, Open
<1>18. Cardinality(Kinds(w, "host")) = total_hosts(s)
  <2>1. Kinds(w, "host") = Where(w, Hosts) BY <1>17 DEF Kinds, Where
  <2> DEFINE ones == [i \in 1 .. Len(hosts) |-> 1]
  <2>2. Count(body, Hosts) = Total(ones)
    <3>1. DOMAIN ones = DOMAIN blocks /\ ones = [i \in DOMAIN ones |-> ones[i]]
          /\ \A i \in DOMAIN blocks : Count(blocks[i], Hosts) = ones[i]
      BY <1>4, <1>16
    <3> HIDE DEF ones
    <3> QED BY <1>7, <3>1, CountBlocks DEF body
  <2>3. Total(ones) = Len(hosts) BY <1>4, TotalOnes
  <2> QED BY <1>14, <1>15, <2>1, <2>2, <2>3 DEF Count, total_hosts, hosts
<1>19. Cardinality(Kinds(w, "row")) = total_ports(s)
  <2>1. Kinds(w, "row") = Where(w, Rows) BY <1>17 DEF Kinds, Where
  <2> DEFINE sizes == [i \in DOMAIN hosts |-> HostPorts(hosts[i])]
  <2>2. Count(body, Rows) = Total(sizes)
    <3>1. DOMAIN sizes = DOMAIN blocks /\ sizes = [i \in DOMAIN sizes |-> sizes[i]]
          /\ \A i \in DOMAIN blocks : Count(blocks[i], Rows) = sizes[i]
      BY <1>4, <1>16
    <3> HIDE DEF sizes
    <3> QED BY <1>7, <3>1, CountBlocks DEF body
  <2>3. Total(sizes) = total_ports(s) BY DEF total_ports, SumOf, hosts
  <2> QED BY <1>14, <1>15, <2>1, <2>2, <2>3 DEF Count
<1>20. Cardinality({i \in Kinds(w, "row") : w[i][3] = "Open"}) = total_open_ports(s)
  <2>1. {i \in Kinds(w, "row") : w[i][3] = "Open"} = Where(w, Open) BY <1>17 DEF Kinds, Where
  <2> DEFINE opens == [i \in DOMAIN hosts |-> open_ports(hosts[i])]
  <2>2. Count(body, Open) = Total(opens)
    <3>1. DOMAIN opens = DOMAIN blocks /\ opens = [i \in DOMAIN opens |-> opens[i]]
          /\ \A i \in DOMAIN blocks : Count(blocks[i], Open) = opens[i]
      BY <1>4, <1>16
    <3> HIDE DEF opens
    <3> QED BY <1>7, <3>1, CountBlocks DEF body
  <2>3. Total(opens) = total_open_ports(s) BY DEF total_open_ports, SumOf, hosts
  <2> QED BY <1>14, <1>15, <2>1, <2>2, <2>3 DEF Count
<1>21. /\ w[n - 2] = figures[1] /\ w[n - 1] = figures[2] /\ w[n] = figures[3]
  <2>1. n - 2 = m + 2 /\ n - 1 = m + 3 /\ n = m + 4 BY <1>10, <1>11
  <2> QED BY <1>11, <2>1
<1> QED BY <1>2, <1>13, <1>18, <1>19, <1>20, <1>21 DEF OpenRows

(* The total of what is one or nothing counts the ones.                    *)
LEMMA CountIsTotal ==
  ASSUME NEW V, NEW s \in Seq(V), NEW S
  PROVE  Count(s, S) = Total([i \in DOMAIN s |-> IF s[i] \in S THEN 1 ELSE 0])
<1> DEFINE Ones(t) == [i \in DOMAIN t |-> IF t[i] \in S THEN 1 ELSE 0]
           T == {t \in Seq(V) : Count(t, S) = Total(Ones(t))}
<1>1. <<>> \in T
  <2>1. Ones(<<>>) = <<>> OBVIOUS
  <2>2. Count(<<>>, S) = 0 /\ Total(<<>>) = 0 BY CountNone, TotalNone
  <2> QED BY <2>1, <2>2
<1>2. ASSUME NEW t \in Seq(V), NEW x \in V, t \in T PROVE Append(t, x) \in T
  <2> DEFINE one == IF x \in S THEN 1 ELSE 0
  <2>1. Ones(Append(t, x)) = Append(Ones(t), one) /\ Ones(t) \in Seq(Nat) /\ one \in Nat
    OBVIOUS
  <2>2. Count(Append(t, x), S) = Count(t, S) + one BY CountStep
  <2>3. Count(t, S) = Total(Ones(t)) BY <1>2
  <2>4. Append(t, x) \in Seq(V) BY AppendType
  <2> HIDE DEF Ones, one
  <2>5. Total(Append(Ones(t), one)) = Total(Ones(t)) + one BY <2>1, TotalStep
  <2> QED BY <2>1, <2>2, <2>3, <2>4, <2>5
<1> HIDE DEF T
<1>3. s \in T BY <1>1, <1>2, SequenceInduct
<1> QED BY <1>3 DEF T

StateLines(Characters, Wanted) ==
  {<<"empty", "state", state, reason>> : state \in Wanted, reason \in Seq(Escaped(Characters))}

(* S has the lines that open a host, if at all, and those of the wanted    *)
(* states.                                                                 *)
Picks(S, Characters, host, Wanted) ==
  /\ Wanted \subseteq PortStates /\ host \in BOOLEAN
  /\ \A l \in XmlBody(Characters) :
       l \in S <=> (host /\ l = <<"begin", "host">>) \/ l \in StateLines(Characters, Wanted)

(* What is counted in the element of a port.                               *)
LEMMA CountXmlPort ==
  ASSUME NEW Characters, NEW S, NEW host, NEW Wanted, Picks(S, Characters, host, Wanted),
         NEW r \in PortResults(Characters)
  PROVE  Count(XmlPort(r), S) = IF r.state \in Wanted THEN 1 ELSE 0
<1> DEFINE text == escape_xml(r.reason)
           x == <<"begin", "port", r.port>>
           y == <<"empty", "state", r.state, text>>
           z == <<"end", "port">>
<1>1. r.port \in PortNumbers /\ r.state \in PortStates /\ r.reason \in Seq(Characters)
  BY DEF PortResults
<1>2. text \in Seq(Escaped(Characters)) BY <1>1, EscapeType
<1> HIDE DEF text
<1>3. x \in XmlBody(Characters) BY <1>1 DEF XmlBody
<1>4. y \in XmlBody(Characters) BY <1>1, <1>2 DEF XmlBody
<1>5. z \in XmlBody(Characters) BY TagsType DEF Tag
<1>6. x # <<"begin", "host">> /\ x \notin StateLines(Characters, Wanted)
  <2>1. x[2] = "port" OBVIOUS
  <2>2. \A l \in StateLines(Characters, Wanted) : l[2] = "state" BY DEF StateLines
  <2> QED BY <2>1, <2>2
<1>7. z # <<"begin", "host">> /\ z \notin StateLines(Characters, Wanted)
  <2>1. z[2] = "port" OBVIOUS
  <2>2. \A l \in StateLines(Characters, Wanted) : l[2] = "state" BY DEF StateLines
  <2> QED BY <2>1, <2>2
<1>8. y # <<"begin", "host">> /\ (y \in StateLines(Characters, Wanted) <=> r.state \in Wanted)
  <2>1. y[2] = "state" /\ y[3] = r.state OBVIOUS
  <2>2. \A l \in StateLines(Characters, Wanted) : l[3] \in Wanted BY DEF StateLines
  <2>3. r.state \in Wanted => y \in StateLines(Characters, Wanted) BY <1>2 DEF StateLines
  <2> QED BY <2>1, <2>2, <2>3
<1>9. XmlPort(r) = <<x, y, z>> BY DEF XmlPort, text
<1> HIDE DEF x, y, z
<1>10. x \notin S /\ z \notin S /\ (y \in S <=> r.state \in Wanted)
  BY <1>3, <1>4, <1>5, <1>6, <1>7, <1>8 DEF Picks
<1>11. Count(<<x, y, z>>, S)
         = (IF x \in S THEN 1 ELSE 0) + (IF y \in S THEN 1 ELSE 0) + (IF z \in S THEN 1 ELSE 0)
  BY CountThree
<1> QED BY <1>9, <1>10, <1>11

HasState(Characters, Wanted) == {r \in PortResults(Characters) : r.state \in Wanted}

(* What is counted in the elements of the ports of a host.                 *)
LEMMA CountXmlPorts ==
  ASSUME NEW Characters, NEW S, NEW host, NEW Wanted, Picks(S, Characters, host, Wanted),
         NEW h \in HostResults(Characters)
  PROVE  /\ Count(EachOf(XmlPort, h.ports), S) = Count(h.ports, HasState(Characters, Wanted))
         /\ Count(h.ports, HasState(Characters, Wanted)) \in Nat
<1> DEFINE P == HasState(Characters, Wanted)
           R == PortResults(Characters)
           ports == h.ports
           blocks == PortBlocks(h)
           ones == [i \in DOMAIN ports |-> IF ports[i] \in P THEN 1 ELSE 0]
           V == XmlBody(Characters)
<1>1. ports \in Seq(R) BY DEF HostResults
<1>2. blocks \in Seq(Seq(V)) /\ EachOf(XmlPort, h.ports) = FlattenSeq(blocks)
  BY XmlPortsType
<1>3. DOMAIN blocks = DOMAIN ports /\ \A i \in DOMAIN ports : blocks[i] = XmlPort(ports[i])
  BY DEF PortBlocks
<1>4. ASSUME NEW i \in DOMAIN ports PROVE Count(blocks[i], S) = ones[i]
  <2>1. ports[i] \in R BY <1>1
  <2>2. ports[i] \in P <=> ports[i].state \in Wanted BY <2>1 DEF HasState
  <2>3. Count(XmlPort(ports[i]), S) = IF ports[i].state \in Wanted THEN 1 ELSE 0
    <3> DEFINE r == ports[i]
    <3>1. r \in PortResults(Characters) BY <2>1
    <3> HIDE DEF r, R
    <3>2. Count(XmlPort(r), S) = IF r.state \in Wanted THEN 1 ELSE 0 BY <3>1, CountXmlPort
    <3> QED BY <3>2 DEF r
  <2> HIDE DEF P, R, ports, blocks
  <2> QED BY <1>3, <2>2, <2>3
<1>5. Count(ports, P) \in Nat /\ Count(ports, P) = Total(ones)
  <2> HIDE DEF P, R, ports
  <2>1. Count(ports, P) \in Nat BY <1>1, CountConcat
  <2> QED BY <1>1, <2>1, CountIsTotal
<1>6. DOMAIN ones = DOMAIN blocks /\ ones = [i \in DOMAIN ones |-> ones[i]] BY <1>3
<1> HIDE DEF P, R, ports, blocks, ones, V
<1>7. Count(FlattenSeq(blocks), S) = Total(ones)
  BY <1>2, <1>3, <1>4, <1>6, CountBlocks
<1> QED BY <1>2, <1>5, <1>7 DEF P, ports

(* What is counted in the element of a host.                               *)
LEMMA CountXmlHost ==
  ASSUME NEW Characters, NEW S, NEW host, NEW Wanted, Picks(S, Characters, host, Wanted),
         NEW h \in HostResults(Characters)
  PROVE  Count(XmlHost(h), S)
           = (IF host THEN 1 ELSE 0) + Count(h.ports, HasState(Characters, Wanted))
<1> DEFINE V == XmlBody(Characters)
           P == HasState(Characters, Wanted)
           opening == <<"begin", "host">>
           address == AddressLine(h)
           closing == <<"end", "host">>
           listing == <<"begin", "ports">>
           listed == <<"end", "ports">>
           ports == EachOf(XmlPort, h.ports)
           head == <<opening, address>>
           last == <<closing>>
           body == XmlPorts(h)
<1>1. /\ opening \in V /\ closing \in V /\ listing \in V /\ listed \in V
  BY TagsType DEF Tag
<1>2. address \in V
  <2>1. escape_xml(h.host) \in Seq(Escaped(Characters)) BY EscapeType DEF HostResults
  <2> QED BY <2>1 DEF AddressLine, XmlBody
<1>3. /\ opening \in S <=> host
      /\ address \notin S /\ closing \notin S /\ listing \notin S /\ listed \notin S
  <2>1. \A l \in StateLines(Characters, Wanted) : l[2] = "state" BY DEF StateLines
  <2>2. /\ opening[2] = "host" /\ closing[1] = "end" /\ closing[2] = "host"
        /\ listing[2] = "ports" /\ listed[2] = "ports"
    OBVIOUS
  <2>3. address[2] = "address" BY DEF AddressLine
  <2> DEFINE named == <<"begin", "host">>
  <2>4. /\ address # named /\ closing # named /\ listing # named /\ listed # named
    <3>1. named[1] = "begin" /\ named[2] = "host" OBVIOUS
    <3> HIDE DEF named, address, closing, listing, listed
    <3> QED BY <2>2, <2>3, <3>1
  <2>5. opening = named OBVIOUS
  <2>6. \A l \in V : l \in S <=> (host /\ l = named) \/ l \in StateLines(Characters, Wanted)
    BY DEF Picks
  <2>7. host \in BOOLEAN BY DEF Picks
  <2> HIDE DEF named, address, closing, listing, listed, opening, V
  <2> QED BY <1>1, <1>2, <2>1, <2>2, <2>3, <2>4, <2>5, <2>6, <2>7
<1>4. ports \in Seq(V) BY XmlPortsType, FlattenType
<1>5. Count(ports, S) = Count(h.ports, P) /\ Count(h.ports, P) \in Nat BY CountXmlPorts
<1>6. body = IF h.ports = <<>> THEN <<>> ELSE <<listing>> \o ports \o <<listed>>
  BY DEF XmlPorts
<1>7. body \in Seq(V) BY XmlPortsType
<1>8. XmlHost(h) = head \o body \o last BY DEF XmlHost, AddressLine
<1>9. head \in Seq(V) /\ last \in Seq(V) BY <1>1, <1>2
<1>10. Append(<<opening>>, address) = head BY TuplesAppended
<1>11. Count(head, S) = IF host THEN 1 ELSE 0
  <2> DEFINE one == <<opening>>
  <2>1. Count(one, S) = IF opening \in S THEN 1 ELSE 0 BY CountOne
  <2>2. one \in Seq(V) BY <1>1
  <2>3. Append(one, address) = head BY <1>10
  <2> HIDE DEF one, head, V, address, opening
  <2>4. Count(head, S) = Count(one, S) + (IF address \in S THEN 1 ELSE 0)
    BY <1>2, <2>2, <2>3, CountStep
  <2> QED BY <1>3, <2>1, <2>4
<1>12. Count(last, S) = 0 BY <1>3, CountOne
<1> HIDE DEF V, P, opening, address, closing, listing, listed, ports, head, last
<1>13. Count(body, S) = Count(h.ports, P)
  <2>1. CASE h.ports = <<>>
    <3>1. Count(body, S) = 0 /\ Count(h.ports, P) = 0 BY <1>6, <2>1, CountNone
    <3> QED BY <3>1
  <2>2. CASE h.ports # <<>>
    <3> DEFINE first == <<listing>>
               final == <<listed>>
               some == first \o ports
    <3>1. first \in Seq(V) /\ final \in Seq(V) BY <1>1
    <3>2. Count(first, S) = 0 /\ Count(final, S) = 0 BY <1>3, CountOne
    <3>3. body = some \o final BY <1>6, <2>2
    <3> HIDE DEF first, final, body
    <3>4. some \in Seq(V) BY <1>4, <3>1, ConcatProperties
    <3>5. Count(some, S) = Count(first, S) + Count(ports, S) BY <1>4, <3>1, CountConcat
    <3> HIDE DEF some
    <3>6. Count(some \o final, S) = Count(some, S) + Count(final, S) BY <3>1, <3>4, CountConcat
    <3> QED BY <1>5, <3>2, <3>3, <3>5, <3>6
  <2> QED BY <2>1, <2>2
<1> HIDE DEF body
<1> DEFINE most == head \o body
<1>14. most \in Seq(V) BY <1>7, <1>9, ConcatProperties
<1>15. Count(most, S) = Count(head, S) + Count(body, S) BY <1>7, <1>9, CountConcat
<1>16. XmlHost(h) = most \o last BY <1>8
<1> HIDE DEF most
<1>17. Count(most \o last, S) = Count(most, S) + Count(last, S) BY <1>9, <1>14, CountConcat
<1> QED BY <1>5, <1>11, <1>12, <1>13, <1>15, <1>16, <1>17 DEF P

(* What is to be counted in the element of each host.                      *)
HostCounts(numbers, s, Characters, host, Wanted) ==
  /\ DOMAIN numbers = DOMAIN s.hosts /\ numbers = [i \in DOMAIN numbers |-> numbers[i]]
  /\ \A i \in DOMAIN s.hosts :
       numbers[i] = (IF host THEN 1 ELSE 0)
                    + Count(s.hosts[i].ports, HasState(Characters, Wanted))

(* What is counted in the elements of the hosts.                           *)
LEMMA CountXmlHosts ==
  ASSUME NEW Lists, NEW Characters, NEW s \in SummariesOf(Lists, Characters),
         NEW S, NEW host, NEW Wanted, Picks(S, Characters, host, Wanted),
         NEW numbers, HostCounts(numbers, s, Characters, host, Wanted)
  PROVE  Count(EachOf(XmlHost, s.hosts), S) = Total(numbers)
<1> DEFINE blocks == HostBlocks(s)
           hosts == s.hosts
           V == XmlBody(Characters)
<1>1. hosts \in Seq(HostResults(Characters)) BY DEF SummariesOf
<1>2. blocks \in Seq(Seq(V)) /\ EachOf(XmlHost, s.hosts) = FlattenSeq(blocks)
  BY XmlHostsType
<1>3. DOMAIN blocks = DOMAIN hosts /\ \A i \in DOMAIN hosts : blocks[i] = XmlHost(hosts[i])
  BY DEF HostBlocks
<1>4. ASSUME NEW i \in DOMAIN hosts PROVE Count(blocks[i], S) = numbers[i]
  <2> DEFINE h == hosts[i]
  <2>1. h \in HostResults(Characters) /\ blocks[i] = XmlHost(h) BY <1>1, <1>3
  <2>2. numbers[i] = (IF host THEN 1 ELSE 0) + Count(h.ports, HasState(Characters, Wanted))
    BY DEF HostCounts
  <2> HIDE DEF h, blocks
  <2>3. Count(XmlHost(h), S)
          = (IF host THEN 1 ELSE 0) + Count(h.ports, HasState(Characters, Wanted))
    BY <2>1, CountXmlHost
  <2> QED BY <2>1, <2>2, <2>3
<1> HIDE DEF blocks, hosts, V
<1>5. DOMAIN numbers = DOMAIN blocks BY <1>3 DEF hosts, HostCounts
<1>6. /\ \A i \in DOMAIN blocks : Count(blocks[i], S) = numbers[i]
      /\ numbers = [i \in DOMAIN numbers |-> numbers[i]]
  BY <1>3, <1>4 DEF HostCounts
<1>7. Count(FlattenSeq(blocks), S) = Total(numbers) BY <1>2, <1>5, <1>6, CountBlocks
<1> QED BY <1>2, <1>7

(* All results of a host have a state; those of one state are counted.     *)
LEMMA CountWanted ==
  ASSUME NEW Characters, NEW h \in HostResults(Characters)
  PROVE  /\ Count(h.ports, HasState(Characters, {})) = 0
         /\ Count(h.ports, HasState(Characters, PortStates)) = HostPorts(h)
         /\ \A state \in PortStates :
              Count(h.ports, HasState(Characters, {state})) = count_by_state(h, state)
         /\ HostPorts(h) \in Nat
<1> DEFINE R == PortResults(Characters)
           ports == h.ports
<1>1. ports \in Seq(R) /\ Len(ports) \in Nat BY DEF HostResults
<1>2. \A r \in R : r \notin HasState(Characters, {}) /\ r \in HasState(Characters, PortStates)
  BY DEF HasState, PortResults
<1>3. \A i \in DOMAIN ports : ports[i] \in R
  <2> HIDE DEF R
  <2> QED BY <1>1
<1> HIDE DEF R, ports
<1>4. Count(ports, HasState(Characters, {})) = 0 BY <1>1, <1>2, <1>3, CountUniform
<1>5. Count(ports, HasState(Characters, PortStates)) = Len(ports)
  BY <1>1, <1>2, <1>3, CountUniform
<1>6. ASSUME NEW state \in PortStates
      PROVE  Count(ports, HasState(Characters, {state})) = count_by_state(h, state)
  <2>1. HasState(Characters, {state}) = {r \in PortResults(Characters) : r.state = state}
    BY DEF HasState
  <2>2. count_by_state(h, state) = Count(h.ports, {r \in PortResults(Characters) : r.state = state})
    BY CountByState, Zenon
  <2> QED BY <2>1, <2>2, Zenon DEF ports
<1> QED BY <1>1, <1>4, <1>5, <1>6 DEF ports, HostPorts

(* The figures that XML reports are those of its own elements.             *)
LEMMA HostElementFigures ==
  ASSUME NEW Lists, NEW Characters, NEW s \in SummariesOf(Lists, Characters), NEW S
  PROVE  LET found == Count(EachOf(XmlHost, s.hosts), S) IN
         /\ Picks(S, Characters, TRUE, {}) => found = total_hosts(s)
         /\ Picks(S, Characters, FALSE, PortStates) => found = total_ports(s)
         /\ \A state \in PortStates :
              Picks(S, Characters, FALSE, {state})
                => found = Total([i \in DOMAIN s.hosts |-> count_by_state(s.hosts[i], state)])
<1> DEFINE hosts == s.hosts
           n == Len(hosts)
           found == Count(EachOf(XmlHost, s.hosts), S)
<1>1. hosts \in Seq(HostResults(Characters)) /\ n \in Nat /\ DOMAIN hosts = 1 .. n
  BY DEF SummariesOf
<1>2. ASSUME NEW i \in DOMAIN hosts
      PROVE  /\ Count(hosts[i].ports, HasState(Characters, {})) = 0
             /\ Count(hosts[i].ports, HasState(Characters, PortStates)) = HostPorts(hosts[i])
             /\ \A state \in PortStates :
                  /\ Count(hosts[i].ports, HasState(Characters, {state}))
                       = count_by_state(hosts[i], state)
                  /\ count_by_state(hosts[i], state) \in Nat
             /\ HostPorts(hosts[i]) \in Nat
  <2> DEFINE h == hosts[i]
  <2>1. h \in HostResults(Characters) BY <1>1
  <2> HIDE DEF h
  <2>2. /\ Count(h.ports, HasState(Characters, {})) = 0
        /\ Count(h.ports, HasState(Characters, PortStates)) = HostPorts(h)
        /\ \A state \in PortStates :
             Count(h.ports, HasState(Characters, {state})) = count_by_state(h, state)
        /\ HostPorts(h) \in Nat
    BY <2>1, CountWanted
  <2>3. \A state \in PortStates : count_by_state(h, state) \in Nat BY <2>1, CountByState
  <2> QED BY <2>2, <2>3 DEF h
<1>3. ASSUME Picks(S, Characters, TRUE, {}) PROVE found = total_hosts(s)
  <2> DEFINE ones == [i \in 1 .. n |-> 1]
  <2>1. Total(ones) = n BY <1>1, TotalOnes
  <2>2. DOMAIN ones = DOMAIN hosts /\ ones = [i \in DOMAIN ones |-> ones[i]]
        /\ \A i \in DOMAIN hosts :
             ones[i] = (IF TRUE THEN 1 ELSE 0) + Count(hosts[i].ports, HasState(Characters, {}))
    BY <1>1, <1>2
  <2> DEFINE W == {}
  <2>3. Picks(S, Characters, TRUE, W) /\ HostCounts(ones, s, Characters, TRUE, W)
    BY <1>3, <2>2 DEF HostCounts
  <2> HIDE DEF ones, W
  <2>4. found = Total(ones) BY <2>3, CountXmlHosts, ZenonT(40)
  <2> QED BY <2>1, <2>4 DEF total_hosts
<1>4. ASSUME Picks(S, Characters, FALSE, PortStates) PROVE found = total_ports(s)
  <2> DEFINE sizes == [i \in DOMAIN hosts |-> HostPorts(hosts[i])]
  <2>1. DOMAIN sizes = DOMAIN hosts /\ sizes = [i \in DOMAIN sizes |-> sizes[i]]
        /\ \A i \in DOMAIN hosts :
             sizes[i] = (IF FALSE THEN 1 ELSE 0)
                        + Count(hosts[i].ports, HasState(Characters, PortStates))
    BY <1>2
  <2>2. Total(sizes) = total_ports(s) BY DEF total_ports, SumOf
  <2>0. Picks(S, Characters, FALSE, PortStates) /\ HostCounts(sizes, s, Characters, FALSE, PortStates)
    BY <1>4, <2>1 DEF HostCounts
  <2> HIDE DEF sizes
  <2>3. found = Total(sizes) BY <2>0, CountXmlHosts, ZenonT(40)
  <2> QED BY <2>2, <2>3
<1>5. ASSUME NEW state \in PortStates, Picks(S, Characters, FALSE, {state})
      PROVE  found = Total([i \in DOMAIN hosts |-> count_by_state(hosts[i], state)])
  <2> DEFINE counts == [i \in DOMAIN hosts |-> count_by_state(hosts[i], state)]
  <2>1. DOMAIN counts = DOMAIN hosts /\ counts = [i \in DOMAIN counts |-> counts[i]]
        /\ \A i \in DOMAIN hosts :
             counts[i] = (IF FALSE THEN 1 ELSE 0)
                         + Count(hosts[i].ports, HasState(Characters, {state}))
    BY <1>2
  <2>0. HostCounts(counts, s, Characters, FALSE, {state}) BY <2>1 DEF HostCounts
  <2> HIDE DEF counts
  <2> DEFINE W == {state}
  <2>2. Picks(S, Characters, FALSE, W) /\ HostCounts(counts, s, Characters, FALSE, W)
    BY <1>5, <2>0
  <2> HIDE DEF W
  <2>3. found = Total(counts) BY <2>2, CountXmlHosts, ZenonT(40)
  <2> QED BY <2>3 DEF counts
<1> QED BY <1>3, <1>4, <1>5

ConfigLine(s) == <<"empty", "scaninfo", s.config[1]>>
FiguresLine(s) == <<"empty", "runstats", runstats(s)>>
XmlHead(s) == << <<"begin", "asioscan">> >> \o scaninfo(s)
XmlTail(s) == <<FiguresLine(s), <<"end", "asioscan">> >>
XmlAll(s, Characters) == XmlBody(Characters) \cup {ConfigLine(s), FiguresLine(s)}

(* The second field of the lines of hosts and of ports.                    *)
LEMMA XmlBodyNames ==
  ASSUME NEW Characters, NEW l \in XmlBody(Characters)
  PROVE  l[2] \in {"asioscan", "host", "ports", "port", "address", "state"}
<1>1. CASE l \in Tags BY <1>1 DEF Tags, Tag
<1>2. CASE l \in {<<"begin", "port", p>> : p \in PortNumbers} BY <1>2
<1>3. CASE l \in {<<"empty", "address", name>> : name \in Seq(Escaped(Characters))} BY <1>3
<1>4. CASE l \in {<<"empty", "state", state, reason>> :
                    state \in PortStates, reason \in Seq(Escaped(Characters))}
  BY <1>4
<1> QED BY <1>1, <1>2, <1>3, <1>4 DEF XmlBody

(* The parts of an XML report.                                             *)
LEMMA XmlShape ==
  ASSUME NEW Lists, NEW Characters, NEW s \in SummariesOf(Lists, Characters)
  PROVE  /\ XmlLines(s) = (XmlHead(s) \o EachOf(XmlHost, s.hosts)) \o XmlTail(s)
         /\ XmlHead(s) \in Seq(XmlAll(s, Characters))
         /\ EachOf(XmlHost, s.hosts) \in Seq(XmlAll(s, Characters))
         /\ EachOf(XmlHost, s.hosts) \in Seq(XmlBody(Characters))
         /\ XmlTail(s) \in Seq(XmlAll(s, Characters))
         /\ Len(XmlHead(s)) \in Nat \ {0} /\ XmlHead(s)[1] = <<"begin", "asioscan">>
         /\ XmlHead(s) = << <<"begin", "asioscan">> >>
            \/ XmlHead(s) = << <<"begin", "asioscan">>, ConfigLine(s)>>
         /\ \A i \in 1 .. Len(XmlHead(s)) : XmlHead(s)[i][2] \in {"asioscan", "scaninfo"}
         /\ Len(XmlTail(s)) = 2 /\ XmlTail(s)[1] = FiguresLine(s)
         /\ XmlTail(s)[2] = <<"end", "asioscan">>
<1> DEFINE root == <<"begin", "asioscan">>
           ended == <<"end", "asioscan">>
           config == ConfigLine(s)
           figures == FiguresLine(s)
           hosts == EachOf(XmlHost, s.hosts)
           V == XmlAll(s, Characters)
<1>1. XmlBody(Characters) \subseteq V /\ config \in V /\ figures \in V BY DEF XmlAll
<1>2. root \in V /\ ended \in V
  <2>1. root \in XmlBody(Characters) /\ ended \in XmlBody(Characters) BY TagsType DEF Tag
  <2> QED BY <1>1, <2>1
<1>3. config[2] = "scaninfo" /\ root[2] = "asioscan" BY DEF ConfigLine
<1>4. hosts \in Seq(XmlBody(Characters)) BY XmlHostsType
<1>5. XmlLines(s) = (XmlHead(s) \o hosts) \o XmlTail(s)
  BY DEF XmlLines, XmlHead, XmlTail, FiguresLine
<1>6. scaninfo(s) = <<>> \/ scaninfo(s) = <<config>> BY DEF scaninfo, ConfigLine
<1>7. XmlTail(s) = <<figures, ended>> BY DEF XmlTail
<1>8. XmlHead(s) = <<root>> \o scaninfo(s) BY DEF XmlHead
<1> HIDE DEF root, ended, config, figures, hosts, V
<1>9. hosts \in Seq(V) BY <1>1, <1>4, LargerSet
<1>10. XmlHead(s) = <<root>> \/ XmlHead(s) = <<root, config>>
  <2>1. CASE scaninfo(s) = <<>>
    <3>1. <<root>> \o <<>> = <<root>> BY <1>2, ConcatEmptySeq
    <3> QED BY <1>8, <2>1, <3>1
  <2>2. CASE scaninfo(s) = <<config>>
    <3> DEFINE one == <<root>>
    <3>1. one \in Seq(V) BY <1>2
    <3>2. Append(one, config) = <<root, config>> BY TuplesAppended
    <3>3. Append(one, config) = one \o <<config>>
      <4> HIDE DEF one
      <4> QED BY <1>1, <3>1, AppendIsConcat
    <3> QED BY <1>8, <2>2, <3>2, <3>3
  <2> QED BY <1>6, <2>1, <2>2
<1>11. XmlTail(s) \in Seq(V) /\ Len(XmlTail(s)) = 2 /\ XmlTail(s)[1] = figures /\ XmlTail(s)[2] = ended
  BY <1>1, <1>2, <1>7
<1>12. /\ XmlHead(s) \in Seq(V) /\ Len(XmlHead(s)) \in Nat \ {0} /\ XmlHead(s)[1] = root
       /\ \A i \in 1 .. Len(XmlHead(s)) : XmlHead(s)[i][2] \in {"asioscan", "scaninfo"}
  <2>1. CASE XmlHead(s) = <<root>> BY <1>2, <1>3, <2>1
  <2>2. CASE XmlHead(s) = <<root, config>>
    <3> DEFINE two == <<root, config>>
    <3>1. two \in Seq(V) /\ Len(two) = 2 /\ two[1] = root /\ two[2] = config BY <1>1, <1>2
    <3>2. XmlHead(s) = two BY <2>2
    <3> HIDE DEF two
    <3>3. \A i \in 1 .. 2 : two[i][2] \in {"asioscan", "scaninfo"}
      <4> TAKE i \in 1 .. 2
      <4>1. i = 1 \/ i = 2 OBVIOUS
      <4>2. two[1][2] = "asioscan" /\ two[2][2] = "scaninfo" BY <1>3, <3>1
      <4> QED BY <4>1, <4>2
    <3>4. Len(two) \in Nat \ {0} BY <3>1
    <3>5. \A i \in 1 .. Len(two) : two[i][2] \in {"asioscan", "scaninfo"} BY <3>1, <3>3
    <3> QED BY <3>1, <3>2, <3>4, <3>5, Zenon
  <2> QED BY <1>10, <2>1, <2>2
<1> QED BY <1>4, <1>5, <1>9, <1>10, <1>11, <1>12 DEF root, ended, config, figures, hosts, V

(* The lines of an XML report that are not end tags, by name.              *)
Opened(w, name) == {i \in DOMAIN w : w[i][1] # "end" /\ w[i][2] = name}
WithName(s, Characters, name) == {l \in XmlAll(s, Characters) : l[1] # "end" /\ l[2] = name}
WithState(s, Characters, state) ==
  {l \in XmlAll(s, Characters) : (l[1] # "end" /\ l[2] = "state") /\ l[3] = state}

(* What these sets pick from the elements of the hosts.                    *)
LEMMA PickedByName ==
  ASSUME NEW s, NEW Characters
  PROVE  /\ Picks(WithName(s, Characters, "host"), Characters, TRUE, {})
         /\ Picks(WithName(s, Characters, "state"), Characters, FALSE, PortStates)
         /\ \A state \in PortStates :
              Picks(WithState(s, Characters, state), Characters, FALSE, {state})
<1> DEFINE States(W) == StateLines(Characters, W)
<1>1. \A l \in XmlBody(Characters) : l \in XmlAll(s, Characters) BY DEF XmlAll
<1>2. ASSUME NEW l \in XmlBody(Characters)
      PROVE  /\ l[1] # "end" /\ l[2] = "host" <=> l = <<"begin", "host">>
             /\ l[1] # "end" /\ l[2] = "state" <=> l \in StateLines(Characters, PortStates)
             /\ \A state \in PortStates :
                  (l[1] # "end" /\ l[2] = "state") /\ l[3] = state
                    <=> l \in StateLines(Characters, {state})
             /\ l \notin StateLines(Characters, {})
  <2>0. l \notin StateLines(Characters, {}) BY DEF StateLines
  <2>a. \A W : \A x \in StateLines(Characters, W) :
          x[2] = "state" /\ x[1] = "empty" /\ x[3] \in W
    BY DEF StateLines
  <2>1. CASE l \in Tags
    <3>1. PICK kind \in {"begin", "end"}, name \in {"asioscan", "host", "ports", "port"} :
            l = <<kind, name>>
      BY <2>1 DEF Tags, Tag
    <3>2. l[2] # "state" BY <3>1
    <3>3. l[1] # "end" /\ l[2] = "host" <=> l = <<"begin", "host">>
      BY <3>1
    <3> QED BY <2>0, <2>a, <3>2, <3>3
  <2>2. CASE l \in {<<"begin", "port", p>> : p \in PortNumbers}
    <3>1. l[2] = "port" BY <2>2
    <3>2. l # <<"begin", "host">> BY <2>2
    <3> QED BY <2>0, <2>a, <3>1, <3>2
  <2>3. CASE l \in {<<"empty", "address", name>> : name \in Seq(Escaped(Characters))}
    <3>1. l[2] = "address" BY <2>3
    <3>2. l # <<"begin", "host">> BY <2>3
    <3> QED BY <2>0, <2>a, <3>1, <3>2
  <2>4. CASE l \in {<<"empty", "state", state, reason>> :
                      state \in PortStates, reason \in Seq(Escaped(Characters))}
    <3>1. PICK state \in PortStates, reason \in Seq(Escaped(Characters)) :
            l = <<"empty", "state", state, reason>>
      BY <2>4
    <3>2. l[1] = "empty" /\ l[2] = "state" /\ l[3] = state BY <3>1
    <3>3. l # <<"begin", "host">> BY <3>2
    <3>4. \A W : state \in W => l \in StateLines(Characters, W) BY <3>1 DEF StateLines
    <3> QED BY <2>0, <2>a, <3>2, <3>3, <3>4
  <2> QED BY <2>1, <2>2, <2>3, <2>4 DEF XmlBody
<1>3. Picks(WithName(s, Characters, "host"), Characters, TRUE, {})
  BY <1>1, <1>2 DEF Picks, WithName
<1>4. Picks(WithName(s, Characters, "state"), Characters, FALSE, PortStates)
  BY <1>1, <1>2 DEF Picks, WithName
<1>5. ASSUME NEW state \in PortStates
      PROVE  Picks(WithState(s, Characters, state), Characters, FALSE, {state})
  BY <1>1, <1>2 DEF Picks, WithState
<1> QED BY <1>3, <1>4, <1>5

(* What the report counts in a sequence of three parts.                    *)
LEMMA CountThreeParts ==
  ASSUME NEW V, NEW a \in Seq(V), NEW b \in Seq(V), NEW c \in Seq(V), NEW S,
         \A i \in 1 .. Len(a) : a[i] \notin S, \A i \in 1 .. Len(c) : c[i] \notin S
  PROVE  Count((a \o b) \o c, S) = Count(b, S)
<1>1. Count(a, S) = 0 /\ Count(c, S) = 0 BY CountUniform
<1> DEFINE some == a \o b
<1>2. some \in Seq(V) BY ConcatProperties
<1>3. Count(some, S) = Count(a, S) + Count(b, S) /\ Count(b, S) \in Nat BY CountConcat
<1> HIDE DEF some
<1>4. Count(some \o c, S) = Count(some, S) + Count(c, S) BY <1>2, CountConcat
<1> QED BY <1>1, <1>3, <1>4 DEF some

(* The places of the three parts.                                          *)
LEMMA ThreeParts ==
  ASSUME NEW V, NEW a \in Seq(V), NEW b \in Seq(V), NEW c \in Seq(V), NEW w,
         w = (a \o b) \o c
  PROVE  /\ w \in Seq(V) /\ Len(w) = Len(a) + Len(b) + Len(c)
         /\ Len(a) \in Nat /\ Len(b) \in Nat /\ Len(c) \in Nat
         /\ \A i \in 1 .. Len(w) :
              w[i] = IF i <= Len(a) THEN a[i]
                     ELSE IF i <= Len(a) + Len(b) THEN b[i - Len(a)]
                     ELSE c[i - (Len(a) + Len(b))]
<1> DEFINE some == a \o b
<1>1. some \in Seq(V) /\ Len(some) = Len(a) + Len(b) BY ConcatProperties
<1>2. some = [i \in 1 .. (Len(a) + Len(b)) |-> IF i <= Len(a) THEN a[i] ELSE b[i - Len(a)]]
  BY ConcatIs
<1> HIDE DEF some
<1>3. w \in Seq(V) /\ Len(w) = Len(some) + Len(c) BY <1>1, ConcatProperties DEF some
<1>4. w = [i \in 1 .. (Len(some) + Len(c)) |->
             IF i <= Len(some) THEN some[i] ELSE c[i - Len(some)]]
  BY <1>1, ConcatIs DEF some
<1>5. Len(a) \in Nat /\ Len(b) \in Nat /\ Len(c) \in Nat OBVIOUS
<1>6. \A i \in 1 .. Len(w) : w[i] = IF i <= Len(some) THEN some[i] ELSE c[i - Len(some)]
  BY <1>3, <1>4
<1>7. \A i \in 1 .. Len(some) : some[i] = IF i <= Len(a) THEN a[i] ELSE b[i - Len(a)]
  BY <1>1, <1>2
<1> QED BY <1>1, <1>3, <1>5, <1>6, <1>7

States(w, state) == {i \in Opened(w, "state") : w[i][3] = state}

(* The figures at the end of an XML report count its own elements.         *)
LEMMA XmlStatistics ==
  ASSUME NEW Lists, NEW Characters, NEW s \in SummariesOf(Lists, Characters), NEW w, NEW n,
         w = XmlLines(s), n = Len(w), NEW stats, stats = runstats(s)
  PROVE  /\ Opened(w, "runstats") = {n - 1} /\ w[n - 1][3] = stats
         /\ stats.total = Cardinality(Opened(w, "host"))
         /\ stats.ports = Cardinality(Opened(w, "state"))
         /\ stats.open = Cardinality(States(w, "Open"))
         /\ stats.closed = Cardinality(States(w, "Closed"))
         /\ stats.filtered = Cardinality(States(w, "Filtered"))
<1> DEFINE V == XmlAll(s, Characters)
           head == XmlHead(s)
           body == EachOf(XmlHost, s.hosts)
           tail == XmlTail(s)
           a == Len(head)
           b == Len(body)
<1>1. /\ w = (head \o body) \o tail /\ head \in Seq(V) /\ body \in Seq(V) /\ tail \in Seq(V)
      /\ body \in Seq(XmlBody(Characters))
      /\ a \in Nat \ {0} /\ \A i \in 1 .. a : head[i][2] \in {"asioscan", "scaninfo"}
      /\ Len(tail) = 2 /\ tail[1] = FiguresLine(s) /\ tail[2] = <<"end", "asioscan">>
  BY XmlShape
<1> HIDE DEF V, head, body, tail
<1>2. /\ w \in Seq(V) /\ n = a + b + 2 /\ a \in Nat /\ b \in Nat
      /\ \A i \in 1 .. n : w[i] = IF i <= a THEN head[i]
                                  ELSE IF i <= a + b THEN body[i - a] ELSE tail[i - (a + b)]
  <2>1. w = (head \o body) \o tail /\ head \in Seq(V) /\ body \in Seq(V) /\ tail \in Seq(V)
    BY <1>1
  <2>2. /\ w \in Seq(V) /\ Len(w) = Len(head) + Len(body) + Len(tail)
        /\ Len(head) \in Nat /\ Len(body) \in Nat
        /\ \A i \in 1 .. Len(w) :
             w[i] = IF i <= Len(head) THEN head[i]
                    ELSE IF i <= Len(head) + Len(body) THEN body[i - Len(head)]
                    ELSE tail[i - (Len(head) + Len(body))]
    BY <2>1, ThreeParts
  <2>3. Len(tail) = 2 BY <1>1
  <2> QED BY <2>2, <2>3
<1>3. DOMAIN w = 1 .. n
  <2>1. w \in Seq(V) BY <1>2
  <2> QED BY <2>1
<1>4. tail[1][1] = "empty" /\ tail[1][2] = "runstats" /\ tail[1][3] = stats
      /\ tail[2][1] = "end" /\ tail[2][2] = "asioscan"
  BY <1>1 DEF FiguresLine
<1>5. \A i \in 1 .. b : body[i][2] \in {"asioscan", "host", "ports", "port", "address", "state"}
  <2> TAKE i \in 1 .. b
  <2>1. body[i] \in XmlBody(Characters) BY <1>1
  <2> QED BY <2>1, XmlBodyNames
<1>6. w[n - 1] = tail[1] /\ w[n] = tail[2] /\ n - 1 \in 1 .. n
  <2>1. n - 1 \in 1 .. n /\ n \in 1 .. n /\ ~(n - 1 <= a + b) /\ ~(n - 1 <= a)
        /\ ~(n <= a + b) /\ ~(n <= a) /\ (n - 1) - (a + b) = 1 /\ n - (a + b) = 2
    BY <1>1, <1>2
  <2> HIDE DEF a, b
  <2> QED BY <1>2, <2>1
<1>7. Opened(w, "runstats") = {n - 1}
  <2>1. ASSUME NEW i \in 1 .. n PROVE w[i][1] # "end" /\ w[i][2] = "runstats" <=> i = n - 1
    <3>1. CASE i <= a
      <4>1. w[i] = head[i] /\ i \in 1 .. a BY <1>2, <3>1
      <4>2. i # n - 1 BY <1>2, <3>1
      <4> QED BY <1>1, <4>1, <4>2
    <3>2. CASE ~(i <= a) /\ i <= a + b
      <4>1. w[i] = body[i - a] /\ i - a \in 1 .. b BY <1>2, <3>2
      <4>2. i # n - 1 BY <1>2, <3>2
      <4>3. body[i - a][2] # "runstats" BY <1>5, <4>1
      <4> QED BY <4>1, <4>2, <4>3
    <3>3. CASE ~(i <= a + b)
      <4>1. i = n - 1 \/ i = n BY <1>2, <3>3
      <4>2. n # n - 1 BY <1>2
      <4> QED BY <1>4, <1>6, <4>1, <4>2
    <3> QED BY <3>1, <3>2, <3>3
  <2> QED BY <1>3, <1>6, <2>1 DEF Opened
<1>8. ASSUME NEW S, \A l \in S : l[1] # "end" /\ l[2] \in {"host", "state"}
      PROVE  Count(w, S) = Count(body, S)
  <2>1. \A i \in 1 .. Len(head) : head[i] \notin S BY <1>1, <1>8
  <2>2. \A i \in 1 .. Len(tail) : tail[i] \notin S
    <3> TAKE i \in 1 .. Len(tail)
    <3>1. i = 1 \/ i = 2 BY <1>1
    <3>2. tail[1] \notin S BY <1>4, <1>8
    <3>3. tail[2] \notin S BY <1>4, <1>8
    <3> QED BY <3>1, <3>2, <3>3
  <2>3. w = (head \o body) \o tail /\ head \in Seq(V) /\ body \in Seq(V) /\ tail \in Seq(V)
    BY <1>1
  <2>4. Count((head \o body) \o tail, S) = Count(body, S)
    BY <2>1, <2>2, <2>3, CountThreeParts
  <2> QED BY <2>3, <2>4
<1>9. \A i \in DOMAIN w : w[i] \in V BY <1>2
<1> DEFINE Hosts == WithName(s, Characters, "host")
           Ports == WithName(s, Characters, "state")
           In(state) == WithState(s, Characters, state)
<1>10. stats.total = Cardinality(Opened(w, "host"))
  <2>1. Opened(w, "host") = Where(w, Hosts) BY <1>9 DEF Opened, Where, WithName, V
  <2>2. Count(w, Hosts) = Count(body, Hosts)
    <3>1. \A l \in Hosts : l[1] # "end" /\ l[2] \in {"host", "state"} BY DEF WithName
    <3> QED BY <1>8, <3>1
  <2>3. Count(body, Hosts) = total_hosts(s)
    <3>1. Picks(Hosts, Characters, TRUE, {}) BY PickedByName
    <3> HIDE DEF Hosts
    <3> QED BY <3>1, HostElementFigures DEF body
  <2>4. stats.total = total_hosts(s) BY DEF runstats
  <2> QED BY <2>1, <2>2, <2>3, <2>4 DEF Count
<1>11. stats.ports = Cardinality(Opened(w, "state"))
  <2>1. Opened(w, "state") = Where(w, Ports) BY <1>9 DEF Opened, Where, WithName, V
  <2>2. Count(w, Ports) = Count(body, Ports)
    <3>1. \A l \in Ports : l[1] # "end" /\ l[2] \in {"host", "state"} BY DEF WithName
    <3> QED BY <1>8, <3>1
  <2>3. Count(body, Ports) = total_ports(s)
    <3>1. Picks(Ports, Characters, FALSE, PortStates) BY PickedByName
    <3> HIDE DEF Ports
    <3> QED BY <3>1, HostElementFigures, ZenonT(40) DEF body
  <2>4. stats.ports = total_ports(s) BY DEF runstats
  <2> QED BY <2>1, <2>2, <2>3, <2>4 DEF Count
<1>12. ASSUME NEW state \in PortStates
       PROVE  Cardinality({i \in Opened(w, "state") : w[i][3] = state})
                = Total([i \in DOMAIN s.hosts |-> count_by_state(s.hosts[i], state)])
  <2>1. {i \in Opened(w, "state") : w[i][3] = state} = Where(w, In(state))
    BY <1>9 DEF Opened, Where, WithState, V
  <2>2. Count(w, In(state)) = Count(body, In(state))
    <3>1. \A l \in In(state) : l[1] # "end" /\ l[2] \in {"host", "state"} BY DEF WithState
    <3> HIDE DEF In
    <3> QED BY <1>8, <3>1
  <2>3. Count(body, In(state))
          = Total([i \in DOMAIN s.hosts |-> count_by_state(s.hosts[i], state)])
    <3> DEFINE S == In(state)
    <3>1. Picks(S, Characters, FALSE, {state}) BY PickedByName
    <3> HIDE DEF S
    <3>2. \A st \in PortStates :
            Picks(S, Characters, FALSE, {st})
              => Count(EachOf(XmlHost, s.hosts), S)
                   = Total([i \in DOMAIN s.hosts |-> count_by_state(s.hosts[i], st)])
      BY HostElementFigures, ZenonT(40)
    <3>3. Count(body, S)
            = Total([i \in DOMAIN s.hosts |-> count_by_state(s.hosts[i], state)])
      BY <3>1, <3>2, Zenon DEF body
    <3> QED BY <3>3, Zenon DEF S
  <2> HIDE DEF In
  <2> QED BY <2>1, <2>2, <2>3 DEF Count
<1>13. /\ stats.open = Total([i \in DOMAIN s.hosts |-> count_by_state(s.hosts[i], "Open")])
       /\ stats.closed = Total([i \in DOMAIN s.hosts |-> count_by_state(s.hosts[i], "Closed")])
       /\ stats.filtered = Total([i \in DOMAIN s.hosts |-> count_by_state(s.hosts[i], "Filtered")])
  BY DEF runstats, total_open_ports, SumOf, open_ports
<1>14. "Open" \in PortStates /\ "Closed" \in PortStates /\ "Filtered" \in PortStates
  BY DEF PortStates
<1>15. /\ stats.open = Cardinality({i \in Opened(w, "state") : w[i][3] = "Open"})
       /\ stats.closed = Cardinality({i \in Opened(w, "state") : w[i][3] = "Closed"})
       /\ stats.filtered = Cardinality({i \in Opened(w, "state") : w[i][3] = "Filtered"})
  BY <1>12, <1>13, <1>14
<1> QED BY <1>4, <1>6, <1>7, <1>10, <1>11, <1>15 DEF States

----------------------------------------------------------------------------
(* The hosts that are up                                                   *)

(* What one more part of a report has of the lines of a set.               *)
LEMMA WhereConcat ==
  ASSUME NEW V, NEW s \in Seq(V), NEW t \in Seq(V), NEW S
  PROVE  /\ Where(s \o t, S) = Where(s, S) \cup {Len(s) + i : i \in Where(t, S)}
         /\ Where(s, S) \subseteq 1 .. Len(s) /\ Where(t, S) \subseteq 1 .. Len(t)
<1> DEFINE m == Len(s)
           n == Len(t)
           u == s \o t
<1>1. m \in Nat /\ n \in Nat /\ DOMAIN s = 1 .. m /\ DOMAIN t = 1 .. n
      /\ DOMAIN u = 1 .. (m + n)
      /\ \A i \in 1 .. (m + n) : u[i] = IF i <= m THEN s[i] ELSE t[i - m]
  OBVIOUS
<1> HIDE DEF m, n, u
<1>2. ASSUME NEW i \in Where(u, S) PROVE i \in Where(s, S) \cup {m + j : j \in Where(t, S)}
  <2>1. i \in 1 .. (m + n) /\ u[i] \in S BY <1>1 DEF Where
  <2>2. CASE i <= m
    <3>1. i \in 1 .. m /\ s[i] \in S BY <1>1, <2>1, <2>2
    <3> QED BY <1>1, <3>1 DEF Where
  <2>3. CASE ~(i <= m)
    <3>1. i - m \in 1 .. n /\ t[i - m] \in S /\ i = m + (i - m) BY <1>1, <2>1, <2>3
    <3>2. i - m \in Where(t, S) BY <1>1, <3>1 DEF Where
    <3> QED BY <3>1, <3>2
  <2> QED BY <2>2, <2>3
<1>3. ASSUME NEW i \in Where(s, S) PROVE i \in Where(u, S)
  <2>1. i \in 1 .. m /\ s[i] \in S BY <1>1 DEF Where
  <2>2. i \in 1 .. (m + n) /\ u[i] = s[i] BY <1>1, <2>1
  <2> QED BY <1>1, <2>1, <2>2 DEF Where
<1>4. ASSUME NEW i \in Where(t, S) PROVE m + i \in Where(u, S)
  <2>1. i \in 1 .. n /\ t[i] \in S BY <1>1 DEF Where
  <2>2. m + i \in 1 .. (m + n) /\ u[m + i] = t[i] BY <1>1, <2>1
  <2> QED BY <1>1, <2>1, <2>2 DEF Where
<1>5. Where(u, S) = Where(s, S) \cup {m + i : i \in Where(t, S)}
  BY <1>2, <1>3, <1>4
<1>6. Where(s, S) \subseteq 1 .. m /\ Where(t, S) \subseteq 1 .. n BY <1>1 DEF Where
<1> QED BY <1>5, <1>6 DEF m, n, u

(* Places after the first one past m.                                      *)
Beyond(places, m) == \A j \in places : j \in Nat /\ j > m + 1

(* An element that begins after all the others holds what is found after.  *)
LEMMA EnclosingStep ==
  ASSUME NEW m \in Nat, NEW starts, NEW found, NEW more,
         starts \subseteq 1 .. m, found \subseteq 1 .. m, Beyond(more, m)
  PROVE  Enclosing(starts \cup {m + 1}, found \cup more)
           = Enclosing(starts, found) \cup (IF more = {} THEN {} ELSE {m + 1})
<1> USE DEF Beyond
<1> DEFINE all == starts \cup {m + 1}
<1>1. ASSUME NEW i \in starts, NEW j \in found
      PROVE  all \cap (i + 1) .. j = starts \cap (i + 1) .. j
  <2>1. i \in 1 .. m /\ j \in 1 .. m OBVIOUS
  <2>2. m + 1 \notin (i + 1) .. j BY <2>1
  <2> QED BY <2>2
<1>2. ASSUME NEW i \in starts, NEW j \in more
      PROVE  all \cap (i + 1) .. j # {}
  <2>1. i \in 1 .. m OBVIOUS
  <2>2. m + 1 \in (i + 1) .. j BY <2>1
  <2> QED BY <2>2
<1>3. ASSUME NEW j \in found PROVE ~(m + 1 < j)
  <2>1. j \in 1 .. m OBVIOUS
  <2> QED BY <2>1
<1>4. ASSUME NEW j \in more PROVE m + 1 < j /\ all \cap ((m + 1) + 1) .. j = {}
  <2>1. m + 1 < j OBVIOUS
  <2>2. ASSUME NEW i \in all PROVE i \notin ((m + 1) + 1) .. j
    <3>1. i \in 1 .. (m + 1) OBVIOUS
    <3> QED BY <3>1
  <2> QED BY <2>1, <2>2
<1>5. ASSUME NEW i \in starts
      PROVE  i \in Enclosing(all, found \cup more) <=> i \in Enclosing(starts, found)
  BY <1>1, <1>2 DEF Enclosing
<1>6. m + 1 \notin starts
  <2>1. \A i \in starts : i \in 1 .. m OBVIOUS
  <2>2. m + 1 \notin 1 .. m OBVIOUS
  <2> QED BY <2>1, <2>2
<1>7. m + 1 \in Enclosing(all, found \cup more) <=> more # {}
  <2>1. m + 1 \in Enclosing(all, found \cup more)
          <=> \E j \in found \cup more : m + 1 < j /\ all \cap ((m + 1) + 1) .. j = {}
    BY DEF Enclosing
  <2> QED BY <1>3, <1>4, <2>1
<1>8. Enclosing(starts, found) \subseteq starts /\ Enclosing(all, found \cup more) \subseteq all
  BY DEF Enclosing
<1> QED BY <1>5, <1>6, <1>7, <1>8

(* The elements of w that enclose a line of Found, and the blocks that do. *)
Encloses(w, Starts, Found) == Enclosing(Where(w, Starts), Where(w, Found))
Holding(blocks, Found, k) == {i \in 1 .. k : Where(blocks[i], Found) # {}}

(* A block begins with its one line of Starts.                             *)
Begins(block, Starts, Found) == Where(block, Starts) = {1} /\ 1 \notin Where(block, Found)
AllBegin(blocks, Starts, Found) == \A i \in 1 .. Len(blocks) : Begins(blocks[i], Starts, Found)

(* Of such blocks, those with a line of Found are counted by the elements  *)
(* that enclose one.                                                       *)
LEMMA EnclosingBlocks ==
  ASSUME NEW V, NEW head \in Seq(V), NEW blocks \in Seq(Seq(V)), NEW Starts, NEW Found,
         Where(head, Starts) = {}, Where(head, Found) = {},
         AllBegin(blocks, Starts, Found)
  PROVE  Cardinality(Encloses(head \o FlattenSeq(blocks), Starts, Found))
           = Cardinality(Holding(blocks, Found, Len(blocks)))
<1> DEFINE n == Len(blocks)
           Held(k) == Holding(blocks, Found, k)
           Up(u) == Encloses(u, Starts, Found)
<1>1. PICK flat : Flattening(flat, blocks, V) BY FlattenPrefixes
<1>2. /\ n \in Nat /\ flat[0] = <<>> /\ flat \in [0 .. n -> Seq(V)]
      /\ \A i \in 1 .. n : flat[i] = flat[i - 1] \o blocks[i]
      /\ FlattenSeq(blocks) = flat[n] /\ \A i \in 1 .. n : blocks[i] \in Seq(V)
  <2>1. n \in Nat /\ \A i \in 1 .. n : blocks[i] \in Seq(V) OBVIOUS
  <2>2. /\ flat[0] = <<>> /\ flat \in [0 .. n -> Seq(V)]
        /\ \A i \in 1 .. n : flat[i] = flat[i - 1] \o blocks[i]
        /\ FlattenSeq(blocks) = flat[n]
    BY <1>1, Zenon DEF Flattening
  <2> QED BY <2>1, <2>2, Zenon
<1>3. \A i \in 1 .. n : Where(blocks[i], Starts) = {1} /\ 1 \notin Where(blocks[i], Found)
  BY DEF AllBegin, Begins
<1> HIDE DEF n
<1> DEFINE Counted(k) == /\ IsFiniteSet(Up(head \o flat[k])) /\ IsFiniteSet(Held(k))
                         /\ Cardinality(Up(head \o flat[k])) = Cardinality(Held(k))
           S == {k \in 0 .. n : Counted(k)}
<1>4. 0 \in S
  <2>1. head \o flat[0] = head BY <1>2, ConcatEmptySeq
  <2>2. Up(head) = {} BY DEF Encloses, Enclosing
  <2>3. Held(0) = {}
    <3>1. 1 .. 0 = {} OBVIOUS
    <3> QED BY <3>1 DEF Holding
  <2>4. 0 \in 0 .. n BY <1>2
  <2> HIDE DEF Up, Held
  <2>5. IsFiniteSet(Up(head \o flat[0])) /\ IsFiniteSet(Held(0))
        /\ Cardinality(Up(head \o flat[0])) = Cardinality(Held(0))
    BY <2>1, <2>2, <2>3, FS_EmptySet
  <2> QED BY <2>4, <2>5
<1>5. ASSUME NEW k \in 0 .. (n - 1), k \in S PROVE k + 1 \in S
  <2> DEFINE u == head \o flat[k]
             b == blocks[k + 1]
             m == Len(u)
             more == {m + i : i \in Where(b, Found)}
  <2>1. k + 1 \in 1 .. n /\ (k + 1) - 1 = k /\ k \in 0 .. n BY <1>2
  <2>2. b \in Seq(V) /\ flat[k] \in Seq(V) /\ flat[k + 1] = flat[k] \o b BY <1>2, <2>1
  <2>3. u \in Seq(V) BY <2>2, ConcatProperties
  <2>4. head \o flat[k + 1] = u \o b
    <3>1. Cat(Cat(head, flat[k]), b) = Cat(head, Cat(flat[k], b)) BY <2>2, Chain
    <3> QED BY <2>2, <3>1 DEF Cat
  <2>5. Where(b, Starts) = {1} /\ 1 \notin Where(b, Found) BY <1>3, <2>1
  <2>6. Counted(k) BY <1>5
  <2> HIDE DEF u, b
  <2>7. /\ Where(u \o b, Starts) = Where(u, Starts) \cup {m + i : i \in Where(b, Starts)}
        /\ Where(u \o b, Found) = Where(u, Found) \cup more
        /\ Where(u, Starts) \subseteq 1 .. m /\ Where(u, Found) \subseteq 1 .. m
        /\ Where(b, Found) \subseteq 1 .. Len(b)
    BY <2>2, <2>3, WhereConcat
  <2>8. m \in Nat BY <2>3
  <2>9. {m + i : i \in Where(b, Starts)} = {m + 1} BY <2>5
  <2>10. Beyond(more, m)
    <3> SUFFICES ASSUME NEW i \in Where(b, Found) PROVE m + i \in Nat /\ m + i > m + 1
      BY DEF Beyond
    <3>1. i \in 1 .. Len(b) /\ i # 1 BY <2>5, <2>7
    <3> HIDE DEF m
    <3> QED BY <2>8, <3>1
  <2>11. more = {} <=> Where(b, Found) = {} OBVIOUS
  <2> HIDE DEF m, more
  <2>12. Up(u \o b) = Up(u) \cup (IF more = {} THEN {} ELSE {m + 1})
    <3>1. Where(u \o b, Starts) = Where(u, Starts) \cup {m + 1} BY <2>7, <2>9
    <3>2. Up(u \o b) = Enclosing(Where(u, Starts) \cup {m + 1}, Where(u, Found) \cup more)
      BY <2>7, <3>1 DEF Encloses
    <3> DEFINE A == Where(u, Starts)
               B == Where(u, Found)
    <3>3. A \subseteq 1 .. m /\ B \subseteq 1 .. m BY <2>7
    <3> HIDE DEF A, B
    <3>4. Enclosing(A \cup {m + 1}, B \cup more)
            = Enclosing(A, B) \cup (IF more = {} THEN {} ELSE {m + 1})
      BY <2>8, <2>10, <3>3, EnclosingStep, ZenonT(40)
    <3> QED BY <3>2, <3>4 DEF A, B, Encloses
  <2>13. m + 1 \notin Up(u)
    <3>1. \A i \in Up(u) : i \in 1 .. m BY <2>7 DEF Encloses, Enclosing
    <3>2. m + 1 \notin 1 .. m BY <2>8
    <3> HIDE DEF Up
    <3> QED BY <3>1, <3>2
  <2>14. Held(k + 1) = Held(k) \cup (IF more = {} THEN {} ELSE {k + 1})
    <3>0. k \in Nat BY <1>2
    <3>1. \A i : i \in 1 .. (k + 1) <=> i \in 1 .. k \/ i = k + 1 BY <3>0
    <3>2. more = {} <=> Where(blocks[k + 1], Found) = {} BY <2>11 DEF b
    <3>3. \A i : i \in Held(k + 1) <=> i \in Held(k) \/ (i = k + 1 /\ more # {})
      BY <3>1, <3>2 DEF Holding
    <3> HIDE DEF Held
    <3>4. CASE more = {}
      <4>1. Held(k + 1) = Held(k) BY <3>3, <3>4
      <4> QED BY <3>4, <4>1
    <3>5. CASE more # {}
      <4>1. Held(k + 1) = Held(k) \cup {k + 1} BY <3>3, <3>5
      <4> QED BY <3>5, <4>1
    <3> QED BY <3>4, <3>5
  <2>15. k + 1 \notin Held(k)
    <3>1. k + 1 \notin 1 .. k BY <1>2
    <3> QED BY <3>1 DEF Holding
  <2>16. /\ IsFiniteSet(Up(u)) /\ IsFiniteSet(Held(k))
         /\ Cardinality(Up(u)) = Cardinality(Held(k))
    BY <2>6 DEF u
  <2> HIDE DEF Up, Held
  <2>17. /\ IsFiniteSet(Up(u \o b)) /\ IsFiniteSet(Held(k + 1))
         /\ Cardinality(Up(u \o b)) = Cardinality(Held(k + 1))
    <3>1. CASE more = {}
      <4>1. Up(u \o b) = Up(u) /\ Held(k + 1) = Held(k) BY <2>12, <2>14, <3>1
      <4> QED BY <2>16, <4>1
    <3>2. CASE more # {}
      <4>1. Up(u \o b) = Up(u) \cup {m + 1} /\ Held(k + 1) = Held(k) \cup {k + 1}
        BY <2>12, <2>14, <3>2
      <4>2. IsFiniteSet(Up(u) \cup {m + 1}) /\ Cardinality(Up(u) \cup {m + 1}) = Cardinality(Up(u)) + 1
        BY <2>13, <2>16, FS_AddElement
      <4>3. IsFiniteSet(Held(k) \cup {k + 1})
            /\ Cardinality(Held(k) \cup {k + 1}) = Cardinality(Held(k)) + 1
        BY <2>15, <2>16, FS_AddElement
      <4> QED BY <2>16, <4>1, <4>2, <4>3
    <3> QED BY <3>1, <3>2
  <2>18. Counted(k + 1) BY <2>4, <2>17
  <2>19. k + 1 \in 0 .. n BY <2>1
  <2> HIDE DEF Counted
  <2> QED BY <2>18, <2>19
<1> HIDE DEF S
<1>6. \A k \in 0 .. (n - 1) : k \in S => k + 1 \in S BY <1>5
<1>7. \A k \in 0 .. n : k \in S BY <1>2, <1>4, <1>6, Induct
<1>8. Counted(n)
  <2>1. n \in S BY <1>2, <1>7
  <2> HIDE DEF Counted
  <2> QED BY <2>1 DEF S
<1>9. Cardinality(Up(head \o FlattenSeq(blocks))) = Cardinality(Held(n)) BY <1>2, <1>8
<1> QED BY <1>9 DEF n

(* A host's element begins with the only line that opens one, and holds an *)
(* open state exactly if one of the host's ports is open.                  *)
LEMMA XmlHostHolds ==
  ASSUME NEW Characters, NEW h \in HostResults(Characters), NEW Starts, NEW Found,
         Picks(Starts, Characters, TRUE, {}), Picks(Found, Characters, FALSE, {"Open"})
  PROVE  /\ Where(XmlHost(h), Starts) = {1} /\ 1 \notin Where(XmlHost(h), Found)
         /\ Where(XmlHost(h), Found) # {} <=> open_ports(h) > 0
<1> DEFINE V == XmlBody(Characters)
           opening == <<"begin", "host">>
           head == <<opening, AddressLine(h)>>
           rest == XmlPorts(h) \o << <<"end", "host">> >>
           w == XmlHost(h)
<1>1. /\ opening \in V /\ <<"end", "host">> \in V /\ AddressLine(h) \in V
  <2>1. escape_xml(h.host) \in Seq(Escaped(Characters)) BY EscapeType DEF HostResults
  <2>2. AddressLine(h) \in V BY <2>1 DEF AddressLine, XmlBody
  <2> QED BY <2>2, TagsType DEF Tag
<1>2. XmlPorts(h) \in Seq(V) BY XmlPortsType
<1>3. w \in Seq(V) BY XmlHostType
<1>4. w[1] = opening /\ 1 \in DOMAIN w
  <2>1. head \in Seq(V) /\ Len(head) = 2 /\ head[1] = opening BY <1>1
  <2>2. << <<"end", "host">> >> \in Seq(V) BY <1>1
  <2> DEFINE ports == XmlPorts(h)
             last == << <<"end", "host">> >>
  <2>3. head \in Seq(V) /\ ports \in Seq(V) /\ last \in Seq(V) BY <1>2, <2>1, <2>2
  <2>4. w = (head \o ports) \o last BY DEF XmlHost, AddressLine
  <2> HIDE DEF w, head, V, ports, last
  <2>5. /\ Len(w) = Len(head) + Len(ports) + Len(last)
        /\ Len(head) \in Nat /\ Len(ports) \in Nat /\ Len(last) \in Nat
        /\ \A i \in 1 .. Len(w) :
             w[i] = IF i <= Len(head) THEN head[i]
                    ELSE IF i <= Len(head) + Len(ports) THEN ports[i - Len(head)]
                    ELSE last[i - (Len(head) + Len(ports))]
    BY <2>3, <2>4, ThreeParts
  <2>6. 1 \in 1 .. Len(w) /\ 1 <= Len(head) BY <2>1, <2>5
  <2>7. DOMAIN w = 1 .. Len(w) BY <1>3
  <2> QED BY <2>1, <2>5, <2>6, <2>7
<1>5. opening \in Starts /\ opening \notin Found
  <2>1. \A l \in StateLines(Characters, {"Open"}) : l[2] = "state" BY DEF StateLines
  <2>2. opening \notin StateLines(Characters, {"Open"})
    <3>1. opening[2] = "host" OBVIOUS
    <3> QED BY <2>1, <3>1
  <2> QED BY <1>1, <2>2 DEF Picks
<1>6. Count(h.ports, HasState(Characters, {})) = 0
      /\ Count(h.ports, HasState(Characters, {"Open"})) = open_ports(h)
      /\ open_ports(h) \in Nat
  <2>1. "Open" \in PortStates BY DEF PortStates
  <2> QED BY <2>1, CountWanted, CountByState DEF open_ports
<1>7. Count(w, Starts) = 1
  <2>1. Count(w, Starts) = (IF TRUE THEN 1 ELSE 0) + Count(h.ports, HasState(Characters, {}))
    <3> DEFINE W == {}
               host == TRUE
    <3>1. Picks(Starts, Characters, host, W) OBVIOUS
    <3> HIDE DEF W, host
    <3>2. Count(w, Starts) = (IF host THEN 1 ELSE 0) + Count(h.ports, HasState(Characters, W))
      BY <3>1, CountXmlHost
    <3> QED BY <3>2 DEF W, host
  <2> QED BY <1>6, <2>1
<1>8. Count(w, Found) = open_ports(h)
  <2>1. Count(w, Found) = (IF FALSE THEN 1 ELSE 0) + Count(h.ports, HasState(Characters, {"Open"}))
    <3> DEFINE W == {"Open"}
               host == FALSE
    <3>1. Picks(Found, Characters, host, W) OBVIOUS
    <3> HIDE DEF W, host
    <3>2. Count(w, Found) = (IF host THEN 1 ELSE 0) + Count(h.ports, HasState(Characters, W))
      BY <3>1, CountXmlHost
    <3> QED BY <3>2 DEF W, host
  <2> QED BY <1>6, <2>1
<1> HIDE DEF w, opening
<1>9. \A S : IsFiniteSet(Where(w, S))
  <2> TAKE S
  <2>1. DOMAIN w = 1 .. Len(w) /\ Len(w) \in Nat BY <1>3
  <2>2. IsFiniteSet(1 .. Len(w)) BY <2>1, FS_Interval
  <2> QED BY <2>1, <2>2, FS_Subset DEF Where
<1>10. 1 \in Where(w, Starts) /\ 1 \notin Where(w, Found) BY <1>4, <1>5 DEF Where
<1>11. Where(w, Starts) = {1}
  <2>1. PICK x : Where(w, Starts) = {x}
    BY <1>7, <1>9, FS_Singleton DEF Count
  <2> QED BY <1>10, <2>1
<1>12. Where(w, Found) # {} <=> Count(w, Found) # 0 BY <1>9, FS_EmptySet DEF Count
<1> QED BY <1>6, <1>8, <1>10, <1>11, <1>12 DEF w

(* A host is up in XML if and only if its element holds an open state.     *)
LEMMA XmlHostsUp ==
  ASSUME NEW Lists, NEW Characters, NEW s \in SummariesOf(Lists, Characters), NEW w, w = XmlLines(s)
  PROVE  Cardinality(Enclosing(Opened(w, "host"), States(w, "Open"))) = hosts_up(s)
<1> DEFINE V == XmlAll(s, Characters)
           head == XmlHead(s)
           blocks == HostBlocks(s)
           body == EachOf(XmlHost, s.hosts)
           tail == XmlTail(s)
           Starts == WithName(s, Characters, "host")
           Found == WithState(s, Characters, "Open")
           n == Len(s.hosts)
<1>1. /\ w = (head \o body) \o tail /\ head \in Seq(V) /\ body \in Seq(V) /\ tail \in Seq(V)
      /\ \A i \in 1 .. Len(head) : head[i][2] \in {"asioscan", "scaninfo"}
      /\ Len(tail) = 2 /\ tail[1] = FiguresLine(s) /\ tail[2] = <<"end", "asioscan">>
  BY XmlShape
<1>2. body = FlattenSeq(blocks) /\ blocks \in Seq(Seq(V))
  <2>1. blocks \in Seq(Seq(XmlBody(Characters))) /\ body = FlattenSeq(blocks) BY XmlHostsType
  <2>2. \A x \in Seq(XmlBody(Characters)) : x \in Seq(V)
    <3>1. XmlBody(Characters) \subseteq V BY DEF XmlAll
    <3> QED BY <3>1, LargerSet
  <2>3. Seq(XmlBody(Characters)) \subseteq Seq(V) BY <2>2
  <2> HIDE DEF V, blocks
  <2> QED BY <2>1, <2>3, LargerSet
<1>3. Picks(Starts, Characters, TRUE, {}) /\ Picks(Found, Characters, FALSE, {"Open"})
  <2>1. "Open" \in PortStates BY DEF PortStates
  <2> QED BY <2>1, PickedByName
<1>4. \A l \in Starts \cup Found : l[1] # "end" /\ l[2] \in {"host", "state"}
  BY DEF WithName, WithState
<1>5. n \in Nat /\ DOMAIN s.hosts = 1 .. n /\ \A i \in 1 .. n : s.hosts[i] \in HostResults(Characters)
  BY DEF SummariesOf
<1>6. Len(blocks) = n /\ \A i \in 1 .. n : blocks[i] = XmlHost(s.hosts[i])
  BY <1>5 DEF HostBlocks
<1>7. ASSUME NEW i \in 1 .. n
      PROVE  /\ Where(blocks[i], Starts) = {1} /\ 1 \notin Where(blocks[i], Found)
             /\ Where(blocks[i], Found) # {} <=> open_ports(s.hosts[i]) > 0
  <2> DEFINE h == s.hosts[i]
  <2>1. h \in HostResults(Characters) /\ blocks[i] = XmlHost(h) BY <1>5, <1>6
  <2> HIDE DEF h, blocks, Starts, Found
  <2>2. /\ Where(XmlHost(h), Starts) = {1} /\ 1 \notin Where(XmlHost(h), Found)
        /\ Where(XmlHost(h), Found) # {} <=> open_ports(h) > 0
    BY <1>3, <2>1, XmlHostHolds
  <2> QED BY <2>1, <2>2 DEF h
<1>8. tail[1][2] = "runstats" /\ tail[2][1] = "end" BY <1>1 DEF FiguresLine
<1>9. Opened(w, "host") = Where(w, Starts) /\ States(w, "Open") = Where(w, Found)
  <2>1. (head \o body) \in Seq(V)
    <3> HIDE DEF head, body, V
    <3> QED BY <1>1, ConcatProperties
  <2>2. w \in Seq(V)
    <3> DEFINE most == head \o body
    <3>1. most \in Seq(V) /\ w = most \o tail BY <1>1, <2>1
    <3> HIDE DEF most, tail, V
    <3> QED BY <1>1, <3>1, ConcatProperties
  <2>3. \A i \in DOMAIN w : w[i] \in V
    <3> HIDE DEF V
    <3> QED BY <2>2
  <2> QED BY <2>3 DEF Opened, States, Where, WithName, WithState, V
<1> HIDE DEF V, head, body, tail, blocks, Starts, Found, n
<1>10. Where(head, Starts) = {} /\ Where(head, Found) = {}
  <2>1. DOMAIN head = 1 .. Len(head) BY <1>1
  <2>2. \A i \in DOMAIN head : head[i] \notin Starts \cup Found BY <1>1, <1>4, <2>1
  <2> QED BY <2>2 DEF Where
<1>11. Where(tail, Starts) = {} /\ Where(tail, Found) = {}
  <2>1. DOMAIN tail = 1 .. 2 BY <1>1
  <2>2. tail[1] \notin Starts \cup Found /\ tail[2] \notin Starts \cup Found BY <1>4, <1>8
  <2>3. \A i \in 1 .. 2 : i = 1 \/ i = 2 OBVIOUS
  <2> QED BY <2>1, <2>2, <2>3 DEF Where
<1> DEFINE most == head \o body
<1>12. Where(w, Starts) = Where(most, Starts) /\ Where(w, Found) = Where(most, Found)
  <2>1. most \in Seq(V) /\ w = most \o tail BY <1>1, ConcatProperties
  <2> HIDE DEF most
  <2>2. /\ Where(most \o tail, Starts) = Where(most, Starts) \cup {Len(most) + i : i \in Where(tail, Starts)}
        /\ Where(most \o tail, Found) = Where(most, Found) \cup {Len(most) + i : i \in Where(tail, Found)}
    BY <1>1, <2>1, WhereConcat
  <2> QED BY <1>11, <2>1, <2>2
<1>13. Cardinality(Encloses(most, Starts, Found)) = Cardinality(Holding(blocks, Found, n))
  <2>1. AllBegin(blocks, Starts, Found) BY <1>6, <1>7 DEF AllBegin, Begins
  <2>2. Cardinality(Encloses(head \o FlattenSeq(blocks), Starts, Found))
          = Cardinality(Holding(blocks, Found, Len(blocks)))
    BY <1>1, <1>2, <1>10, <2>1, EnclosingBlocks
  <2>3. most = head \o FlattenSeq(blocks) BY <1>2
  <2> QED BY <1>6, <2>2, <2>3
<1>14. Holding(blocks, Found, n) = {i \in DOMAIN s.hosts : open_ports(s.hosts[i]) > 0}
  BY <1>5, <1>7 DEF Holding
<1> QED BY <1>9, <1>12, <1>13, <1>14 DEF hosts_up, Encloses

(* A host is up in the summary if one of its results is open.              *)
LEMMA OpenHosts ==
  ASSUME NEW Lists, NEW Characters, NEW s \in SummariesOf(Lists, Characters)
  PROVE  /\ {i \in DOMAIN s.hosts : open_ports(s.hosts[i]) > 0}
              = {i \in DOMAIN s.hosts : \E r \in ToSet(s.hosts[i].ports) : r.state = "Open"}
         /\ \A i \in DOMAIN s.hosts : HostPorts(s.hosts[i]) > 0 <=> s.hosts[i].ports # <<>>
<1>1. ASSUME NEW i \in DOMAIN s.hosts
      PROVE  /\ open_ports(s.hosts[i]) > 0 <=> \E r \in ToSet(s.hosts[i].ports) : r.state = "Open"
             /\ HostPorts(s.hosts[i]) > 0 <=> s.hosts[i].ports # <<>>
  <2> DEFINE h == s.hosts[i]
             found == {j \in DOMAIN h.ports : h.ports[j].state = "Open"}
  <2>1. h \in HostResults(Characters) BY DEF SummariesOf
  <2> HIDE DEF h
  <2>2. h.ports \in Seq(PortResults(Characters)) BY <2>1 DEF HostResults
  <2>3. DOMAIN h.ports = 1 .. Len(h.ports) /\ Len(h.ports) \in Nat
        /\ (Len(h.ports) > 0 <=> h.ports # <<>>)
    <3> DEFINE ports == h.ports
               R == PortResults(Characters)
    <3>1. ports \in Seq(R) BY <2>2
    <3> HIDE DEF ports, R
    <3>2. DOMAIN ports = 1 .. Len(ports) /\ Len(ports) \in Nat
          /\ (Len(ports) > 0 <=> ports # <<>>)
      BY <3>1
    <3> QED BY <3>2 DEF ports
  <2>4. IsFiniteSet(found)
    <3>1. IsFiniteSet(DOMAIN h.ports) BY <2>3, FS_Interval
    <3> QED BY <3>1, FS_Subset
  <2>5. open_ports(h) = Cardinality(found) BY DEF open_ports, count_by_state
  <2>6. found # {} <=> \E r \in ToSet(h.ports) : r.state = "Open" BY DEF ToSet
  <2> HIDE DEF found
  <2>7. Cardinality(found) \in Nat /\ (Cardinality(found) = 0 <=> found = {})
    BY <2>4, FS_EmptySet, FS_CardinalityType
  <2> QED BY <2>3, <2>5, <2>6, <2>7 DEF h, HostPorts
<1> QED BY <1>1

(* The results of a summary are as many as its ports, and so are the open  *)
(* ones.                                                                   *)
LEMMA ResultFigures ==
  ASSUME NEW Lists, NEW Characters, NEW s \in SummariesOf(Lists, Characters)
  PROVE  /\ Len(Results(s)) = total_ports(s)
         /\ Cardinality({k \in DOMAIN Results(s) : Results(s)[k][3] = "Open"}) = total_open_ports(s)
<1> DEFINE R == ResultRows(Characters)
           Open == {l \in R : l[3] = "Open"}
           hosts == s.hosts
           lists == ResultLists(hosts)
           sizes == [i \in DOMAIN hosts |-> HostPorts(hosts[i])]
           opens == [i \in DOMAIN hosts |-> open_ports(hosts[i])]
           results == Results(s)
<1>1. /\ hosts \in Seq(HostResults(Characters)) /\ lists \in Seq(Seq(R))
      /\ results = FlattenSeq(lists) /\ results \in Seq(R)
  BY ResultsType
<1>2. DOMAIN lists = DOMAIN hosts /\ \A i \in DOMAIN hosts : lists[i] = HostResultRows(hosts[i])
  BY DEF ResultLists
<1>3. ASSUME NEW i \in DOMAIN hosts
      PROVE  Count(lists[i], R) = sizes[i] /\ Count(lists[i], Open) = opens[i]
  <2> DEFINE h == hosts[i]
             rows == HostResultRows(h)
             m == Len(h.ports)
             InOpen == {r \in PortResults(Characters) : r.state = "Open"}
  <2>1. h \in HostResults(Characters) BY <1>1
  <2> HIDE DEF h
  <2>2. rows \in Seq(R) /\ Len(rows) = m BY <2>1, HostResultRowsType
  <2>3. h.ports \in Seq(PortResults(Characters)) /\ DOMAIN h.ports = 1 .. m
    BY <2>1, HostRowsType
  <2>4. DOMAIN rows = DOMAIN h.ports /\ \A j \in DOMAIN h.ports : rows[j][3] = h.ports[j].state
    BY DEF HostResultRows
  <2>5. \A j \in DOMAIN rows : rows[j] \in R /\ h.ports[j] \in PortResults(Characters)
    <3> HIDE DEF rows, R
    <3> QED BY <2>2, <2>3, <2>4
  <2> HIDE DEF R
  <2>6. Count(rows, R) = m
    <3> HIDE DEF rows
    <3>1. \A j \in DOMAIN rows : rows[j] \in R BY <2>5
    <3> QED BY <2>2, <3>1, CountUniform
  <2>7. Count(rows, Open) = Count(h.ports, InOpen)
    <3>1. \A j \in DOMAIN rows : rows[j] \in Open <=> h.ports[j] \in InOpen BY <2>4, <2>5
    <3> HIDE DEF rows, Open, InOpen
    <3> QED BY <2>4, <3>1, CountAlike
  <2>8. open_ports(h) = Count(h.ports, InOpen) BY <2>1, CountByState DEF open_ports
  <2>9. lists[i] = rows /\ sizes[i] = m /\ opens[i] = open_ports(h)
    BY <1>2 DEF h, HostPorts
  <2> HIDE DEF lists, sizes, opens, rows, Open, m, InOpen
  <2> QED BY <2>6, <2>7, <2>8, <2>9
<1>4. /\ DOMAIN sizes = DOMAIN lists /\ sizes = [i \in DOMAIN sizes |-> sizes[i]]
      /\ DOMAIN opens = DOMAIN lists /\ opens = [i \in DOMAIN opens |-> opens[i]]
  BY <1>2
<1>5. Total(sizes) = total_ports(s) /\ Total(opens) = total_open_ports(s)
  BY DEF total_ports, total_open_ports, SumOf
<1>6. DOMAIN results = 1 .. Len(results) /\ \A k \in DOMAIN results : results[k] \in R
  <2> HIDE DEF results, R
  <2> QED BY <1>1
<1>7. {k \in DOMAIN results : results[k][3] = "Open"} = Where(results, Open)
  <2> HIDE DEF results, R
  <2> QED BY <1>6 DEF Where
<1> HIDE DEF R, Open, hosts, lists, sizes, opens, results
<1>8. Count(FlattenSeq(lists), R) = Total(sizes) /\ Count(FlattenSeq(lists), Open) = Total(opens)
  <2>1. /\ \A i \in DOMAIN lists : Count(lists[i], R) = sizes[i]
        /\ \A i \in DOMAIN lists : Count(lists[i], Open) = opens[i]
    BY <1>2, <1>3
  <2>2. Count(FlattenSeq(lists), R) = Total(sizes) BY <1>1, <1>4, <2>1, CountBlocks
  <2>3. Count(FlattenSeq(lists), Open) = Total(opens) BY <1>1, <1>4, <2>1, CountBlocks
  <2> QED BY <2>2, <2>3
<1>9. Count(results, R) = Len(results) BY <1>1, <1>6, CountUniform
<1> QED BY <1>1, <1>5, <1>7, <1>8, <1>9 DEF Count, results

----------------------------------------------------------------------------
(* Reports in which nothing is there twice                                 *)

(* Sequences without repetitions that share no element make up one.        *)
LEMMA OnceConcat ==
  ASSUME NEW V, NEW s \in Seq(V), NEW t \in Seq(V)
  PROVE  /\ ToSet(s \o t) = ToSet(s) \cup ToSet(t)
         /\ IsInjective(s) /\ IsInjective(t) /\ ToSet(s) \cap ToSet(t) = {} => IsInjective(s \o t)
<1> DEFINE m == Len(s)
           n == Len(t)
           u == s \o t
<1>1. m \in Nat /\ n \in Nat /\ DOMAIN s = 1 .. m /\ DOMAIN t = 1 .. n
      /\ DOMAIN u = 1 .. (m + n)
      /\ \A i \in 1 .. (m + n) : u[i] = IF i <= m THEN s[i] ELSE t[i - m]
  OBVIOUS
<1> HIDE DEF m, n, u
<1>2. ASSUME NEW i \in 1 .. (m + n)
      PROVE  \/ i \in 1 .. m /\ u[i] = s[i] /\ u[i] \in ToSet(s)
             \/ i > m /\ i - m \in 1 .. n /\ u[i] = t[i - m] /\ u[i] \in ToSet(t)
  <2>1. CASE i <= m
    <3>1. i \in 1 .. m /\ u[i] = s[i] BY <1>1, <2>1
    <3> QED BY <1>1, <3>1 DEF ToSet
  <2>2. CASE ~(i <= m)
    <3>1. i > m /\ i - m \in 1 .. n /\ u[i] = t[i - m] BY <1>1, <2>2
    <3> QED BY <1>1, <3>1 DEF ToSet
  <2> QED BY <2>1, <2>2
<1>3. ToSet(u) = ToSet(s) \cup ToSet(t)
  <2>1. ASSUME NEW i \in 1 .. m PROVE s[i] \in ToSet(u)
    <3>1. i \in 1 .. (m + n) /\ u[i] = s[i] BY <1>1
    <3> QED BY <1>1, <3>1 DEF ToSet
  <2>2. ASSUME NEW i \in 1 .. n PROVE t[i] \in ToSet(u)
    <3>1. m + i \in 1 .. (m + n) /\ u[m + i] = t[i] BY <1>1
    <3> QED BY <1>1, <3>1 DEF ToSet
  <2>3. \A x \in ToSet(u) : x \in ToSet(s) \cup ToSet(t)
    <3>1. \A x \in ToSet(u) : \E i \in 1 .. (m + n) : x = u[i] BY <1>1 DEF ToSet
    <3> QED BY <1>2, <3>1
  <2>4. \A x \in ToSet(s) : x \in ToSet(u) BY <1>1, <2>1 DEF ToSet
  <2>5. \A x \in ToSet(t) : x \in ToSet(u) BY <1>1, <2>2 DEF ToSet
  <2> QED BY <2>3, <2>4, <2>5
<1>4. ASSUME IsInjective(s), IsInjective(t), ToSet(s) \cap ToSet(t) = {} PROVE IsInjective(u)
  <2> SUFFICES ASSUME NEW i \in 1 .. (m + n), NEW j \in 1 .. (m + n), u[i] = u[j] PROVE i = j
    BY <1>1 DEF IsInjective
  <2>1. CASE i \in 1 .. m /\ u[i] = s[i] /\ u[i] \in ToSet(s)
    <3>1. j \in 1 .. m /\ u[j] = s[j] BY <1>2, <1>4, <2>1
    <3> QED BY <1>1, <1>4, <2>1, <3>1 DEF IsInjective
  <2>2. CASE i > m /\ i - m \in 1 .. n /\ u[i] = t[i - m] /\ u[i] \in ToSet(t)
    <3>1. j > m /\ j - m \in 1 .. n /\ u[j] = t[j - m] BY <1>2, <1>4, <2>2
    <3>2. i - m = j - m BY <1>1, <1>4, <2>2, <3>1 DEF IsInjective
    <3> QED BY <1>1, <2>2, <3>1, <3>2
  <2> QED BY <1>2, <2>1, <2>2
<1> QED BY <1>3, <1>4 DEF u

(* The elements of the first k of some sequences.                          *)
InFirst(seqs, k) == UNION {ToSet(seqs[i]) : i \in 1 .. k}

(* The same of any number of sequences.                                    *)
LEMMA OnceFlatten ==
  ASSUME NEW V, NEW seqs \in Seq(Seq(V))
  PROVE  /\ ToSet(FlattenSeq(seqs)) = InFirst(seqs, Len(seqs))
         /\ (/\ \A i \in 1 .. Len(seqs) : IsInjective(seqs[i])
             /\ \A i, j \in 1 .. Len(seqs) : i # j => ToSet(seqs[i]) \cap ToSet(seqs[j]) = {})
            => IsInjective(FlattenSeq(seqs))
<1> DEFINE n == Len(seqs)
           Apart == /\ \A i \in 1 .. n : IsInjective(seqs[i])
                    /\ \A i, j \in 1 .. n : i # j => ToSet(seqs[i]) \cap ToSet(seqs[j]) = {}
<1>1. PICK flat : Flattening(flat, seqs, V) BY FlattenPrefixes
<1>2. /\ n \in Nat /\ flat[0] = <<>> /\ flat \in [0 .. n -> Seq(V)]
      /\ \A i \in 1 .. n : flat[i] = flat[i - 1] \o seqs[i]
      /\ FlattenSeq(seqs) = flat[n] /\ \A i \in 1 .. n : seqs[i] \in Seq(V)
  BY <1>1, SMTT(30) DEF Flattening
<1> HIDE DEF n
<1> DEFINE S == {k \in 0 .. n : ToSet(flat[k]) = InFirst(seqs, k) /\ (Apart => IsInjective(flat[k]))}
<1>3. 0 \in S
  <2>1. ToSet(<<>>) = {} /\ IsInjective(<<>>) BY DEF ToSet, IsInjective
  <2>2. InFirst(seqs, 0) = {}
    <3>1. 1 .. 0 = {} OBVIOUS
    <3> QED BY <3>1 DEF InFirst
  <2>3. 0 \in 0 .. n BY <1>2
  <2>4. ToSet(flat[0]) = InFirst(seqs, 0) /\ IsInjective(flat[0]) BY <1>2, <2>1, <2>2, Zenon
  <2> HIDE DEF Apart
  <2> QED BY <2>3, <2>4
<1>4. ASSUME NEW k \in 0 .. (n - 1), k \in S PROVE k + 1 \in S
  <2>1. k + 1 \in 1 .. n /\ (k + 1) - 1 = k /\ k \in 0 .. n BY <1>2
  <2>2. flat[k + 1] = flat[k] \o seqs[k + 1] /\ flat[k] \in Seq(V) /\ seqs[k + 1] \in Seq(V)
    BY <1>2, <2>1
  <2>3. ToSet(flat[k]) = InFirst(seqs, k) /\ (Apart => IsInjective(flat[k])) BY <1>4
  <2>4. ToSet(flat[k + 1]) = ToSet(flat[k]) \cup ToSet(seqs[k + 1]) BY <2>2, OnceConcat
  <2>5. InFirst(seqs, k + 1) = InFirst(seqs, k) \cup ToSet(seqs[k + 1])
    <3>1. 1 .. (k + 1) = (1 .. k) \cup {k + 1} BY <1>2, SMTT(30)
    <3> QED BY <3>1 DEF InFirst
  <2>6. ASSUME Apart PROVE IsInjective(flat[k + 1])
    <3>1. IsInjective(flat[k]) /\ IsInjective(seqs[k + 1]) BY <2>1, <2>3, <2>6
    <3>2. \A i \in 1 .. k : ToSet(seqs[i]) \cap ToSet(seqs[k + 1]) = {}
      <4>1. \A i \in 1 .. k : i \in 1 .. n /\ i # k + 1 BY <1>2
      <4> QED BY <2>1, <2>6, <4>1
    <3>3. InFirst(seqs, k) \cap ToSet(seqs[k + 1]) = {} BY <3>2 DEF InFirst
    <3> QED BY <2>2, <2>3, <3>1, <3>3, OnceConcat
  <2>7. Apart => IsInjective(flat[k + 1]) BY <2>6
  <2>8. k + 1 \in 0 .. n BY <2>1
  <2>9. ToSet(flat[k + 1]) = InFirst(seqs, k + 1) BY <2>3, <2>4, <2>5
  <2> HIDE DEF Apart
  <2> QED BY <2>7, <2>8, <2>9
<1> HIDE DEF S, Apart
<1>5. \A k \in 0 .. (n - 1) : k \in S => k + 1 \in S BY <1>4
<1>6. \A k \in 0 .. n : k \in S BY <1>2, <1>3, <1>5, Induct
<1>7. n \in S BY <1>2, <1>6
<1> QED BY <1>2, <1>7 DEF S, Apart, n

(* Text without control characters is printed as it is.                    *)
LEMMA PrintableAsIs ==
  ASSUME NEW Characters, NEW text \in Seq(Characters), "control" \notin ToSet(text)
  PROVE  Printable(text) = text
<1> DEFINE V == Characters \ {"control"}
           S == {t \in Seq(V) : Printable(t) = t}
<1>1. \A t : Printable(t) = FlattenSeq(PrintableParts(t))
  BY DEF Printable, EachOf, PrintableParts, PrintableChar
<1>2. <<>> \in S
  <2>1. PrintableParts(<<>>) = <<>> BY DEF PrintableParts
  <2>2. <<>> \in Seq(V) OBVIOUS
  <2> QED BY <1>1, <2>1, <2>2, FlattenNone
<1>3. ASSUME NEW t \in Seq(V), NEW c \in V, t \in S PROVE Append(t, c) \in S
  <2> HIDE DEF V
  <2> DEFINE more == Append(t, c)
  <2>1. /\ more \in Seq(V) /\ Len(more) = Len(t) + 1 /\ Len(t) \in Nat
        /\ \A i \in 1 .. Len(t) : more[i] = t[i]
        /\ more[Len(t) + 1] = c
    OBVIOUS
  <2>2. PrintableChar(c) = <<c>> BY DEF PrintableChar, V
  <2>3. PrintableParts(t) \in Seq(Seq(V))
    <3>1. ASSUME NEW i \in DOMAIN t PROVE PrintableChar(t[i]) \in Seq(V)
      <4>1. t[i] \in V OBVIOUS
      <4>2. t[i] # "control" BY <4>1 DEF V
      <4>3. PrintableChar(t[i]) = <<t[i]>> BY <4>2 DEF PrintableChar
      <4> QED BY <4>1, <4>3
    <3> QED BY <3>1 DEF PrintableParts
  <2>4. PrintableParts(more) = Append(PrintableParts(t), <<c>>)
    BY <2>1, <2>2, <2>3 DEF PrintableParts
  <2>5. FlattenSeq(PrintableParts(more)) = FlattenSeq(PrintableParts(t)) \o <<c>>
    <3>1. <<c>> \in Seq(V) OBVIOUS
    <3> QED BY <2>3, <2>4, <3>1, FlattenStep
  <2>6. Printable(t) = t BY <1>3
  <2>7. t \o <<c>> = more OBVIOUS
  <2>8. Printable(more) = more BY <1>1, <2>5, <2>6, <2>7
  <2> QED BY <2>1, <2>8
<1>4. text \in Seq(V) BY DEF ToSet
<1> HIDE DEF S, V
<1>5. \A t \in Seq(V) : t \in S BY <1>2, <1>3, SequenceInduct
<1> QED BY <1>4, <1>5 DEF S

=============================================================================
