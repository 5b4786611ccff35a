------------------------- MODULE SequenceInduction -------------------------
(***************************************************************************)
(* Induction over the natural numbers, stated without operators as         *)
(* parameters so that the provers can use it, and what the folds of the    *)
(* community modules rest on: the existence of a function that is defined  *)
(* by recursion.                                                           *)
(***************************************************************************)
EXTENDS Integers, Sequences, FiniteSetsExt, SequencesExt, SequenceTheorems, WellFoundedInduction, TLAPS

(* A set of natural numbers that is not empty has a least element. *)
LEMMA LeastNumber ==
  ASSUME NEW T \in SUBSET Nat, T # {}
  PROVE  \E x \in T : \A y \in T : x <= y
<1> DEFINE R == OpToRel(<, Nat)
<1>1. IsWellFoundedOn(R, Nat)
  BY NatLessThanWellFounded
<1> HIDE DEF R
<1>2. PICK x \in T : \A y \in T : <<y, x>> \notin R
  BY <1>1, WFMin
<1>3. \A m, n \in Nat : n < m => <<n, m>> \in R
  BY DEF R, OpToRel
<1>4. ASSUME NEW y \in T PROVE x <= y
  <2>1. x \in Nat /\ y \in Nat
    OBVIOUS
  <2>2. ~(y < x)
    BY <1>2, <1>3, <2>1
  <2> QED BY <2>1, <2>2
<1> QED BY <1>4

(* Induction: a set that holds 0 and with a number the next holds them all. *)
LEMMA AllNumbers ==
  ASSUME NEW S, 0 \in S, \A n \in Nat : n \in S => n + 1 \in S
  PROVE  \A n \in Nat : n \in S
<1> SUFFICES ASSUME Nat \ S # {} PROVE FALSE
  OBVIOUS
<1>1. PICK x \in Nat \ S : \A y \in Nat \ S : x <= y
  BY LeastNumber
<1>2. x # 0 /\ x - 1 \in Nat /\ x - 1 < x
  BY <1>1
<1>3. x - 1 \in S
  BY <1>1, <1>2
<1> QED BY <1>1, <1>2, <1>3

(* The greatest number of a set of the first N. *)
LEMMA MaxOfNumbers ==
  ASSUME NEW N \in Nat, NEW s \in SUBSET (1 .. N), s # {}
  PROVE  Max(s) \in s /\ \A y \in s : Max(s) >= y
<1> DEFINE T == {N - y : y \in s}
<1>1. T \in SUBSET Nat /\ T # {}
  <2>1. \A y \in s : y \in 1 .. N
    OBVIOUS
  <2>2. \A y \in s : N - y \in Nat
    BY <2>1
  <2> QED BY <2>2
<1>2. PICK t \in T : \A u \in T : t <= u
  BY <1>1, LeastNumber
<1>3. PICK x \in s : t = N - x
  OBVIOUS
<1>4. ASSUME NEW y \in s PROVE x >= y
  <2>1. N - y \in T /\ x \in 1 .. N /\ y \in 1 .. N
    OBVIOUS
  <2>2. N - x <= N - y
    BY <1>2, <1>3, <2>1
  <2> QED BY <2>1, <2>2
<1> QED BY <1>4 DEF Max

(* The function that a fold over a sequence is made of: from the base, over  *)
(* every set of places, the greatest one last, with F for each.              *)
IsFold(h, V, N, base, F) ==
  /\ h \in [SUBSET (1 .. N) -> V]
  /\ \A s \in SUBSET (1 .. N) : h[s] = IF s = {} THEN base ELSE F[<<Max(s), h[s \ {Max(s)}]>>]

LEMMA FoldExists ==
  ASSUME NEW V, NEW N \in Nat, NEW base \in V, NEW F \in [(1 .. N) \X V -> V]
  PROVE  \E h : IsFold(h, V, N, base, F)
<1> DEFINE Good(n, h) == \A s \in SUBSET (1 .. n) :
             h[s] = IF s = {} THEN base ELSE F[<<Max(s), h[s \ {Max(s)}]>>]
           Has(n) == \E h \in [SUBSET (1 .. n) -> V] : Good(n, h)
           S == {n \in Nat : n <= N => Has(n)}
<1>1. 0 \in S
  <2>1. Good(0, [s \in SUBSET (1 .. 0) |-> base])
    BY 1 .. 0 = {}
  <2> HIDE DEF Good
  <2>2. Has(0)
    BY <2>1
  <2> HIDE DEF Has
  <2> QED BY <2>2
<1>2. ASSUME NEW n \in Nat, n \in S PROVE n + 1 \in S
  <2> SUFFICES ASSUME n + 1 <= N PROVE Has(n + 1)
    <3> HIDE DEF Has
    <3> QED OBVIOUS
  <2>0. Has(n)
    <3> HIDE DEF Has
    <3> QED BY <1>2
  <2>1. PICK g \in [SUBSET (1 .. n) -> V] : Good(n, g)
    <3> HIDE DEF Good
    <3> QED BY <2>0
  <2> DEFINE h == [s \in SUBSET (1 .. n + 1) |->
                     IF n + 1 \in s THEN F[<<n + 1, g[s \ {n + 1}]>>] ELSE g[s]]
  <2>2. \A s \in SUBSET (1 .. n + 1) : s \ {n + 1} \in SUBSET (1 .. n)
    OBVIOUS
  <2>3. h \in [SUBSET (1 .. n + 1) -> V]
    <3> SUFFICES ASSUME NEW s \in SUBSET (1 .. n + 1)
                 PROVE  (IF n + 1 \in s THEN F[<<n + 1, g[s \ {n + 1}]>>] ELSE g[s]) \in V
      OBVIOUS
    <3>1. g[s \ {n + 1}] \in V
      BY <2>1, <2>2
    <3>2. n + 1 \in 1 .. N
      OBVIOUS
    <3>3. CASE n + 1 \in s
      BY <3>1, <3>2, <3>3
    <3>4. CASE n + 1 \notin s
      <4>1. s \ {n + 1} = s
        BY <3>4
      <4> QED BY <3>1, <3>4, <4>1
    <3> QED BY <3>3, <3>4
  <2>4. ASSUME NEW s \in SUBSET (1 .. n + 1)
        PROVE  h[s] = IF s = {} THEN base ELSE F[<<Max(s), h[s \ {Max(s)}]>>]
    <3>1. CASE n + 1 \in s
      <4>1. Max(s) = n + 1
        <5>1. n + 1 \in Nat /\ s # {}
          BY <3>1
        <5>2. Max(s) \in s /\ Max(s) >= n + 1
          BY <3>1, <5>1, MaxOfNumbers
        <5>3. Max(s) \in 1 .. n + 1
          BY <5>2
        <5> QED BY <5>2, <5>3
      <4>2. h[s \ {n + 1}] = g[s \ {n + 1}]
        OBVIOUS
      <4>3. h[s] = F[<<n + 1, g[s \ {n + 1}]>>]
        BY <3>1
      <4> HIDE DEF h
      <4> QED BY <3>1, <4>1, <4>2, <4>3
    <3>2. CASE n + 1 \notin s
      <4>1. s \in SUBSET (1 .. n)
        BY <3>2
      <4>2. h[s] = g[s]
        BY <3>2
      <4>3. g[s] = IF s = {} THEN base ELSE F[<<Max(s), g[s \ {Max(s)}]>>]
        BY <2>1, <4>1
      <4>4. h[s \ {Max(s)}] = g[s \ {Max(s)}]
        BY <3>2
      <4> HIDE DEF h
      <4> QED BY <4>2, <4>3, <4>4
    <3> QED BY <3>1, <3>2
  <2> QED BY <2>3, <2>4
<1> HIDE DEF S
<1>3. N \in S
  BY <1>1, <1>2, AllNumbers
<1> HIDE DEF Has
<1>4. Has(N)
  BY <1>3 DEF S
<1> QED BY <1>4 DEF Has, IsFold

(* The function that is defined by recursion on the first N numbers.         *)
IsRecursive(h, V, N, base, F) ==
  /\ h \in [0 .. N -> V]
  /\ \A i \in 0 .. N : h[i] = IF i = 0 THEN base ELSE F[<<i, h[i - 1]>>]

(* What a fold computes: one step for each place, from the first to the     *)
(* last.  iter is what the fold defines, over the sets of places.           *)
Iterates(iter, V, N, base, F) ==
  /\ N \in Nat /\ base \in V /\ F \in [(1 .. N) \X V -> V]
  /\ iter[{}] = base
  /\ \A s \in SUBSET (1 .. N) :
       s # {} /\ iter[s \ {Max(s)}] \in V => iter[s] = F[<<Max(s), iter[s \ {Max(s)}]>>]

(* h follows the fold to its result. *)
Follows(h, iter, V, N, base, F) == IsRecursive(h, V, N, base, F) /\ h[N] = iter[1 .. N]

LEMMA FoldIsRecursive ==
  ASSUME NEW V, NEW N, NEW base, NEW F, NEW iter, Iterates(iter, V, N, base, F)
  PROVE  \E h : Follows(h, iter, V, N, base, F)
<1>0. /\ N \in Nat /\ base \in V /\ F \in [(1 .. N) \X V -> V]
      /\ iter[{}] = base
      /\ \A s \in SUBSET (1 .. N) :
           s # {} /\ iter[s \ {Max(s)}] \in V => iter[s] = F[<<Max(s), iter[s \ {Max(s)}]>>]
  BY DEF Iterates
<1> DEFINE h == [i \in 0 .. N |-> iter[1 .. i]]
           S == {n \in Nat : n <= N => h[n] \in V}
<1> USE <1>0
<1>1. h[0] = base
  BY <1>0, 1 .. 0 = {}
<1>2. ASSUME NEW i \in 1 .. N, h[i - 1] \in V
      PROVE  h[i] = F[<<i, h[i - 1]>>] /\ h[i] \in V
  <2>1. i \in Nat /\ 1 .. i # {} /\ i \in 1 .. i /\ 1 .. i \in SUBSET (1 .. i)
    OBVIOUS
  <2>2. Max(1 .. i) = i
    <3>1. Max(1 .. i) \in 1 .. i /\ Max(1 .. i) >= i
      BY <2>1, MaxOfNumbers
    <3>2. Max(1 .. i) \in Nat /\ Max(1 .. i) <= i
      BY <3>1
    <3> QED BY <3>1, <3>2
  <2>3. (1 .. i) \ {i} = 1 .. i - 1 /\ 1 .. i \in SUBSET (1 .. N)
    OBVIOUS
  <2>4. h[i] = iter[1 .. i] /\ h[i - 1] = iter[1 .. i - 1]
    OBVIOUS
  <2> HIDE DEF h
  <2>5. iter[1 .. i] = F[<<i, iter[1 .. i - 1]>>]
    BY <1>0, <1>2, <2>1, <2>2, <2>3, <2>4
  <2> QED BY <1>2, <2>4, <2>5
<1>3. \A i \in 0 .. N : h[i] \in V
  <2> HIDE DEF h
  <2>1. 0 \in S
    BY <1>1
  <2>2. ASSUME NEW n \in Nat, n \in S PROVE n + 1 \in S
    <3> SUFFICES ASSUME n + 1 <= N PROVE h[n + 1] \in V
      OBVIOUS
    <3>1. h[n] \in V /\ n + 1 \in 1 .. N /\ (n + 1) - 1 = n
      BY <2>2
    <3> QED BY <1>2, <3>1
  <2> HIDE DEF S
  <2>3. \A n \in Nat : n \in S
    BY <2>1, <2>2, AllNumbers
  <2> QED BY <2>3 DEF S
<1>4. h \in [0 .. N -> V]
  <2>1. h = [i \in 0 .. N |-> h[i]]
    OBVIOUS
  <2> HIDE DEF h
  <2> QED BY <1>3, <2>1
<1>5. ASSUME NEW i \in 0 .. N
      PROVE  h[i] = IF i = 0 THEN base ELSE F[<<i, h[i - 1]>>]
  <2> HIDE DEF h
  <2>1. i # 0 => i \in 1 .. N /\ i - 1 \in 0 .. N
    OBVIOUS
  <2> QED BY <1>1, <1>2, <1>3, <2>1
<1>6. h[N] = iter[1 .. N]
  OBVIOUS
<1> HIDE DEF h
<1>7. IsRecursive(h, V, N, base, F)
  BY <1>4, <1>5 DEF IsRecursive
<1> QED BY <1>6, <1>7 DEF Follows

LEMMA RecursionExists ==
  ASSUME NEW V, NEW N \in Nat, NEW base \in V, NEW F \in [(1 .. N) \X V -> V]
  PROVE  \E h : IsRecursive(h, V, N, base, F)
<1>1. PICK g : IsFold(g, V, N, base, F)
  BY FoldExists
<1>2. Iterates(g, V, N, base, F)
  BY <1>1 DEF IsFold, Iterates
<1> QED BY <1>2, FoldIsRecursive DEF Follows

-----------------------------------------------------------------------------
(* h follows the flattening of s, piece by piece. *)
Flattens(h, s, A) ==
  /\ h \in [0 .. Len(s) -> Seq(A)]
  /\ h[0] = <<>>
  /\ \A i \in 1 .. Len(s) : h[i] = h[i - 1] \o s[i]

(* There is such an h. *)
LEMMA FlattensExists ==
  ASSUME NEW A, NEW s \in Seq(Seq(A))
  PROVE  \E h : Flattens(h, s, A)
<1> DEFINE N == Len(s)
           V == Seq(A)
           F == [p \in (1 .. N) \X V |-> p[2] \o s[p[1]]]
<1>1. N \in Nat /\ <<>> \in V /\ \A i \in 1 .. N : s[i] \in V
  BY EmptySeq
<1>2. F \in [(1 .. N) \X V -> V] /\ \A i \in 1 .. N, v \in V : F[<<i, v>>] = v \o s[i]
  <2>1. \A i \in 1 .. N, v \in V : v \o s[i] \in V
    BY <1>1, ConcatProperties
  <2> QED BY <2>1
<1> HIDE DEF F, V, N
<1>3. PICK h : IsRecursive(h, V, N, <<>>, F)
  BY <1>1, <1>2, RecursionExists
<1>4. /\ h \in [0 .. N -> V] /\ h[0] = <<>>
      /\ \A i \in 1 .. N : h[i] = F[<<i, h[i - 1]>>] /\ h[i - 1] \in V
  <2>1. 0 \in 0 .. N /\ \A i \in 1 .. N : i \in 0 .. N /\ i - 1 \in 0 .. N /\ i # 0
    BY <1>1
  <2> QED BY <1>3, <2>1 DEF IsRecursive
<1>5. \A i \in 1 .. N : h[i] = h[i - 1] \o s[i]
  BY <1>2, <1>4
<1> QED BY <1>4, <1>5 DEF Flattens, N, V

(* What follows the flattening ends with it. *)
LEMMA FlattensToEnd ==
  ASSUME NEW A, NEW s \in Seq(Seq(A)), NEW h, Flattens(h, s, A)
  PROVE  FlattenSeq(s) = h[Len(s)]
<1> DEFINE N == Len(s)
           Body(it) == [i \in 1 .. Len(s) |-> IF i = 1 THEN s[i] ELSE it[i - 1] \o s[i]]
           iter == CHOOSE it : it = Body(it)
<1>1. /\ N \in Nat /\ \A i \in 1 .. N : s[i] \in Seq(A)
      /\ h \in [0 .. N -> Seq(A)] /\ h[0] = <<>> /\ \A i \in 1 .. N : h[i] = h[i - 1] \o s[i]
  <2>1. N \in Nat /\ \A i \in 1 .. N : s[i] \in Seq(A)
    OBVIOUS
  <2>2. h \in [0 .. N -> Seq(A)] /\ h[0] = <<>> /\ \A i \in 1 .. N : h[i] = h[i - 1] \o s[i]
    BY DEF Flattens
  <2> QED BY <2>1, <2>2
<1>2. CASE N = 0
  <2>1. s = <<>>
    BY <1>2, EmptySeq
  <2> QED BY <1>1, <1>2, <2>1 DEF FlattenSeq
<1>3. CASE N # 0
  <2>1. FlattenSeq(s) = iter[N]
    BY <1>3 DEF FlattenSeq
  <2> DEFINE g == [i \in 1 .. N |-> h[i]]
  <2>2. \A i \in 1 .. N : g[i] = IF i = 1 THEN s[i] ELSE g[i - 1] \o s[i]
    <3> SUFFICES ASSUME NEW i \in 1 .. N PROVE g[i] = IF i = 1 THEN s[i] ELSE g[i - 1] \o s[i]
      OBVIOUS
    <3>1. h[i] = h[i - 1] \o s[i] /\ s[i] \in Seq(A)
      BY <1>1
    <3>2. CASE i = 1
      <4>1. h[i] = <<>> \o s[i]
        BY <1>1, <3>1, <3>2
      <4> QED BY <3>1, <3>2, <4>1, ConcatEmptySeq
    <3>3. CASE i # 1
      <4>1. i - 1 \in 1 .. N /\ i \in 1 .. N
        BY <1>1, <3>3
      <4> QED BY <3>1, <3>3, <4>1
    <3> QED BY <3>2, <3>3
  <2>3. g = Body(g)
    <3>1. g = [i \in 1 .. N |-> g[i]]
      OBVIOUS
    <3> HIDE DEF g
    <3> QED BY <2>2, <3>1
  <2>4. iter = Body(iter)
    <3>1. \E it : it = Body(it)
      BY <2>3
    <3> HIDE DEF Body
    <3> QED BY <3>1
  <2> HIDE DEF iter, g
  <2> DEFINE S == {n \in Nat : n <= N => n = 0 \/ iter[n] = h[n]}
  <2>5. 0 \in S
    OBVIOUS
  <2>6. ASSUME NEW n \in Nat, n \in S PROVE n + 1 \in S
    <3> SUFFICES ASSUME n + 1 <= N PROVE iter[n + 1] = h[n + 1]
      OBVIOUS
    <3>1. n + 1 \in 1 .. N /\ (n + 1) - 1 = n /\ (n = 0 \/ iter[n] = h[n])
      BY <1>1, <2>6
    <3>2. h[n + 1] = h[n] \o s[n + 1] /\ s[n + 1] \in Seq(A)
      BY <1>1, <3>1
    <3>3. iter[n + 1] = IF n + 1 = 1 THEN s[n + 1] ELSE iter[(n + 1) - 1] \o s[n + 1]
      BY <2>4, <3>1
    <3>4. CASE n = 0
      <4>1. <<>> \o s[n + 1] = s[n + 1]
        BY <3>2, ConcatEmptySeq
      <4> QED BY <1>1, <3>2, <3>3, <3>4, <4>1
    <3>5. CASE n # 0
      <4>1. n + 1 # 1
        BY <3>5
      <4> QED BY <3>1, <3>2, <3>3, <3>5, <4>1
    <3> QED BY <3>4, <3>5
  <2> HIDE DEF S
  <2>7. N \in S
    BY <1>1, <2>5, <2>6, AllNumbers
  <2> QED BY <1>1, <1>3, <2>1, <2>7 DEF S
<1> QED BY <1>2, <1>3

(* One more piece *)
LEMMA FlattenAppend ==
  ASSUME NEW A, NEW s \in Seq(Seq(A)), NEW x \in Seq(A)
  PROVE  /\ FlattenSeq(s) \in Seq(A)
         /\ FlattenSeq(Append(s, x)) = FlattenSeq(s) \o x
<1> DEFINE more == Append(s, x)
           N == Len(s)
<1>1. /\ N \in Nat /\ more \in Seq(Seq(A)) /\ Len(more) = N + 1
      /\ \A i \in 1 .. N : more[i] = s[i] /\ more[N + 1] = x
  BY AppendProperties
<1> HIDE DEF more
<1>2. PICK h : Flattens(h, more, A)
  BY <1>1, FlattensExists
<1>3. /\ h \in [0 .. N + 1 -> Seq(A)] /\ h[0] = <<>>
      /\ \A i \in 1 .. N + 1 : h[i] = h[i - 1] \o more[i]
  BY <1>1, <1>2 DEF Flattens
<1> DEFINE g == [i \in 0 .. N |-> h[i]]
<1>4. Flattens(g, s, A)
  <2>1. g \in [0 .. N -> Seq(A)] /\ g[0] = <<>>
    BY <1>1, <1>3
  <2>2. ASSUME NEW i \in 1 .. N PROVE g[i] = g[i - 1] \o s[i]
    <3>1. i \in 1 .. N + 1 /\ i \in 0 .. N /\ i - 1 \in 0 .. N
      BY <1>1
    <3>2. h[i] = h[i - 1] \o more[i] /\ more[i] = s[i]
      BY <1>1, <1>3, <3>1
    <3> QED BY <3>1, <3>2
  <2> QED BY <2>1, <2>2 DEF Flattens
<1>5. FlattenSeq(s) = g[N] /\ g[N] = h[N] /\ h[N] \in Seq(A)
  <2>1. FlattenSeq(s) = g[N]
    <3> HIDE DEF g
    <3> QED BY <1>4, FlattensToEnd
  <2> QED BY <1>1, <1>3, <2>1
<1>6. FlattenSeq(more) = h[N + 1]
  BY <1>1, <1>2, FlattensToEnd
<1>7. h[N + 1] = h[N] \o more[N + 1] /\ more[N + 1] = x
  <2>1. N + 1 \in 1 .. N + 1 /\ (N + 1) - 1 = N
    BY <1>1
  <2>2. more[N + 1] = x
    BY AppendProperties DEF more
  <2> QED BY <1>3, <2>1, <2>2
<1> QED BY <1>5, <1>6, <1>7 DEF more

(* Of nothing, nothing *)
LEMMA FlattenEmpty == FlattenSeq(<<>>) = <<>>
BY DEF FlattenSeq

(* A sequence and one element more behind another *)
LEMMA ConcatAppend ==
  ASSUME NEW A, NEW s \in Seq(A), NEW u \in Seq(A), NEW x \in A
  PROVE  s \o Append(u, x) = Append(s \o u, x) /\ s \o u \in Seq(A)
<1>1. <<x>> \in Seq(A) /\ s \o u \in Seq(A)
  BY ConcatProperties
<1>2. Append(u, x) = u \o <<x>> /\ Append(s \o u, x) = (s \o u) \o <<x>>
  BY <1>1, AppendIsConcat
<1>3. (s \o u) \o <<x>> = s \o (u \o <<x>>)
  BY <1>1, ConcatAssociative, SMTT(30)
<1> QED BY <1>1, <1>2, <1>3

(* Of two parts, one after the other *)
LEMMA FlattenConcat ==
  ASSUME NEW A, NEW s \in Seq(Seq(A)), NEW t \in Seq(Seq(A))
  PROVE  FlattenSeq(s \o t) = FlattenSeq(s) \o FlattenSeq(t)
<1> DEFINE N == Len(t)
           Upto(n) == SubSeq(t, 1, n)
           S == {n \in Nat : n <= N => FlattenSeq(s \o Upto(n)) = FlattenSeq(s) \o FlattenSeq(Upto(n))}
<1>0. N \in Nat /\ FlattenSeq(s) \in Seq(A)
  <2>1. <<>> \in Seq(A)
    BY EmptySeq
  <2> QED BY <2>1, FlattenAppend
<1>1. 0 \in S
  <2>1. Upto(0) = <<>>
    BY SubSeqEmpty
  <2>2. s \o <<>> = s /\ FlattenSeq(s) \o <<>> = FlattenSeq(s)
    BY <1>0, ConcatEmptySeq
  <2> QED BY <2>1, <2>2, FlattenEmpty
<1>2. ASSUME NEW n \in Nat, n \in S PROVE n + 1 \in S
  <2> SUFFICES ASSUME n + 1 <= N
               PROVE  FlattenSeq(s \o Upto(n + 1)) = FlattenSeq(s) \o FlattenSeq(Upto(n + 1))
    OBVIOUS
  <2> DEFINE u == Upto(n)
             x == t[n + 1]
  <2>1. u \in Seq(Seq(A)) /\ x \in Seq(A) /\ Upto(n + 1) = Append(u, x)
    <3>1. n + 1 \in 1 .. N /\ (n + 1) - 1 = n
      BY <1>0
    <3>2. Upto(n + 1) = Append(SubSeq(t, 1, (n + 1) - 1), t[n + 1])
      BY <1>0, <3>1, SubSeqRecursiveSecond
    <3>3. u \in Seq(Seq(A))
      BY <1>0, <3>1, SubSeqProperties
    <3> QED BY <3>1, <3>2, <3>3
  <2>2. FlattenSeq(s \o u) = FlattenSeq(s) \o FlattenSeq(u)
    BY <1>0, <1>2
  <2> HIDE DEF u, x, S, Upto, N
  <2>3. s \o Append(u, x) = Append(s \o u, x) /\ s \o u \in Seq(Seq(A))
    BY <2>1, ConcatAppend
  <2>4. FlattenSeq(Append(s \o u, x)) = (FlattenSeq(s) \o FlattenSeq(u)) \o x
    <3>1. FlattenSeq(Append(s \o u, x)) = FlattenSeq(s \o u) \o x
      BY <2>1, <2>3, FlattenAppend
    <3> QED BY <2>2, <3>1
  <2>5. FlattenSeq(u) \in Seq(A) /\ FlattenSeq(Append(u, x)) = FlattenSeq(u) \o x
    BY <2>1, FlattenAppend
  <2>6. (FlattenSeq(s) \o FlattenSeq(u)) \o x = FlattenSeq(s) \o (FlattenSeq(u) \o x)
    <3> DEFINE a == FlattenSeq(s)
               b == FlattenSeq(u)
    <3>1. a \in Seq(A) /\ b \in Seq(A) /\ x \in Seq(A)
      BY <1>0, <2>1, <2>5
    <3> HIDE DEF a, b
    <3>2. (a \o b) \o x = a \o (b \o x)
      BY <3>1, ConcatAssociative, SMTT(30)
    <3> QED BY <3>2 DEF a, b
  <2> QED BY <2>1, <2>3, <2>4, <2>5, <2>6
<1> HIDE DEF S
<1>3. N \in S
  BY <1>0, <1>1, <1>2, AllNumbers
<1>4. Upto(N) = t
  BY SubSeqFull
<1> HIDE DEF N, Upto
<1>5. FlattenSeq(s \o Upto(N)) = FlattenSeq(s) \o FlattenSeq(Upto(N))
  BY <1>0, <1>3 DEF S
<1> QED BY <1>4, <1>5
============================================================================
