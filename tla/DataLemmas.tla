----------------------------- MODULE DataLemmas -----------------------------
(***************************************************************************)
(* Induction over the natural numbers for sets, the functions defined by   *)
(* recursion on them, and what FlattenSeq computes: lemmas for the modules *)
(* with proofs about recursive definitions.                                *)
(***************************************************************************)
EXTENDS Integers, SequencesExt, SequenceTheorems, WellFoundedInduction, TLAPS

LEMMA LeastNatural ==
  ASSUME NEW T, T \subseteq Nat, T # {}
  PROVE  \E n \in T : \A m \in T : n <= m
<1> DEFINE R == OpToRel(<, Nat)
<1>1. IsWellFoundedOn(R, Nat)
  BY NatLessThanWellFounded
<1>2. \A m, n \in Nat : <<m, n>> \in R <=> m < n
  BY DEF OpToRel
<1> HIDE DEF R
<1>3. \E n \in T : \A m \in T : ~(<<m, n>> \in R)
  BY <1>1, WFMin
<1>4. PICK n \in T : \A m \in T : ~(<<m, n>> \in R)
  BY <1>3, Zenon
<1>5. ASSUME NEW m \in T PROVE n <= m
  <2>1. ~(<<m, n>> \in R) /\ m \in Nat /\ n \in Nat
    BY <1>4
  <2>2. ~(m < n)
    BY <1>2, <2>1, Zenon
  <2>. QED
    BY <2>1, <2>2
<1>. QED
  BY <1>5

(* Induction: a set that holds 0 and with each number the next holds all.  *)
LEMMA AllNaturals ==
  ASSUME NEW T, 0 \in T, \A n \in Nat : n \in T => n + 1 \in T
  PROVE  Nat \subseteq T
<1> SUFFICES ASSUME Nat \ T # {} PROVE FALSE
  OBVIOUS
<1>1. PICK n \in Nat \ T : \A m \in Nat \ T : n <= m
  BY LeastNatural
<1>2. n # 0 /\ n - 1 \in Nat
  BY <1>1
<1>. QED
  BY <1>1, <1>2

-----------------------------------------------------------------------------
(* Recursion: there is a function that begins with a and goes on by step.  *)

GoesOn(f, m, a, step) ==
  /\ f[0] = a
  /\ \A j \in 0 .. (m - 1) : f[j + 1] = step[j][f[j]]

LEMMA PartialFunction ==
  ASSUME NEW D, NEW a \in D, NEW step \in [Nat -> [D -> D]]
  PROVE  \A n \in Nat : \E f \in [0 .. n -> D] : GoesOn(f, n, a, step)
<1> DEFINE T == {n \in Nat : \E f \in [0 .. n -> D] : GoesOn(f, n, a, step)}
<1>1. 0 \in T
  <2>1. [j \in 0 .. 0 |-> a] \in [0 .. 0 -> D] /\ GoesOn([j \in 0 .. 0 |-> a], 0, a, step)
    BY DEF GoesOn
  <2>. QED
    BY <2>1
<1>2. ASSUME NEW n \in Nat, n \in T PROVE n + 1 \in T
  <2>1. PICK f \in [0 .. n -> D] : GoesOn(f, n, a, step)
    BY <1>2
  <2> DEFINE g == [j \in 0 .. (n + 1) |-> IF j = n + 1 THEN step[n][f[n]] ELSE f[j]]
  <2>2. f[n] \in D /\ step[n][f[n]] \in D
    OBVIOUS
  <2>3. g \in [0 .. (n + 1) -> D]
    BY <2>2
  <2>4. g[0] = a
    BY <2>1 DEF GoesOn
  <2>5. ASSUME NEW j \in 0 .. n PROVE g[j + 1] = step[j][g[j]]
    <3>1. CASE j = n
      BY <3>1
    <3>2. CASE j < n
      <4>1. /\ j \in 0 .. (n - 1) /\ g[j] = f[j] /\ g[j + 1] = f[j + 1]
        BY <3>2
      <4>. QED
        BY <2>1, <4>1 DEF GoesOn
    <3>. QED
      BY <3>1, <3>2
  <2> HIDE DEF g
  <2>6. GoesOn(g, n + 1, a, step)
    BY <2>4, <2>5 DEF GoesOn
  <2>. QED
    BY <2>3, <2>6
<1> HIDE DEF T
<1>3. Nat \subseteq T
  BY <1>1, <1>2, AllNaturals
<1>. QED
  BY <1>3 DEF T

LEMMA PartialFunctionsAgree ==
  ASSUME NEW a, NEW step, NEW m \in Nat, NEW n \in Nat,
         NEW f, GoesOn(f, m, a, step), NEW g, GoesOn(g, n, a, step)
  PROVE  \A j \in Nat : j <= m /\ j <= n => f[j] = g[j]
<1> DEFINE T == {j \in Nat : j <= m /\ j <= n => f[j] = g[j]}
<1>1. 0 \in T
  BY DEF GoesOn
<1>2. ASSUME NEW j \in Nat, j \in T PROVE j + 1 \in T
  <2> SUFFICES ASSUME j + 1 <= m, j + 1 <= n PROVE f[j + 1] = g[j + 1]
    OBVIOUS
  <2>1. f[j] = g[j] /\ j \in 0 .. (m - 1) /\ j \in 0 .. (n - 1)
    BY <1>2
  <2>. QED
    BY <2>1 DEF GoesOn
<1> HIDE DEF T
<1>3. Nat \subseteq T
  BY <1>1, <1>2, AllNaturals
<1>. QED
  BY <1>3 DEF T

AllGoesOn(f, a, step) ==
  f[0] = a /\ \A n \in Nat : f[n + 1] = step[n][f[n]]

LEMMA Recursion ==
  ASSUME NEW D, NEW a \in D, NEW step \in [Nat -> [D -> D]]
  PROVE  \E f \in [Nat -> D] : AllGoesOn(f, a, step)
<1> DEFINE Upto(n) == CHOOSE f \in [0 .. n -> D] : GoesOn(f, n, a, step)
           whole == [n \in Nat |-> Upto(n)[n]]
<1>1. \A n \in Nat : Upto(n) \in [0 .. n -> D] /\ GoesOn(Upto(n), n, a, step)
  BY PartialFunction
<1> HIDE DEF Upto
<1>2. whole \in [Nat -> D]
  BY <1>1
<1>3. whole[0] = a
  BY <1>1 DEF GoesOn
<1>4. ASSUME NEW n \in Nat PROVE whole[n + 1] = step[n][whole[n]]
  <2>1. /\ n + 1 \in Nat /\ Upto(n + 1) \in [0 .. (n + 1) -> D]
        /\ GoesOn(Upto(n + 1), n + 1, a, step)
        /\ Upto(n) \in [0 .. n -> D] /\ GoesOn(Upto(n), n, a, step)
    BY <1>1
  <2>2. ASSUME NEW f, GoesOn(f, n + 1, a, step), NEW g, GoesOn(g, n, a, step)
        PROVE  f[n] = g[n]
    <3>1. n + 1 \in Nat /\ n <= n + 1
      OBVIOUS
    <3>2. \A j \in Nat : j <= n + 1 /\ j <= n => f[j] = g[j]
      BY <3>1, <2>2, PartialFunctionsAgree
    <3>. QED
      BY <3>1, <3>2
  <2>3. Upto(n + 1)[n] = Upto(n)[n]
    BY <2>1, <2>2
  <2>4. n \in 0 .. ((n + 1) - 1)
    OBVIOUS
  <2>5. Upto(n + 1)[n + 1] = step[n][Upto(n + 1)[n]]
    BY <2>1, <2>4 DEF GoesOn
  <2>. QED
    BY <2>3, <2>5
<1> HIDE DEF whole
<1>. QED
  BY <1>2, <1>3, <1>4 DEF AllGoesOn

-----------------------------------------------------------------------------
(* FlattenSeq puts sequences together one after the other.                 *)

(* F[j] is the first j sequences of s, put together.                       *)
PutsTogether(F, s) ==
  /\ F[0] = <<>>
  /\ \A j \in 1 .. Len(s) : F[j] = F[j - 1] \o s[j]

LEMMA MembersOfASequence ==
  ASSUME NEW D, NEW s \in Seq(D)
  PROVE  Len(s) \in Nat /\ \A j \in 1 .. Len(s) : s[j] \in D
  OBVIOUS

LEMMA FlattenRuns ==
  ASSUME NEW D, NEW s \in Seq(Seq(D)), Len(s) > 0,
         NEW F \in [Nat -> Seq(D)], PutsTogether(F, s)
  PROVE  FlattenSeq(s) = F[Len(s)]
<1> DEFINE N == Len(s)
           Body(g) == [i \in 1 .. Len(s) |-> IF i = 1 THEN s[i] ELSE g[i - 1] \o s[i]]
           whole == CHOOSE g : g = Body(g)
           T == {j \in Nat : j + 1 <= N => whole[j + 1] = F[j + 1]}
<1>0. Len(s) \in Nat /\ \A j \in 1 .. Len(s) : s[j] \in Seq(D)
  BY MembersOfASequence
<1>1. \E g : g = Body(g)
  <2> DEFINE g == [i \in 1 .. Len(s) |-> F[i]]
  <2>1. ASSUME NEW i \in 1 .. Len(s) PROVE F[i] = IF i = 1 THEN s[i] ELSE F[i - 1] \o s[i]
    <3>1. F[i] = F[i - 1] \o s[i] /\ s[i] \in Seq(D)
      BY <1>0 DEF PutsTogether
    <3>2. i = 1 => F[i - 1] = <<>>
      BY DEF PutsTogether
    <3>3. <<>> \o s[i] = s[i]
      BY <3>1, ConcatEmptySeq
    <3>. QED
      BY <3>1, <3>2, <3>3
  <2>2. ASSUME NEW i \in 1 .. Len(s) PROVE g[i] = Body(g)[i]
    <3>1. i # 1 => i - 1 \in 1 .. Len(s)
      BY <1>0
    <3>. QED
      BY <2>1, <3>1
  <2>3. g = Body(g)
    BY <2>2
  <2>. QED
    BY <2>3
<1>2. whole = Body(whole)
  BY <1>1, Zenon
<1>3. FlattenSeq(s) = whole[N]
  <2>1. Len(s) # 0
    BY <1>0
  <2>. QED
    BY <2>1, Zenon DEF FlattenSeq
<1> HIDE DEF whole
<1>4. \A i \in 1 .. Len(s) : whole[i] = IF i = 1 THEN s[i] ELSE whole[i - 1] \o s[i]
  BY <1>2
<1>5. 0 \in T
  <2>1. 1 \in 1 .. Len(s)
    BY <1>0
  <2>2. F[1] = F[1 - 1] \o s[1] /\ s[1] \in Seq(D)
    BY <1>0, <2>1 DEF PutsTogether
  <2>3. F[1] = s[1]
    <3>1. 1 - 1 = 0 /\ F[0] = <<>> /\ <<>> \o s[1] = s[1]
      BY <2>2, ConcatEmptySeq DEF PutsTogether
    <3>. QED
      BY <2>2, <3>1
  <2>4. whole[1] = s[1]
    BY <1>4, <2>1
  <2>5. whole[0 + 1] = F[0 + 1]
    <3>1. 0 + 1 = 1
      OBVIOUS
    <3>. QED
      BY <2>3, <2>4, <3>1, Zenon
  <2>. QED
    BY <2>5
<1>6. ASSUME NEW j \in Nat, j \in T PROVE j + 1 \in T
  <2> SUFFICES ASSUME (j + 1) + 1 <= N
               PROVE  whole[(j + 1) + 1] = F[(j + 1) + 1]
    OBVIOUS
  <2>1. PICK m \in 1 .. Len(s) : m = (j + 1) + 1 /\ m # 1 /\ m - 1 = j + 1
    BY <1>0
  <2>2. whole[m - 1] = F[m - 1]
    BY <1>6, <1>0, <2>1
  <2>3. whole[m] = whole[m - 1] \o s[m]
    BY <1>4, <2>1
  <2>4. F[m] = F[m - 1] \o s[m]
    BY <2>1 DEF PutsTogether
  <2>. QED
    BY <2>1, <2>2, <2>3, <2>4
<1> HIDE DEF T
<1>7. Nat \subseteq T
  BY <1>5, <1>6, AllNaturals
<1>8. N - 1 \in T /\ (N - 1) + 1 = N
  BY <1>7, <1>0
<1>. QED
  BY <1>3, <1>8 DEF T

LEMMA FlattenNothing == FlattenSeq(<<>>) = <<>>
  BY DEF FlattenSeq

LEMMA FlattenSoFar ==
  ASSUME NEW D, NEW s \in Seq(Seq(D))
  PROVE  \E F \in [Nat -> Seq(D)] : PutsTogether(F, s)
<1> DEFINE step == [j \in Nat |-> [d \in Seq(D) |->
                     IF j + 1 \in 1 .. Len(s) THEN d \o s[j + 1] ELSE d]]
           S == Seq(D)
           none == <<>>
<1>1. Len(s) \in Nat /\ \A j \in 1 .. Len(s) : s[j] \in Seq(D)
  BY MembersOfASequence
<1>2. step \in [Nat -> [S -> S]]
  <2>1. ASSUME NEW j \in Nat, NEW d \in Seq(D)
        PROVE  (IF j + 1 \in 1 .. Len(s) THEN d \o s[j + 1] ELSE d) \in Seq(D)
    BY <1>1
  <2>. QED
    BY <2>1
<1>3. ASSUME NEW j \in 1 .. Len(s), NEW d \in Seq(D)
      PROVE  step[j - 1][d] = d \o s[j]
  BY <1>1
<1>4. none \in S
  OBVIOUS
<1> HIDE DEF step, S, none
<1>5. PICK F \in [Nat -> S] : AllGoesOn(F, none, step)
  BY <1>4, <1>2, Recursion
<1>6. ASSUME NEW j \in 1 .. Len(s) PROVE F[j] = F[j - 1] \o s[j]
  <2>1. PICK n \in Nat : n = j - 1 /\ n + 1 = j
    BY <1>1
  <2>2. F[n + 1] = step[n][F[n]] /\ F[n] \in Seq(D)
    BY <1>5 DEF S, AllGoesOn
  <2>. QED
    BY <2>1, <2>2, <1>3
<1>. QED
  BY <1>5, <1>6 DEF S, none, PutsTogether, AllGoesOn

LEMMA FlattenAppend ==
  ASSUME NEW D, NEW s \in Seq(Seq(D)), NEW x \in Seq(D)
  PROVE  /\ FlattenSeq(s) \in Seq(D)
         /\ FlattenSeq(Append(s, x)) = FlattenSeq(s) \o x
<1> DEFINE t == Append(s, x)
<1>1. /\ t \in Seq(Seq(D)) /\ Len(t) = Len(s) + 1 /\ Len(s) \in Nat
      /\ t[Len(s) + 1] = x /\ \A j \in 1 .. Len(s) : t[j] = s[j]
  OBVIOUS
<1> HIDE DEF t
<1>2. PICK F \in [Nat -> Seq(D)] : PutsTogether(F, t)
  BY <1>1, FlattenSoFar
<1>3. FlattenSeq(t) = F[Len(s) + 1]
  <2>1. Len(t) > 0
    BY <1>1
  <2>2. FlattenSeq(t) = F[Len(t)]
    BY <1>1, <1>2, <2>1, FlattenRuns
  <2>. QED
    BY <2>2, <1>1
<1>4. FlattenSeq(s) = F[Len(s)]
  <2>1. CASE Len(s) = 0
    <3>1. s = <<>>
      BY <2>1
    <3>. QED
      BY <3>1, <2>1, <1>2, FlattenNothing DEF PutsTogether
  <2>2. CASE Len(s) > 0
    <3>1. \A j \in 1 .. Len(s) : j \in 1 .. Len(t) /\ t[j] = s[j]
      BY <1>1
    <3>2. PutsTogether(F, s)
      BY <1>2, <3>1 DEF PutsTogether
    <3>. QED
      BY <2>2, <3>2, FlattenRuns
  <2>. QED
    BY <2>1, <2>2, <1>1
<1>5. F[Len(s) + 1] = F[Len(s)] \o x
  <2>1. PICK m \in 1 .. Len(t) : m = Len(s) + 1 /\ m - 1 = Len(s)
    BY <1>1
  <2>2. F[m] = F[m - 1] \o t[m]
    BY <1>2 DEF PutsTogether
  <2>. QED
    BY <2>1, <2>2, <1>1
<1>6. F[Len(s)] \in Seq(D)
  BY <1>1
<1>. QED
  BY <1>3, <1>4, <1>5, <1>6 DEF t

LEMMA FlattenCons ==
  ASSUME NEW D, NEW s \in Seq(Seq(D)), NEW x \in Seq(D)
  PROVE  FlattenSeq(<<x>> \o s) = x \o FlattenSeq(s)
<1> DEFINE Part(j) == SubSeq(s, 1, j)
           Same(j) == FlattenSeq(<<x>> \o Part(j)) = x \o FlattenSeq(Part(j))
           N == Len(s)
           T == {j \in Nat : j <= N => Same(j)}
<1>0. N \in Nat
  OBVIOUS
<1>1. Same(0)
  <2>1. Part(0) = <<>> /\ <<x>> \o <<>> = <<x>> /\ <<x>> = Append(<<>>, x)
        /\ <<>> \in Seq(Seq(D))
    OBVIOUS
  <2>2. FlattenSeq(Append(<<>>, x)) = FlattenSeq(<<>>) \o x
    BY <2>1, FlattenAppend
  <2>3. FlattenSeq(<<>>) \o x = x /\ x \o FlattenSeq(<<>>) = x
    BY FlattenNothing, ConcatEmptySeq
  <2>. QED
    BY <2>1, <2>2, <2>3
<1>2. ASSUME NEW j \in Nat, j + 1 <= N, Same(j) PROVE Same(j + 1)
  <2> DEFINE u == Part(j)
             y == s[j + 1]
             v == <<x>> \o u
             w == FlattenSeq(u)
  <2>1. u \in Seq(Seq(D)) /\ y \in Seq(D) /\ v \in Seq(Seq(D))
    BY <1>2
  <2>2. Part(j + 1) = Append(u, y)
    BY <1>2
  <2>3. <<x>> \o Append(u, y) = Append(v, y)
    BY <2>1
  <2>4. FlattenSeq(v) = x \o w
    BY <1>2
  <2> HIDE DEF Part, u, y, v
  <2>5. /\ FlattenSeq(Append(v, y)) = FlattenSeq(v) \o y
        /\ FlattenSeq(Append(u, y)) = w \o y
        /\ w \in Seq(D)
    BY <2>1, FlattenAppend
  <2> HIDE DEF w
  <2>6. (x \o w) \o y = x \o (w \o y)
    <3>1. x \in Seq(D) /\ w \in Seq(D) /\ y \in Seq(D)
      BY <2>1, <2>5
    <3>. QED
      BY <3>1, ConcatAssociative
  <2>. QED
    BY <2>2, <2>3, <2>4, <2>5, <2>6
<1>3. SubSeq(s, 1, N) = s
  BY SubSeqFull
<1> HIDE DEF Same, N
<1>4. 0 \in T
  BY <1>1
<1>5. ASSUME NEW j \in Nat, j \in T PROVE j + 1 \in T
  <2>1. j + 1 <= N => Same(j) /\ j + 1 <= N
    BY <1>5, <1>0
  <2>. QED
    BY <2>1, <1>2
<1> HIDE DEF T
<1>6. Nat \subseteq T
  BY <1>4, <1>5, AllNaturals
<1>7. Same(N)
  BY <1>6, <1>0 DEF T
<1>. QED
  BY <1>3, <1>7 DEF Same

-----------------------------------------------------------------------------
(* Sequences of whatever is in them.                                       *)

IsSeq(s) == \E D : s \in Seq(D)

LEMMA SeqsOfOneSet ==
  ASSUME NEW a, NEW b, NEW c, IsSeq(a), IsSeq(b), IsSeq(c)
  PROVE  \E D : a \in Seq(D) /\ b \in Seq(D) /\ c \in Seq(D)
<1>1. PICK A : a \in Seq(A)
  BY DEF IsSeq
<1>2. PICK B : b \in Seq(B)
  BY DEF IsSeq
<1>3. PICK C : c \in Seq(C)
  BY DEF IsSeq
<1>4. PICK D : A \subseteq D /\ B \subseteq D /\ C \subseteq D
  <2>1. A \subseteq A \cup B \cup C /\ B \subseteq A \cup B \cup C /\ C \subseteq A \cup B \cup C
    OBVIOUS
  <2>. QED
    BY <2>1, Zenon
<1>5. a \in Seq(D) /\ b \in Seq(D) /\ c \in Seq(D)
  BY <1>1, <1>2, <1>3, <1>4, SeqMonotonic
<1>. QED
  BY <1>5

LEMMA Associative ==
  ASSUME NEW a, NEW b, NEW c, IsSeq(a), IsSeq(b), IsSeq(c)
  PROVE  (a \o b) \o c = a \o (b \o c) /\ IsSeq(a \o b)
<1>1. PICK D : a \in Seq(D) /\ b \in Seq(D) /\ c \in Seq(D)
  BY SeqsOfOneSet
<1>2. a \o b \in Seq(D)
  BY <1>1, ConcatProperties
<1>3. (a \o b) \o c = a \o (b \o c)
  BY <1>1, ConcatAssociative
<1>. QED
  BY <1>2, <1>3 DEF IsSeq

LEMMA FlattenNext ==
  ASSUME NEW n \in Nat, NEW s, \A j \in 1 .. (n + 1) : IsSeq(s[j])
  PROVE  /\ IsSeq(FlattenSeq([j \in 1 .. n |-> s[j]]))
         /\ FlattenSeq([j \in 1 .. (n + 1) |-> s[j]])
              = FlattenSeq([j \in 1 .. n |-> s[j]]) \o s[n + 1]
<1> DEFINE S(j) == CHOOSE D : s[j] \in Seq(D)
           E == UNION {S(j) : j \in 1 .. (n + 1)}
           u == [j \in 1 .. n |-> s[j]]
           x == s[n + 1]
<1>1. \A j \in 1 .. (n + 1) : s[j] \in Seq(S(j))
  BY DEF IsSeq
<1>2. \A j \in 1 .. (n + 1) : S(j) \subseteq E
  OBVIOUS
<1> HIDE DEF S, E
<1>3. \A j \in 1 .. (n + 1) : s[j] \in Seq(E)
  BY <1>1, <1>2
<1>4. u \in Seq(Seq(E)) /\ x \in Seq(E)
  BY <1>3
<1>5. [j \in 1 .. (n + 1) |-> s[j]] = Append(u, x)
  BY <1>4
<1> HIDE DEF u, x
<1>6. FlattenSeq(u) \in Seq(E) /\ FlattenSeq(Append(u, x)) = FlattenSeq(u) \o x
  BY <1>4, FlattenAppend
<1>. QED
  BY <1>5, <1>6 DEF u, x, IsSeq

(* The first n sequences of s, put together. *)
Part(s, n) == FlattenSeq([j \in 1 .. n |-> s[j]])

LEMMA PartNext ==
  ASSUME NEW D, NEW N \in Nat, NEW s, \A j \in 1 .. N : s[j] \in Seq(D)
  PROVE  /\ Part(s, 0) = <<>>
         /\ \A n \in 0 .. N : Part(s, n) \in Seq(D)
         /\ \A n \in 0 .. (N - 1) : Part(s, n + 1) = Part(s, n) \o s[n + 1]
<1> DEFINE u(n) == [j \in 1 .. n |-> s[j]]
<1>1. \A n \in 0 .. N : u(n) \in Seq(Seq(D)) /\ Part(s, n) = FlattenSeq(u(n))
  <2>1. ASSUME NEW n \in 0 .. N PROVE u(n) \in Seq(Seq(D))
    <3>1. n \in Nat /\ \A j \in 1 .. n : s[j] \in Seq(D)
      OBVIOUS
    <3>. QED
      BY <3>1
  <2>. QED
    BY <2>1 DEF Part
<1>2. Part(s, 0) = <<>>
  <2>1. [j \in 1 .. 0 |-> s[j]] = <<>>
    OBVIOUS
  <2>. QED
    BY <2>1, FlattenNothing DEF Part
<1>3. ASSUME NEW n \in 0 .. (N - 1) PROVE u(n + 1) = Append(u(n), s[n + 1])
  <2>1. n \in Nat
    OBVIOUS
  <2>. QED
    BY <2>1
<1> HIDE DEF u
<1>4. ASSUME NEW n \in 0 .. N PROVE Part(s, n) \in Seq(D)
  <2>1. u(n) \in Seq(Seq(D)) /\ <<>> \in Seq(D) /\ Part(s, n) = FlattenSeq(u(n))
    BY <1>1
  <2>. QED
    BY <2>1, FlattenAppend
<1>5. ASSUME NEW n \in 0 .. (N - 1) PROVE Part(s, n + 1) = Part(s, n) \o s[n + 1]
  <2>1. n \in 0 .. N /\ n + 1 \in 0 .. N /\ n + 1 \in 1 .. N
    OBVIOUS
  <2>2. /\ u(n) \in Seq(Seq(D)) /\ s[n + 1] \in Seq(D)
        /\ Part(s, n) = FlattenSeq(u(n)) /\ Part(s, n + 1) = FlattenSeq(u(n + 1))
    BY <1>1, <2>1
  <2>3. FlattenSeq(Append(u(n), s[n + 1])) = FlattenSeq(u(n)) \o s[n + 1]
    BY <2>2, FlattenAppend
  <2>. QED
    BY <1>3, <2>2, <2>3
<1>. QED
  BY <1>2, <1>4, <1>5

(* Where the parts are in the whole. *)
LEMMA PartInPlace ==
  ASSUME NEW D, NEW N \in Nat, NEW s \in [1 .. N -> Seq(D)],
         NEW n \in 0 .. (N - 1), NEW m \in 1 .. Len(s[n + 1])
  PROVE  /\ Len(Part(s, n)) + m <= Len(Part(s, N))
         /\ Part(s, N)[Len(Part(s, n)) + m] = s[n + 1][m]
<1> DEFINE at == Len(Part(s, n)) + m
           Held(h) == at <= Len(Part(s, h)) /\ Part(s, h)[at] = s[n + 1][m]
           T == {i \in Nat : (n + 1) + i <= N => Held((n + 1) + i)}
<1>1. /\ \A h \in 0 .. N : Part(s, h) \in Seq(D)
      /\ \A h \in 0 .. (N - 1) : Part(s, h + 1) = Part(s, h) \o s[h + 1]
  BY PartNext
<1>2. n \in 0 .. N /\ n + 1 \in 0 .. N /\ n + 1 \in 1 .. N /\ s[n + 1] \in Seq(D)
  OBVIOUS
<1>3. at \in Nat /\ at >= 1 /\ Len(Part(s, n)) \in Nat /\ Len(s[n + 1]) \in Nat
  <2>1. Part(s, n) \in Seq(D)
    BY <1>1, <1>2
  <2>2. Len(Part(s, n)) \in Nat /\ Len(s[n + 1]) \in Nat
    BY <1>2, <2>1
  <2>. QED
    BY <2>2
<1>4. Held(n + 1)
  <2> DEFINE a == Part(s, n)
             b == s[n + 1]
  <2>1. a \in Seq(D) /\ b \in Seq(D) /\ Part(s, n + 1) = a \o b
    BY <1>1, <1>2
  <2>2. m \in 1 .. Len(b) /\ at = Len(a) + m
    OBVIOUS
  <2> HIDE DEF a, b, at
  <2>3. /\ Len(a \o b) = Len(a) + Len(b)
        /\ \A i \in 1 .. (Len(a) + Len(b)) :
             (a \o b)[i] = IF i <= Len(a) THEN a[i] ELSE b[i - Len(a)]
    BY <2>1, ConcatProperties
  <2>4. Len(a) \in Nat /\ Len(b) \in Nat
    BY <2>1
  <2>5. at \in 1 .. (Len(a) + Len(b)) /\ ~(at <= Len(a)) /\ at - Len(a) = m
    BY <2>2, <2>4
  <2>6. at <= Len(a \o b) /\ (a \o b)[at] = b[m]
    BY <2>3, <2>4, <2>5
  <2>. QED
    BY <2>1, <2>6 DEF b
<1>5. ASSUME NEW h \in 0 .. (N - 1), Held(h) PROVE Held(h + 1)
  <2> DEFINE a == Part(s, h)
             b == s[h + 1]
  <2>1. h \in 0 .. N /\ h + 1 \in 1 .. N
    OBVIOUS
  <2>2. a \in Seq(D) /\ b \in Seq(D) /\ Part(s, h + 1) = a \o b
    BY <1>1, <2>1
  <2>3. at <= Len(a) /\ a[at] = s[n + 1][m]
    BY <1>5
  <2> HIDE DEF a, b, at
  <2>4. /\ Len(a \o b) = Len(a) + Len(b)
        /\ \A i \in 1 .. (Len(a) + Len(b)) :
             (a \o b)[i] = IF i <= Len(a) THEN a[i] ELSE b[i - Len(a)]
    BY <2>2, ConcatProperties
  <2>5. Len(a) \in Nat /\ Len(b) \in Nat
    BY <2>2
  <2>6. at \in 1 .. (Len(a) + Len(b)) /\ at <= Len(a) + Len(b)
    BY <1>3, <2>3, <2>5
  <2>7. at <= Len(a \o b) /\ (a \o b)[at] = a[at]
    BY <2>3, <2>4, <2>6
  <2>. QED
    BY <2>2, <2>3, <2>7
<1> HIDE DEF Held
<1>6. 0 \in T
  BY <1>4
<1>7. ASSUME NEW i \in Nat, i \in T PROVE i + 1 \in T
  <2> SUFFICES ASSUME (n + 1) + (i + 1) <= N PROVE Held((n + 1) + (i + 1))
    OBVIOUS
  <2>1. /\ (n + 1) + i <= N /\ (n + 1) + i \in 0 .. (N - 1)
        /\ (n + 1) + (i + 1) = ((n + 1) + i) + 1
    OBVIOUS
  <2>. QED
    BY <1>5, <1>7, <2>1
<1> HIDE DEF T
<1>8. Nat \subseteq T
  BY <1>6, <1>7, AllNaturals
<1>9. Held(N)
  <2>1. N - (n + 1) \in Nat /\ (n + 1) + (N - (n + 1)) = N /\ N <= N
    OBVIOUS
  <2>. QED
    BY <1>8, <2>1 DEF T
<1>. QED
  BY <1>9 DEF Held
=============================================================================
