--------------------------- MODULE Console_proofs ---------------------------
(***************************************************************************)
(* Proofs about Numerals, Itoa and Console, for every width of an int, and *)
(* every value and base: itoa stays inside its buffers and returns the     *)
(* numeral; console_printf prints what its format says.                    *)
(***************************************************************************)
EXTENDS Console, Itoa, FiniteSetTheorems, DataLemmas

-----------------------------------------------------------------------------
(* Powers. *)

LEMMA PowerRuns ==
  ASSUME NEW b \in Nat
  PROVE  \E F \in [Nat -> Nat] :
           /\ AllGoesOn(F, 1, [j \in Nat |-> [d \in Nat |-> b * d]])
           /\ \A n \in Nat : Power(b, n) = F[n]
<1> DEFINE step == [j \in Nat |-> [d \in Nat |-> b * d]]
           a == 1
<1>1. step \in [Nat -> [Nat -> Nat]] /\ a \in Nat
  OBVIOUS
<1>2. \A j, d \in Nat : step[j][d] = b * d
  OBVIOUS
<1> HIDE DEF step, a
<1>3. PICK F \in [Nat -> Nat] : AllGoesOn(F, a, step)
  BY <1>1, Recursion
<1>4. F[0] = 1 /\ \A n \in Nat : F[n + 1] = b * F[n]
  BY <1>2, <1>3 DEF AllGoesOn, a
<1> DEFINE Body(g) == [m \in Nat |-> IF m = 0 THEN 1 ELSE b * g[m - 1]]
           whole == CHOOSE g : g = Body(g)
<1>5. F = Body(F)
  <2>1. ASSUME NEW m \in Nat PROVE F[m] = Body(F)[m]
    <3>1. CASE m = 0
      BY <1>4, <3>1
    <3>2. CASE m # 0
      <4>1. PICK n \in Nat : m = n + 1 /\ m - 1 = n
        <5>1. m - 1 \in Nat /\ m = (m - 1) + 1
          BY <3>2
        <5>. QED
          BY <5>1
      <4>. QED
        BY <1>4, <3>2, <4>1
    <3>. QED
      BY <3>1, <3>2
  <2>. QED
    BY <2>1
<1>6. whole = Body(whole)
  BY <1>5, Zenon
<1>7. \A n \in Nat : Power(b, n) = whole[n]
  BY DEF Power
<1> HIDE DEF whole
<1>8. \A m \in Nat : whole[m] = IF m = 0 THEN 1 ELSE b * whole[m - 1]
  BY <1>6
<1> DEFINE T == {n \in Nat : whole[n] = F[n]}
<1>9. 0 \in T
  BY <1>4, <1>8
<1>10. ASSUME NEW n \in Nat, n \in T PROVE n + 1 \in T
  <2>1. n + 1 \in Nat /\ n + 1 # 0 /\ (n + 1) - 1 = n
    OBVIOUS
  <2>. QED
    BY <1>4, <1>8, <1>10, <2>1
<1> HIDE DEF T
<1>11. Nat \subseteq T
  BY <1>9, <1>10, AllNaturals
<1>12. \A n \in Nat : Power(b, n) = F[n]
  BY <1>7, <1>11 DEF T
<1>. QED
  BY <1>3, <1>12 DEF a, step

LEMMA PowerIs ==
  ASSUME NEW b \in Nat
  PROVE  /\ Power(b, 0) = 1
         /\ \A n \in Nat : Power(b, n) \in Nat /\ Power(b, n + 1) = b * Power(b, n)
<1> DEFINE step == [j \in Nat |-> [d \in Nat |-> b * d]]
<1>1. PICK F \in [Nat -> Nat] :
        AllGoesOn(F, 1, step) /\ \A n \in Nat : Power(b, n) = F[n]
  BY PowerRuns
<1>2. F[0] = 1 /\ \A n \in Nat : F[n] \in Nat /\ F[n + 1] = b * F[n]
  BY <1>1 DEF AllGoesOn
<1>3. \A n \in Nat : Power(b, n) = F[n]
  BY <1>1
<1>4. Power(b, 0) = 1
  BY <1>2, <1>3
<1>5. ASSUME NEW n \in Nat
      PROVE  Power(b, n) \in Nat /\ Power(b, n + 1) = b * Power(b, n)
  <2>1. n + 1 \in Nat
    OBVIOUS
  <2>. QED
    BY <1>2, <1>3, <2>1
<1>. QED
  BY <1>4, <1>5

LEMMA PowerGrows ==
  ASSUME NEW b \in Nat, b >= 2
  PROVE  /\ \A n \in Nat : Power(b, n) > n
         /\ \A n \in Nat : \A m \in Nat : Power(b, n) <= Power(b, n + m)
<1>1. /\ Power(b, 0) = 1
      /\ \A n \in Nat : Power(b, n) \in Nat /\ Power(b, n + 1) = b * Power(b, n)
  BY PowerIs
<1>2. \A w \in Nat : b * w >= 2 * w
  <2>1. ASSUME NEW q \in Nat PROVE b * q >= 2 * q
    <3>1. (b - 2) * q >= 0
      <4>1. b - 2 \in Nat
        OBVIOUS
      <4>. QED
        BY <4>1
    <3>. QED
      BY <3>1
  <2>. QED
    BY <2>1
<1> DEFINE T == {n \in Nat : Power(b, n) > n}
<1>3. 0 \in T
  BY <1>1
<1>4. ASSUME NEW n \in Nat, n \in T PROVE n + 1 \in T
  <2>1. Power(b, n + 1) >= 2 * Power(b, n) /\ Power(b, n) > n /\ Power(b, n) \in Nat
    BY <1>1, <1>2, <1>4
  <2>2. Power(b, n + 1) \in Nat
    BY <1>1
  <2>. QED
    BY <2>1, <2>2
<1> HIDE DEF T
<1>5. Nat \subseteq T
  BY <1>3, <1>4, AllNaturals
<1>6. ASSUME NEW n \in Nat PROVE \A m \in Nat : Power(b, n) <= Power(b, n + m)
  <2> DEFINE S == {m \in Nat : Power(b, n) <= Power(b, n + m)}
  <2>1. 0 \in S
    <3>1. n + 0 = n /\ Power(b, n) \in Nat
      BY <1>1
    <3>. QED
      BY <3>1
  <2>2. ASSUME NEW m \in Nat, m \in S PROVE m + 1 \in S
    <3>1. n + m \in Nat /\ n + (m + 1) = (n + m) + 1
      OBVIOUS
    <3>2. /\ Power(b, (n + m) + 1) >= 2 * Power(b, n + m)
          /\ Power(b, n + m) \in Nat /\ Power(b, n) \in Nat
          /\ Power(b, (n + m) + 1) \in Nat
      BY <1>1, <1>2, <3>1
    <3>3. Power(b, n) <= Power(b, n + m)
      BY <2>2
    <3>4. Power(b, n) <= Power(b, (n + m) + 1)
      BY <3>2, <3>3
    <3>. QED
      BY <3>1, <3>4
  <2> HIDE DEF S
  <2>3. Nat \subseteq S
    BY <2>1, <2>2, AllNaturals
  <2>. QED
    BY <2>3 DEF S
<1>. QED
  BY <1>5, <1>6 DEF T

LEMMA PowerOfMore ==
  ASSUME NEW b \in Nat, b >= 2
  PROVE  \A n \in Nat : Power(2, n) <= Power(b, n)
<1>1. /\ Power(b, 0) = 1 /\ Power(2, 0) = 1
      /\ \A n \in Nat : Power(b, n) \in Nat /\ Power(b, n + 1) = b * Power(b, n)
      /\ \A n \in Nat : Power(2, n) \in Nat /\ Power(2, n + 1) = 2 * Power(2, n)
  BY PowerIs
<1> DEFINE T == {n \in Nat : Power(2, n) <= Power(b, n)}
<1>2. 0 \in T
  BY <1>1
<1>3. ASSUME NEW n \in Nat, n \in T PROVE n + 1 \in T
  <2> DEFINE w == Power(2, n)
             q == Power(b, n)
  <2>1. w \in Nat /\ q \in Nat /\ w <= q
    BY <1>1, <1>3
  <2> HIDE DEF w, q
  <2>2. 2 * w <= b * q
    <3>1. b - 2 \in Nat
      OBVIOUS
    <3>2. (b - 2) * q >= 0
      BY <2>1, <3>1
    <3>. QED
      BY <2>1, <3>2
  <2>. QED
    BY <1>1, <2>2 DEF w, q
<1> HIDE DEF T
<1>4. Nat \subseteq T
  BY <1>2, <1>3, AllNaturals
<1>. QED
  BY <1>4 DEF T

(* 10 to the m has room for an m and one more besides.                     *)
LEMMA PowerOfTen == \A m \in Nat : m >= 1 => Power(10, m) > Power(2, m + 1)
<1>1. /\ Power(10, 0) = 1 /\ Power(2, 0) = 1
      /\ \A n \in Nat : Power(10, n) \in Nat /\ Power(10, n + 1) = 10 * Power(10, n)
      /\ \A n \in Nat : Power(2, n) \in Nat /\ Power(2, n + 1) = 2 * Power(2, n)
  BY PowerIs
<1> DEFINE T == {m \in Nat : Power(10, m + 1) > Power(2, m + 2)}
<1>2. 0 \in T
  <2>1. Power(10, 0 + 1) = 10 /\ Power(2, 0 + 1) = 2
    BY <1>1
  <2>2. Power(2, 1 + 1) = 4
    BY <1>1, <2>1
  <2>. QED
    BY <2>1, <2>2
<1>3. ASSUME NEW m \in Nat, m \in T PROVE m + 1 \in T
  <2>1. /\ m + 1 \in Nat /\ m + 2 \in Nat /\ (m + 2) + 1 = (m + 1) + 2
    OBVIOUS
  <2>2. /\ Power(10, (m + 1) + 1) = 10 * Power(10, m + 1)
        /\ Power(2, (m + 2) + 1) = 2 * Power(2, m + 2)
        /\ Power(10, m + 1) \in Nat /\ Power(2, m + 2) \in Nat
    BY <1>1, <2>1
  <2>3. Power(10, m + 1) > Power(2, m + 2)
    BY <1>3
  <2>. QED
    BY <2>1, <2>2, <2>3
<1> HIDE DEF T
<1>4. Nat \subseteq T
  BY <1>2, <1>3, AllNaturals
<1>5. ASSUME NEW m \in Nat, m >= 1 PROVE Power(10, m) > Power(2, m + 1)
  <2>1. m - 1 \in T /\ (m - 1) + 1 = m /\ (m - 1) + 2 = m + 1
    BY <1>4, <1>5
  <2>2. Power(10, (m - 1) + 1) > Power(2, (m - 1) + 2)
    BY <2>1 DEF T
  <2>. QED
    BY <2>1, <2>2
<1>. QED
  BY <1>5

(* The ints. *)
LEMMA IntModIs ==
  /\ IntMod \in Nat /\ IntMod >= 4 /\ IntMod = Power(2, IntBits)
  /\ IntMod \div 2 = Power(2, IntBits - 1) /\ IntMod = 2 * (IntMod \div 2)
  /\ IntMod \div 2 \in Nat
<1>1. IntBits \in Nat /\ IntBits >= 2 /\ IntBits - 1 \in Nat /\ IntBits - 2 \in Nat
  BY IntBitsAssumption
<1>2. \A n \in Nat : Power(2, n) \in Nat /\ Power(2, n + 1) = 2 * Power(2, n)
  BY PowerIs
<1>3. Power(2, IntBits - 2) > IntBits - 2
  BY <1>1, PowerGrows
<1>4. (IntBits - 1) + 1 = IntBits /\ (IntBits - 2) + 1 = IntBits - 1
  BY <1>1
<1>5. Power(2, IntBits) = 2 * Power(2, IntBits - 1)
      /\ Power(2, IntBits - 1) = 2 * Power(2, IntBits - 2)
  BY <1>1, <1>2, <1>4
<1> DEFINE w == Power(2, IntBits - 2)
<1>6. w \in Nat /\ w >= 1
  BY <1>1, <1>2, <1>3
<1> HIDE DEF w
<1>7. Power(2, IntBits - 1) = 2 * w /\ IntMod = 2 * (2 * w)
  BY <1>5 DEF w, IntMod
<1>8. (2 * (2 * w)) \div 2 = 2 * w
  BY <1>6
<1>. QED
  BY <1>6, <1>7, <1>8 DEF IntMod

(* The places a number takes. *)
LEMMA PlacesIs ==
  ASSUME NEW b \in Nat, b >= 2, NEW n \in 1 .. (2 * IntBits), NEW u \in Nat,
         u < Power(b, n), n > 1 => Power(b, n - 1) <= u
  PROVE  Places(u, b) = n
<1>1. IntBits \in Nat
  BY IntBitsAssumption
<1>2. \A m \in Nat : Power(b, m) \in Nat
  BY PowerIs
<1> DEFINE Right(m) == u < Power(b, m) /\ (m > 1 => Power(b, m - 1) <= u)
<1>3. ASSUME NEW m \in 1 .. (2 * IntBits), NEW h \in 1 .. (2 * IntBits),
             Right(m), Right(h), m < h
      PROVE  FALSE
  <2>1. /\ h > 1 /\ h - 1 \in Nat /\ m \in Nat /\ (h - 1) - m \in Nat
        /\ m + ((h - 1) - m) = h - 1
    BY <1>1, <1>3
  <2>2. Power(b, m) <= Power(b, m + ((h - 1) - m))
    BY <2>1, PowerGrows
  <2>3. Power(b, m) <= Power(b, h - 1) /\ Power(b, h - 1) <= u /\ u < Power(b, m)
    BY <1>3, <2>1, <2>2
  <2>4. Power(b, m) \in Nat /\ Power(b, h - 1) \in Nat
    BY <1>2, <2>1
  <2>. QED
    BY <2>3, <2>4
<1>4. Right(n)
  OBVIOUS
<1> HIDE DEF Right
<1>5. \A m \in 1 .. (2 * IntBits) : Right(m) => m = n
  <2> SUFFICES ASSUME NEW m \in 1 .. (2 * IntBits), Right(m) PROVE m = n
    OBVIOUS
  <2>1. m < n \/ n < m \/ m = n
    BY <1>1
  <2>. QED
    BY <1>3, <1>4, <2>1
<1>6. (CHOOSE m \in 1 .. (2 * IntBits) : Right(m)) = n
  BY <1>4, <1>5
<1>. QED
  BY <1>6 DEF Places, Right

LEMMA PlacesAre ==
  ASSUME NEW b \in Nat, b >= 2, NEW u \in 0 .. (IntMod - 1)
  PROVE  /\ Places(u, b) \in 1 .. IntBits /\ u < Power(b, Places(u, b))
         /\ Places(u, b) > 1 => Power(b, Places(u, b) - 1) <= u
<1>1. IntBits \in Nat /\ IntBits >= 2 /\ IntMod \in Nat /\ IntMod = Power(2, IntBits)
  BY IntBitsAssumption, IntModIs
<1>2. \A m \in Nat : Power(b, m) \in Nat
  BY PowerIs
<1> DEFINE T == {m \in Nat : m >= 1 /\ u < Power(b, m)}
<1>3. IntBits \in T
  <2>1. Power(2, IntBits) <= Power(b, IntBits)
    BY <1>1, PowerOfMore
  <2>. QED
    BY <1>1, <1>2, <2>1
<1>4. PICK n \in T : \A m \in T : n <= m
  <2>1. T \subseteq Nat /\ T # {}
    BY <1>3
  <2>. QED
    BY <2>1, LeastNatural
<1>5. n \in 1 .. IntBits /\ n \in 1 .. (2 * IntBits) /\ u < Power(b, n)
  BY <1>1, <1>3, <1>4
<1>6. ASSUME n > 1 PROVE Power(b, n - 1) <= u
  <2>1. n - 1 \in Nat /\ n - 1 >= 1 /\ ~(n <= n - 1)
    BY <1>5, <1>6, <1>1
  <2>2. ~(u < Power(b, n - 1))
    BY <1>4, <2>1
  <2>. QED
    BY <1>1, <1>2, <2>1, <2>2
<1>7. Places(u, b) = n
  BY <1>1, <1>5, <1>6, PlacesIs
<1>. QED
  BY <1>5, <1>6, <1>7

-----------------------------------------------------------------------------
(* itoa. *)

(* What itoa writes: digits, and a minus before them or none.              *)
Letters == {Digit[d] : d \in 0 .. 35} \cup {"-"}
U == Magnitude
N == Places(U, base)
Minus == IF Negative THEN <<"-">> ELSE <<>>

(* The digits copied when k are left. *)
Copies(n) == [m \in 1 .. (N - n) |-> temp[N + 1 - m]]

GoodBase == base \in 2 .. 36

ItoaInv ==
  /\ value \in Ints /\ base \in Int
  /\ itoa_pc \in {"start", "digits", "copy", "end"}
  /\ itoa_pc = "start" \/ ~GoodBase =>
       uval = 0 /\ temp = <<>> /\ str = <<>> /\ k = 0
  /\ ~GoodBase => itoa_pc \in {"start", "end"}
  /\ GoodBase /\ itoa_pc # "start" =>
       /\ temp \in Seq(Letters) /\ Len(temp) <= N
       /\ U = 0 => Len(temp) = 1
       /\ uval = U \div Power(base, Len(temp))
       /\ \A j \in 1 .. Len(temp) :
            temp[j] = Digit[(U \div Power(base, j - 1)) % base]
  /\ GoodBase /\ itoa_pc = "digits" => str = <<>> /\ k = 0
  /\ GoodBase /\ itoa_pc \in {"copy", "end"} =>
       /\ Len(temp) = N /\ k \in 0 .. N
       /\ str = Minus \o Copies(k)
  /\ GoodBase /\ itoa_pc = "end" => k = 0

LEMMA Base == base \in Int => (BadBase <=> ~GoodBase)
  BY DEF BadBase, GoodBase

LEMMA ZeroDigit == Digit[0] = "0" /\ \A d \in 0 .. 35 : Digit[d] \in Letters
<1>1. Digit[0] = "0"
  BY DEF Digit
<1>. QED
  BY <1>1 DEF Letters

LEMMA Remainder ==
  ASSUME NEW n \in Nat, NEW b \in 2 .. 36
  PROVE  n % b \in 0 .. 35 /\ n % b < b
  OBVIOUS

LEMMA MagnitudeIs ==
  ASSUME value \in Ints, base \in Int
  PROVE  /\ U \in 0 .. (IntMod - 1)
         /\ U = IF base = 10 /\ value < 0 THEN -value ELSE AsUnsigned(value)
         /\ Negative => U <= Power(2, IntBits - 1)
<1>1. /\ IntMod \in Nat /\ IntMod >= 4 /\ IntMod \div 2 = Power(2, IntBits - 1)
      /\ IntMod = 2 * (IntMod \div 2) /\ IntMod \div 2 \in Nat
  BY IntModIs
<1> DEFINE half == IntMod \div 2
<1> HIDE DEF half
<1>2. half \in Nat /\ IntMod = 2 * half /\ value \in (-half) .. (half - 1)
  BY <1>1 DEF Ints, half
<1>3. \A v : AsUnsigned(v) = v % IntMod
  BY DEF AsUnsigned
<1>4. \A v \in Int : v % IntMod \in 0 .. (IntMod - 1)
  BY <1>1
<1>5. CASE Negative
  <2>1. base = 10 /\ value < 0 /\ -value \in 1 .. half
    BY <1>2, <1>5 DEF Negative
  <2>2. -value \in 0 .. (IntMod - 1)
    BY <1>1, <1>2, <2>1
  <2>3. (-value) % IntMod = -value
    BY <1>1, <2>2
  <2>4. U = -value
    BY <1>3, <1>5, <2>3 DEF U, Magnitude
  <2>. QED
    BY <1>1, <2>1, <2>2, <2>4 DEF half
<1>6. CASE ~Negative
  <2>1. U = value % IntMod /\ value \in Int
    BY <1>2, <1>3, <1>6 DEF U, Magnitude
  <2>. QED
    BY <1>4, <1>6, <2>1 DEF Negative, AsUnsigned
<1>. QED
  BY <1>5, <1>6

(* The numeral fits: its digits, and its sign with them.                   *)
LEMMA NumeralFits ==
  ASSUME value \in Ints, base \in Int, GoodBase
  PROVE  /\ N \in 1 .. IntBits /\ U \in Nat /\ U < Power(base, N)
         /\ N > 1 => Power(base, N - 1) <= U
         /\ U = 0 => N = 1
         /\ Negative => N + 1 <= IntBits
<1>1. U \in 0 .. (IntMod - 1) /\ (Negative => U <= Power(2, IntBits - 1))
  BY MagnitudeIs
<1>2. base \in Nat /\ base >= 2 /\ IntMod \in Nat /\ IntBits \in Nat /\ IntBits >= 2
  BY IntModIs, IntBitsAssumption DEF GoodBase
<1>3. /\ N \in 1 .. IntBits /\ U < Power(base, N)
      /\ N > 1 => Power(base, N - 1) <= U
  BY <1>1, <1>2, PlacesAre DEF N
<1>4. \A n \in Nat : Power(base, n) \in Nat /\ Power(base, n) > n
  BY <1>2, PowerIs, PowerGrows
<1>5. ASSUME U = 0 PROVE N = 1
  <2>1. CASE N > 1
    <3>1. N - 1 \in Nat
      BY <1>2, <1>3
    <3>2. Power(base, N - 1) \in Nat /\ Power(base, N - 1) > N - 1 /\ Power(base, N - 1) <= 0
      BY <1>3, <1>4, <1>5, <2>1, <3>1
    <3>. QED
      BY <2>1, <3>1, <3>2
  <2>. QED
    BY <1>2, <1>3, <2>1
<1>6. ASSUME Negative PROVE N + 1 <= IntBits
  <2>1. CASE N > 1
    <3>1. N - 1 \in Nat /\ N - 1 >= 1 /\ N \in Nat /\ (N - 1) + 1 = N
      BY <1>2, <1>3, <2>1
    <3>2. base = 10
      BY <1>6 DEF Negative
    <3>3. Power(10, N - 1) > Power(2, N)
      BY <3>1, PowerOfTen
    <3>4. /\ Power(10, N - 1) <= U /\ U <= Power(2, IntBits - 1)
          /\ Power(2, N) \in Nat /\ Power(2, IntBits - 1) \in Nat
          /\ Power(10, N - 1) \in Nat
      <4>1. IntBits - 1 \in Nat
        BY <1>2
      <4>. QED
        BY <1>1, <1>3, <1>4, <1>6, <2>1, <3>1, <3>2, <4>1, PowerIs
    <3>5. Power(2, N) < Power(2, IntBits - 1)
      BY <1>1, <3>3, <3>4
    <3>6. CASE IntBits - 1 <= N
      <4>1. /\ IntBits - 1 \in Nat /\ N - (IntBits - 1) \in Nat
            /\ (IntBits - 1) + (N - (IntBits - 1)) = N
        BY <1>2, <3>1, <3>6
      <4>2. Power(2, IntBits - 1) <= Power(2, (IntBits - 1) + (N - (IntBits - 1)))
        BY <4>1, PowerGrows
      <4>. QED
        BY <3>4, <3>5, <4>1, <4>2
    <3>. QED
      BY <1>2, <3>1, <3>6
  <2>. QED
    BY <1>2, <1>3, <2>1
<1>. QED
  BY <1>1, <1>2, <1>3, <1>5, <1>6

LEMMA SameCall ==
  ASSUME value' = value, base' = base
  PROVE  /\ U' = U /\ N' = N /\ Minus' = Minus /\ (GoodBase' <=> GoodBase)
<1>1. Negative' <=> Negative
  BY DEF Negative
<1>2. U' = U
  BY <1>1 DEF U, Magnitude
<1>. QED
  BY <1>1, <1>2 DEF N, Minus, GoodBase

LEMMA ItoaInvInit ==
  ASSUME Values \subseteq Ints, Bases \subseteq Int, ItoaInit
  PROVE  ItoaInv
  BY DEF ItoaInit, ItoaInv, GoodBase

LEMMA RefuseStep ==
  ASSUME ItoaInv, Refuse
  PROVE  ItoaInv'
<1>1. /\ itoa_pc = "start" /\ ~GoodBase /\ itoa_pc' = "end"
      /\ value' = value /\ base' = base /\ uval' = uval /\ temp' = temp
      /\ str' = str /\ k' = k
  BY Base DEF Refuse, ItoaInv
<1>2. GoodBase' <=> GoodBase
  BY <1>1, SameCall
<1>. QED
  BY <1>1, <1>2 DEF ItoaInv

LEMMA StartStep ==
  ASSUME ItoaInv, Start
  PROVE  ItoaInv'
<1>1. /\ itoa_pc = "start" /\ GoodBase /\ itoa_pc' = "digits"
      /\ value' = value /\ base' = base /\ uval' = U
      /\ temp' = IF U = 0 THEN <<"0">> ELSE <<>>
      /\ str' = <<>> /\ k' = 0
  BY Base DEF Start, ItoaInv, U
<1>2. U' = U /\ N' = N /\ (GoodBase' <=> GoodBase)
  BY <1>1, SameCall
<1>3. /\ N \in 1 .. IntBits /\ U \in Nat /\ (U = 0 => N = 1)
      /\ IntBits \in Nat /\ base \in 2 .. 36 /\ base \in Nat /\ base >= 2
  BY <1>1, NumeralFits, IntBitsAssumption DEF ItoaInv, GoodBase
<1>4. /\ Power(base, 0) = 1 /\ Power(base, 1) = base
      /\ Digit[0] = "0" /\ "0" \in Letters
  <2>1. Power(base, 0) = 1 /\ Power(base, 0 + 1) = base * Power(base, 0)
    BY <1>3, PowerIs
  <2>2. Digit[0] = "0" /\ Digit[0] \in Letters
    BY ZeroDigit
  <2>. QED
    BY <1>3, <2>1, <2>2
<1>5. /\ temp' \in Seq(Letters) /\ Len(temp') <= N
      /\ U = 0 => Len(temp') = 1
      /\ U = U \div Power(base, Len(temp'))
      /\ \A j \in 1 .. Len(temp') :
           temp'[j] = Digit[(U \div Power(base, j - 1)) % base]
  <2>1. CASE U = 0
    <3>1. temp' = <<"0">> /\ Len(temp') = 1 /\ temp'[1] = "0" /\ temp' \in Seq(Letters)
      BY <1>1, <1>4, <2>1
    <3>2. 0 \div base = 0 /\ 0 \div 1 = 0 /\ 0 % base = 0
      BY <1>3
    <3>3. U = U \div Power(base, Len(temp'))
      BY <1>4, <2>1, <3>1, <3>2
    <3>4. ASSUME NEW j \in 1 .. Len(temp')
          PROVE  temp'[j] = Digit[(U \div Power(base, j - 1)) % base]
      <4>1. j = 1 /\ j - 1 = 0
        BY <3>1
      <4>2. (U \div Power(base, j - 1)) % base = 0
        BY <1>4, <2>1, <3>2, <4>1
      <4>. QED
        BY <1>4, <3>1, <4>1, <4>2
    <3>. QED
      BY <1>3, <2>1, <3>1, <3>3, <3>4
  <2>2. CASE U # 0
    <3>1. temp' = <<>>
      BY <1>1, <2>2
    <3>2. U \div 1 = U
      BY <1>3
    <3>. QED
      BY <1>3, <1>4, <2>2, <3>1, <3>2
  <2>. QED
    BY <2>1, <2>2
<1>. QED
  BY <1>1, <1>2, <1>5 DEF ItoaInv

(* Dividing twice is dividing by the product. *)
LEMMA QuotientOfQuotient ==
  ASSUME NEW u \in Nat, NEW w \in Nat, w >= 1, NEW b \in Nat, b >= 1
  PROVE  (u \div w) \div b = u \div (b * w) /\ u \div w \in Nat
<1> DEFINE d == u \div w
           r == u % w
           s == d \div b
           t == d % b
<1>1. d \in Nat /\ r \in Nat /\ r <= w - 1 /\ u = d * w + r
  OBVIOUS
<1> HIDE DEF d, r
<1>2. s \in Nat /\ t \in Nat /\ t <= b - 1 /\ d = s * b + t
  BY <1>1
<1> HIDE DEF s, t
<1> DEFINE v == b * w
           e == t * w + r
<1>3. d * w = s * v + t * w
  BY <1>2
<1>4. u = s * v + e
  BY <1>1, <1>2, <1>3
<1>5. e \in Nat /\ e < v
  <2>1. t * w \in Nat /\ v = (b - 1) * w + w /\ (b - 1) - t \in Nat
    BY <1>2
  <2>2. ((b - 1) - t) * w >= 0
    BY <2>1
  <2>3. t * w <= (b - 1) * w
    BY <2>2, <1>2
  <2>. QED
    BY <1>1, <2>1, <2>3
<1>6. v \in Nat /\ v >= 1
  BY <1>5
<1> HIDE DEF v, e
<1>7. u \div v = s
  BY <1>2, <1>4, <1>5, <1>6
<1>. QED
  BY <1>1, <1>7 DEF d, s, v

LEMMA StoreDigitStep ==
  ASSUME ItoaInv, StoreDigit
  PROVE  ItoaInv'
<1>1. /\ itoa_pc = "digits" /\ GoodBase /\ itoa_pc' = "digits" /\ uval > 0
      /\ value' = value /\ base' = base /\ uval' = uval \div base
      /\ temp' = Append(temp, Digit[uval % base])
      /\ str = <<>> /\ k = 0 /\ str' = <<>> /\ k' = 0
      /\ value \in Ints /\ base \in Int
  BY DEF StoreDigit, ItoaInv
<1>2. U' = U /\ N' = N /\ (GoodBase' <=> GoodBase)
  BY <1>1, SameCall
<1>3. /\ N \in 1 .. IntBits /\ U \in Nat /\ (U = 0 => N = 1)
      /\ N > 1 => Power(base, N - 1) <= U
      /\ U < Power(base, N)
      /\ IntBits \in Nat /\ base \in 2 .. 36 /\ base \in Nat /\ base >= 2
  BY <1>1, NumeralFits, IntBitsAssumption DEF GoodBase
<1>4. /\ temp \in Seq(Letters) /\ Len(temp) <= N /\ Len(temp) \in Nat
      /\ U = 0 => Len(temp) = 1
      /\ uval = U \div Power(base, Len(temp))
      /\ \A j \in 1 .. Len(temp) :
           temp[j] = Digit[(U \div Power(base, j - 1)) % base]
  BY <1>1 DEF ItoaInv
<1> DEFINE l == Len(temp)
           w == Power(base, l)
<1>5. w \in Nat /\ w >= 1 /\ Power(base, l + 1) = base * w
  <2>1. \A n \in Nat : Power(base, n) \in Nat /\ Power(base, n + 1) = base * Power(base, n)
    BY <1>3, PowerIs
  <2>2. \A n \in Nat : Power(base, n) > n
    BY <1>3, PowerGrows
  <2>3. l \in Nat
    BY <1>4
  <2> HIDE DEF l
  <2>. QED
    BY <2>1, <2>2, <2>3
<1>6. uval \in Nat /\ uval' = U \div Power(base, l + 1)
  <2> HIDE DEF w
  <2>1. uval = U \div w /\ uval' = (U \div w) \div base
    BY <1>1, <1>4 DEF w
  <2>2. (U \div w) \div base = U \div (base * w) /\ U \div w \in Nat
    <3>1. U \in Nat /\ w \in Nat /\ w >= 1 /\ base \in Nat /\ base >= 1
      BY <1>3, <1>5
    <3>. QED
      BY <3>1, QuotientOfQuotient, Zenon
  <2>. QED
    BY <1>5, <2>1, <2>2
<1>7. l < N
  <2>1. ASSUME l = N PROVE FALSE
    <3> HIDE DEF w
    <3>1. U < w /\ uval = U \div w
      BY <1>3, <1>4, <2>1 DEF w
    <3>2. U \div w = 0
      BY <1>3, <1>5, <3>1
    <3>. QED
      BY <1>1, <3>1, <3>2
  <2>. QED
    BY <1>3, <1>4, <2>1
<1>8. U # 0
  <2>1. ASSUME U = 0 PROVE FALSE
    <3> HIDE DEF w
    <3>1. 0 \div w = 0
      BY <1>5
    <3>. QED
      BY <1>1, <1>4, <2>1, <3>1 DEF w
  <2>. QED
    BY <2>1
<1>9. Digit[uval % base] \in Letters
  BY <1>3, <1>6, Remainder, ZeroDigit
<1>10. /\ temp' \in Seq(Letters) /\ Len(temp') = l + 1
       /\ \A j \in 1 .. l : temp'[j] = temp[j]
       /\ temp'[l + 1] = Digit[uval % base]
  BY <1>1, <1>4, <1>9
<1>11. ASSUME NEW j \in 1 .. Len(temp')
       PROVE  temp'[j] = Digit[(U \div Power(base, j - 1)) % base]
  <2>1. CASE j <= l
    BY <1>4, <1>10, <2>1
  <2>2. CASE j = l + 1
    <3>1. j - 1 = l
      BY <1>4, <2>2
    <3>. QED
      BY <1>4, <1>10, <2>2, <3>1
  <2>. QED
    BY <1>4, <1>10, <2>1, <2>2
<1>12. Len(temp') <= N
  BY <1>3, <1>4, <1>7, <1>10
<1> HIDE DEF w
<1>13. uval' = U \div Power(base, Len(temp'))
  BY <1>6, <1>10
<1> HIDE DEF l
<1>. QED
  BY <1>1, <1>2, <1>8, <1>10, <1>11, <1>12, <1>13 DEF ItoaInv

LEMMA SignStep ==
  ASSUME ItoaInv, Sign
  PROVE  ItoaInv'
<1>1. /\ itoa_pc = "digits" /\ GoodBase /\ itoa_pc' = "copy" /\ ~(uval > 0)
      /\ value' = value /\ base' = base /\ uval' = uval /\ temp' = temp
      /\ str' = Minus /\ k' = Len(temp)
      /\ value \in Ints /\ base \in Int
  BY DEF Sign, ItoaInv, Minus
<1>2. /\ U' = U /\ N' = N /\ Minus' = Minus /\ (GoodBase' <=> GoodBase)
  BY <1>1, SameCall
<1>3. /\ N \in 1 .. IntBits /\ U \in Nat /\ (U = 0 => N = 1)
      /\ N > 1 => Power(base, N - 1) <= U
      /\ IntBits \in Nat /\ base \in Nat /\ base >= 2
  BY <1>1, NumeralFits, IntBitsAssumption DEF GoodBase
<1>4. /\ temp \in Seq(Letters) /\ Len(temp) <= N /\ Len(temp) \in Nat
      /\ U = 0 => Len(temp) = 1
      /\ uval = U \div Power(base, Len(temp))
      /\ \A j \in 1 .. Len(temp) :
           temp[j] = Digit[(U \div Power(base, j - 1)) % base]
  BY <1>1 DEF ItoaInv
<1>5. Len(temp) = N
  <2> DEFINE l == Len(temp)
             w == Power(base, l)
  <2>1. \A n \in Nat : Power(base, n) \in Nat /\ Power(base, n) > n
    BY <1>3, PowerIs, PowerGrows
  <2>2. l \in Nat
    BY <1>4
  <2>3. w \in Nat /\ w >= 1
    <3> HIDE DEF l
    <3>. QED
      BY <2>1, <2>2
  <2>4. U < w
    <3> HIDE DEF w
    <3>1. ~((U \div w) > 0)
      BY <1>1, <1>4 DEF w
    <3>. QED
      BY <1>3, <2>3, <3>1
  <2>5. ASSUME l < N PROVE FALSE
    <3>1. N - 1 \in Nat /\ (N - 1) - l \in Nat /\ l + ((N - 1) - l) = N - 1
      <4> HIDE DEF l
      <4>. QED
        BY <1>3, <2>2, <2>5
    <3>2. Power(base, l) <= Power(base, l + ((N - 1) - l))
      <4> HIDE DEF l
      <4>. QED
        BY <1>3, <2>2, <3>1, PowerGrows
    <3>3. CASE N > 1
      BY <1>3, <2>1, <2>3, <2>4, <3>1, <3>2, <3>3
    <3>4. CASE N = 1
      <4>1. l = 0 /\ w = 1
        BY <1>3, <2>2, <2>5, <3>4, PowerIs
      <4>2. U = 0
        BY <1>3, <2>4, <4>1
      <4>. QED
        BY <1>4, <4>1, <4>2
    <3>. QED
      BY <1>3, <3>3, <3>4
  <2>. QED
    BY <1>3, <1>4, <2>5
<1>6. str' = Minus \o Copies(N)
  <2>1. Copies(N) = <<>>
    BY <1>3 DEF Copies
  <2>. QED
    BY <1>1, <2>1 DEF Minus
<1>7. Copies(k)' = Copies(N)
  BY <1>1, <1>2, <1>5 DEF Copies
<1>8. str' = (Minus \o Copies(k))' /\ k' \in 0 .. N
  BY <1>1, <1>2, <1>3, <1>5, <1>6, <1>7
<1>. QED
  BY <1>1, <1>2, <1>4, <1>5, <1>8 DEF ItoaInv

LEMMA CopyDigitStep ==
  ASSUME ItoaInv, CopyDigit
  PROVE  ItoaInv'
<1>1. /\ itoa_pc = "copy" /\ GoodBase /\ itoa_pc' = "copy" /\ k > 0
      /\ value' = value /\ base' = base /\ uval' = uval /\ temp' = temp
      /\ str' = Append(str, temp[k]) /\ k' = k - 1
      /\ value \in Ints /\ base \in Int
  BY DEF CopyDigit, Copied, ItoaInv
<1>2. /\ U' = U /\ N' = N /\ Minus' = Minus /\ (GoodBase' <=> GoodBase)
  BY <1>1, SameCall
<1>3. /\ N \in 1 .. IntBits /\ IntBits \in Nat
  BY <1>1, NumeralFits, IntBitsAssumption DEF GoodBase
<1>4. /\ temp \in Seq(Letters) /\ Len(temp) <= N /\ Len(temp) = N
      /\ U = 0 => Len(temp) = 1
      /\ uval = U \div Power(base, Len(temp))
      /\ \A j \in 1 .. Len(temp) :
           temp[j] = Digit[(U \div Power(base, j - 1)) % base]
      /\ k \in 0 .. N /\ str = Minus \o Copies(k)
  BY <1>1 DEF ItoaInv
<1>5. Copies(k) \in Seq(Letters) /\ Copies(k - 1) = Append(Copies(k), temp[k])
  <2>1. N - k \in Nat /\ N - (k - 1) = (N - k) + 1 /\ N + 1 - ((N - k) + 1) = k
    BY <1>1, <1>3, <1>4
  <2>2. \A m \in 1 .. N : temp[m] \in Letters
    BY <1>4
  <2>3. \A m \in 1 .. (N - k) : N + 1 - m \in 1 .. N
    BY <1>3, <1>4
  <2>4. Copies(k) \in Seq(Letters) /\ Len(Copies(k)) = N - k
    BY <2>1, <2>2, <2>3 DEF Copies
  <2>5. \A m \in 1 .. (N - (k - 1)) : N + 1 - m \in 1 .. N
    BY <1>1, <1>3, <1>4
  <2>6. N - (k - 1) \in Nat
    BY <2>1
  <2>7. Copies(k - 1) \in Seq(Letters) /\ Len(Copies(k - 1)) = N - (k - 1)
    BY <2>2, <2>5, <2>6 DEF Copies
  <2> DEFINE more == Append(Copies(k), temp[k])
  <2>8. k \in 1 .. N
    BY <1>1, <1>3, <1>4
  <2>9. /\ more \in Seq(Letters) /\ Len(more) = (N - k) + 1
        /\ \A m \in 1 .. (N - k) : more[m] = Copies(k)[m]
        /\ more[(N - k) + 1] = temp[k]
    <3> DEFINE c == Copies(k)
    <3>1. c \in Seq(Letters) /\ Len(c) = N - k /\ temp[k] \in Letters
      BY <2>2, <2>4, <2>8
    <3> HIDE DEF c
    <3>2. /\ Append(c, temp[k]) \in Seq(Letters)
          /\ Len(Append(c, temp[k])) = (N - k) + 1
          /\ \A m \in 1 .. (N - k) : Append(c, temp[k])[m] = c[m]
          /\ Append(c, temp[k])[(N - k) + 1] = temp[k]
      BY <3>1, <2>1
    <3>. QED
      BY <3>2 DEF c
  <2>10. ASSUME NEW m \in 1 .. ((N - k) + 1) PROVE Copies(k - 1)[m] = more[m]
    <3>1. Copies(k - 1)[m] = temp[N + 1 - m]
      BY <2>1 DEF Copies
    <3>2. CASE m \in 1 .. (N - k)
      <4>1. Copies(k)[m] = temp[N + 1 - m]
        BY <3>2 DEF Copies
      <4> HIDE DEF more
      <4>. QED
        BY <2>9, <3>1, <3>2, <4>1
    <3>3. CASE m = (N - k) + 1
      <4> HIDE DEF more
      <4>. QED
        BY <2>1, <2>9, <3>1, <3>3
    <3>4. m \in 1 .. (N - k) \/ m = (N - k) + 1
      BY <1>1, <1>3, <1>4
    <3>. QED
      BY <3>2, <3>3, <3>4
  <2> HIDE DEF more
  <2>11. Copies(k - 1) = more
    BY <2>1, <2>7, <2>9, <2>10, SeqEqual
  <2>. QED
    BY <2>4, <2>11 DEF more
<1>6. Minus \in Seq(Letters) /\ temp[k] \in Letters
  <2>1. "-" \in Letters
    BY DEF Letters
  <2>2. k \in 1 .. Len(temp)
    BY <1>1, <1>3, <1>4
  <2>. QED
    BY <1>4, <2>1, <2>2 DEF Minus
<1>7. str' = Minus \o Copies(k - 1)
  <2> DEFINE c == Copies(k)
  <2>1. c \in Seq(Letters) /\ Minus \o c \in Seq(Letters)
    BY <1>5, <1>6, ConcatProperties
  <2> HIDE DEF c
  <2>2. Append(Minus \o c, temp[k]) = (Minus \o c) \o <<temp[k]>>
    BY <1>6, <2>1, AppendIsConcat
  <2>3. Append(c, temp[k]) = c \o <<temp[k]>>
    BY <1>6, <2>1, AppendIsConcat
  <2>4. (Minus \o c) \o <<temp[k]>> = Minus \o (c \o <<temp[k]>>)
    <3>1. <<temp[k]>> \in Seq(Letters)
      BY <1>6
    <3>. QED
      BY <1>6, <2>1, <3>1, ConcatAssociative
  <2>5. Copies(k - 1) = Append(c, temp[k]) /\ str' = Append(Minus \o c, temp[k])
    BY <1>1, <1>4, <1>5 DEF c
  <2>. QED
    BY <2>2, <2>3, <2>4, <2>5
<1>8. Copies(k)' = Copies(k - 1)
  BY <1>1, <1>2 DEF Copies
<1>9. str' = (Minus \o Copies(k))'
  BY <1>2, <1>7, <1>8
<1>10. k' \in 0 .. N
  BY <1>1, <1>3, <1>4
<1>. QED
  BY <1>1, <1>2, <1>4, <1>9, <1>10 DEF ItoaInv

LEMMA TerminateStep ==
  ASSUME ItoaInv, Terminate
  PROVE  ItoaInv'
<1>1. /\ itoa_pc = "copy" /\ GoodBase /\ itoa_pc' = "end" /\ ~(k > 0)
      /\ value' = value /\ base' = base /\ uval' = uval /\ temp' = temp
      /\ str' = str /\ k' = k
      /\ value \in Ints /\ base \in Int
  BY DEF Terminate, ItoaInv
<1>2. /\ U' = U /\ N' = N /\ Minus' = Minus /\ (GoodBase' <=> GoodBase)
  BY <1>1, SameCall
<1>3. N \in 1 .. IntBits /\ IntBits \in Nat
  BY <1>1, NumeralFits, IntBitsAssumption DEF GoodBase
<1>4. k = 0
  BY <1>1, <1>3 DEF ItoaInv
<1>5. Copies(k)' = Copies(k)
  BY <1>1, <1>2 DEF Copies
<1>6. (Minus \o Copies(k))' = Minus \o Copies(k)
  BY <1>2, <1>5
<1>. QED
  BY <1>1, <1>2, <1>4, <1>6 DEF ItoaInv

LEMMA ItoaStutters ==
  ASSUME ItoaInv, UNCHANGED itoa_vars
  PROVE  ItoaInv'
<1>1. /\ value' = value /\ base' = base /\ uval' = uval /\ temp' = temp
      /\ str' = str /\ k' = k /\ itoa_pc' = itoa_pc
  BY DEF itoa_vars
<1>2. /\ U' = U /\ N' = N /\ Minus' = Minus /\ (GoodBase' <=> GoodBase)
  BY <1>1, SameCall
<1>3. (Minus \o Copies(k))' = Minus \o Copies(k)
  BY <1>1, <1>2 DEF Copies
<1>. QED
  BY <1>1, <1>2, <1>3 DEF ItoaInv

LEMMA ItoaStep ==
  ASSUME ItoaInv, [ItoaNext]_itoa_vars
  PROVE  ItoaInv'
  BY RefuseStep, StartStep, StoreDigitStep, SignStep, CopyDigitStep,
     TerminateStep, ItoaStutters DEF ItoaNext

(* What ItoaInv says when itoa has returned: a numeral in its field.       *)
LEMMA ItoaReturned ==
  ASSUME ItoaInv, itoa_pc = "end", GoodBase
  PROVE  str = Shown(value, base)
<1>1. /\ value \in Ints /\ base \in Int /\ k = 0 /\ str = Minus \o Copies(0)
      /\ Len(temp) = N
      /\ \A j \in 1 .. Len(temp) :
           temp[j] = Digit[(U \div Power(base, j - 1)) % base]
  BY DEF ItoaInv
<1>2. /\ N \in 1 .. IntBits /\ IntBits \in Nat
  BY <1>1, NumeralFits, IntBitsAssumption DEF GoodBase
<1> DEFINE negative == base = 10 /\ value < 0
           u == IF negative THEN -value ELSE AsUnsigned(value)
<1>4. (negative <=> Negative) /\ u = U
  BY <1>1, MagnitudeIs DEF Negative
<1> HIDE DEF negative, u
<1>5. Copies(0) = Digits(U, base, N)
  <2>1. Places(U, base) = N
    BY DEF N
  <2>2. ASSUME NEW m \in 1 .. N
        PROVE  temp[N + 1 - m] = IF N - m >= N THEN "0"
                                 ELSE Digit[(U \div Power(base, N - m)) % base]
    <3>1. N + 1 - m \in 1 .. Len(temp) /\ (N + 1 - m) - 1 = N - m /\ ~(N - m >= N)
      BY <1>1, <1>2
    <3>. QED
      BY <1>1, <3>1
  <2>3. N - 0 = N
    BY <1>2
  <2>. QED
    BY <2>1, <2>2, <2>3 DEF Digits, Copies
<1>6. Shown(value, base)
        = (IF negative THEN <<"-">> ELSE <<>>) \o Digits(u, base, Places(u, base))
  BY DEF Shown, SignOf, Signed, Unsigned, negative, u
<1>7. Places(u, base) = N
  BY <1>4 DEF N
<1>. QED
  BY <1>1, <1>4, <1>5, <1>6, <1>7 DEF Minus

LEMMA ItoaTyped == ItoaInv => ItoaTypeOK
<1> SUFFICES ASSUME ItoaInv PROVE ItoaTypeOK
  OBVIOUS
<1>1. /\ IntMod \in Nat /\ IntMod >= 4
      /\ IntBits \in Nat /\ IntBits >= 2 /\ BufferSize = IntBits + 1
  BY IntModIs, IntBitsAssumption DEF BufferSize
<1>2. /\ value \in Ints /\ base \in Int
      /\ itoa_pc \in {"start", "digits", "copy", "end"}
  BY DEF ItoaInv
<1>3. CASE itoa_pc = "start" \/ ~GoodBase
  <2>1. uval = 0 /\ temp = <<>> /\ str = <<>> /\ k = 0
    BY <1>3 DEF ItoaInv
  <2>. QED
    BY <1>1, <1>2, <2>1 DEF ItoaTypeOK
<1>4. CASE GoodBase /\ itoa_pc # "start"
  <2>1. /\ temp \in Seq(Letters) /\ Len(temp) <= N
        /\ uval = U \div Power(base, Len(temp))
    BY <1>4 DEF ItoaInv
  <2>2. N \in 1 .. IntBits /\ (Negative => N + 1 <= IntBits)
    BY <1>2, <1>4, NumeralFits
  <2>3. uval \in 0 .. (IntMod - 1)
    <3> DEFINE w == Power(base, Len(temp))
    <3>1. w \in Nat /\ w >= 1
      <4>1. base \in Nat /\ base >= 2
        BY <1>4 DEF GoodBase
      <4>2. \A n \in Nat : Power(base, n) \in Nat /\ Power(base, n) > n
        BY <4>1, PowerIs, PowerGrows
      <4>3. Len(temp) \in Nat
        BY <2>1
      <4>. QED
        BY <4>2, <4>3
    <3>2. U \in 0 .. (IntMod - 1)
      BY <1>2, MagnitudeIs
    <3> HIDE DEF w
    <3>3. U \div w \in Nat /\ U \div w <= U
      BY <1>1, <3>1, <3>2
    <3>. QED
      BY <1>1, <2>1, <3>2, <3>3 DEF w
  <2>4. Len(temp) \in Nat /\ Len(temp) <= IntBits + 1
    BY <1>1, <2>1, <2>2
  <2>5. k \in 0 .. Len(temp) /\ Len(str) + 1 <= IntBits + 1
    <3>1. CASE itoa_pc = "digits"
      <4>1. str = <<>> /\ k = 0
        BY <1>4, <3>1 DEF ItoaInv
      <4>. QED
        BY <1>1, <2>4, <4>1
    <3>2. CASE itoa_pc \in {"copy", "end"}
      <4>1. Len(temp) = N /\ k \in 0 .. N /\ str = Minus \o Copies(k)
        BY <1>4, <3>2 DEF ItoaInv
      <4>2. N - k \in Nat /\ N - k <= N
        BY <2>2, <4>1
      <4>3. Copies(k) \in Seq(Letters) /\ Len(Copies(k)) = N - k
        <5>1. \A m \in 1 .. N : temp[m] \in Letters
          BY <2>1, <4>1
        <5>2. \A m \in 1 .. (N - k) : N + 1 - m \in 1 .. N
          BY <2>2, <4>1
        <5>. QED
          BY <4>2, <5>1, <5>2 DEF Copies
      <4>4. Minus \in Seq(Letters) /\ (Len(Minus) = 0 \/ (Len(Minus) = 1 /\ N + 1 <= IntBits))
        <5>1. "-" \in Letters
          BY DEF Letters
        <5>. QED
          BY <2>2, <5>1 DEF Minus
      <4>5. Len(str) = Len(Minus) + (N - k)
        <5>1. Len(Minus \o Copies(k)) = Len(Minus) + Len(Copies(k))
          BY <4>3, <4>4, ConcatProperties
        <5>. QED
          BY <4>1, <4>3, <5>1
      <4>6. N - k \in 0 .. N /\ Len(Minus) + N <= IntBits
        BY <1>1, <2>2, <4>1, <4>4
      <4>7. Len(str) <= IntBits
        BY <1>1, <2>2, <4>4, <4>5, <4>6
      <4>. QED
        BY <1>1, <2>2, <4>1, <4>5, <4>6, <4>7
    <3>. QED
      BY <1>2, <1>4, <3>1, <3>2
  <2>. QED
    BY <1>1, <1>2, <2>3, <2>4, <2>5 DEF ItoaTypeOK
<1>. QED
  BY <1>3, <1>4

(* What is in temp, backwards, and the digits of uval still to come are    *)
(* always the number itself: no digit is lost between the two loops.       *)
DigitsSoFar ==
  itoa_pc \in {"digits", "copy"} =>
    LET u == IF base = 10 /\ value < 0 THEN -value ELSE AsUnsigned(value)
    IN  /\ uval = u \div Power(base, Len(temp))
        /\ \A j \in DOMAIN temp :
             temp[j] = Digit[(u \div Power(base, j - 1)) % base]

LEMMA ItoaKeepsDigits == ItoaInv => DigitsSoFar
<1> SUFFICES ASSUME ItoaInv, itoa_pc \in {"digits", "copy"} PROVE DigitsSoFar
  BY DEF DigitsSoFar
<1>1. /\ temp \in Seq(Letters) /\ uval = U \div Power(base, Len(temp))
      /\ \A j \in 1 .. Len(temp) :
           temp[j] = Digit[(U \div Power(base, j - 1)) % base]
  BY DEF ItoaInv
<1>2. U = IF base = 10 /\ value < 0 THEN -value ELSE AsUnsigned(value)
  BY MagnitudeIs DEF ItoaInv
<1>3. DOMAIN temp = 1 .. Len(temp)
  BY <1>1
<1>. QED
  BY <1>1, <1>2, <1>3 DEF DigitsSoFar

LEMMA ItoaIsRight == ItoaInv => ReturnsNumeral
<1> SUFFICES ASSUME ItoaInv, itoa_pc = "end"
             PROVE  str = IF base \in 2 .. 36 THEN Shown(value, base) ELSE <<>>
  BY DEF ReturnsNumeral
<1>1. CASE GoodBase
  BY <1>1, ItoaReturned DEF GoodBase
<1>2. CASE ~GoodBase
  BY <1>2 DEF ItoaInv, GoodBase
<1>. QED
  BY <1>1, <1>2

LEMMA ItoaAlways ==
  ASSUME Values \subseteq Ints, Bases \subseteq Int
  PROVE  ItoaSpec => []ItoaInv
<1>1. ItoaInit => ItoaInv
  BY ItoaInvInit
<1>2. ItoaInv /\ [ItoaNext]_itoa_vars => ItoaInv'
  BY ItoaStep
<1>. QED
  BY <1>1, <1>2, PTL DEF ItoaSpec

(* itoa never stores behind temp or behind the buffer of print_number, the *)
(* sign and the terminator included, whatever the int and the base         *)
(* (string.c:6, console.c:52).                                            *)
THEOREM ItoaFitsItsBuffers ==
  ASSUME Values \subseteq Ints, Bases \subseteq Int
  PROVE  ItoaSpec => []ItoaTypeOK
<1>1. ItoaSpec => []ItoaInv
  BY ItoaAlways
<1>2. ItoaInv => ItoaTypeOK
  BY ItoaTyped
<1>. QED
  BY <1>1, <1>2, PTL

(* Between the two loops of itoa no digit of the number is lost, and none  *)
(* is there twice: what is stored and what is left make up the number.     *)
THEOREM NoDigitIsLost ==
  ASSUME Values \subseteq Ints, Bases \subseteq Int
  PROVE  ItoaSpec => []DigitsSoFar
<1>1. ItoaSpec => []ItoaInv
  BY ItoaAlways
<1>2. ItoaInv => DigitsSoFar
  BY ItoaKeepsDigits
<1>. QED
  BY <1>1, <1>2, PTL

(* itoa returns the numeral of its value for every int, the smallest one   *)
(* included, and every base; nothing for a base it refuses (string.c:4).   *)
THEOREM ItoaReturnsTheNumeral ==
  ASSUME Values \subseteq Ints, Bases \subseteq Int
  PROVE  ItoaSpec => []ReturnsNumeral
<1>1. ItoaSpec => []ItoaInv
  BY ItoaAlways
<1>2. ItoaInv => ReturnsNumeral
  BY ItoaIsRight
<1>. QED
  BY <1>1, <1>2, PTL

-----------------------------------------------------------------------------
(* print_number. *)

LEMMA IntsAre ==
  /\ \A n \in Int : AsInt(n) \in Ints
  /\ \A v \in Ints : \A b \in {10, 16} :
       (IF b = 10 /\ v < 0 THEN -v ELSE AsUnsigned(v)) \in 0 .. (IntMod - 1)
<1>1. /\ IntMod \in Nat /\ IntMod >= 4 /\ IntMod = 2 * (IntMod \div 2)
      /\ IntMod \div 2 \in Nat
  BY IntModIs
<1> DEFINE half == IntMod \div 2
<1>2. half \in Nat /\ IntMod = 2 * half
  BY <1>1
<1> HIDE DEF half
<1>3. Ints = (-half) .. (half - 1)
  BY DEF Ints, half
<1>4. \A n \in Int : n % IntMod \in 0 .. (IntMod - 1)
  BY <1>1
<1>5. ASSUME NEW n \in Int PROVE AsInt(n) \in Ints
  <2> DEFINE w == n % IntMod
  <2>1. w \in 0 .. (IntMod - 1)
    BY <1>4
  <2>2. AsInt(n) = IF w < half THEN w ELSE w - IntMod
    BY DEF AsInt, half
  <2> HIDE DEF w
  <2>. QED
    BY <1>2, <1>3, <2>1, <2>2
<1>6. ASSUME NEW v \in Ints, NEW b \in {10, 16}
      PROVE  (IF b = 10 /\ v < 0 THEN -v ELSE AsUnsigned(v)) \in 0 .. (IntMod - 1)
  <2>1. v \in Int /\ -v <= half /\ half <= IntMod - 1
    BY <1>1, <1>2, <1>3
  <2>2. AsUnsigned(v) \in 0 .. (IntMod - 1)
    BY <1>4, <2>1 DEF AsUnsigned
  <2>3. b = 10 /\ v < 0 => -v \in 0 .. (IntMod - 1)
    BY <1>1, <1>2, <2>1
  <2>. QED
    BY <2>2, <2>3
<1>. QED
  BY <1>5, <1>6

(* Only one quotient and remainder make a number.                          *)
LEMMA OneRemainder ==
  ASSUME NEW m \in Nat, m > 0, NEW a \in Int, NEW r \in 0 .. (m - 1),
         NEW b \in Int, NEW s \in 0 .. (m - 1), m * a + r = m * b + s
  PROVE  r = s
<1>1. \A e \in Int : e >= 1 => m * e >= m
  OBVIOUS
<1>2. m * a - m * b = m * (a - b) /\ m * b - m * a = m * (b - a)
  OBVIOUS
<1>3. ASSUME a - b >= 1 PROVE FALSE
  <2> DEFINE x == m * (a - b)
  <2>1. x >= m /\ x \in Int
    BY <1>1, <1>3
  <2>2. x = s - r
    <3>1. m * a \in Int /\ m * b \in Int
      OBVIOUS
    <3>2. m * a - m * b = s - r
      BY <3>1
    <3>. QED
      BY <1>2, <3>2
  <2> HIDE DEF x
  <2>. QED
    BY <2>1, <2>2
<1>4. ASSUME b - a >= 1 PROVE FALSE
  <2> DEFINE x == m * (b - a)
  <2>1. x >= m /\ x \in Int
    BY <1>1, <1>4
  <2>2. x = r - s
    <3>1. m * a \in Int /\ m * b \in Int
      OBVIOUS
    <3>2. m * b - m * a = r - s
      BY <3>1
    <3>. QED
      BY <1>2, <3>2
  <2> HIDE DEF x
  <2>. QED
    BY <2>1, <2>2
<1>5. a = b
  BY <1>3, <1>4
<1>. QED
  BY <1>5

(* What dividing leaves, for numbers below 0 too. *)
LEMMA Division ==
  ASSUME NEW m \in Nat, m > 0, NEW x \in Int
  PROVE  x % m \in 0 .. (m - 1) /\ \E q \in Int : x = m * q + (x % m)
<1> DEFINE d == x \div m
           r == x % m
<1>1. d \in Int /\ r \in 0 .. (m - 1) /\ x = m * d + r
  OBVIOUS
<1> HIDE DEF d, r
<1>2. \E q \in Int : x = m * q + r
  BY <1>1
<1>. QED
  BY <1>1, <1>2 DEF r

(* Multiples of the divisor leave the remainder alone. *)
LEMMA ShiftedRemainder ==
  ASSUME NEW m \in Nat, m > 0, NEW x \in Int, NEW e \in Int
  PROVE  (x + m * e) % m = x % m
<1> DEFINE y == x + m * e
           r == x % m
           s == y % m
<1>1. y \in Int
  <2>1. m * e \in Int
    OBVIOUS
  <2>. QED
    BY <2>1
<1> HIDE DEF y
<1>2. r \in 0 .. (m - 1) /\ \E q \in Int : x = m * q + r
  BY Division
<1>3. s \in 0 .. (m - 1) /\ \E q \in Int : y = m * q + s
  BY <1>1, Division
<1> HIDE DEF r, s
<1>4. PICK q \in Int : x = m * q + r
  BY <1>2
<1>5. PICK g \in Int : y = m * g + s
  BY <1>3
<1>6. y = m * (q + e) + r
  <2>1. m * (q + e) = m * q + m * e
    OBVIOUS
  <2>2. m * q \in Int /\ m * e \in Int /\ r \in Int
    BY <1>2
  <2>. QED
    BY <1>4, <2>1, <2>2 DEF y
<1>7. q + e \in Int
  OBVIOUS
<1>8. r = s
  BY <1>2, <1>3, <1>5, <1>6, <1>7, OneRemainder
<1>. QED
  BY <1>8 DEF r, s, y

(* An int keeps its value; and a digit appended to a number that was       *)
(* wrapped makes what it makes appended to the number itself.              *)
LEMMA Wraps ==
  /\ Ints \subseteq Int /\ 0 \in Ints
  /\ AsInt(0) = 0 /\ \A n \in Ints : AsInt(n) = n
  /\ \A n \in Int : \A d \in Int : AsInt(AsInt(n) * 10 + d) = AsInt(n * 10 + d)
<1>1. /\ IntMod \in Nat /\ IntMod >= 4 /\ IntMod = 2 * (IntMod \div 2)
      /\ IntMod \div 2 \in Nat /\ IntMod > 0
  BY IntModIs
<1> DEFINE half == IntMod \div 2
<1>2. half \in Nat /\ IntMod = 2 * half /\ Ints = (-half) .. (half - 1)
  BY <1>1 DEF Ints
<1>3. \A n : AsInt(n) = IF n % IntMod < half THEN n % IntMod ELSE (n % IntMod) - IntMod
  BY DEF AsInt
<1> HIDE DEF half
<1>4. ASSUME NEW n \in Ints PROVE AsInt(n) = n
  <2>1. CASE n >= 0
    <3>1. n \in Int /\ n < half /\ n < IntMod
      BY <1>1, <1>2, <2>1
    <3>2. n % IntMod = n
      BY <1>1, <2>1, <3>1
    <3>. QED
      BY <1>3, <3>1, <3>2
  <2>2. CASE n < 0
    <3>1. n \in Int /\ n + IntMod \in half .. (IntMod - 1)
      BY <1>1, <1>2, <2>2
    <3>4. PICK e \in Int : e = 1
      OBVIOUS
    <3>5. n + IntMod * e = n + IntMod
      BY <1>1, <3>1, <3>4
    <3>2. (n + IntMod) % IntMod = n + IntMod
      BY <1>1, <1>2, <3>1
    <3>3. (n + IntMod * e) % IntMod = n % IntMod
      BY <1>1, <3>1, ShiftedRemainder
    <3>6. n % IntMod = n + IntMod
      BY <3>2, <3>3, <3>5
    <3>. QED
      BY <1>1, <1>2, <1>3, <3>1, <3>6
  <2>. QED
    BY <1>2, <2>1, <2>2
<1>5. ASSUME NEW n \in Int, NEW d \in Int
      PROVE  AsInt(AsInt(n) * 10 + d) = AsInt(n * 10 + d)
  <2>1. PICK e \in Int : AsInt(n) = n + IntMod * e
    <3> DEFINE r == n % IntMod
               q == n \div IntMod
    <3>1. r \in Int /\ q \in Int /\ n = IntMod * q + r
      BY <1>1
    <3>2. AsInt(n) = r \/ AsInt(n) = r - IntMod
      BY <1>3
    <3> HIDE DEF r, q
    <3>3. /\ n + IntMod * (-q) = r /\ n + IntMod * (-q - 1) = r - IntMod
          /\ -q \in Int /\ -q - 1 \in Int
      <4>1. IntMod * (-q) = -(IntMod * q) /\ IntMod * (-q - 1) = -(IntMod * q) - IntMod
        BY <1>1, <3>1
      <4>. QED
        BY <1>1, <3>1, <4>1
    <3>. QED
      BY <3>2, <3>3
  <2> DEFINE x == n * 10 + d
  <2>2. AsInt(n) * 10 + d = x + IntMod * (10 * e)
    <3>1. (n + IntMod * e) * 10 = n * 10 + IntMod * (10 * e)
      BY <1>1
    <3>2. IntMod * (10 * e) \in Int
      BY <1>1
    <3>. QED
      BY <2>1, <3>1, <3>2
  <2>3. x \in Int /\ 10 * e \in Int
    OBVIOUS
  <2> HIDE DEF x
  <2>4. (x + IntMod * (10 * e)) % IntMod = x % IntMod
    BY <1>1, <2>3, ShiftedRemainder
  <2>. QED
    BY <1>3, <2>2, <2>4 DEF x
<1>6. 0 \in Ints /\ Ints \subseteq Int
  BY <1>1, <1>2
<1>. QED
  BY <1>4, <1>5, <1>6

LEMMA ZerosAre ==
  ASSUME NEW n \in Int
  PROVE  [j \in 1 .. n |-> "0"] \in Seq(Letters)
<1>1. "0" \in Letters
  BY ZeroDigit
<1>2. CASE n \in Nat
  BY <1>1, <1>2
<1>3. CASE n \notin Nat
  <2>1. [j \in 1 .. n |-> "0"] = <<>>
    BY <1>3
  <2>. QED
    BY <2>1, EmptySeq
<1>. QED
  BY <1>2, <1>3

LEMMA NoDigitIsMinus == \A d \in 0 .. 35 : Digit[d] # "-"
  BY DEF Digit

LEMMA DigitsAre ==
  ASSUME NEW u \in 0 .. (IntMod - 1), NEW b \in {10, 16}, NEW n \in Nat, n >= 1
  PROVE  /\ Digits(u, b, n) \in Seq(Letters) /\ Len(Digits(u, b, n)) = n
         /\ Digits(u, b, n)[1] # "-"
<1>1. b \in Nat /\ b >= 2 /\ IntMod \in Nat
  BY IntModIs
<1>2. Places(u, b) \in Nat /\ u \in Nat
  <2>1. Places(u, b) \in 1 .. IntBits /\ IntBits \in Nat
    BY <1>1, PlacesAre, IntBitsAssumption
  <2>. QED
    BY <1>1, <2>1
<1>3. ASSUME NEW m \in 1 .. n
      PROVE  /\ Digits(u, b, n)[m] \in Letters
             /\ Digits(u, b, n)[m] # "-"
  <2> DEFINE w == Power(b, n - m)
             g == (u \div w) % b
  <2>1. n - m \in Nat
    OBVIOUS
  <2>2. w \in Nat /\ w > n - m
    BY <1>1, <2>1, PowerIs, PowerGrows
  <2>3. g \in 0 .. 35
    <3> HIDE DEF w
    <3>1. u \div w \in Nat
      BY <1>2, <2>1, <2>2
    <3>2. b \in 2 .. 36
      OBVIOUS
    <3>. QED
      BY <3>1, <3>2, Remainder
  <2>4. Digits(u, b, n)[m] = IF n - m >= Places(u, b) THEN "0" ELSE Digit[g]
    BY DEF Digits
  <2> HIDE DEF g
  <2>. QED
    BY <2>3, <2>4, ZeroDigit, NoDigitIsMinus
<1>4. Digits(u, b, n) \in Seq(Letters) /\ Len(Digits(u, b, n)) = n
  BY <1>3 DEF Digits
<1>. QED
  BY <1>3, <1>4

(* A numeral in a wider field has zeros in front of it.                    *)
LEMMA ZerosInFront ==
  ASSUME NEW u \in 0 .. (IntMod - 1), NEW b \in {10, 16}, NEW w \in Int,
         NEW n \in Nat, n >= 1, n = Places(u, b)
  PROVE  [j \in 1 .. (w - n) |-> "0"] \o Digits(u, b, n)
           = Digits(u, b, Larger(w, n))
<1> DEFINE zeros == [j \in 1 .. (w - n) |-> "0"]
           few == Digits(u, b, n)
<1>1. few \in Seq(Letters) /\ Len(few) = n
  BY DigitsAre
<1>2. CASE w <= n
  <2>1. zeros = <<>> /\ Larger(w, n) = n
    BY <1>2 DEF Larger
  <2> HIDE DEF few, zeros
  <2>2. <<>> \o few = few
    BY <1>1, ConcatEmptySeq
  <2>. QED
    BY <2>1, <2>2 DEF few, zeros
<1>3. CASE w > n
  <2> DEFINE many == Digits(u, b, w)
  <2>1. Larger(w, n) = w /\ w \in Nat /\ w >= 1 /\ w - n \in Nat
    BY <1>3 DEF Larger
  <2>2. many \in Seq(Letters) /\ Len(many) = w
    BY <2>1, DigitsAre
  <2>3. zeros \in Seq(Letters) /\ Len(zeros) = w - n
    <3>1. "0" \in Letters
      BY ZeroDigit
    <3>. QED
      BY <2>1, <3>1
  <2>4. /\ zeros \o few \in Seq(Letters) /\ Len(zeros \o few) = w
        /\ \A j \in 1 .. w : (zeros \o few)[j] =
              IF j <= w - n THEN zeros[j] ELSE few[j - (w - n)]
    <3> HIDE DEF zeros, few
    <3>1. Len(zeros) + Len(few) = w
      BY <1>1, <2>1, <2>3
    <3>2. /\ zeros \o few \in Seq(Letters)
          /\ Len(zeros \o few) = Len(zeros) + Len(few)
          /\ \A j \in 1 .. (Len(zeros) + Len(few)) : (zeros \o few)[j] =
                IF j <= Len(zeros) THEN zeros[j] ELSE few[j - Len(zeros)]
      BY <1>1, <2>3, ConcatProperties
    <3>. QED
      BY <2>3, <3>1, <3>2
  <2>5. ASSUME NEW j \in 1 .. w PROVE (zeros \o few)[j] = many[j]
    <3>1. many[j] = IF w - j >= n THEN "0" ELSE Digit[(u \div Power(b, w - j)) % b]
      BY DEF Digits
    <3>2. CASE j <= w - n
      <4>1. zeros[j] = "0" /\ w - j >= n
        BY <3>2
      <4> HIDE DEF zeros, few, many
      <4>. QED
        BY <2>4, <3>1, <3>2, <4>1
    <3>3. CASE j > w - n
      <4>1. j - (w - n) \in 1 .. n /\ n - (j - (w - n)) = w - j /\ ~(w - j >= n)
        BY <2>1, <3>3
      <4>2. few[j - (w - n)] = Digit[(u \div Power(b, w - j)) % b]
        BY <4>1 DEF Digits
      <4> HIDE DEF zeros, few, many
      <4>3. ~(j <= w - n)
        BY <2>1, <3>3
      <4>. QED
        BY <2>4, <3>1, <4>1, <4>2, <4>3
    <3>4. j <= w - n \/ j > w - n
      BY <2>1
    <3>. QED
      BY <3>2, <3>3, <3>4
  <2> HIDE DEF zeros, few, many
  <2>6. zeros \o few = many
    BY <2>2, <2>4, <2>5, SeqEqual
  <2>. QED
    BY <2>1, <2>6 DEF zeros, few, many
<1>4. w <= n \/ w > n
  OBVIOUS
<1>. QED
  BY <1>2, <1>3, <1>4

(* print_number prints its value in the field it is given, a minus besides. *)
LEMMA NumberInItsField ==
  ASSUME NEW v \in Ints, NEW b \in {10, 16}, width \in Int
  PROVE  /\ Number(v, b) = Padded(v, b, width, 0)
         /\ Padded(v, b, width, 0) \in Seq(Letters)
<1> DEFINE negative == b = 10 /\ v < 0
           u == IF negative THEN -v ELSE AsUnsigned(v)
           n == Places(u, b)
           sign == IF negative THEN <<"-">> ELSE <<>>
           few == Digits(u, b, n)
           many == Digits(u, b, Larger(width, n))
<1>1. u \in 0 .. (IntMod - 1)
  BY IntsAre
<1>2. n \in Nat /\ n >= 1
  <2> HIDE DEF u
  <2>1. b \in Nat /\ b >= 2
    OBVIOUS
  <2>2. n \in 1 .. IntBits /\ IntBits \in Nat
    BY <1>1, <2>1, PlacesAre, IntBitsAssumption
  <2> HIDE DEF n
  <2>. QED
    BY <2>2
<1> HIDE DEF u
<1>3. Larger(width, n) \in Nat /\ Larger(width, n) >= 1
  <2> HIDE DEF n
  <2>. QED
    BY <1>2 DEF Larger
<1>4. /\ few \in Seq(Letters) /\ Len(few) = n /\ few[1] # "-"
      /\ many \in Seq(Letters)
  <2> HIDE DEF n
  <2>. QED
    BY <1>1, <1>2, <1>3, DigitsAre
<1>5. [j \in 1 .. (width - n) |-> "0"] \o few = many
  BY <1>1, <1>2, ZerosInFront
<1>6. Shown(v, b) = sign \o few /\ Padded(v, b, width, 0) = sign \o many
  <2>1. width - 0 = width
    OBVIOUS
  <2>. QED
    BY <2>1 DEF Shown, Padded, SignOf, Signed, Unsigned, u
<1> HIDE DEF n, few, many
<1>7. CASE negative
  <2>1. sign = <<"-">>
    BY <1>7
  <2>2. /\ (<<"-">> \o few)[1] = "-" /\ Tail(<<"-">> \o few) = few
        /\ Shown(v, b) = <<"-">> \o few
    BY <1>4, <1>6, <2>1
  <2>3. Number(v, b) = <<"-">> \o [j \in 1 .. (width - Len(few)) |-> "0"] \o few
    BY <2>2 DEF Number
  <2>4. Number(v, b) = <<"-">> \o ([j \in 1 .. (width - n) |-> "0"] \o few)
    <3> DEFINE zeros == [j \in 1 .. (width - n) |-> "0"]
    <3>1. zeros \in Seq(Letters) /\ <<"-">> \in Seq(Letters)
      <4>1. "-" \in Letters
        BY DEF Letters
      <4>2. width - n \in Int
        BY <1>2
      <4>. QED
        BY <4>1, <4>2, ZerosAre
    <3> HIDE DEF zeros
    <3>2. (<<"-">> \o zeros) \o few = <<"-">> \o (zeros \o few)
      BY <1>4, <3>1, ConcatAssociative
    <3>. QED
      BY <1>4, <2>3, <3>2 DEF zeros
  <2>. QED
    <3>1. <<"-">> \in Seq(Letters)
      BY DEF Letters
    <3>2. <<"-">> \o many \in Seq(Letters)
      BY <1>4, <3>1, ConcatProperties
    <3>. QED
      BY <1>5, <1>6, <2>1, <2>4, <3>2
<1>8. CASE ~negative
  <2>1. sign = <<>>
    BY <1>8
  <2>2. <<>> \o few = few /\ <<>> \o many = many
    BY <1>4, ConcatEmptySeq
  <2>3. Shown(v, b) = few /\ Padded(v, b, width, 0) = many
    BY <1>6, <2>1, <2>2
  <2> DEFINE zeros == [j \in 1 .. (width - Len(few)) |-> "0"]
  <2>4. Number(v, b) = <<>> \o zeros \o few
    BY <1>4, <2>3 DEF Number
  <2>5. <<>> \o zeros = zeros
    <3>1. zeros \in Seq(Letters)
      BY <1>2, <1>4, ZerosAre
    <3> HIDE DEF zeros
    <3>. QED
      BY <3>1, ConcatEmptySeq
  <2> HIDE DEF zeros
  <2>6. Number(v, b) = zeros \o few
    BY <2>4, <2>5
  <2>. QED
    BY <1>4, <1>5, <2>3, <2>6 DEF zeros
<1>. QED
  BY <1>7, <1>8

-----------------------------------------------------------------------------
(* Widths. *)

LEMMA DigitValueIs == \A ch \in Decimal : DigitValue(ch) \in 0 .. 9
<1> SUFFICES ASSUME NEW ch \in Decimal PROVE DigitValue(ch) \in 0 .. 9
  OBVIOUS
<1>1. \E d \in 0 .. 9 : Digit[d] = ch
  BY DEF Decimal
<1>. QED
  BY <1>1 DEF DigitValue

(* F[n] is what the first n digits of w amount to at their places.         *)
AddsUp(F, w) ==
  /\ F[0] = 0
  /\ \A n \in 1 .. Len(w) :
       F[n] = F[n - 1] + DigitValue(w[n]) * Power(10, Len(w) - n)

LEMMA WidthRuns ==
  ASSUME NEW w \in Seq(Decimal)
  PROVE  \E F \in [Nat -> Nat] : AddsUp(F, w) /\ WidthOf(w) = F[Len(w)]
<1> DEFINE step == [j \in Nat |-> [d \in Nat |->
                     IF j + 1 \in 1 .. Len(w)
                     THEN d + DigitValue(w[j + 1]) * Power(10, Len(w) - (j + 1))
                     ELSE d]]
           a == 0
           L == Len(w)
<1>1. L \in Nat /\ \A j \in 1 .. L : w[j] \in Decimal
  BY MembersOfASequence
<1>2. ASSUME NEW n \in 1 .. L
      PROVE  DigitValue(w[n]) * Power(10, L - n) \in Nat
  <2>1. DigitValue(w[n]) \in Nat
    BY <1>1, DigitValueIs
  <2>2. L - n \in Nat
    BY <1>1
  <2>3. Power(10, L - n) \in Nat
    <3> HIDE DEF L
    <3>. QED
      BY <2>2, PowerIs
  <2> DEFINE x == DigitValue(w[n])
             y == Power(10, L - n)
  <2> HIDE DEF x, y
  <2>4. x \in Nat /\ y \in Nat
    BY <2>1, <2>3 DEF x, y
  <2>5. x * y \in Nat
    BY <2>4
  <2>. QED
    BY <2>5 DEF x, y
<1>3. step \in [Nat -> [Nat -> Nat]] /\ a \in Nat
  <2>1. ASSUME NEW j \in Nat, NEW d \in Nat
        PROVE  (IF j + 1 \in 1 .. Len(w)
                THEN d + DigitValue(w[j + 1]) * Power(10, Len(w) - (j + 1))
                ELSE d) \in Nat
    <3> DEFINE x == DigitValue(w[j + 1]) * Power(10, Len(w) - (j + 1))
    <3>1. j + 1 \in 1 .. L => x \in Nat
      BY <1>2
    <3> HIDE DEF x
    <3>2. j + 1 \in 1 .. L => d + x \in Nat
      BY <3>1
    <3>. QED
      BY <3>2 DEF x
  <2>. QED
    BY <2>1
<1>4. \A j, d \in Nat : step[j][d] = IF j + 1 \in 1 .. L
                       THEN d + DigitValue(w[j + 1]) * Power(10, L - (j + 1))
                       ELSE d
  OBVIOUS
<1> HIDE DEF step, a
<1>5. PICK F \in [Nat -> Nat] : AllGoesOn(F, a, step)
  BY <1>3, Recursion
<1>6. F[0] = 0
  BY <1>5 DEF AllGoesOn, a
<1>7. ASSUME NEW n \in 1 .. L
      PROVE  F[n] = F[n - 1] + DigitValue(w[n]) * Power(10, L - n)
  <2>1. n - 1 \in Nat /\ (n - 1) + 1 = n /\ n \in Nat
    BY <1>1
  <2>2. F[(n - 1) + 1] = step[n - 1][F[n - 1]] /\ F[n - 1] \in Nat
    BY <1>5, <2>1 DEF AllGoesOn
  <2> HIDE DEF L
  <2>. QED
    BY <1>4, <2>1, <2>2
<1> DEFINE Body(g) == [n \in 0 .. Len(w) |->
                        IF n = 0 THEN 0
                        ELSE g[n - 1] + DigitValue(w[n]) * Power(10, Len(w) - n)]
           whole == CHOOSE g : g = Body(g)
           part == [n \in 0 .. Len(w) |-> F[n]]
<1>8. part = Body(part)
  <2>1. ASSUME NEW n \in 0 .. L PROVE part[n] = Body(part)[n]
    <3>1. CASE n = 0
      BY <1>1, <1>6, <3>1
    <3>2. CASE n # 0
      <4>1. n \in 1 .. L /\ n - 1 \in 0 .. L
        BY <1>1, <3>2
      <4>2. part[n - 1] = F[n - 1] /\ part[n] = F[n]
        BY <4>1
      <4>3. Body(part)[n] = part[n - 1] + DigitValue(w[n]) * Power(10, L - n)
        BY <3>2
      <4>. QED
        BY <1>7, <4>1, <4>2, <4>3
    <3>. QED
      BY <3>1, <3>2
  <2>. QED
    BY <2>1
<1>9. whole = Body(whole)
  BY <1>8, Zenon
<1>10. WidthOf(w) = whole[L]
  BY DEF WidthOf
<1> HIDE DEF whole
<1>11. \A n \in 0 .. L : whole[n] =
         IF n = 0 THEN 0
         ELSE whole[n - 1] + DigitValue(w[n]) * Power(10, L - n)
  BY <1>9
<1> DEFINE T == {n \in Nat : n <= L => whole[n] = F[n]}
<1>12. 0 \in T
  BY <1>1, <1>6, <1>11
<1>13. ASSUME NEW n \in Nat, n \in T PROVE n + 1 \in T
  <2> SUFFICES ASSUME n + 1 <= L PROVE whole[n + 1] = F[n + 1]
    OBVIOUS
  <2>1. /\ n + 1 \in 0 .. L /\ n + 1 \in 1 .. L /\ n + 1 # 0 /\ (n + 1) - 1 = n
        /\ n <= L
    BY <1>1
  <2>2. whole[n] = F[n]
    BY <1>13, <2>1
  <2>3. whole[n + 1] = whole[(n + 1) - 1] + DigitValue(w[n + 1]) * Power(10, L - (n + 1))
    <3> HIDE DEF L
    <3>. QED
      BY <1>11, <2>1
  <2>4. F[n + 1] = F[(n + 1) - 1] + DigitValue(w[n + 1]) * Power(10, L - (n + 1))
    <3> HIDE DEF L
    <3>. QED
      BY <1>7, <2>1
  <2> HIDE DEF L
  <2>. QED
    BY <2>1, <2>2, <2>3, <2>4
<1> HIDE DEF T
<1>14. Nat \subseteq T
  BY <1>12, <1>13, AllNaturals
<1>15. WidthOf(w) = F[L]
  <2>1. L \in T /\ L <= L
    BY <1>1, <1>14
  <2>. QED
    BY <1>10, <2>1 DEF T
<1>. QED
  BY <1>6, <1>7, <1>15 DEF AddsUp

(* The next digit of a width. *)
LEMMA WidthNext ==
  ASSUME NEW w \in Seq(Decimal), NEW ch \in Decimal
  PROVE  WidthOf(Append(w, ch)) = WidthOf(w) * 10 + DigitValue(ch)
<1> DEFINE x == Append(w, ch)
           L == Len(w)
<1>1. /\ x \in Seq(Decimal) /\ Len(x) = L + 1 /\ L \in Nat
      /\ x[L + 1] = ch /\ \A n \in 1 .. L : x[n] = w[n]
  BY AppendProperties
<1> HIDE DEF x
<1>2. PICK F \in [Nat -> Nat] : AddsUp(F, w) /\ WidthOf(w) = F[L]
  BY WidthRuns
<1>3. PICK G \in [Nat -> Nat] : AddsUp(G, x) /\ WidthOf(x) = G[L + 1]
  <2>1. \E G \in [Nat -> Nat] : AddsUp(G, x) /\ WidthOf(x) = G[Len(x)]
    BY <1>1, WidthRuns
  <2>. QED
    BY <1>1, <2>1
<1> DEFINE T == {n \in Nat : n <= L => G[n] = 10 * F[n]}
<1>4. 0 \in T
  BY <1>2, <1>3 DEF AddsUp
<1>5. ASSUME NEW n \in Nat, n \in T PROVE n + 1 \in T
  <2> SUFFICES ASSUME n + 1 <= L PROVE G[n + 1] = 10 * F[n + 1]
    OBVIOUS
  <2> DEFINE m == L - (n + 1)
             g == DigitValue(w[n + 1])
             q == Power(10, m)
  <2>1. /\ n + 1 \in 1 .. L /\ n + 1 \in 1 .. (L + 1) /\ (n + 1) - 1 = n
        /\ (L + 1) - (n + 1) = m + 1 /\ m \in Nat /\ n <= L
    BY <1>1
  <2> HIDE DEF L
  <2>2. F[n + 1] = F[n] + g * q
    <3>1. F[n + 1] = F[(n + 1) - 1] + DigitValue(w[n + 1]) * Power(10, L - (n + 1))
      BY <1>2, <2>1 DEF AddsUp, L
    <3>. QED
      BY <2>1, <3>1
  <2>3. G[n + 1] = G[n] + g * Power(10, m + 1)
    <3>1. G[n + 1] = G[(n + 1) - 1] + DigitValue(x[n + 1]) * Power(10, (L + 1) - (n + 1))
      BY <1>1, <1>3, <2>1 DEF AddsUp
    <3>. QED
      BY <1>1, <2>1, <3>1
  <2>4. G[n] = 10 * F[n] /\ F[n] \in Nat /\ G[n] \in Nat
    BY <1>5, <2>1
  <2>5. Power(10, m + 1) = 10 * q /\ q \in Nat
    <3> HIDE DEF m
    <3>. QED
      BY <2>1, PowerIs
  <2>6. g \in Nat
    <3>1. w[n + 1] \in Decimal
      BY <2>1 DEF L
    <3>2. DigitValue(w[n + 1]) \in 0 .. 9
      BY <3>1, DigitValueIs, Zenon
    <3> HIDE DEF g
    <3>3. g \in 0 .. 9
      BY <3>2 DEF g
    <3>. QED
      BY <3>3
  <2> HIDE DEF q, g
  <2>7. g * (10 * q) = 10 * (g * q) /\ g * q \in Nat
    BY <2>5, <2>6
  <2>8. G[n + 1] = G[n] + g * (10 * q)
    BY <2>3, <2>5
  <2>. QED
    BY <2>2, <2>4, <2>7, <2>8
<1> HIDE DEF T
<1>6. Nat \subseteq T
  BY <1>4, <1>5, AllNaturals
<1>7. G[L] = 10 * F[L]
  BY <1>1, <1>6 DEF T
<1>8. G[L + 1] = G[L] + DigitValue(ch)
  <2> HIDE DEF L
  <2>1. L + 1 \in 1 .. (L + 1) /\ (L + 1) - 1 = L /\ (L + 1) - (L + 1) = 0
    BY <1>1
  <2>2. G[L + 1] = G[(L + 1) - 1] + DigitValue(x[L + 1]) * Power(10, (L + 1) - (L + 1))
    BY <1>1, <1>3, <2>1 DEF AddsUp
  <2>3. G[L + 1] = G[L] + DigitValue(ch) * Power(10, 0)
    BY <1>1, <2>1, <2>2
  <2>4. Power(10, 0) = 1
    BY PowerIs
  <2> DEFINE g == DigitValue(ch)
  <2>5. g \in 0 .. 9
    BY DigitValueIs, Zenon
  <2> HIDE DEF g
  <2>6. G[L + 1] = G[L] + g * 1
    BY <2>3, <2>4 DEF g
  <2>7. g * 1 = g
    BY <2>5
  <2>. QED
    BY <2>6, <2>7 DEF g
<1>9. F[L] \in Nat
  BY <1>1, <1>2
<1>. QED
  BY <1>2, <1>3, <1>7, <1>8, <1>9, DigitValueIs DEF x

LEMMA NoWidth == WidthOf(<<>>) = 0 /\ \A w \in Seq(Decimal) : WidthOf(w) \in Nat
<1>1. ASSUME NEW w \in Seq(Decimal)
      PROVE  WidthOf(w) \in Nat /\ (Len(w) = 0 => WidthOf(w) = 0)
  <2>1. PICK F \in [Nat -> Nat] : AddsUp(F, w) /\ WidthOf(w) = F[Len(w)]
    BY WidthRuns
  <2>2. Len(w) \in Nat
    OBVIOUS
  <2>. QED
    BY <2>1, <2>2 DEF AddsUp
<1>2. <<>> \in Seq(Decimal) /\ Len(<<>>) = 0
  BY EmptySeq
<1>. QED
  BY <1>1, <1>2

-----------------------------------------------------------------------------
(* The calls of console_printf. *)

CONSTANT Chars   (* the characters there are *)

CharsSuffice == Letters \cup {NUL, "%"} \subseteq Chars

(* What Console says of items, arguments and calls. *)
Item ==
  {[text |-> ch] : ch \in Chars \ {NUL, "%"}} \cup
  [spec : Chars \ (Decimal \cup {NUL}), width : Seq(Decimal)] \cup
  [cut : Seq(Decimal)]

Passable == [int : Int] \cup [char : Chars] \cup [string : Seq(Chars)]

IsCall(c) ==
  /\ c \in [items : Seq(Item), args : Seq(Passable), behind : Seq(Chars)]
  /\ \A j \in 1 .. Len(c.items) :
       "cut" \in DOMAIN c.items[j] => j = Len(c.items)

DigitsIn(item) == IF "spec" \in DOMAIN item THEN item.width ELSE item.cut

LEMMA ItemIs ==
  ASSUME NEW item \in Item
  PROVE  \/ /\ "text" \in DOMAIN item /\ "spec" \notin DOMAIN item
            /\ "cut" \notin DOMAIN item
            /\ item.text \in Chars \ {NUL, "%"} /\ Spelling(item) = <<item.text>>
         \/ /\ "text" \notin DOMAIN item /\ "spec" \in DOMAIN item
            /\ "cut" \notin DOMAIN item
            /\ item.spec \in Chars \ (Decimal \cup {NUL})
            /\ DigitsIn(item) = item.width /\ item.width \in Seq(Decimal)
            /\ Spelling(item) = <<"%">> \o item.width \o <<item.spec>>
         \/ /\ "text" \notin DOMAIN item /\ "spec" \notin DOMAIN item
            /\ "cut" \in DOMAIN item
            /\ DigitsIn(item) = item.cut /\ item.cut \in Seq(Decimal)
            /\ Spelling(item) = <<"%">> \o item.cut
<1>1. CASE item \in {[text |-> ch] : ch \in Chars \ {NUL, "%"}}
  <2>1. PICK ch \in Chars \ {NUL, "%"} : item = [text |-> ch]
    BY <1>1
  <2>2. DOMAIN item = {"text"} /\ item.text = ch
    BY <2>1
  <2>. QED
    BY <2>2 DEF Spelling
<1>2. CASE item \in [spec : Chars \ (Decimal \cup {NUL}), width : Seq(Decimal)]
  <2>1. /\ DOMAIN item = {"spec", "width"} /\ item.spec \in Chars \ (Decimal \cup {NUL})
        /\ item.width \in Seq(Decimal)
    BY <1>2
  <2>. QED
    BY <2>1 DEF Spelling, DigitsIn
<1>3. CASE item \in [cut : Seq(Decimal)]
  <2>1. DOMAIN item = {"cut"} /\ item.cut \in Seq(Decimal)
    BY <1>3
  <2>. QED
    BY <2>1 DEF Spelling, DigitsIn
<1>. QED
  BY <1>1, <1>2, <1>3 DEF Item

(* The characters of a conversion. *)
LEMMA SpellingIs ==
  ASSUME CharsSuffice, NEW item \in Item
  PROVE  /\ Spelling(item) \in Seq(Chars) /\ Len(Spelling(item)) >= 1
         /\ "text" \in DOMAIN item =>
              Len(Spelling(item)) = 1 /\ Spelling(item)[1] = item.text
         /\ "text" \notin DOMAIN item =>
              LET w == DigitsIn(item) IN
              /\ w \in Seq(Decimal)
              /\ Spelling(item)[1] = "%"
              /\ \A d \in 1 .. Len(w) : Spelling(item)[d + 1] = w[d]
              /\ Len(Spelling(item)) = Len(w) + (IF "spec" \in DOMAIN item THEN 2 ELSE 1)
              /\ "spec" \in DOMAIN item => Spelling(item)[Len(w) + 2] = item.spec
<1>1. Decimal \subseteq Chars /\ "%" \in Chars
  BY ZeroDigit DEF CharsSuffice, Decimal
<1>2. CASE "text" \in DOMAIN item
  <2>1. item.text \in Chars /\ Spelling(item) = <<item.text>>
    BY <1>2, ItemIs
  <2>. QED
    BY <1>2, <2>1
<1>3. ASSUME NEW w \in Seq(Decimal)
      PROVE  /\ <<"%">> \o w \in Seq(Chars) /\ Len(<<"%">> \o w) = Len(w) + 1
             /\ (<<"%">> \o w)[1] = "%"
             /\ \A d \in 1 .. Len(w) : (<<"%">> \o w)[d + 1] = w[d]
  <2> DEFINE mark == <<"%">>
  <2>1. mark \in Seq(Chars) /\ Len(mark) = 1 /\ mark[1] = "%"
    BY <1>1
  <2>2. w \in Seq(Chars) /\ Len(w) \in Nat
    BY <1>1, SeqMonotonic
  <2> HIDE DEF mark
  <2>3. /\ mark \o w \in Seq(Chars) /\ Len(mark \o w) = 1 + Len(w)
        /\ \A i \in 1 .. (1 + Len(w)) :
             (mark \o w)[i] = IF i <= 1 THEN mark[i] ELSE w[i - 1]
    <3>1. /\ mark \o w \in Seq(Chars) /\ Len(mark \o w) = Len(mark) + Len(w)
          /\ \A i \in 1 .. Len(mark) + Len(w) :
               (mark \o w)[i] = IF i <= Len(mark) THEN mark[i] ELSE w[i - Len(mark)]
      BY <2>1, <2>2, ConcatProperties, Zenon
    <3>. QED
      BY <2>1, <3>1
  <2>4. (mark \o w)[1] = "%"
    BY <2>1, <2>2, <2>3
  <2>5. ASSUME NEW d \in 1 .. Len(w) PROVE (mark \o w)[d + 1] = w[d]
    <3>1. d + 1 \in 1 .. (1 + Len(w)) /\ ~(d + 1 <= 1) /\ (d + 1) - 1 = d
      BY <2>2
    <3>. QED
      BY <2>3, <3>1
  <2>. QED
    BY <2>2, <2>3, <2>4, <2>5 DEF mark
<1>4. CASE "text" \notin DOMAIN item /\ "spec" \in DOMAIN item
  <2> DEFINE w == item.width
             a == <<"%">> \o w
             b == <<item.spec>>
  <2>1. /\ w \in Seq(Decimal) /\ DigitsIn(item) = w /\ item.spec \in Chars
        /\ Spelling(item) = a \o b
    BY <1>4, ItemIs
  <2>2. /\ a \in Seq(Chars) /\ Len(a) = Len(w) + 1 /\ a[1] = "%"
        /\ \A d \in 1 .. Len(w) : a[d + 1] = w[d]
    BY <1>3, <2>1
  <2>3. b \in Seq(Chars) /\ Len(b) = 1 /\ b[1] = item.spec /\ Len(w) \in Nat
    BY <2>1
  <2> HIDE DEF a, b, w
  <2>4. /\ a \o b \in Seq(Chars) /\ Len(a \o b) = Len(w) + 2
        /\ \A i \in 1 .. (Len(w) + 2) :
             (a \o b)[i] = IF i <= Len(w) + 1 THEN a[i] ELSE b[i - (Len(w) + 1)]
    <3>1. Len(a) + Len(b) = Len(w) + 2
      BY <2>2, <2>3
    <3>2. /\ a \o b \in Seq(Chars) /\ Len(a \o b) = Len(a) + Len(b)
          /\ \A i \in 1 .. (Len(a) + Len(b)) :
               (a \o b)[i] = IF i <= Len(a) THEN a[i] ELSE b[i - Len(a)]
      BY <2>2, <2>3, ConcatProperties
    <3>. QED
      BY <2>2, <3>1, <3>2
  <2>5. (a \o b)[1] = "%"
    BY <2>2, <2>3, <2>4
  <2>6. (a \o b)[Len(w) + 2] = item.spec
    <3>1. /\ Len(w) + 2 \in 1 .. (Len(w) + 2) /\ ~(Len(w) + 2 <= Len(w) + 1)
          /\ (Len(w) + 2) - (Len(w) + 1) = 1
      BY <2>3
    <3>. QED
      BY <2>3, <2>4, <3>1
  <2>7. ASSUME NEW d \in 1 .. Len(w) PROVE (a \o b)[d + 1] = w[d]
    <3>1. d + 1 \in 1 .. (Len(w) + 2) /\ d + 1 <= Len(w) + 1
      BY <2>3
    <3>. QED
      BY <2>2, <2>4, <3>1
  <2>8. Len(w) + 2 >= 1
    BY <2>3
  <2>. QED
    BY <1>4, <2>1, <2>4, <2>5, <2>6, <2>7, <2>8
<1>5. CASE "text" \notin DOMAIN item /\ "spec" \notin DOMAIN item
  <2> DEFINE w == item.cut
  <2>1. w \in Seq(Decimal) /\ DigitsIn(item) = w /\ Spelling(item) = <<"%">> \o w
    BY <1>5, ItemIs
  <2>2. Len(w) + 1 >= 1
    BY <2>1
  <2> HIDE DEF w
  <2>. QED
    BY <1>3, <1>5, <2>1, <2>2
<1>. QED
  BY <1>2, <1>4, <1>5

Spelled(c) == [j \in DOMAIN c.items |-> Spelling(c.items[j])]

(* Where the item after the first j begins, less one. *)
At(c, j) == Len(Part(Spelled(c), j))

Memory(c) == Format(c) \o <<NUL>> \o c.behind

LEMMA CallIs ==
  ASSUME NEW c, IsCall(c)
  PROVE  /\ Len(c.items) \in Nat /\ DOMAIN c.items = 1 .. Len(c.items)
         /\ \A j \in 1 .. Len(c.items) : c.items[j] \in Item
         /\ c.args \in Seq(Passable) /\ c.behind \in Seq(Chars)
  BY DEF IsCall

LEMMA SpelledIs ==
  ASSUME CharsSuffice, NEW c, IsCall(c)
  PROVE  \A j \in 1 .. Len(c.items) :
           Spelled(c)[j] = Spelling(c.items[j]) /\ Spelled(c)[j] \in Seq(Chars)
  BY CallIs, SpellingIs DEF Spelled

LEMMA FormatIs ==
  ASSUME CharsSuffice, NEW c, IsCall(c)
  PROVE  /\ Format(c) \in Seq(Chars) /\ Len(Format(c)) = At(c, Len(c.items))
         /\ At(c, 0) = 0
         /\ \A j \in 0 .. Len(c.items) : At(c, j) \in Nat
         /\ \A j \in 0 .. (Len(c.items) - 1) :
              At(c, j + 1) = At(c, j) + Len(Spelling(c.items[j + 1]))
         /\ \A j \in 0 .. (Len(c.items) - 1) :
              \A m \in 1 .. Len(Spelling(c.items[j + 1])) :
                /\ At(c, j) + m <= Len(Format(c))
                /\ Format(c)[At(c, j) + m] = Spelling(c.items[j + 1])[m]
<1> DEFINE s == Spelled(c)
           L == Len(c.items)
<1>1. L \in Nat /\ DOMAIN c.items = 1 .. L
  BY CallIs
<1>2. \A j \in 1 .. L : s[j] = Spelling(c.items[j]) /\ s[j] \in Seq(Chars)
  BY SpelledIs
<1>3. Format(c) = Part(s, L)
  <2>1. [j \in 1 .. L |-> s[j]] = [j \in DOMAIN c.items |-> Spelling(c.items[j])]
    BY <1>1, <1>2
  <2>. QED
    BY <2>1 DEF Format, Part
<1>4. \A n : At(c, n) = Len(Part(s, n))
  BY DEF At
<1> HIDE DEF s, L
<1>5. /\ Part(s, 0) = <<>>
      /\ \A n \in 0 .. L : Part(s, n) \in Seq(Chars)
      /\ \A n \in 0 .. (L - 1) : Part(s, n + 1) = Part(s, n) \o s[n + 1]
  BY <1>1, <1>2, PartNext
<1>6. Format(c) \in Seq(Chars) /\ Len(Format(c)) = At(c, L)
  <2>1. L \in 0 .. L
    BY <1>1
  <2>. QED
    BY <1>3, <1>4, <1>5, <2>1
<1>7. ASSUME NEW j \in 0 .. L PROVE At(c, j) \in Nat
  <2>1. Part(s, j) \in Seq(Chars)
    BY <1>5
  <2>. QED
    BY <1>4, <2>1
<1>8. At(c, 0) = 0
  <2>1. Len(<<>>) = 0
    OBVIOUS
  <2>. QED
    BY <1>4, <1>5, <2>1
<1>9. ASSUME NEW j \in 0 .. (L - 1)
      PROVE  At(c, j + 1) = At(c, j) + Len(Spelling(c.items[j + 1]))
  <2>1. j \in 0 .. L /\ j + 1 \in 1 .. L
    BY <1>1
  <2>2. Part(s, j) \in Seq(Chars) /\ s[j + 1] \in Seq(Chars)
    BY <1>2, <1>5, <2>1
  <2>3. Len(Part(s, j) \o s[j + 1]) = Len(Part(s, j)) + Len(s[j + 1])
    BY <2>2, ConcatProperties, Zenon
  <2>. QED
    BY <1>2, <1>4, <1>5, <2>1, <2>3
<1>10. ASSUME NEW j \in 0 .. (L - 1), NEW m \in 1 .. Len(Spelling(c.items[j + 1]))
       PROVE  /\ At(c, j) + m <= Len(Format(c))
              /\ Format(c)[At(c, j) + m] = Spelling(c.items[j + 1])[m]
  <2>1. j + 1 \in 1 .. L
    BY <1>1
  <2>2. s[j + 1] = Spelling(c.items[j + 1]) /\ m \in 1 .. Len(s[j + 1])
    BY <1>2, <2>1
  <2>3. /\ Len(Part(s, j)) + m <= Len(Part(s, L))
        /\ Part(s, L)[Len(Part(s, j)) + m] = s[j + 1][m]
    <3>1. s \in [1 .. L -> Seq(Chars)]
      BY <1>1, <1>2 DEF s, Spelled
    <3>. QED
      BY <1>1, <2>2, <3>1, PartInPlace, Zenon
  <2>. QED
    BY <1>3, <1>4, <2>2, <2>3
<1>. QED
  BY <1>6, <1>7, <1>8, <1>9, <1>10 DEF L

LEMMA MemoryIs ==
  ASSUME CharsSuffice, NEW c, IsCall(c)
  PROVE  /\ Memory(c) \in Seq(Chars) /\ Len(Format(c)) \in Nat
         /\ Len(Memory(c)) \in Nat /\ Len(Memory(c)) >= Len(Format(c)) + 1
         /\ \A i \in 1 .. Len(Format(c)) : Memory(c)[i] = Format(c)[i]
         /\ Memory(c)[Len(Format(c)) + 1] = NUL
<1> DEFINE a == Format(c)
           b == <<NUL>>
           e == c.behind
<1>1. a \in Seq(Chars) /\ e \in Seq(Chars) /\ Len(a) \in Nat /\ Len(e) \in Nat
  BY FormatIs, CallIs
<1>2. b \in Seq(Chars) /\ Len(b) = 1 /\ b[1] = NUL
  BY DEF CharsSuffice
<1>3. Memory(c) = (a \o b) \o e
  BY DEF Memory
<1> HIDE DEF a, b, e
<1>4. /\ a \o b \in Seq(Chars) /\ Len(a \o b) = Len(a) + 1
      /\ \A i \in 1 .. (Len(a) + 1) :
           (a \o b)[i] = IF i <= Len(a) THEN a[i] ELSE b[i - Len(a)]
  <2>1. /\ a \o b \in Seq(Chars) /\ Len(a \o b) = Len(a) + Len(b)
        /\ \A i \in 1 .. (Len(a) + Len(b)) :
             (a \o b)[i] = IF i <= Len(a) THEN a[i] ELSE b[i - Len(a)]
    BY <1>1, <1>2, ConcatProperties, Zenon
  <2>. QED
    BY <1>2, <2>1
<1> DEFINE q == a \o b
<1> HIDE DEF q
<1>5. /\ q \o e \in Seq(Chars) /\ Len(q \o e) = Len(q) + Len(e)
      /\ \A i \in 1 .. (Len(q) + Len(e)) :
           (q \o e)[i] = IF i <= Len(q) THEN q[i] ELSE e[i - Len(q)]
  <2>1. q \in Seq(Chars) /\ e \in Seq(Chars)
    BY <1>1, <1>4 DEF q
  <2>. QED
    BY <2>1, ConcatProperties, Zenon
<1>6. Len(q) = Len(a) + 1
  BY <1>4 DEF q
<1>7. ASSUME NEW i \in 1 .. Len(a) PROVE (q \o e)[i] = a[i]
  <2>1. i \in 1 .. (Len(a) + 1) /\ i \in 1 .. (Len(q) + Len(e)) /\ i <= Len(q)
    BY <1>1, <1>6
  <2>2. q[i] = a[i]
    BY <1>4, <2>1 DEF q
  <2>. QED
    BY <1>5, <2>1, <2>2
<1>8. (q \o e)[Len(a) + 1] = NUL
  <2>1. /\ Len(a) + 1 \in 1 .. (Len(a) + 1) /\ Len(a) + 1 \in 1 .. (Len(q) + Len(e))
        /\ Len(a) + 1 <= Len(q) /\ ~(Len(a) + 1 <= Len(a)) /\ (Len(a) + 1) - Len(a) = 1
    BY <1>1, <1>6
  <2>2. q[Len(a) + 1] = NUL
    BY <1>2, <1>4, <2>1 DEF q
  <2>. QED
    BY <1>5, <2>1, <2>2
<1>9. Len(q \o e) >= Len(a) + 1 /\ Len(q \o e) \in Nat
  BY <1>1, <1>5, <1>6
<1>. QED
  BY <1>1, <1>3, <1>5, <1>7, <1>8, <1>9 DEF a, q

LEMMA TakenIs ==
  ASSUME NEW c
  PROVE  /\ Taken(c, 0) = 0
         /\ \A j \in Nat : Taken(c, j) \in Nat
         /\ \A j \in Nat : Taken(c, j + 1) =
              IF Takes(c.items[j + 1]) THEN Taken(c, j) + 1 ELSE Taken(c, j)
         /\ \A j \in Nat : \A n \in Nat : j <= n => Taken(c, j) <= Taken(c, n)
<1> DEFINE S(j) == {h \in 1 .. j : Takes(c.items[h])}
<1>1. ASSUME NEW j \in Nat
      PROVE  IsFiniteSet(S(j)) /\ Cardinality(S(j)) \in Nat /\ Taken(c, j) = Cardinality(S(j))
  <2>1. IsFiniteSet(1 .. j)
    BY FS_Interval
  <2>2. S(j) \in SUBSET (1 .. j)
    OBVIOUS
  <2> HIDE DEF S
  <2>3. IsFiniteSet(S(j))
    BY <2>1, <2>2, FS_Subset
  <2>. QED
    BY <2>3, FS_CardinalityType DEF S, Taken
<1>2. Taken(c, 0) = 0
  <2>1. S(0) = {}
    OBVIOUS
  <2>. QED
    BY <1>1, <2>1, FS_EmptySet
<1>3. ASSUME NEW j \in Nat
      PROVE  Taken(c, j + 1) =
              IF Takes(c.items[j + 1]) THEN Taken(c, j) + 1 ELSE Taken(c, j)
  <2>1. j + 1 \in Nat /\ j + 1 \notin S(j)
    OBVIOUS
  <2>2. CASE Takes(c.items[j + 1])
    <3>1. S(j + 1) = S(j) \cup {j + 1}
      BY <2>2
    <3> HIDE DEF S
    <3>2. Cardinality(S(j) \cup {j + 1}) = Cardinality(S(j)) + 1
      BY <1>1, <2>1, FS_AddElement
    <3>. QED
      BY <1>1, <2>1, <2>2, <3>1, <3>2
  <2>3. CASE ~Takes(c.items[j + 1])
    <3>1. S(j + 1) = S(j)
      BY <2>3
    <3>. QED
      BY <1>1, <2>1, <2>3, <3>1
  <2>. QED
    BY <2>2, <2>3
<1>4. ASSUME NEW j \in Nat, NEW n \in Nat, j <= n PROVE Taken(c, j) <= Taken(c, n)
  <2>1. S(j) \in SUBSET S(n)
    BY <1>4
  <2> HIDE DEF S
  <2>. QED
    BY <1>1, <2>1, FS_Subset
<1>. QED
  BY <1>1, <1>2, <1>3, <1>4

(* What an item of a call prints: what Rendering has, but in a width that  *)
(* was wrapped to an int.                                                  *)
InField(item, arg, b) == Padded(AsInt(arg.int), b, AsInt(WidthOf(item.width)), 0)
PrintedAs(item, arg) ==
  CASE item.spec = "c" -> <<arg.char>>
    [] item.spec = "s" -> arg.string
    [] item.spec = "d" -> InField(item, arg, 10)
    [] item.spec = "x" -> InField(item, arg, 16)
    [] item.spec = "%" -> <<"%">>
    [] OTHER -> <<"%", item.spec>>

TextOf(c, j) ==
  CASE "text" \in DOMAIN c.items[j] -> <<c.items[j].text>>
    [] Takes(c.items[j]) -> PrintedAs(c.items[j], c.args[Taken(c, j)])
    [] OTHER -> PrintedAs(c.items[j], NUL)

Texts(c) == [j \in DOMAIN c.items |-> TextOf(c, j)]

-----------------------------------------------------------------------------
(* The invariant of console_printf: it is at an item of its format, or it  *)
(* has passed the terminator of a format that is cut.                      *)

(* The first j items are done, their arguments taken, their texts given.   *)
Reading(j) ==
  /\ j \in 0 .. Len(call.items)
  /\ \A h \in 1 .. j :
       "cut" \notin DOMAIN call.items[h] /\ TextOf(call, h) \in Seq(Chars)
  /\ Taken(call, j) <= Len(call.args)
  /\ va = SubSeq(call.args, Taken(call, j) + 1, Len(call.args))
  /\ console_drv = "rgb" => given = Part(Texts(call), j)

AtItem(j) == Reading(j) /\ p = At(call, j) + 1

(* The d digits read of the conversion that is the next item.              *)
AtDigit(j, d) ==
  /\ Reading(j) /\ j + 1 <= Len(call.items)
  /\ "text" \notin DOMAIN call.items[j + 1]
  /\ d \in 0 .. Len(DigitsIn(call.items[j + 1]))
  /\ p = (At(call, j) + 2) + d
  /\ width = AsInt(WidthOf(SubSeq(DigitsIn(call.items[j + 1]), 1, d)))

Past == p > Len(Format(call)) + 1 /\ ~Complete(call)

Called ==
  /\ IsCall(call) /\ fmt = Memory(call)
  /\ p \in 1 .. (Len(fmt) + 1) /\ width \in Ints
  /\ va \in Seq(Passable) /\ Len(va) <= Len(call.args)

ConsoleInv ==
  /\ fb_addr \in {0, 1} /\ console_drv \in {"noop", "rgb"}
  /\ pc \in {"boot", "idle", "text", "width", "wild"}
  /\ pc \in {"boot", "idle"} =>
       call = Nothing /\ fmt = <<NUL>> /\ p = 1 /\ width = 0 /\ va = <<>>
  /\ pc \in {"text", "width", "wild"} => Called
  /\ pc = "text" => Past \/ \E j \in Nat : AtItem(j)
  /\ pc = "width" => Past \/ \E j \in Nat : \E d \in Nat : AtDigit(j, d)
  /\ pc = "wild" =>
       /\ Len(Format(call)) + 1 < p => ~Complete(call)
       /\ ArgumentsMatch(call) => ~Complete(call)

LEMMA Specifiers ==
  /\ NUL \notin Decimal /\ NUL # "%" /\ ~TakesArg(NUL)
  /\ \A ch : TakesArg(ch) => ch \notin Decimal /\ ch # "%"
  /\ "%" \notin Decimal
<1>1. NUL \notin Decimal /\ NUL # "%" /\ ~TakesArg(NUL)
  BY ConsoleAssumption DEF TakesArg
<1>2. \A d \in 0 .. 9 : Digit[d] \notin {"c", "s", "d", "x", "%"}
  BY DEF Digit
<1>. QED
  BY <1>1, <1>2 DEF TakesArg, Decimal

LEMMA TextsGoOn ==
  ASSUME NEW c, IsCall(c), NEW j \in Nat, j + 1 <= Len(c.items),
         \A h \in 1 .. (j + 1) : TextOf(c, h) \in Seq(Chars)
  PROVE  /\ Part(Texts(c), j) \in Seq(Chars)
         /\ Part(Texts(c), j + 1) = Part(Texts(c), j) \o TextOf(c, j + 1)
<1> DEFINE s == Texts(c)
<1>1. \A h \in 1 .. (j + 1) : s[h] = TextOf(c, h) /\ s[h] \in Seq(Chars)
  <2>1. \A h \in 1 .. (j + 1) : h \in DOMAIN c.items
    BY CallIs
  <2>. QED
    BY <2>1 DEF Texts
<1>2. j + 1 \in Nat /\ j \in 0 .. (j + 1) /\ j \in 0 .. ((j + 1) - 1) /\ j + 1 \in 1 .. (j + 1)
  OBVIOUS
<1> HIDE DEF s
<1>3. /\ \A n \in 0 .. (j + 1) : Part(s, n) \in Seq(Chars)
      /\ \A n \in 0 .. ((j + 1) - 1) : Part(s, n + 1) = Part(s, n) \o s[n + 1]
  BY <1>1, <1>2, PartNext
<1>. QED
  BY <1>1, <1>2, <1>3 DEF s

(* An iteration that does what its item says is one item further on.       *)
LEMMA NextItem ==
  ASSUME Called, NEW j \in Nat, Reading(j), j + 1 <= Len(call.items),
         "cut" \notin DOMAIN call.items[j + 1], TextOf(call, j + 1) \in Seq(Chars),
         call' = call, console_drv' = console_drv,
         given' = given \o Reaching(TextOf(call, j + 1)),
         IF Takes(call.items[j + 1]) THEN va # <<>> /\ va' = Tail(va) ELSE va' = va
  PROVE  Reading(j + 1)'
<1> DEFINE L == Len(call.args)
           t == Taken(call, j)
<1>1. /\ IsCall(call) /\ Len(call.items) \in Nat
      /\ call.args \in Seq(Passable) /\ L \in Nat
  BY CallIs DEF Called
<1>2. /\ \A h \in 1 .. j : "cut" \notin DOMAIN call.items[h] /\ TextOf(call, h) \in Seq(Chars)
      /\ t <= L /\ va = SubSeq(call.args, t + 1, L)
      /\ console_drv = "rgb" => given = Part(Texts(call), j)
  BY DEF Reading
<1>3. j + 1 \in 0 .. Len(call.items)
  BY <1>1
<1>4. \A h \in 1 .. (j + 1) :
        "cut" \notin DOMAIN call.items[h] /\ TextOf(call, h) \in Seq(Chars)
  <2>1. \A h \in 1 .. (j + 1) : h \in 1 .. j \/ h = j + 1
    OBVIOUS
  <2>. QED
    BY <1>2, <2>1
<1>5. /\ t \in Nat
      /\ Taken(call, j + 1) = IF Takes(call.items[j + 1]) THEN t + 1 ELSE t
  BY TakenIs
<1> HIDE DEF L, t
<1>6. /\ Taken(call, j + 1) <= L
      /\ va' = SubSeq(call.args, Taken(call, j + 1) + 1, L)
  <2>1. CASE Takes(call.items[j + 1])
    <3>1. va # <<>> /\ va' = Tail(va) /\ Taken(call, j + 1) = t + 1
      BY <1>5, <2>1
    <3>2. t + 1 <= L
      <4>1. ASSUME L < t + 1 PROVE FALSE
        <5>1. SubSeq(call.args, t + 1, L) = <<>>
          BY <1>1, <1>5, <4>1, SubSeqEmpty
        <5>. QED
          BY <1>2, <3>1, <5>1
      <4>. QED
        BY <1>1, <1>5, <4>1
    <3>3. t + 1 \in 1 .. Len(call.args) /\ L \in (t + 1) .. Len(call.args)
      BY <1>1, <1>5, <3>2 DEF L
    <3>4. Tail(SubSeq(call.args, t + 1, L)) = SubSeq(call.args, (t + 1) + 1, L)
      BY <1>1, <3>3, HeadTailOfSubSeq
    <3>. QED
      BY <1>2, <3>1, <3>2, <3>4
  <2>2. CASE ~Takes(call.items[j + 1])
    BY <1>2, <1>5, <2>2
  <2>. QED
    BY <2>1, <2>2
<1>7. ASSUME console_drv' = "rgb" PROVE given' = Part(Texts(call), j + 1)
  <2>1. Part(Texts(call), j + 1) = Part(Texts(call), j) \o TextOf(call, j + 1)
    BY <1>1, <1>4, TextsGoOn
  <2>2. Reaching(TextOf(call, j + 1)) = TextOf(call, j + 1)
    BY <1>7 DEF Reaching
  <2>. QED
    BY <1>2, <1>7, <2>1, <2>2
<1>8. /\ (\A h \in 1 .. (j + 1) : "cut" \notin DOMAIN call.items[h]
                                   /\ TextOf(call, h) \in Seq(Chars))'
      /\ Taken(call, j + 1)' = Taken(call, j + 1) /\ Texts(call)' = Texts(call)
      /\ L' = L
  BY <1>4 DEF L
<1>. QED
  BY <1>3, <1>6, <1>7, <1>8 DEF Reading, L

LEMMA PlaceInText ==
  ASSUME CharsSuffice, Called, NEW j \in Nat, AtItem(j)
  PROVE  /\ j <= Len(call.items) /\ p \in Nat /\ p <= Len(Format(call)) + 1
         /\ j = Len(call.items) => p = Len(Format(call)) + 1 /\ fmt[p] = NUL
         /\ j # Len(call.items) =>
              /\ j + 1 <= Len(call.items) /\ call.items[j + 1] \in Item
              /\ "text" \in DOMAIN call.items[j + 1] =>
                   fmt[p] = call.items[j + 1].text /\ p + 1 = At(call, j + 1) + 1
              /\ "text" \notin DOMAIN call.items[j + 1] => fmt[p] = "%"
<1> DEFINE count == Len(call.items)
<1>1. IsCall(call) /\ fmt = Memory(call) /\ p = At(call, j) + 1 /\ j \in 0 .. count
  BY DEF Called, AtItem, Reading
<1>2. /\ count \in Nat /\ \A i \in 1 .. count : call.items[i] \in Item
      /\ Len(Format(call)) = At(call, count)
      /\ \A i \in 0 .. count : At(call, i) \in Nat
      /\ \A i \in 0 .. (count - 1) :
           At(call, i + 1) = At(call, i) + Len(Spelling(call.items[i + 1]))
      /\ \A i \in 0 .. (count - 1) :
           \A m \in 1 .. Len(Spelling(call.items[i + 1])) :
             /\ At(call, i) + m <= Len(Format(call))
             /\ Format(call)[At(call, i) + m] = Spelling(call.items[i + 1])[m]
  BY <1>1, CallIs, FormatIs
<1>3. /\ \A i \in 1 .. Len(Format(call)) : fmt[i] = Format(call)[i]
      /\ fmt[Len(Format(call)) + 1] = NUL /\ Len(Format(call)) \in Nat
  BY <1>1, MemoryIs
<1> HIDE DEF count
<1>4. CASE j = count
  <2>1. p = Len(Format(call)) + 1
    BY <1>1, <1>2, <1>4
  <2>2. fmt[p] = NUL
    BY <1>3, <2>1
  <2>3. p \in Nat /\ p <= Len(Format(call)) + 1 /\ j <= count
    BY <1>2, <1>3, <1>4, <2>1
  <2>. QED
    BY <1>4, <2>1, <2>2, <2>3 DEF count
<1>5. CASE j # count
  <2> DEFINE item == call.items[j + 1]
  <2>1. j \in 0 .. (count - 1) /\ j + 1 \in 1 .. count /\ j + 1 <= count /\ j <= count
    BY <1>1, <1>2, <1>5
  <2>2. item \in Item /\ At(call, j) \in Nat
    BY <1>1, <1>2, <2>1
  <2> HIDE DEF item
  <2>3. /\ Spelling(item) \in Seq(Chars) /\ Len(Spelling(item)) >= 1
        /\ "text" \in DOMAIN item =>
             Len(Spelling(item)) = 1 /\ Spelling(item)[1] = item.text
        /\ "text" \notin DOMAIN item => Spelling(item)[1] = "%"
    BY <2>2, SpellingIs
  <2>4. 1 \in 1 .. Len(Spelling(item))
    BY <2>3
  <2>5. /\ At(call, j) + 1 <= Len(Format(call))
        /\ Format(call)[At(call, j) + 1] = Spelling(item)[1]
        /\ At(call, j + 1) = At(call, j) + Len(Spelling(item))
    BY <1>2, <2>1, <2>4 DEF item
  <2>6. p \in Nat /\ p \in 1 .. Len(Format(call)) /\ p <= Len(Format(call)) + 1
    BY <1>1, <1>3, <2>2, <2>5
  <2>7. fmt[p] = Spelling(item)[1]
    BY <1>1, <1>3, <2>5, <2>6
  <2>8. "text" \in DOMAIN item => p + 1 = At(call, j + 1) + 1
    BY <1>1, <2>2, <2>3, <2>5
  <2>9. /\ "text" \in DOMAIN item => fmt[p] = item.text
        /\ "text" \notin DOMAIN item => fmt[p] = "%"
    BY <2>3, <2>7
  <2>. QED
    BY <1>5, <2>1, <2>2, <2>6, <2>8, <2>9 DEF item, count
<1>. QED
  BY <1>4, <1>5

LEMMA PlaceInConversion ==
  ASSUME CharsSuffice, Called, NEW j \in Nat, NEW d \in Nat, AtDigit(j, d)
  PROVE  LET item == call.items[j + 1]
             w == DigitsIn(item)
         IN  /\ item \in Item /\ w \in Seq(Decimal) /\ d <= Len(w)
             /\ p \in Nat /\ p <= Len(Format(call)) + 1
             /\ d # Len(w) => d + 1 \in 1 .. Len(w) /\ fmt[p] = w[d + 1]
             /\ d = Len(w) => width = AsInt(WidthOf(w))
             /\ d = Len(w) /\ "spec" \in DOMAIN item =>
                  /\ "cut" \notin DOMAIN item /\ w = item.width
                  /\ p <= Len(Format(call)) /\ fmt[p] = item.spec
                  /\ item.spec \notin Decimal /\ item.spec # NUL /\ item.spec \in Chars
                  /\ p = At(call, j + 1)
             /\ d = Len(w) /\ "spec" \notin DOMAIN item =>
                  p = Len(Format(call)) + 1 /\ fmt[p] = NUL /\ ~Complete(call)
<1> DEFINE count == Len(call.items)
           item == call.items[j + 1]
           w == DigitsIn(item)
<1>1. /\ IsCall(call) /\ fmt = Memory(call) /\ p = (At(call, j) + 2) + d
      /\ j \in 0 .. count /\ j + 1 <= count /\ "text" \notin DOMAIN item
      /\ d \in 0 .. Len(w) /\ width = AsInt(WidthOf(SubSeq(w, 1, d)))
  BY DEF Called, AtDigit, Reading
<1>2. /\ count \in Nat /\ \A i \in 1 .. count : call.items[i] \in Item
      /\ DOMAIN call.items = 1 .. count
      /\ Len(Format(call)) = At(call, count)
      /\ \A i \in 0 .. count : At(call, i) \in Nat
      /\ \A i \in 0 .. (count - 1) :
           At(call, i + 1) = At(call, i) + Len(Spelling(call.items[i + 1]))
      /\ \A i \in 0 .. (count - 1) :
           \A m \in 1 .. Len(Spelling(call.items[i + 1])) :
             /\ At(call, i) + m <= Len(Format(call))
             /\ Format(call)[At(call, i) + m] = Spelling(call.items[i + 1])[m]
  BY <1>1, CallIs, FormatIs
<1>3. /\ \A i \in 1 .. Len(Format(call)) : fmt[i] = Format(call)[i]
      /\ fmt[Len(Format(call)) + 1] = NUL /\ Len(Format(call)) \in Nat
  BY <1>1, MemoryIs
<1>4. j \in 0 .. (count - 1) /\ j + 1 \in 1 .. count
  <2> HIDE DEF count, item, w
  <2>. QED
    BY <1>1, <1>2
<1>5. item \in Item /\ At(call, j) \in Nat
  BY <1>1, <1>2, <1>4
<1> DEFINE sp == Spelling(item)
<1> HIDE DEF item
<1>6. /\ sp \in Seq(Chars) /\ w \in Seq(Decimal)
      /\ \A i \in 1 .. Len(w) : sp[i + 1] = w[i]
      /\ Len(sp) = Len(w) + (IF "spec" \in DOMAIN item THEN 2 ELSE 1)
      /\ "spec" \in DOMAIN item => sp[Len(w) + 2] = item.spec
  BY <1>1, <1>5, SpellingIs
<1>7. /\ \A m \in 1 .. Len(sp) :
           /\ At(call, j) + m <= Len(Format(call))
           /\ Format(call)[At(call, j) + m] = sp[m]
      /\ At(call, j + 1) = At(call, j) + Len(sp)
  BY <1>2, <1>4 DEF item
<1> HIDE DEF count, w, sp
<1>8. Len(w) \in Nat
  BY <1>6
<1>9. CASE d # Len(w)
  <2>1. d + 1 \in 1 .. Len(w) /\ (d + 1) + 1 \in 1 .. Len(sp)
    BY <1>1, <1>6, <1>8, <1>9
  <2>2. At(call, j) + ((d + 1) + 1) = p
    BY <1>1, <1>5
  <2>3. p <= Len(Format(call)) /\ Format(call)[p] = w[d + 1]
    BY <1>6, <1>7, <2>1, <2>2
  <2>4. p \in 1 .. Len(Format(call)) /\ p \in Nat /\ p <= Len(Format(call)) + 1
    BY <1>1, <1>3, <1>5, <2>3
  <2>. QED
    BY <1>1, <1>3, <1>5, <1>6, <1>9, <2>1, <2>3, <2>4 DEF item, w
<1>10. CASE d = Len(w) /\ "spec" \in DOMAIN item
  <2>1. Len(w) + 2 \in 1 .. Len(sp) /\ Len(sp) = Len(w) + 2
    BY <1>6, <1>8, <1>10
  <2>2. At(call, j) + (Len(w) + 2) = p /\ p = At(call, j + 1)
    <3>1. p = (At(call, j) + 2) + d /\ d = Len(w) /\ At(call, j + 1) = At(call, j) + Len(sp)
      BY <1>1, <1>7, <1>10
    <3>. QED
      BY <1>5, <1>8, <2>1, <3>1
  <2>3. p <= Len(Format(call)) /\ Format(call)[p] = item.spec
    BY <1>6, <1>7, <1>10, <2>1, <2>2
  <2>4. p \in 1 .. Len(Format(call)) /\ p \in Nat /\ p <= Len(Format(call)) + 1
    BY <1>1, <1>3, <1>5, <2>3
  <2>5. fmt[p] = item.spec
    BY <1>3, <2>3, <2>4
  <2>6. /\ "cut" \notin DOMAIN item /\ w = item.width
        /\ item.spec \in Chars \ (Decimal \cup {NUL})
    BY <1>5, <1>10, ItemIs DEF w
  <2>7. SubSeq(w, 1, Len(w)) = w
    BY <1>6, SubSeqFull
  <2>8. width = AsInt(WidthOf(w))
    BY <1>1, <1>10, <2>7
  <2>9. item.spec \notin Decimal /\ item.spec # NUL /\ item.spec \in Chars
    BY <2>6
  <2>. QED
    BY <1>1, <1>5, <1>6, <1>10, <2>2, <2>3, <2>4, <2>5, <2>6, <2>8, <2>9 DEF item, w
<1>11. CASE d = Len(w) /\ "spec" \notin DOMAIN item
  <2>1. "cut" \in DOMAIN item
    BY <1>1, <1>5, <1>11, ItemIs
  <2>2. j + 1 = count
    BY <1>1, <1>4, <2>1 DEF IsCall, count, item
  <2>3. Len(sp) = Len(w) + 1
    BY <1>6, <1>11
  <2>4. Len(Format(call)) = At(call, j) + (Len(w) + 1)
    BY <1>2, <1>7, <2>2, <2>3
  <2>5. p = Len(Format(call)) + 1
    BY <1>1, <1>5, <1>8, <1>11, <2>4
  <2>6. ~Complete(call)
    BY <1>2, <1>4, <2>1 DEF Complete, item
  <2>7. p \in Nat /\ p <= Len(Format(call)) + 1 /\ fmt[p] = NUL
    BY <1>3, <2>5
  <2>8. SubSeq(w, 1, Len(w)) = w
    BY <1>6, SubSeqFull
  <2>9. width = AsInt(WidthOf(w))
    BY <1>1, <1>11, <2>8
  <2>. QED
    BY <1>1, <1>5, <1>6, <1>11, <2>5, <2>6, <2>7, <2>9 DEF item, w
<1>. QED
  BY <1>9, <1>10, <1>11 DEF item, w

(* What a step inside a call leaves alone, and the bounds it keeps.        *)
LEMMA StillCalled ==
  ASSUME Called, fmt' = fmt, call' = call, p <= Len(fmt), p' = p + 1,
         width' \in Ints, va' \in Seq(Passable), Len(va') <= Len(call.args)
  PROVE  Called'
<1>1. p' \in 1 .. (Len(fmt) + 1)
  <2>1. IsCall(call) /\ fmt = Memory(call) /\ p \in 1 .. (Len(fmt) + 1)
    BY DEF Called
  <2>. QED
    BY <2>1
<1>. QED
  BY <1>1 DEF Called

LEMMA StillPast ==
  ASSUME Past, Called, CharsSuffice, call' = call, p' = p + 1
  PROVE  Past'
<1>1. p \in Nat /\ Len(Format(call)) \in Nat
  <2>1. IsCall(call) /\ fmt = Memory(call) /\ p \in 1 .. (Len(fmt) + 1)
    BY DEF Called
  <2>2. Len(Format(call)) \in Nat /\ Len(fmt) \in Nat
    BY <2>1, MemoryIs
  <2>. QED
    BY <2>1, <2>2
<1>2. p > Len(Format(call)) + 1 /\ ~Complete(call)
  BY DEF Past
<1>3. p' > Len(Format(call)) + 1
  BY <1>1, <1>2
<1>. QED
  BY <1>2, <1>3 DEF Past

LEMMA OutsideStep ==
  ASSUME ConsoleInv,
         \/ \E address \in {0, 1} : console_init(address)
         \/ console_clear \/ console_scroll \/ \E s \in Strings : console_puts(s)
  PROVE  ConsoleInv'
<1>1. CASE \E address \in {0, 1} : console_init(address)
  BY <1>1 DEF ConsoleInv, console_init, printf
<1>2. ASSUME NEW chs, Direct(chs) PROVE ConsoleInv'
  <2>1. /\ pc = "idle" /\ pc' = "idle" /\ call' = Nothing /\ fb_addr' = fb_addr
        /\ console_drv' = console_drv /\ fmt' = fmt /\ p' = p /\ width' = width
        /\ va' = va
    BY <1>2 DEF Direct, printf
  <2>. QED
    BY <2>1 DEF ConsoleInv
<1>. QED
  BY <1>1, <1>2 DEF console_clear, console_scroll, console_puts

LEMMA BeginStep ==
  ASSUME CharsSuffice, ConsoleInv, NEW c \in Calls, IsCall(c), console_printf(c)
  PROVE  ConsoleInv'
<1>1. /\ pc = "idle" /\ pc' = "text" /\ fmt' = Memory(c) /\ p' = 1 /\ width' = 0
      /\ va' = c.args /\ call' = c /\ given' = <<>>
      /\ fb_addr' = fb_addr /\ console_drv' = console_drv
  BY DEF console_printf, Memory
<1>2. /\ c.args \in Seq(Passable) /\ Len(c.args) \in Nat /\ Len(c.items) \in Nat
  BY CallIs
<1>3. Called'
  <2>1. Len(Memory(c)) \in Nat
    BY MemoryIs
  <2>. QED
    BY <1>1, <1>2, <2>1, Wraps DEF Called
<1>4. AtItem(0)'
  <2>1. At(c, 0) = 0 /\ Taken(c, 0) = 0
    BY FormatIs, TakenIs
  <2>2. Part(Texts(c), 0) = <<>>
    <3>1. \A j \in 1 .. 0 : Texts(c)[j] \in Seq(Chars)
      OBVIOUS
    <3>. QED
      BY <3>1, PartNext
  <2>3. SubSeq(c.args, 1, Len(c.args)) = c.args
    BY <1>2, SubSeqFull
  <2>4. Reading(0)'
    BY <1>1, <1>2, <2>1, <2>2, <2>3 DEF Reading
  <2>. QED
    BY <1>1, <2>1, <2>4 DEF AtItem
<1>. QED
  BY <1>1, <1>3, <1>4 DEF ConsoleInv

LEMMA EndStep ==
  ASSUME ConsoleInv, EndOfFormat
  PROVE  ConsoleInv'
  BY DEF ConsoleInv, EndOfFormat

LEMMA PutTextStep ==
  ASSUME CharsSuffice, ConsoleInv, PutText
  PROVE  ConsoleInv'
<1>1. /\ pc = "text" /\ p <= Len(fmt) /\ fmt[p] \notin {NUL, "%"}
      /\ given' = given \o Reaching(<<fmt[p]>>) /\ p' = p + 1
      /\ fb_addr' = fb_addr /\ console_drv' = console_drv /\ pc' = pc /\ fmt' = fmt
      /\ width' = width /\ va' = va /\ call' = call
  BY DEF PutText, More, Give
<1>2. Called /\ (Past \/ \E j \in Nat : AtItem(j))
  BY <1>1 DEF ConsoleInv
<1>3. Called'
  BY <1>1, <1>2, StillCalled DEF Called
<1>4. CASE Past
  <2>1. Past'
    BY <1>1, <1>2, <1>4, StillPast
  <2>. QED
    BY <1>1, <1>3, <2>1 DEF ConsoleInv
<1>5. ASSUME NEW j \in Nat, AtItem(j) PROVE ConsoleInv'
  <2> DEFINE item == call.items[j + 1]
  <2>1. j # Len(call.items)
    BY <1>1, <1>2, <1>5, PlaceInText
  <2>2. /\ j + 1 <= Len(call.items) /\ item \in Item /\ "text" \in DOMAIN item
        /\ fmt[p] = item.text /\ p + 1 = At(call, j + 1) + 1
    BY <1>1, <1>2, <1>5, <2>1, PlaceInText
  <2>3. "cut" \notin DOMAIN item /\ "spec" \notin DOMAIN item /\ item.text \in Chars
    BY <2>2, ItemIs
  <2>4. TextOf(call, j + 1) = <<fmt[p]>> /\ ~Takes(item) /\ <<fmt[p]>> \in Seq(Chars)
    BY <2>2, <2>3 DEF TextOf, Takes
  <2>5. Reading(j)
    BY <1>5 DEF AtItem
  <2>6. Reading(j + 1)'
    BY <1>1, <1>2, <2>2, <2>3, <2>4, <2>5, NextItem
  <2>7. AtItem(j + 1)' /\ j + 1 \in Nat
    BY <1>1, <2>2, <2>6 DEF AtItem
  <2>. QED
    BY <1>1, <1>3, <2>7 DEF ConsoleInv
<1>. QED
  BY <1>2, <1>4, <1>5

LEMMA SameReading ==
  ASSUME NEW j \in Nat, Reading(j), call' = call, va' = va,
         console_drv' = console_drv, given' = given
  PROVE  Reading(j)'
  BY DEF Reading

LEMMA PercentStep ==
  ASSUME CharsSuffice, ConsoleInv, Percent
  PROVE  ConsoleInv'
<1>1. /\ pc = "text" /\ p <= Len(fmt) /\ fmt[p] = "%"
      /\ pc' = "width" /\ width' = 0 /\ p' = p + 1
      /\ fb_addr' = fb_addr /\ console_drv' = console_drv /\ fmt' = fmt
      /\ va' = va /\ call' = call /\ given' = given
  BY DEF Percent, More
<1>2. Called /\ (Past \/ \E j \in Nat : AtItem(j))
  BY <1>1 DEF ConsoleInv
<1>3. Called'
  <2>1. width' \in Ints
    BY <1>1, Wraps
  <2>. QED
    BY <1>1, <1>2, <2>1, StillCalled DEF Called
<1>4. CASE Past
  <2>1. Past'
    BY <1>1, <1>2, <1>4, StillPast
  <2>. QED
    BY <1>1, <1>3, <2>1 DEF ConsoleInv
<1>5. ASSUME NEW j \in Nat, AtItem(j) PROVE ConsoleInv'
  <2> DEFINE item == call.items[j + 1]
             w == DigitsIn(item)
  <2>1. j # Len(call.items)
    BY <1>1, <1>2, <1>5, PlaceInText, Specifiers
  <2>2. /\ j + 1 <= Len(call.items) /\ item \in Item
        /\ "text" \in DOMAIN item => fmt[p] = item.text
    BY <1>1, <1>2, <1>5, <2>1, PlaceInText
  <2>3. "text" \notin DOMAIN item /\ w \in Seq(Decimal)
    <3>1. "text" \notin DOMAIN item
      BY <1>1, <2>2, ItemIs
    <3>. QED
      BY <2>2, <3>1, SpellingIs
  <2>4. Reading(j) /\ p = At(call, j) + 1
    BY <1>5 DEF AtItem
  <2>5. Reading(j)'
    BY <1>1, <2>4, SameReading
  <2>6. AsInt(WidthOf(SubSeq(w, 1, 0))) = 0
    <3>1. SubSeq(w, 1, 0) = <<>>
      BY SubSeqEmpty
    <3>. QED
      BY <3>1, NoWidth, Wraps
  <2>7. 0 \in 0 .. Len(w)
    BY <2>3
  <2>8. At(call, j) \in Nat
    <3>1. IsCall(call) /\ j \in 0 .. Len(call.items)
      BY <1>2, <2>4 DEF Called, Reading
    <3>. QED
      BY <3>1, FormatIs
  <2>9. p' = (At(call, j) + 2) + 0
    BY <1>1, <2>4, <2>8
  <2>10. AtDigit(j, 0)'
    <3>1. /\ call.items' = call.items /\ DigitsIn(item)' = DigitsIn(item)
          /\ At(call, j)' = At(call, j) /\ item' = item
      BY <1>1
    <3>. QED
      BY <1>1, <2>2, <2>3, <2>5, <2>6, <2>7, <2>9, <3>1 DEF AtDigit
  <2>. QED
    BY <1>1, <1>3, <2>10 DEF ConsoleInv
<1>. QED
  BY <1>2, <1>4, <1>5

LEMMA WidthDigitStep ==
  ASSUME CharsSuffice, ConsoleInv, WidthDigit
  PROVE  ConsoleInv'
<1>1. /\ pc = "width" /\ p <= Len(fmt) /\ fmt[p] \in Decimal
      /\ width' = AsInt(width * 10 + DigitValue(fmt[p])) /\ p' = p + 1
      /\ fb_addr' = fb_addr /\ console_drv' = console_drv /\ pc' = pc /\ fmt' = fmt
      /\ va' = va /\ call' = call /\ given' = given
  BY DEF WidthDigit, More, Widened
<1>2. Called /\ (Past \/ \E j \in Nat : \E d \in Nat : AtDigit(j, d))
  BY <1>1 DEF ConsoleInv
<1>3. Called'
  <2>1. DigitValue(fmt[p]) \in 0 .. 9
    BY <1>1, DigitValueIs
  <2>2. width' \in Ints
    <3>1. width * 10 + DigitValue(fmt[p]) \in Int
      <4>1. width \in Int
        BY <1>2, Wraps DEF Called
      <4> DEFINE g == DigitValue(fmt[p])
      <4>2. g \in Int
        BY <2>1
      <4> HIDE DEF g
      <4>3. width * 10 + g \in Int
        BY <4>1, <4>2
      <4>. QED
        BY <4>3 DEF g
    <3>. QED
      BY <1>1, <3>1, IntsAre
  <2>. QED
    BY <1>1, <1>2, <2>2, StillCalled DEF Called
<1>4. CASE Past
  <2>1. Past'
    BY <1>1, <1>2, <1>4, StillPast
  <2>. QED
    BY <1>1, <1>3, <2>1 DEF ConsoleInv
<1>5. ASSUME NEW j \in Nat, NEW d \in Nat, AtDigit(j, d) PROVE ConsoleInv'
  <2> DEFINE item == call.items[j + 1]
             w == DigitsIn(item)
  <2>1. w \in Seq(Decimal) /\ d <= Len(w)
    BY <1>2, <1>5, PlaceInConversion
  <2>2. d # Len(w)
    <3>1. CASE d = Len(w) /\ "spec" \in DOMAIN item
      <4>1. fmt[p] = item.spec /\ item.spec \notin Decimal
        BY <1>2, <1>5, <3>1, PlaceInConversion
      <4>. QED
        BY <1>1, <4>1
    <3>2. CASE d = Len(w) /\ "spec" \notin DOMAIN item
      <4>1. fmt[p] = NUL
        BY <1>2, <1>5, <3>2, PlaceInConversion
      <4>. QED
        BY <1>1, <4>1, Specifiers
    <3>. QED
      BY <3>1, <3>2
  <2>3. d + 1 \in 1 .. Len(w) /\ fmt[p] = w[d + 1]
    BY <1>2, <1>5, <2>2, PlaceInConversion
  <2>4. /\ Reading(j) /\ j + 1 <= Len(call.items) /\ "text" \notin DOMAIN item
        /\ p = (At(call, j) + 2) + d /\ width = AsInt(WidthOf(SubSeq(w, 1, d)))
    BY <1>5 DEF AtDigit
  <2>5. Reading(j)'
    BY <1>1, <2>4, SameReading
  <2> HIDE DEF w
  <2>6. AsInt(WidthOf(SubSeq(w, 1, d + 1))) = AsInt(width * 10 + DigitValue(fmt[p]))
    <3>1. d + 1 \in 1 .. Len(w) /\ 1 \in 1 .. Len(w) /\ d + 1 \in 1 .. Len(w) /\ (d + 1) - 1 = d
      BY <2>1, <2>3
    <3>2. SubSeq(w, 1, d) \in Seq(Decimal) /\ w[d + 1] \in Decimal
      <4>1. \A i \in 1 .. d : w[i] \in Decimal
        BY <2>1
      <4>2. SubSeq(w, 1, d) \in Seq(Decimal)
        BY <4>1, SubSeqProperties
      <4>. QED
        BY <2>1, <3>1, <4>2
    <3>3. SubSeq(w, 1, d + 1) = Append(SubSeq(w, 1, d), w[d + 1])
      <4>1. SubSeq(w, 1, d + 1) = SubSeq(w, 1, (d + 1) - 1) \o <<w[d + 1]>>
        BY <2>1, <3>1, SubSeqRecursiveSecond
      <4>2. Append(SubSeq(w, 1, d), w[d + 1]) = SubSeq(w, 1, d) \o <<w[d + 1]>>
        BY <3>2, AppendIsConcat
      <4>. QED
        BY <3>1, <4>1, <4>2
    <3>4. WidthOf(Append(SubSeq(w, 1, d), w[d + 1]))
            = WidthOf(SubSeq(w, 1, d)) * 10 + DigitValue(w[d + 1])
      BY <3>2, WidthNext
    <3>5. WidthOf(SubSeq(w, 1, d)) \in Int /\ DigitValue(w[d + 1]) \in Int
      <4>1. WidthOf(SubSeq(w, 1, d)) \in Nat
        BY <3>2, NoWidth
      <4>2. DigitValue(w[d + 1]) \in 0 .. 9
        BY <3>2, DigitValueIs
      <4>. QED
        BY <4>1, <4>2
    <3>6. AsInt(AsInt(WidthOf(SubSeq(w, 1, d))) * 10 + DigitValue(w[d + 1]))
            = AsInt(WidthOf(SubSeq(w, 1, d)) * 10 + DigitValue(w[d + 1]))
      BY <3>5, Wraps
    <3>. QED
      BY <2>3, <2>4, <3>3, <3>4, <3>6
  <2>7. At(call, j) \in Nat
    <3>1. IsCall(call) /\ j \in 0 .. Len(call.items)
      BY <1>2, <2>4 DEF Called, Reading
    <3>. QED
      BY <3>1, FormatIs
  <2>8. p' = (At(call, j) + 2) + (d + 1) /\ d + 1 \in 0 .. Len(w) /\ d + 1 \in Nat
    <3>1. p' = ((At(call, j) + 2) + d) + 1
      BY <1>1, <2>4
    <3>2. p' = (At(call, j) + 2) + (d + 1)
      BY <2>7, <3>1
    <3>. QED
      BY <2>3, <3>2
  <2>9. AtDigit(j, d + 1)'
    <3>1. /\ call.items' = call.items /\ w' = w
          /\ At(call, j)' = At(call, j) /\ item' = item
      BY <1>1 DEF w
    <3>. QED
      BY <1>1, <2>4, <2>5, <2>6, <2>8, <3>1 DEF AtDigit, w
  <2>. QED
    BY <1>1, <1>3, <2>8, <2>9 DEF ConsoleInv
<1>. QED
  BY <1>2, <1>4, <1>5

(* What the specifier of a complete conversion has to print.               *)
LEMMA TextOfConversion ==
  ASSUME CharsSuffice, Called, NEW j \in Nat, NEW d \in Nat, AtDigit(j, d),
         d = Len(DigitsIn(call.items[j + 1])), "spec" \in DOMAIN call.items[j + 1]
  PROVE  /\ ~TakesArg(fmt[p]) =>
              /\ ~Takes(call.items[j + 1])
              /\ TextOf(call, j + 1) = Plain(fmt[p])
              /\ TextOf(call, j + 1) \in Seq(Chars)
         /\ TakesArg(fmt[p]) => Takes(call.items[j + 1])
         /\ TakesArg(fmt[p]) /\ CanTake(fmt[p]) =>
              /\ Head(va) \in Passable
              /\ TextOf(call, j + 1) =
                   CASE fmt[p] = "c" -> <<Head(va).char>>
                     [] fmt[p] = "s" -> Head(va).string
                     [] fmt[p] = "d" -> Number(AsInt(Head(va).int), 10)
                     [] fmt[p] = "x" -> Number(AsInt(Head(va).int), 16)
              /\ TextOf(call, j + 1) \in Seq(Chars)
<1> DEFINE item == call.items[j + 1]
           t == Taken(call, j)
           L == Len(call.args)
<1>1. /\ item \in Item /\ fmt[p] = item.spec /\ item.spec \in Chars
      /\ width = AsInt(WidthOf(item.width)) /\ item.width \in Seq(Decimal)
  BY PlaceInConversion
<1>2. "text" \notin DOMAIN item /\ "spec" \in DOMAIN item /\ Reading(j)
  BY DEF AtDigit
<1>3. Takes(item) <=> TakesArg(fmt[p])
  BY <1>1, <1>2 DEF Takes
<1>4. ASSUME ~TakesArg(fmt[p])
      PROVE  TextOf(call, j + 1) = Plain(fmt[p]) /\ TextOf(call, j + 1) \in Seq(Chars)
  <2>1. TextOf(call, j + 1) = PrintedAs(item, NUL)
    BY <1>2, <1>3, <1>4 DEF TextOf
  <2>2. PrintedAs(item, NUL) = Plain(fmt[p])
    BY <1>1, <1>4 DEF PrintedAs, Plain, TakesArg
  <2>3. Plain(fmt[p]) \in Seq(Chars)
    BY <1>1 DEF Plain, CharsSuffice
  <2>. QED
    BY <2>1, <2>2, <2>3
<1>5. ASSUME TakesArg(fmt[p]), CanTake(fmt[p])
      PROVE  /\ Head(va) \in Passable
             /\ TextOf(call, j + 1) =
                  CASE fmt[p] = "c" -> <<Head(va).char>>
                    [] fmt[p] = "s" -> Head(va).string
                    [] fmt[p] = "d" -> Number(AsInt(Head(va).int), 10)
                    [] fmt[p] = "x" -> Number(AsInt(Head(va).int), 16)
             /\ TextOf(call, j + 1) \in Seq(Chars)
  <2> DEFINE arg == Head(va)
  <2>1. va # <<>> /\ Kind(fmt[p]) \in DOMAIN arg
    BY <1>5 DEF CanTake
  <2>2. arg \in Passable
    <3>1. va \in Seq(Passable)
      BY DEF Called
    <3>. QED
      BY <2>1, <3>1, HeadTailProperties
  <2>3. Taken(call, j + 1) = t + 1 /\ t \in Nat
    BY <1>3, <1>5, TakenIs
  <2>4. arg = call.args[t + 1]
    <3>1. va = SubSeq(call.args, t + 1, L) /\ t <= L
      BY <1>2 DEF Reading
    <3>2. call.args \in Seq(Passable) /\ L \in Nat
      BY CallIs DEF Called
    <3> HIDE DEF t, L
    <3>3. t + 1 <= L
      <4>1. ASSUME L < t + 1 PROVE FALSE
        <5>1. SubSeq(call.args, t + 1, L) = <<>>
          BY <2>3, <3>2, <4>1, SubSeqEmpty
        <5>. QED
          BY <2>1, <3>1, <5>1
      <4>. QED
        BY <2>3, <3>2, <4>1
    <3>4. t + 1 \in 1 .. Len(call.args) /\ L \in (t + 1) .. Len(call.args)
      BY <2>3, <3>2, <3>3 DEF L
    <3>. QED
      BY <3>1, <3>2, <3>4, HeadTailOfSubSeq
  <2>5. TextOf(call, j + 1) = PrintedAs(item, arg)
    BY <1>2, <1>3, <1>5, <2>3, <2>4 DEF TextOf
  <2> HIDE DEF arg, item
  <2>6. CASE fmt[p] = "c"
    <3>1. PrintedAs(item, arg) = <<arg.char>>
      BY <1>1, <2>6 DEF PrintedAs
    <3>2. arg.char \in Chars
      BY <2>1, <2>2, <2>6 DEF Kind, Passable
    <3>3. <<arg.char>> \in Seq(Chars)
      BY <3>2
    <3>. QED
      BY <2>2, <2>5, <2>6, <3>1, <3>3 DEF arg
  <2>7. CASE fmt[p] = "s"
    <3>1. PrintedAs(item, arg) = arg.string
      BY <1>1, <2>7 DEF PrintedAs
    <3>2. arg.string \in Seq(Chars)
      BY <2>1, <2>2, <2>7 DEF Kind, Passable
    <3>. QED
      BY <2>2, <2>5, <2>7, <3>1, <3>2 DEF arg
  <2>8. ASSUME fmt[p] \in {"d", "x"}
        PROVE  \A b \in {10, 16} :
                 /\ Number(AsInt(arg.int), b) = InField(item, arg, b)
                 /\ Number(AsInt(arg.int), b) \in Seq(Chars)
    <3>1. arg.int \in Int
      BY <2>1, <2>2, <2>8 DEF Kind, Passable
    <3>2. AsInt(arg.int) \in Ints
      BY <3>1, IntsAre
    <3>3. width \in Int
      BY Wraps DEF Called
    <3>4. Letters \subseteq Chars
      BY DEF CharsSuffice
    <3>. QED
      BY <1>1, <3>2, <3>3, <3>4, NumberInItsField, SeqMonotonic DEF InField
  <2>9. CASE fmt[p] = "d"
    <3>1. PrintedAs(item, arg) = InField(item, arg, 10)
      BY <1>1, <2>9 DEF PrintedAs
    <3>2. /\ Number(AsInt(arg.int), 10) = InField(item, arg, 10)
          /\ Number(AsInt(arg.int), 10) \in Seq(Chars)
      BY <2>8, <2>9
    <3>. QED
      BY <2>2, <2>5, <2>9, <3>1, <3>2 DEF arg
  <2>10. CASE fmt[p] = "x"
    <3>1. PrintedAs(item, arg) = InField(item, arg, 16)
      BY <1>1, <2>10 DEF PrintedAs
    <3>2. /\ Number(AsInt(arg.int), 16) = InField(item, arg, 16)
          /\ Number(AsInt(arg.int), 16) \in Seq(Chars)
      BY <2>8, <2>10
    <3>. QED
      BY <2>2, <2>5, <2>10, <3>1, <3>2 DEF arg
  <2>. QED
    BY <1>5, <2>6, <2>7, <2>9, <2>10 DEF TakesArg
<1>. QED
  BY <1>3, <1>4, <1>5

(* The end of an iteration, with the text of its item or behind the end.   *)
LEMMA ConvertStep ==
  ASSUME CharsSuffice, ConsoleInv, NEW chs, Convert(chs),
         va' \in Seq(Passable), Len(va') <= Len(call.args),
         ASSUME NEW j \in Nat, NEW d \in Nat, AtDigit(j, d),
                d = Len(DigitsIn(call.items[j + 1])), "spec" \in DOMAIN call.items[j + 1]
         PROVE  /\ chs = TextOf(call, j + 1) /\ chs \in Seq(Chars)
                /\ IF Takes(call.items[j + 1]) THEN va # <<>> /\ va' = Tail(va)
                                               ELSE va' = va
  PROVE  ConsoleInv'
<1>1. /\ pc = "width" /\ p <= Len(fmt) /\ fmt[p] \notin Decimal
      /\ pc' = "text" /\ p' = p + 1 /\ given' = given \o Reaching(chs)
      /\ fb_addr' = fb_addr /\ console_drv' = console_drv /\ fmt' = fmt
      /\ width' = width /\ call' = call
  BY DEF Convert, More, Give
<1>2. Called /\ (Past \/ \E j \in Nat : \E d \in Nat : AtDigit(j, d))
  BY <1>1 DEF ConsoleInv
<1>3. Called'
  BY <1>1, <1>2, StillCalled DEF Called
<1>4. CASE Past
  <2>1. Past'
    BY <1>1, <1>2, <1>4, StillPast
  <2>. QED
    BY <1>1, <1>3, <2>1 DEF ConsoleInv
<1>5. ASSUME NEW j \in Nat, NEW d \in Nat, AtDigit(j, d) PROVE ConsoleInv'
  <2> DEFINE item == call.items[j + 1]
             w == DigitsIn(item)
  <2>1. /\ w \in Seq(Decimal)
        /\ p \in Nat
        /\ d # Len(w) => d + 1 \in 1 .. Len(w) /\ fmt[p] = w[d + 1]
    BY <1>2, <1>5, PlaceInConversion
  <2>2. d = Len(w)
    <3>1. ASSUME d # Len(w) PROVE FALSE
      <4>1. d + 1 \in 1 .. Len(w) /\ fmt[p] = w[d + 1]
        BY <2>1, <3>1
      <4>2. w[d + 1] \in Decimal
        BY <2>1, <4>1
      <4>. QED
        BY <1>1, <4>1, <4>2
    <3>. QED
      BY <3>1
  <2>3. Reading(j) /\ j + 1 <= Len(call.items)
    BY <1>5 DEF AtDigit
  <2>4. CASE "spec" \in DOMAIN item
    <3>1. "cut" \notin DOMAIN item /\ p = At(call, j + 1)
      BY <1>2, <1>5, <2>2, <2>4, PlaceInConversion
    <3>2. /\ chs = TextOf(call, j + 1) /\ chs \in Seq(Chars)
          /\ IF Takes(item) THEN va # <<>> /\ va' = Tail(va) ELSE va' = va
      BY <1>5, <2>2, <2>4
    <3>3. Reading(j + 1)'
      BY <1>1, <1>2, <2>3, <3>1, <3>2, NextItem
    <3>4. AtItem(j + 1)' /\ j + 1 \in Nat
      BY <1>1, <3>1, <3>3 DEF AtItem
    <3>. QED
      BY <1>1, <1>3, <3>4 DEF ConsoleInv
  <2>5. CASE "spec" \notin DOMAIN item
    <3>1. p = Len(Format(call)) + 1 /\ ~Complete(call)
      BY <1>2, <1>5, <2>2, <2>5, PlaceInConversion
    <3>2. p' > Len(Format(call)) + 1
      BY <1>1, <2>1, <3>1
    <3>3. Past'
      BY <1>1, <3>1, <3>2 DEF Past
    <3>. QED
      BY <1>1, <1>3, <3>3 DEF ConsoleInv
  <2>. QED
    BY <2>4, <2>5
<1>. QED
  BY <1>2, <1>4, <1>5

LEMMA ArgumentStep ==
  ASSUME CharsSuffice, ConsoleInv, Argument
  PROVE  ConsoleInv'
<1> DEFINE chs == CASE fmt[p] = "c" -> <<Head(va).char>>
                    [] fmt[p] = "s" -> Head(va).string
                    [] fmt[p] = "d" -> Number(AsInt(Head(va).int), 10)
                    [] fmt[p] = "x" -> Number(AsInt(Head(va).int), 16)
<1>1. /\ TakesArg(fmt[p]) /\ CanTake(fmt[p]) /\ va # <<>> /\ va' = Tail(va)
  BY DEF Argument, CanTake
<1>2. Convert(chs)
  <2>1. CASE fmt[p] = "c"
    BY <2>1 DEF Argument
  <2>2. CASE fmt[p] = "s"
    BY <2>2 DEF Argument
  <2>3. CASE fmt[p] = "d"
    BY <2>3 DEF Argument
  <2>4. CASE fmt[p] = "x"
    BY <2>4 DEF Argument
  <2>. QED
    BY <1>1, <2>1, <2>2, <2>3, <2>4 DEF TakesArg
<1>3. Called
  BY <1>2 DEF ConsoleInv, Convert
<1>4. va' \in Seq(Passable) /\ Len(va') <= Len(call.args)
  <2>1. va \in Seq(Passable) /\ Len(va) <= Len(call.args) /\ Len(call.args) \in Nat
    BY <1>3, CallIs DEF Called
  <2>2. Tail(va) \in Seq(Passable) /\ Len(Tail(va)) = Len(va) - 1
    BY <1>1, <2>1, HeadTailProperties
  <2>3. Len(va) - 1 <= Len(call.args)
    BY <2>1
  <2>. QED
    BY <1>1, <2>2, <2>3
<1>5. ASSUME NEW j \in Nat, NEW d \in Nat, AtDigit(j, d),
             d = Len(DigitsIn(call.items[j + 1])), "spec" \in DOMAIN call.items[j + 1]
      PROVE  /\ chs = TextOf(call, j + 1) /\ chs \in Seq(Chars)
             /\ IF Takes(call.items[j + 1]) THEN va # <<>> /\ va' = Tail(va)
                                            ELSE va' = va
  <2>1. /\ Takes(call.items[j + 1]) /\ TextOf(call, j + 1) = chs
        /\ TextOf(call, j + 1) \in Seq(Chars)
    BY <1>1, <1>3, <1>5, TextOfConversion
  <2>. QED
    BY <1>1, <2>1
<1> HIDE DEF chs
<1>. QED
  BY <1>2, <1>4, <1>5, ConvertStep

LEMMA OtherSpecStep ==
  ASSUME CharsSuffice, ConsoleInv, OtherSpec
  PROVE  ConsoleInv'
<1> DEFINE chs == Plain(fmt[p])
<1>1. ~TakesArg(fmt[p]) /\ Convert(chs) /\ va' = va
  BY DEF OtherSpec
<1>2. Called
  BY <1>1 DEF ConsoleInv, Convert
<1>3. va' \in Seq(Passable) /\ Len(va') <= Len(call.args)
  BY <1>1, <1>2 DEF Called
<1>4. ASSUME NEW j \in Nat, NEW d \in Nat, AtDigit(j, d),
             d = Len(DigitsIn(call.items[j + 1])), "spec" \in DOMAIN call.items[j + 1]
      PROVE  /\ chs = TextOf(call, j + 1) /\ chs \in Seq(Chars)
             /\ IF Takes(call.items[j + 1]) THEN va # <<>> /\ va' = Tail(va)
                                            ELSE va' = va
  <2>1. /\ ~Takes(call.items[j + 1]) /\ TextOf(call, j + 1) = chs
        /\ TextOf(call, j + 1) \in Seq(Chars)
    BY <1>1, <1>2, <1>4, TextOfConversion
  <2>. QED
    BY <1>1, <2>1
<1> HIDE DEF chs
<1>. QED
  BY <1>1, <1>3, <1>4, ConvertStep

(* A conversion that asks for an argument nobody passed.                   *)
LEMMA ArgumentsMissing ==
  ASSUME CharsSuffice, Called, NEW j \in Nat, NEW d \in Nat, AtDigit(j, d),
         TakesArg(fmt[p]), ~CanTake(fmt[p])
  PROVE  ~ArgumentsMatch(call) /\ p <= Len(Format(call)) + 1
<1> DEFINE item == call.items[j + 1]
           w == DigitsIn(item)
           t == Taken(call, j)
           L == Len(call.args)
<1>1. p <= Len(Format(call)) + 1 /\ w \in Seq(Decimal)
  BY PlaceInConversion
<1>2. d = Len(w)
  <2>1. ASSUME d # Len(w) PROVE FALSE
    <3>1. d + 1 \in 1 .. Len(w) /\ fmt[p] = w[d + 1]
      BY <2>1, PlaceInConversion
    <3>2. w[d + 1] \in Decimal
      BY <1>1, <3>1
    <3>. QED
      BY <3>1, <3>2, Specifiers
  <2>. QED
    BY <2>1
<1>3. "spec" \in DOMAIN item
  <2>1. ASSUME "spec" \notin DOMAIN item PROVE FALSE
    <3>1. fmt[p] = NUL
      BY <1>2, <2>1, PlaceInConversion
    <3>. QED
      BY <3>1, Specifiers
  <2>. QED
    BY <2>1
<1>4. Takes(item) /\ fmt[p] = item.spec
  BY <1>2, <1>3, TextOfConversion, PlaceInConversion
<1>5. ASSUME ArgumentsMatch(call) PROVE FALSE
  <2>1. /\ IsCall(call) /\ Len(call.items) \in Nat /\ DOMAIN call.items = 1 .. Len(call.items)
        /\ call.args \in Seq(Passable) /\ L \in Nat
    BY CallIs DEF Called
  <2>2. /\ va = SubSeq(call.args, t + 1, L) /\ j + 1 <= Len(call.items)
    BY DEF AtDigit, Reading
  <2>3. j + 1 \in DOMAIN call.items
    BY <2>1, <2>2
  <2>4. /\ Taken(call, Len(call.items)) = L
        /\ Kind(item.spec) \in DOMAIN call.args[Taken(call, j + 1)]
    BY <1>4, <1>5, <2>3 DEF ArgumentsMatch
  <2>5. Taken(call, j + 1) = t + 1 /\ t \in Nat
    BY <1>4, TakenIs
  <2>6. Taken(call, j + 1) <= Taken(call, Len(call.items))
    <3>1. j + 1 \in Nat
      OBVIOUS
    <3>. QED
      BY <2>1, <2>2, <3>1, TakenIs
  <2> HIDE DEF t, L, item
  <2>7. t + 1 \in 1 .. Len(call.args) /\ L \in (t + 1) .. Len(call.args)
    BY <2>1, <2>4, <2>5, <2>6 DEF L
  <2>8. Head(va) = call.args[t + 1]
    BY <2>1, <2>2, <2>7, HeadTailOfSubSeq
  <2>9. va # <<>>
    <3>1. Len(SubSeq(call.args, t + 1, L)) = L - (t + 1) + 1
      <4>1. \A i \in (t + 1) .. L : call.args[i] \in Passable
        BY <2>1, <2>5, <2>7
      <4>2. t + 1 \in Int /\ L \in Int /\ t + 1 <= L
        BY <2>1, <2>5, <2>7
      <4>. QED
        BY <4>1, <4>2, SubSeqProperties
    <3>2. Len(va) # 0
      BY <2>1, <2>2, <2>5, <2>7, <3>1
    <3>. QED
      BY <3>2
  <2>. QED
    BY <1>4, <2>4, <2>5, <2>8, <2>9 DEF CanTake
<1>. QED
  BY <1>1, <1>5

LEMMA WildStep ==
  ASSUME CharsSuffice, ConsoleInv, NoArgument \/ RunAway
  PROVE  ConsoleInv'
<1>1. /\ pc \in {"text", "width"} /\ pc' = "wild" /\ fb_addr' = fb_addr
      /\ console_drv' = console_drv /\ fmt' = fmt /\ p' = p /\ width' = width
      /\ va' = va /\ call' = call
  BY DEF NoArgument, RunAway, Wild, printf
<1>2. Called
  BY <1>1 DEF ConsoleInv
<1>3. Called' /\ Format(call)' = Format(call) /\ (Complete(call)' <=> Complete(call))
      /\ (ArgumentsMatch(call)' <=> ArgumentsMatch(call))
  BY <1>1, <1>2 DEF Called
<1>4. p \in Nat /\ Len(Format(call)) \in Nat /\ Len(fmt) >= Len(Format(call)) + 1
      /\ Len(fmt) \in Nat
  <2>1. IsCall(call) /\ fmt = Memory(call) /\ p \in 1 .. (Len(fmt) + 1)
    BY <1>2 DEF Called
  <2>2. Len(Format(call)) \in Nat /\ Len(fmt) >= Len(Format(call)) + 1 /\ Len(fmt) \in Nat
    BY <2>1, MemoryIs
  <2>. QED
    BY <2>1, <2>2
<1>5. \/ ~Complete(call)
      \/ ~ArgumentsMatch(call) /\ p <= Len(Format(call)) + 1
  <2>1. CASE Past
    BY <2>1 DEF Past
  <2>2. ASSUME NEW j \in Nat, AtItem(j), pc = "text"
        PROVE  FALSE
    <3>1. p <= Len(Format(call)) + 1
      BY <1>2, <2>2, PlaceInText
    <3>2. p > Len(fmt)
      BY <2>2, <1>4 DEF RunAway, NoArgument, More
    <3>. QED
      BY <1>4, <3>1, <3>2
  <2>3. ASSUME NEW j \in Nat, NEW d \in Nat, AtDigit(j, d), pc = "width"
        PROVE  ~ArgumentsMatch(call) /\ p <= Len(Format(call)) + 1
    <3>1. p <= Len(Format(call)) + 1
      BY <1>2, <2>3, PlaceInConversion
    <3>2. p <= Len(fmt)
      BY <1>4, <3>1
    <3>3. TakesArg(fmt[p]) /\ ~CanTake(fmt[p])
      BY <1>4, <3>2 DEF RunAway, NoArgument, More
    <3>. QED
      BY <1>2, <2>3, <3>3, ArgumentsMissing
  <2>4. CASE pc = "text"
    <3>1. Past \/ \E j \in Nat : AtItem(j)
      BY <2>4 DEF ConsoleInv
    <3>. QED
      BY <2>1, <2>2, <2>4, <3>1
  <2>5. CASE pc = "width"
    <3>1. Past \/ \E j \in Nat : \E d \in Nat : AtDigit(j, d)
      BY <2>5 DEF ConsoleInv
    <3>. QED
      BY <2>1, <2>3, <2>5, <3>1
  <2>. QED
    BY <1>1, <2>4, <2>5
<1>6. /\ Len(Format(call)) + 1 < p => ~Complete(call)
      /\ ArgumentsMatch(call) => ~Complete(call)
  BY <1>4, <1>5
<1>7. /\ (Len(Format(call)) + 1 < p => ~Complete(call))'
      /\ (ArgumentsMatch(call) => ~Complete(call))'
  BY <1>1, <1>3, <1>6
<1>. QED
  BY <1>1, <1>3, <1>7 DEF ConsoleInv

LEMMA ConsoleStutters ==
  ASSUME ConsoleInv, UNCHANGED vars
  PROVE  ConsoleInv'
<1>1. /\ fb_addr' = fb_addr /\ console_drv' = console_drv /\ pc' = pc /\ fmt' = fmt
      /\ p' = p /\ width' = width /\ va' = va /\ call' = call /\ given' = given
  BY DEF vars, printf
<1>2. \A j : Reading(j)' <=> Reading(j)
  BY <1>1 DEF Reading
<1>3. (Called' <=> Called) /\ (Past' <=> Past)
  BY <1>1 DEF Called, Past
<1>4. \A j, d : (AtItem(j)' <=> AtItem(j)) /\ (AtDigit(j, d)' <=> AtDigit(j, d))
  BY <1>1, <1>2 DEF AtItem, AtDigit
<1>. QED
  BY <1>1, <1>3, <1>4 DEF ConsoleInv

LEMMA ConsoleBegins == Init => ConsoleInv
  BY DEF Init, ConsoleInv

LEMMA ConsoleStep ==
  ASSUME CharsSuffice, \A c \in Calls : IsCall(c), ConsoleInv, [Next]_vars
  PROVE  ConsoleInv'
<1>1. CASE UNCHANGED vars
  BY <1>1, ConsoleStutters
<1>2. ASSUME NEW c \in Calls, console_printf(c) PROVE ConsoleInv'
  BY <1>2, BeginStep
<1>3. CASE Run
  BY <1>3, EndStep, PutTextStep, PercentStep, WidthDigitStep, ArgumentStep,
     OtherSpecStep, WildStep DEF Run
<1>. QED
  BY <1>1, <1>2, <1>3, OutsideStep DEF Next

LEMMA ConsoleAlways ==
  ASSUME CharsSuffice, \A c \in Calls : IsCall(c)
  PROVE  Spec => []ConsoleInv
<1>1. Init => ConsoleInv
  BY ConsoleBegins
<1>2. ConsoleInv /\ [Next]_vars => ConsoleInv'
  BY ConsoleStep
<1>. QED
  BY <1>1, <1>2, PTL DEF Spec

-----------------------------------------------------------------------------
(* The theorems about the console. *)

(* The console's state keeps its types for every set of C calls: p never   *)
(* leaves the memory from the format on by more than the place behind it,  *)
(* and no argument is taken twice.                                         *)
THEOREM TypeCorrect ==
  ASSUME CharsSuffice, \A c \in Calls : IsCall(c)
  PROVE  Spec => []TypeOK
<1>1. Spec => []ConsoleInv
  BY ConsoleAlways
<1>2. ASSUME ConsoleInv PROVE TypeOK
  <2>1. CASE pc \in {"boot", "idle"}
    <3>1. /\ Len(fmt) = 1 /\ p = 1 /\ width \in Ints /\ Len(va) = 0
          /\ Len(call.args) = 0
      BY <1>2, <2>1, Wraps DEF ConsoleInv, Nothing
    <3>. QED
      BY <1>2, <3>1 DEF ConsoleInv, TypeOK
  <2>2. CASE pc \in {"text", "width", "wild"}
    <3>1. /\ p \in 1 .. (Len(fmt) + 1) /\ width \in Ints
          /\ Len(va) <= Len(call.args)
      BY <1>2, <2>2 DEF ConsoleInv, Called
    <3>. QED
      BY <1>2, <3>1 DEF ConsoleInv, TypeOK
  <2>. QED
    BY <1>2, <2>1, <2>2 DEF ConsoleInv
<1>3. ConsoleInv => TypeOK
  BY <1>2
<1>. QED
  BY <1>1, <1>3, PTL

(* Nothing is painted while there is no driver, and the driver is only     *)
(* installed for a frame buffer that is not at 0.                          *)
NullInv ==
  /\ console_drv # "noop" => fb_addr # 0
  /\ console_drv = "noop" => given = <<>>
  /\ pc = "boot" => console_drv = "noop"

(* The frame buffer driver is never called on a frame buffer at 0, whatever *)
(* is printed and however kernel_main goes on (console.c:25) after the one  *)
(* call of console_init that it begins with (main.c:20).                    *)
THEOREM NothingAtNull == Spec => []NeverPaintsAtNull
<1>1. Init => NullInv
  BY DEF Init, NullInv
<1>2. ASSUME NullInv, [Next]_vars PROVE NullInv'
  <2>1. ASSUME NEW address \in {0, 1}, console_init(address) PROVE NullInv'
    BY <1>2, <2>1 DEF console_init, NullInv
  <2>2. ASSUME NEW chs, Direct(chs) PROVE NullInv'
    BY <1>2, <2>2 DEF Direct, NullInv, Reaching
  <2>3. ASSUME NEW c \in Calls, console_printf(c) PROVE NullInv'
    BY <1>2, <2>3 DEF console_printf, NullInv
  <2>4. ASSUME NEW chs, Give(chs), console_drv' = console_drv, fb_addr' = fb_addr,
               pc' # "boot"
        PROVE  NullInv'
    <3>1. console_drv = "noop" => given' = <<>>
      <4>1. console_drv = "noop" => given' = given \o <<>> /\ given = <<>>
        BY <1>2, <2>4 DEF NullInv, Give, Reaching
      <4>2. <<>> \o <<>> = <<>>
        BY EmptySeq, ConcatEmptySeq
      <4>. QED
        BY <4>1, <4>2
    <3>. QED
      BY <1>2, <2>4, <3>1 DEF NullInv
  <2>5. ASSUME NEW chs, Convert(chs) PROVE NullInv'
    BY <2>4, <2>5 DEF Convert
  <2>6. CASE Argument
    <3>1. \E chs : Convert(chs)
      BY <2>6 DEF Argument, TakesArg
    <3>. QED
      BY <2>5, <3>1
  <2>7. CASE OtherSpec
    BY <2>5, <2>7 DEF OtherSpec
  <2>8. CASE PutText
    <3>1. /\ Give(<<fmt[p]>>) /\ console_drv' = console_drv /\ fb_addr' = fb_addr
          /\ pc' = "text"
      BY <2>8 DEF PutText
    <3>. QED
      BY <2>4, <3>1
  <2>9. CASE RunAway \/ NoArgument
    BY <1>2, <2>9 DEF RunAway, NoArgument, Wild, NullInv
  <2>10. CASE EndOfFormat
    BY <1>2, <2>10 DEF EndOfFormat, NullInv
  <2>11. CASE Percent
    BY <1>2, <2>11 DEF Percent, NullInv
  <2>12. CASE WidthDigit
    BY <1>2, <2>12 DEF WidthDigit, NullInv
  <2>13. CASE UNCHANGED vars
    BY <1>2, <2>13 DEF vars, NullInv
  <2>. QED
    BY <1>2, <2>1, <2>2, <2>3, <2>6, <2>7, <2>8, <2>9, <2>10, <2>11, <2>12, <2>13
       DEF Next, Run, console_clear, console_scroll, console_puts
<1>3. NullInv => NeverPaintsAtNull
  BY DEF NullInv, NeverPaintsAtNull
<1>. QED
  BY <1>1, <1>2, <1>3, PTL DEF Spec

(* At the terminator of its format, read as a character, all is done.      *)
LEMMA AllRead ==
  ASSUME CharsSuffice, ConsoleInv, AtEnd
  PROVE  \/ Past
         \/ /\ IsCall(call) /\ Complete(call)
            /\ console_drv = "rgb" /\ WidthsFit(call) => given = Rendering(call, 0)
<1>1. /\ pc = "text" /\ fmt[p] = NUL /\ Called
      /\ Past \/ \E j \in Nat : AtItem(j)
  BY DEF ConsoleInv, AtEnd
<1>2. ASSUME NEW j \in Nat, AtItem(j)
      PROVE  /\ IsCall(call) /\ Complete(call)
             /\ console_drv = "rgb" /\ WidthsFit(call) => given = Rendering(call, 0)
  <2>1. IsCall(call) /\ DOMAIN call.items = 1 .. Len(call.items)
    BY <1>1, CallIs DEF Called
  <2>2. j = Len(call.items)
    <3>1. ASSUME j # Len(call.items) PROVE FALSE
      <4>1. /\ call.items[j + 1] \in Item
            /\ "text" \in DOMAIN call.items[j + 1] => fmt[p] = call.items[j + 1].text
            /\ "text" \notin DOMAIN call.items[j + 1] => fmt[p] = "%"
        BY <1>1, <1>2, <3>1, PlaceInText
      <4>. QED
        BY <1>1, <4>1, ItemIs, Specifiers
    <3>. QED
      BY <3>1
  <2>3. /\ \A h \in 1 .. j : "cut" \notin DOMAIN call.items[h]
        /\ console_drv = "rgb" => given = Part(Texts(call), j)
    BY <1>2 DEF AtItem, Reading
  <2>4. Complete(call)
    BY <2>1, <2>2, <2>3 DEF Complete
  <2>5. ASSUME WidthsFit(call) PROVE Part(Texts(call), j) = Rendering(call, 0)
    <3> DEFINE ToPrint(item, h) ==
          CASE "text" \in DOMAIN item -> <<item.text>>
            [] Takes(item) -> Converted(item, call.args[Taken(call, h)], 0)
            [] OTHER -> Converted(item, NUL, 0)
    <3>1. ASSUME NEW h \in DOMAIN call.items
          PROVE  TextOf(call, h) = ToPrint(call.items[h], h)
      <4> DEFINE item == call.items[h]
      <4>1. item \in Item /\ "cut" \notin DOMAIN item
        BY <2>1, <2>4, <3>1, CallIs DEF Complete
      <4>2. CASE "text" \in DOMAIN item
        <5>1. ~Takes(item)
          BY <4>1, <4>2, ItemIs DEF Takes
        <5>. QED
          BY <4>2, <5>1 DEF TextOf
      <4>3. CASE "text" \notin DOMAIN item
        <5>1. "spec" \in DOMAIN item
          BY <4>1, <4>3, ItemIs
        <5>2. AsInt(WidthOf(item.width)) = WidthOf(item.width)
          BY <2>5, <5>1, Wraps DEF WidthsFit
        <5>3. \A arg : PrintedAs(item, arg) = Converted(item, arg, 0)
          BY <5>2 DEF PrintedAs, InField, Converted
        <5>. QED
          BY <4>3, <5>3 DEF TextOf
      <4>. QED
        BY <4>2, <4>3
    <3>2. [h \in 1 .. j |-> Texts(call)[h]]
            = [h \in DOMAIN call.items |-> ToPrint(call.items[h], h)]
      BY <2>1, <2>2, <3>1 DEF Texts
    <3>. QED
      BY <3>2 DEF Part, Rendering
  <2>. QED
    BY <2>1, <2>3, <2>4, <2>5
<1>. QED
  BY <1>1, <1>2

(* console_printf prints what its format says, if that is complete and has *)
(* no width too large for an int: every text, every argument in its own    *)
(* place, every number in its base with at least as many digits as its     *)
(* width, a minus before them (console.c:51, 70).                          *)
THEOREM PrintsWhatItsFormatSays ==
  ASSUME CharsSuffice, \A c \in Calls : IsCall(c)
  PROVE  Spec => []FormattedAsWritten
<1>1. Spec => []ConsoleInv
  BY ConsoleAlways
<1>2. ASSUME ConsoleInv PROVE FormattedAsWritten
  <2>1. ASSUME Printed PROVE given = Rendering(call, 0)
    BY <1>2, <2>1, AllRead DEF Printed, Past
  <2>. QED
    BY <2>1 DEF FormattedAsWritten
<1>3. ConsoleInv => FormattedAsWritten
  BY <1>2
<1>. QED
  BY <1>1, <1>3, PTL

(* The terminator of a format is passed when, and only when, the format    *)
(* ends inside a conversion (console.c:86); and a call whose format is     *)
(* complete and whose arguments are the right ones never runs wild.        *)
THEOREM OnlyCutFormatsArePassed ==
  ASSUME CharsSuffice, \A c \in Calls : IsCall(c)
  PROVE  Spec => []StaysInFormat
<1>1. Spec => []ConsoleInv
  BY ConsoleAlways
<1>2. ASSUME ConsoleInv PROVE StaysInFormat
  <2> DEFINE past == Len(Format(call)) + 1 < p
  <2>1. ASSUME past PROVE ~Complete(call)
    <3>1. CASE pc \in {"boot", "idle"}
      <4>1. call = Nothing /\ p = 1
        BY <1>2, <3>1 DEF ConsoleInv
      <4>2. Format(Nothing) = <<>>
        <5>1. [j \in DOMAIN Nothing.items |-> Spelling(Nothing.items[j])] = <<>>
          BY DEF Nothing
        <5>. QED
          BY <5>1, FlattenNothing DEF Format
      <4>. QED
        BY <2>1, <4>1, <4>2
    <3>2. CASE pc = "wild"
      BY <1>2, <2>1, <3>2 DEF ConsoleInv
    <3>3. CASE pc \in {"text", "width"}
      <4>1. Called
        BY <1>2, <3>3 DEF ConsoleInv
      <4>2. Len(Format(call)) \in Nat
        BY <4>1, MemoryIs DEF Called
      <4>3. ASSUME NEW j \in Nat, AtItem(j) PROVE FALSE
        <5>1. p \in Nat /\ p <= Len(Format(call)) + 1
          BY <4>1, <4>3, PlaceInText
        <5>. QED
          BY <2>1, <4>2, <5>1
      <4>4. ASSUME NEW j \in Nat, NEW d \in Nat, AtDigit(j, d) PROVE FALSE
        <5>1. p \in Nat /\ p <= Len(Format(call)) + 1
          BY <4>1, <4>4, PlaceInConversion
        <5>. QED
          BY <2>1, <4>2, <5>1
      <4>5. Past
        BY <1>2, <3>3, <4>3, <4>4 DEF ConsoleInv
      <4>. QED
        BY <4>5 DEF Past
    <3>. QED
      BY <1>2, <3>1, <3>2, <3>3 DEF ConsoleInv
  <2>2. AtEnd /\ ~Complete(call) => past
    <3>1. ASSUME AtEnd, ~Complete(call) PROVE past
      <4>1. Past
        BY <1>2, <3>1, AllRead
      <4>2. Called
        BY <1>2, <3>1 DEF AtEnd, ConsoleInv
      <4>3. Len(Format(call)) \in Nat /\ Len(Memory(call)) \in Nat
        BY <4>2, MemoryIs DEF Called
      <4>4. p \in Nat
        BY <4>2, <4>3 DEF Called
      <4>. QED
        BY <4>1, <4>3, <4>4 DEF Past
    <3>. QED
      BY <3>1
  <2>3. pc = "wild" /\ ArgumentsMatch(call) => ~Complete(call)
    BY <1>2 DEF ConsoleInv
  <2>. QED
    BY <2>1, <2>2, <2>3 DEF StaysInFormat
<1>3. ConsoleInv => StaysInFormat
  BY <1>2
<1>. QED
  BY <1>1, <1>3, PTL
=============================================================================
