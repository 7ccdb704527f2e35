------------------------- MODULE CommandLineProofs -------------------------
(***************************************************************************)
(* Proofs about CommandLine: that a code is read as what it was shown for, *)
(* for every size of the alphabet and of the integers, and what the walk   *)
(* of FileDialog lists, for every file system.                             *)
(*                                                                         *)
(* What str_to_u32 and u32_to_str compute is proved by induction over the  *)
(* digits: the turns of the loop have come to the value of the part less   *)
(* the value of the digits still to be read. The walk has an invariant of  *)
(* its own: every file of a given path is in the list or below a call that *)
(* is still to come, and no two calls lead to one node unless a link does. *)
(***************************************************************************)
EXTENDS CommandLine, DataInduction, SequenceTheorems, FiniteSetTheorems, TLAPS

----------------------------------------------------------------------------
\* Powers

IsPower(b, f) == f = [i \in Nat |-> IF i = 0 THEN 1 ELSE b * f[i - 1]]

LEMMA PowerExists ==
    ASSUME NEW b \in Nat
    PROVE  \E f : IsPower(b, f)
<1> DEFINE D == Nat
           S == Nat
           B == {0}
           z == 1
           h == [n \in D |-> IF n = 0 THEN 0 ELSE n - 1]
           g == [p \in D \X S |-> b * p[2]]
<1>1. /\ D \subseteq Nat /\ z \in S
      /\ h \in [D -> D] /\ \A n \in D : n \in B \/ h[n] < n
    OBVIOUS
<1>2. g \in [D \X S -> S]
    OBVIOUS
<1>3. PICK f \in [D -> S] :
        \A n \in D : f[n] = IF n \in B THEN z ELSE g[<<n, f[h[n]]>>]
    <2> HIDE DEF D, S, B, z, h, g
    <2>1. WellDefined(D, S, B, z, h, g)
        BY <1>1, <1>2 DEF WellDefined
    <2> QED BY <2>1, Recursion DEF Solves
<1>4. ASSUME NEW n \in Nat
      PROVE  f[n] = IF n = 0 THEN 1 ELSE b * f[n - 1]
    <2>1. CASE n = 0
        BY <1>3, <2>1
    <2>2. CASE n # 0
        <3>1. h[n] = n - 1 /\ n - 1 \in Nat /\ f[n - 1] \in Nat
            BY <2>2
        <3>2. g[<<n, f[n - 1]>>] = b * f[n - 1]
            BY <3>1
        <3> HIDE DEF h, g
        <3> QED BY <1>3, <2>2, <3>1, <3>2
    <2> QED BY <2>1, <2>2
<1>5. f = [i \in Nat |-> IF i = 0 THEN 1 ELSE b * f[i - 1]]
    <2> HIDE DEF h, g
    <2> QED BY <1>4
<1> HIDE DEF h, g
<1> QED BY <1>5 DEF IsPower

LEMMA PowerSteps ==
    ASSUME NEW b \in Nat
    PROVE  /\ Power(b, 0) = 1
           /\ \A n \in Nat : Power(b, n + 1) = b * Power(b, n)
<1> DEFINE f == CHOOSE pow : IsPower(b, pow)
<1>1. IsPower(b, f)
    BY PowerExists
<1>2. ASSUME NEW n \in Nat PROVE Power(b, n) = f[n]
    BY DEF Power, IsPower
<1> HIDE DEF f
<1>3. ASSUME NEW n \in Nat
      PROVE  f[n] = IF n = 0 THEN 1 ELSE b * f[n - 1]
    BY <1>1 DEF IsPower
<1>4. ASSUME NEW n \in Nat PROVE f[n + 1] = b * f[n]
    <2>1. n + 1 \in Nat /\ n + 1 # 0 /\ n + 1 - 1 = n
        OBVIOUS
    <2> QED BY <1>3, <2>1
<1> QED BY <1>2, <1>3, <1>4

\* A positive number is less than its product with a number above 1.
LEMMA Scale ==
    ASSUME NEW b \in Nat, b > 1, NEW x \in Nat, x > 0
    PROVE  b * x \in Nat /\ b * x > x
<1>1. PICK c \in Nat : b = c + 2
    <2>1. b - 2 \in Nat /\ b = (b - 2) + 2
        OBVIOUS
    <2> QED BY <2>1
<1>2. b * x = c * x + x + x /\ c * x \in Nat
    BY <1>1
<1> QED BY <1>2

LEMMA PowerGrows ==
    ASSUME NEW b \in Nat, b > 1
    PROVE  /\ \A n \in Nat : Power(b, n) \in Nat /\ Power(b, n) > 0
           /\ \A n \in Nat : Power(b, n) < Power(b, n + 1)
<1>1. Power(b, 0) = 1 /\ \A n \in Nat : Power(b, n + 1) = b * Power(b, n)
    BY PowerSteps
<1> DEFINE S == {n \in Nat : Power(b, n) \in Nat /\ Power(b, n) > 0}
<1>2. 0 \in S
    BY <1>1
<1>3. ASSUME NEW n \in Nat, n \in S PROVE n + 1 \in S
    BY <1>1, <1>3, Scale
<1>4. \A n \in Nat : n \in S
    <2> HIDE DEF S
    <2> QED BY <1>2, <1>3, SetInduction
<1>5. ASSUME NEW n \in Nat PROVE Power(b, n) < Power(b, n + 1)
    <2>1. Power(b, n) \in Nat /\ Power(b, n) > 0
        BY <1>4
    <2> QED BY <1>1, <2>1, Scale
<1> QED BY <1>4, <1>5

LEMMA PowerMonotone ==
    ASSUME NEW b \in Nat, b > 1, NEW m \in Nat, NEW n \in Nat, m <= n
    PROVE  Power(b, m) <= Power(b, n)
<1> DEFINE S == {k \in Nat : Power(b, m) <= Power(b, m + k)}
<1>1. \A k \in Nat : Power(b, m + k) \in Nat /\ Power(b, m + k) < Power(b, m + k + 1)
    BY PowerGrows
<1>2. 0 \in S
    <2>1. Power(b, m) \in Nat /\ m + 0 = m
        BY PowerGrows
    <2>2. Power(b, m) <= Power(b, m + 0)
        BY <2>1
    <2> QED BY <2>2
<1>3. ASSUME NEW k \in Nat, k \in S PROVE k + 1 \in S
    <2>1. Power(b, m) <= Power(b, m + k) /\ Power(b, m) \in Nat
        BY <1>3, PowerGrows
    <2>2. Power(b, m + k) \in Nat /\ Power(b, m + k + 1) \in Nat
        <3>1. m + k \in Nat /\ m + k + 1 \in Nat
            OBVIOUS
        <3> QED BY <3>1, PowerGrows
    <2>3. m + k + 1 = m + (k + 1)
        OBVIOUS
    <2> QED BY <1>1, <2>1, <2>2, <2>3
<1>4. \A k \in Nat : k \in S
    <2> HIDE DEF S
    <2> QED BY <1>2, <1>3, SetInduction
<1>5. n - m \in Nat /\ m + (n - m) = n
    OBVIOUS
<1> QED BY <1>4, <1>5

\* Digits count at least as far as as many bits.
LEMMA PowerOverTwo ==
    ASSUME NEW b \in Nat, b > 1, NEW n \in Nat
    PROVE  Power(2, n) <= Power(b, n)
<1> DEFINE S == {k \in Nat : Power(2, k) <= Power(b, k)}
<1>1. /\ Power(2, 0) = 1 /\ \A k \in Nat : Power(2, k + 1) = 2 * Power(2, k)
      /\ Power(b, 0) = 1 /\ \A k \in Nat : Power(b, k + 1) = b * Power(b, k)
    BY PowerSteps
<1>2. \A k \in Nat : Power(2, k) \in Nat /\ Power(b, k) \in Nat
    <2>1. 2 \in Nat /\ 2 > 1
        OBVIOUS
    <2> QED BY <2>1, PowerGrows
<1>3. 0 \in S
    BY <1>1
<1>4. ASSUME NEW k \in Nat, k \in S PROVE k + 1 \in S
    <2>1. PICK x \in Nat, y \in Nat : x = Power(2, k) /\ y = Power(b, k)
        BY <1>2
    <2>2. x <= y
        BY <1>4, <2>1
    <2>3. PICK c \in Nat : b = c + 2
        <3>1. b - 2 \in Nat /\ b = (b - 2) + 2
            OBVIOUS
        <3> QED BY <3>1
    <2>4. b * y = c * y + y + y /\ c * y \in Nat
        BY <2>3
    <2>5. 2 * x <= b * y
        BY <2>2, <2>4
    <2> QED BY <1>1, <2>1, <2>5
<1>5. \A k \in Nat : k \in S
    <2> HIDE DEF S
    <2> QED BY <1>3, <1>4, SetInduction
<1> QED BY <1>5

----------------------------------------------------------------------------
\* Place values

LEMMA U32IsNat == Size \in Nat /\ Size > 1 /\ U32 = 0..Size - 1
<1>1. Power(2, 0) = 1 /\ \A n \in Nat : Power(2, n + 1) = 2 * Power(2, n)
    BY PowerSteps
<1>2. Power(2, 1) = 2
    BY <1>1
<1>3. 1 \in Nat /\ Width \in Nat /\ 1 <= Width
    BY Base32Assumption
<1>4. Power(2, 1) <= Power(2, Width) /\ Power(2, Width) \in Nat
    BY <1>3, PowerMonotone, PowerGrows
<1> QED BY <1>2, <1>4 DEF Size, U32

\* Exactly the places below Places have a value that is an u32.
LEMMA PlacesFit ==
    /\ Places \in Nat /\ Places >= 1
    /\ \A i \in Nat : i < Places <=> Power(Base, i) \in U32
<1> USE Base32Assumption
<1>1. \A i \in Nat : Power(Base, i) \in Nat
    BY PowerGrows
<1>2. \A i, j \in Nat : i <= j => Power(Base, i) <= Power(Base, j)
    BY PowerMonotone
<1> DEFINE S == {n \in Nat : Power(Base, n) \notin U32}
<1>3. Width \in S
    <2>1. Power(2, Width) <= Power(Base, Width)
        BY PowerOverTwo
    <2>2. Size <= Power(Base, Width) /\ Power(Base, Width) \in Nat /\ Size \in Nat
        BY <1>1, <2>1, U32IsNat DEF Size
    <2> QED BY <2>2, U32IsNat
<1>4. 0 \notin S
    <2>1. Power(Base, 0) = 1
        BY PowerSteps
    <2> QED BY <2>1, U32IsNat
<1>5. PICK m \in S : \A k \in S : m <= k
    <2>1. S \subseteq Nat /\ S # {}
        BY <1>3
    <2> HIDE DEF S
    <2> QED BY <2>1, LeastElement
<1>6. m \in 1..Width /\ Power(Base, m) \notin U32 /\ Power(Base, m - 1) \in U32
    <2>1. m \in Nat /\ m # 0 /\ m <= Width
        BY <1>3, <1>4, <1>5
    <2>2. m - 1 \in Nat /\ m - 1 \notin S
        BY <1>5, <2>1
    <2> QED BY <2>1, <2>2
<1>7. /\ Places \in 1..Width
      /\ Power(Base, Places) \notin U32 /\ Power(Base, Places - 1) \in U32
    BY <1>6 DEF Places
<1>8. Places \in Nat /\ Places >= 1 /\ Places - 1 \in Nat
    BY <1>7
<1>9. ASSUME NEW i \in Nat PROVE i < Places <=> Power(Base, i) \in U32
    <2>1. CASE i < Places
        <3>1. i <= Places - 1
            BY <1>8, <2>1
        <3>2. Power(Base, i) <= Power(Base, Places - 1) /\ Power(Base, i) \in Nat
            BY <1>1, <1>2, <1>8, <3>1
        <3> QED BY <1>7, <2>1, <3>2, U32IsNat
    <2>2. CASE Places <= i
        <3>1. Power(Base, Places) <= Power(Base, i) /\ Power(Base, i) \in Nat
              /\ Power(Base, Places) \in Nat
            BY <1>1, <1>2, <1>8, <2>2
        <3> QED BY <1>7, <1>8, <2>2, <3>1, U32IsNat
    <2> QED BY <1>8, <2>1, <2>2
<1> QED BY <1>8, <1>9

----------------------------------------------------------------------------
\* The number that a part stands for

LEMMA LetterTypes ==
    /\ Letters \subseteq Int /\ 0..Base - 1 \subseteq Letters
    /\ \A c \in Letters : /\ Digit(c) \in Int
                          /\ Digit(c) # Bad => Digit(c) >= 0
                          /\ Digit(c) = Bad <=> c = Bad
    /\ \A c \in 0..Base - 1 : Digit(c) = c
    BY Base32Assumption DEF Letters, Digit, One, Bad

IsValue(s, v) ==
    v = [i \in 0..Len(s) |-> IF i = 0 THEN 0
                             ELSE v[i - 1] * Base + Digit(s[i])]

LEMMA ValueSteps ==
    ASSUME NEW s \in Seq(Letters), NEW v, IsValue(s, v)
    PROVE  /\ v[0] = 0
           /\ \A i \in 1..Len(s) : v[i] = v[i - 1] * Base + Digit(s[i])
           /\ \A i \in 0..Len(s) : v[i] \in Int
<1> Len(s) \in Nat
    OBVIOUS
<1>1. v[0] = 0 /\ \A i \in 1..Len(s) : v[i] = v[i - 1] * Base + Digit(s[i])
    <2>1. ASSUME NEW i \in 0..Len(s)
          PROVE  v[i] = IF i = 0 THEN 0 ELSE v[i - 1] * Base + Digit(s[i])
        BY Zenon DEF IsValue
    <2>2. 0 \in 0..Len(s) /\ \A i \in 1..Len(s) : i \in 0..Len(s) /\ i # 0
        OBVIOUS
    <2>3. v[0] = 0
        BY <2>1, <2>2
    <2>4. ASSUME NEW i \in 1..Len(s)
          PROVE  v[i] = v[i - 1] * Base + Digit(s[i])
        BY <2>1, <2>2
    <2> QED BY <2>3, <2>4
<1> DEFINE S == {i \in Nat : i <= Len(s) => v[i] \in Int}
<1>2. 0 \in S
    BY <1>1
<1>3. ASSUME NEW i \in Nat, i \in S PROVE i + 1 \in S
    <2> SUFFICES ASSUME i + 1 <= Len(s) PROVE v[i + 1] \in Int
        OBVIOUS
    <2>1. i + 1 \in 1..Len(s) /\ i + 1 - 1 = i
        OBVIOUS
    <2>2. v[i] \in Int
        BY <1>3
    <2>3. Digit(s[i + 1]) \in Int
        BY <2>1, LetterTypes, ElementOfSeq
    <2>4. v[i] * Base \in Int
        BY <2>2, Base32Assumption
    <2> QED BY <1>1, <2>1, <2>3, <2>4
<1>4. \A i \in Nat : i \in S
    <2> HIDE DEF S
    <2> QED BY <1>2, <1>3, SetInduction
<1> QED BY <1>1, <1>4

LEMMA ValueIs ==
    ASSUME NEW s \in Seq(Letters)
    PROVE  \E v : IsValue(s, v) /\ ValueOf(s) = v[Len(s)]
<1>0. Len(s) \in Nat /\ \A i \in 1..Len(s) : Digit(s[i]) \in Int
    BY LetterTypes, ElementOfSeq, LenProperties
<1> DEFINE D == 0..Len(s)
           S == Int
           B == {0}
           z == 0
           h == [n \in D |-> IF n = 0 THEN 0 ELSE n - 1]
           g == [p \in D \X S |-> IF p[1] = 0 THEN 0
                                  ELSE p[2] * Base + Digit(s[p[1]])]
<1>1. /\ D \subseteq Nat /\ z \in S
      /\ h \in [D -> D] /\ \A n \in D : n \in B \/ h[n] < n
    BY <1>0
<1>2. g \in [D \X S -> S]
    <2>1. ASSUME NEW n \in D, NEW x \in S, n # 0
          PROVE  x * Base + Digit(s[n]) \in Int
        <3>1. x * Base \in Int /\ Digit(s[n]) \in Int
            BY <1>0, <2>1, Base32Assumption
        <3> QED BY <3>1
    <2> QED BY <2>1
<1>3. PICK f \in [D -> S] :
        \A n \in D : f[n] = IF n \in B THEN z ELSE g[<<n, f[h[n]]>>]
    <2> HIDE DEF D, S, B, z, h, g
    <2>1. WellDefined(D, S, B, z, h, g)
        BY <1>1, <1>2 DEF WellDefined
    <2> QED BY <2>1, Recursion DEF Solves
<1>4. ASSUME NEW n \in D
      PROVE  f[n] = IF n = 0 THEN 0 ELSE f[n - 1] * Base + Digit(s[n])
    <2>1. CASE n = 0
        BY <1>3, <2>1
    <2>2. CASE n # 0
        <3>1. h[n] = n - 1 /\ n - 1 \in D /\ f[n - 1] \in S
            BY <1>0, <2>2
        <3>2. g[<<n, f[n - 1]>>] = f[n - 1] * Base + Digit(s[n])
            BY <2>2, <3>1
        <3> HIDE DEF h, g, D, S
        <3> QED BY <1>3, <2>2, <3>1, <3>2
    <2> QED BY <2>1, <2>2
<1>5. IsValue(s, f)
    <2>1. f = [n \in D |-> f[n]]
        OBVIOUS
    <2> HIDE DEF h, g
    <2> QED BY <1>4, <2>1 DEF IsValue
<1> HIDE DEF D, S, B, z, h, g
<1>6. IsValue(s, CHOOSE v : IsValue(s, v))
    BY <1>5
<1>7. ValueOf(s) = (CHOOSE v : IsValue(s, v))[Len(s)]
    BY DEF ValueOf, IsValue
<1> QED BY <1>6, <1>7

\* Only the values of the digits matter, and a part that goes on.
LEMMA ValueAgrees ==
    ASSUME NEW s \in Seq(Letters), NEW t \in Seq(Letters), Len(s) <= Len(t),
           \A i \in 1..Len(s) : Digit(s[i]) = Digit(t[i]),
           NEW v, NEW w, IsValue(s, v), IsValue(t, w)
    PROVE  \A i \in 0..Len(s) : v[i] = w[i]
<1>1. /\ v[0] = 0
      /\ \A i \in 1..Len(s) : v[i] = v[i - 1] * Base + Digit(s[i])
    BY ValueSteps
<1>2. /\ w[0] = 0
      /\ \A i \in 1..Len(t) : w[i] = w[i - 1] * Base + Digit(t[i])
    BY ValueSteps
<1> DEFINE S == {i \in Nat : i <= Len(s) => v[i] = w[i]}
<1>3. 0 \in S
    BY <1>1, <1>2
<1>4. ASSUME NEW i \in Nat, i \in S PROVE i + 1 \in S
    <2> SUFFICES ASSUME i + 1 <= Len(s) PROVE v[i + 1] = w[i + 1]
        OBVIOUS
    <2>1. i + 1 \in 1..Len(s) /\ i + 1 \in 1..Len(t) /\ i + 1 - 1 = i
        OBVIOUS
    <2>2. v[i] = w[i]
        BY <1>4
    <2>3. v[i + 1] = v[i] * Base + Digit(s[i + 1])
        BY <1>1, <2>1
    <2>4. w[i + 1] = w[i] * Base + Digit(t[i + 1])
        BY <1>2, <2>1
    <2> QED BY <2>1, <2>2, <2>3, <2>4
<1>5. \A i \in Nat : i \in S
    <2> HIDE DEF S
    <2> QED BY <1>3, <1>4, SetInduction
<1> QED BY <1>5

LEMMA ValueOfSame ==
    ASSUME NEW s \in Seq(Letters), NEW t \in Seq(Letters), Len(s) = Len(t),
           \A i \in 1..Len(s) : Digit(s[i]) = Digit(t[i])
    PROVE  ValueOf(s) = ValueOf(t)
<1>1. PICK v : IsValue(s, v) /\ ValueOf(s) = v[Len(s)]
    BY ValueIs
<1>2. PICK w : IsValue(t, w) /\ ValueOf(t) = w[Len(t)]
    BY ValueIs
<1>3. \A i \in 0..Len(s) : v[i] = w[i]
    BY <1>1, <1>2, ValueAgrees
<1> QED BY <1>1, <1>2, <1>3

LEMMA ValueOfAppend ==
    ASSUME NEW s \in Seq(Letters), NEW c \in Letters
    PROVE  ValueOf(Append(s, c)) = ValueOf(s) * Base + Digit(c)
<1> DEFINE t == Append(s, c)
<1>1. /\ t \in Seq(Letters) /\ Len(t) = Len(s) + 1 /\ Len(s) \in Nat
      /\ t[Len(s) + 1] = c /\ \A i \in 1..Len(s) : t[i] = s[i]
    OBVIOUS
<1> HIDE DEF t
<1>2. PICK v : IsValue(s, v) /\ ValueOf(s) = v[Len(s)]
    BY ValueIs
<1>3. PICK w : IsValue(t, w) /\ ValueOf(t) = w[Len(t)]
    BY <1>1, ValueIs
<1>4. \A i \in 0..Len(s) : v[i] = w[i]
    <2>1. Len(s) <= Len(t) /\ \A i \in 1..Len(s) : Digit(s[i]) = Digit(t[i])
        BY <1>1
    <2> QED BY <1>1, <1>2, <1>3, <2>1, ValueAgrees
<1>5. w[Len(t)] = w[Len(t) - 1] * Base + Digit(t[Len(t)])
    <2>1. Len(t) \in 1..Len(t)
        BY <1>1
    <2> QED BY <1>1, <1>3, <2>1, ValueSteps
<1>6. Len(t) - 1 = Len(s) /\ Len(s) \in 0..Len(s) /\ t[Len(t)] = c
    BY <1>1
<1>7. w[Len(t)] = v[Len(s)] * Base + Digit(c)
    BY <1>4, <1>5, <1>6
<1> QED BY <1>2, <1>3, <1>7 DEF t

LEMMA ValueOfEmpty == ValueOf(<<>>) = 0
<1>1. <<>> \in Seq(Letters) /\ Len(<<>>) = 0
    OBVIOUS
<1>2. PICK v : IsValue(<<>>, v) /\ ValueOf(<<>>) = v[Len(<<>>)]
    BY <1>1, ValueIs
<1>3. v[0] = 0
    BY <1>1, <1>2, ValueSteps
<1> QED BY <1>1, <1>2, <1>3

----------------------------------------------------------------------------
\* str_to_u32

Results == U32 \cup {Invalid, Overflow}

LEMMA PowIs ==
    ASSUME NEW i \in Nat, NEW chk \in BOOLEAN
    PROVE  /\ Pow(i, chk) \in U32 \cup {Overflow}
           /\ i < Places => Pow(i, chk) = Power(Base, i)
           /\ Pow(i, chk) = Overflow <=> chk /\ i >= Places
<1>1. Places \in Nat /\ (i < Places <=> Power(Base, i) \in U32)
    BY PlacesFit
<1>2. Size \in Nat /\ Size > 1 /\ U32 = 0..Size - 1
    BY U32IsNat
<1>3. Power(Base, i) \in Nat
    BY PowerGrows, Base32Assumption
<1>4. Power(Base, i) % Size \in U32
    <2>1. PICK x \in Nat, y \in Nat : x = Power(Base, i) /\ y = Size
        BY <1>2, <1>3
    <2>2. y > 0
        BY <1>2, <2>1
    <2>3. x % y \in 0..y - 1
        BY <2>2
    <2> QED BY <1>2, <2>1, <2>3
<1>5. \A x \in U32 : x # Overflow
    BY <1>2 DEF Overflow
<1> QED BY <1>1, <1>4, <1>5 DEF Pow

\* What a turn of the loop comes to.
LEMMA AddDigitIs ==
    ASSUME NEW num \in Results, NEW c \in Letters, NEW i \in Nat,
           NEW chk \in BOOLEAN, NEW place, place = Pow(i, chk)
    PROVE  LET new == num + Digit(c) * place
               res == AddDigit(num, c, i, chk)
           IN  \/ num < 0 /\ res = num
               \/ num >= 0 /\ c = Bad /\ res = Invalid
               \/ num >= 0 /\ c # Bad /\ place = Overflow /\ res = Overflow
               \/ /\ num >= 0 /\ c # Bad /\ place # Overflow
                  /\ new \notin U32 /\ res = Invalid
               \/ /\ num >= 0 /\ c # Bad /\ place # Overflow
                  /\ new \in U32 /\ res = new
<1>1. Digit(c) = Bad <=> c = Bad
    BY LetterTypes
<1>2. num \in Int
    BY U32IsNat DEF Results, Invalid, Overflow
<1>3. num < 0 \/ (num >= 0 /\ ~(num < 0))
    BY <1>2
<1> DEFINE new == num + Digit(c) * place
           res == AddDigit(num, c, i, chk)
<1>4. CASE num < 0
    <2>1. res = num
        BY <1>4, Zenon DEF AddDigit
    <2> QED BY <1>4, <2>1
<1>5. CASE ~(num < 0) /\ Digit(c) = Bad
    <2>1. res = Invalid
        BY <1>5, Zenon DEF AddDigit
    <2> QED BY <1>1, <1>3, <1>5, <2>1
<1>6. CASE ~(num < 0) /\ Digit(c) # Bad /\ place = Overflow
    <2>1. res = Overflow
        BY <1>6, Zenon DEF AddDigit
    <2> QED BY <1>1, <1>3, <1>6, <2>1
<1>7. CASE ~(num < 0) /\ Digit(c) # Bad /\ place # Overflow /\ new \notin U32
    <2>1. res = Invalid
        BY <1>7, Zenon DEF AddDigit
    <2> QED BY <1>1, <1>3, <1>7, <2>1
<1>8. CASE ~(num < 0) /\ Digit(c) # Bad /\ place # Overflow /\ new \in U32
    <2>1. res = new
        BY <1>8, Zenon DEF AddDigit
    <2> QED BY <1>1, <1>3, <1>8, <2>1
<1> QED BY <1>4, <1>5, <1>6, <1>7, <1>8

LEMMA AddDigitType ==
    ASSUME NEW num \in Results, NEW c \in Letters, NEW i \in Nat,
           NEW chk \in BOOLEAN
    PROVE  AddDigit(num, c, i, chk) \in Results
<1>1. PICK place : place = Pow(i, chk)
    OBVIOUS
<1> QED BY <1>1, AddDigitIs DEF Results

IsLoop(s, chk, f) ==
    f = [i \in 0..Len(s) |->
            IF i = 0 THEN 0
            ELSE AddDigit(f[i - 1], s[Len(s) + 1 - i], i - 1, chk)]

LEMMA LoopIs ==
    ASSUME NEW s \in Seq(Letters), NEW chk \in BOOLEAN
    PROVE  \E f : IsLoop(s, chk, f) /\ StrToU32(s, chk) = f[Len(s)]
<1>0. Len(s) \in Nat /\ \A i \in 1..Len(s) : s[i] \in Letters
    BY ElementOfSeq, LenProperties
<1> DEFINE D == 0..Len(s)
           S == Results
           B == {0}
           z == 0
           h == [n \in D |-> IF n = 0 THEN 0 ELSE n - 1]
           g == [p \in D \X S |->
                    IF p[1] = 0 THEN 0
                    ELSE AddDigit(p[2], s[Len(s) + 1 - p[1]], p[1] - 1, chk)]
<1>1. /\ D \subseteq Nat
      /\ h \in [D -> D] /\ \A n \in D : n \in B \/ h[n] < n
    BY <1>0
<1>2. z \in S
    BY U32IsNat DEF Results
<1>3. g \in [D \X S -> S]
    <2>1. ASSUME NEW n \in D, NEW x \in S, n # 0
          PROVE  AddDigit(x, s[Len(s) + 1 - n], n - 1, chk) \in S
        <3>1. Len(s) + 1 - n \in 1..Len(s) /\ n - 1 \in Nat
            BY <1>0, <2>1
        <3>2. s[Len(s) + 1 - n] \in Letters
            BY <1>0, <3>1
        <3> QED BY <3>1, <3>2, AddDigitType
    <2> HIDE DEF S
    <2> QED BY <1>2, <2>1
<1>4. PICK f \in [D -> S] :
        \A n \in D : f[n] = IF n \in B THEN z ELSE g[<<n, f[h[n]]>>]
    <2> HIDE DEF D, S, B, z, h, g
    <2>1. WellDefined(D, S, B, z, h, g)
        BY <1>1, <1>2, <1>3 DEF WellDefined
    <2> QED BY <2>1, Recursion DEF Solves
<1>5. ASSUME NEW n \in D
      PROVE  f[n] = IF n = 0 THEN 0
                    ELSE AddDigit(f[n - 1], s[Len(s) + 1 - n], n - 1, chk)
    <2>1. CASE n = 0
        BY <1>4, <2>1
    <2>2. CASE n # 0
        <3>1. h[n] = n - 1 /\ n - 1 \in D /\ f[n - 1] \in S
            BY <1>0, <2>2
        <3>2. g[<<n, f[n - 1]>>]
                = AddDigit(f[n - 1], s[Len(s) + 1 - n], n - 1, chk)
            BY <2>2, <3>1
        <3> HIDE DEF h, g, D, S
        <3> QED BY <1>4, <2>2, <3>1, <3>2
    <2> QED BY <2>1, <2>2
<1>6. IsLoop(s, chk, f)
    <2>1. f = [n \in D |-> f[n]]
        OBVIOUS
    <2> HIDE DEF h, g
    <2> QED BY <1>5, <2>1 DEF IsLoop
<1> HIDE DEF D, S, B, z, h, g
<1>7. IsLoop(s, chk, CHOOSE f1 : IsLoop(s, chk, f1))
    BY <1>6
<1>8. StrToU32(s, chk) = (CHOOSE f1 : IsLoop(s, chk, f1))[Len(s)]
    BY DEF StrToU32, IsLoop
<1> QED BY <1>7, <1>8

LEMMA LoopSteps ==
    ASSUME NEW s \in Seq(Letters), NEW chk \in BOOLEAN, NEW f,
           IsLoop(s, chk, f)
    PROVE  /\ f[0] = 0
           /\ \A i \in Nat : i + 1 <= Len(s) =>
                /\ Len(s) - i \in 1..Len(s)
                /\ f[i + 1] = AddDigit(f[i], s[Len(s) - i], i, chk)
           /\ \A i \in 0..Len(s) : f[i] \in Results
<1>0. Len(s) \in Nat /\ \A i \in 1..Len(s) : s[i] \in Letters
    BY ElementOfSeq, LenProperties
<1>1. ASSUME NEW i \in 0..Len(s)
      PROVE  f[i] = IF i = 0 THEN 0
                    ELSE AddDigit(f[i - 1], s[Len(s) + 1 - i], i - 1, chk)
    BY Zenon DEF IsLoop
<1>2. f[0] = 0
    <2>1. 0 \in 0..Len(s)
        BY <1>0
    <2> QED BY <1>1, <2>1
<1>3. ASSUME NEW i \in Nat, i + 1 <= Len(s)
      PROVE  /\ Len(s) - i \in 1..Len(s)
             /\ f[i + 1] = AddDigit(f[i], s[Len(s) - i], i, chk)
    <2>1. /\ i + 1 \in 0..Len(s) /\ i + 1 # 0 /\ i + 1 - 1 = i
          /\ Len(s) + 1 - (i + 1) = Len(s) - i
          /\ Len(s) - i \in 1..Len(s)
        BY <1>0, <1>3
    <2> QED BY <1>1, <2>1
<1> DEFINE S == {i \in Nat : i <= Len(s) => f[i] \in Results}
<1>4. 0 \in S
    BY <1>2, U32IsNat DEF Results
<1>5. ASSUME NEW i \in Nat, i \in S PROVE i + 1 \in S
    <2> SUFFICES ASSUME i + 1 <= Len(s) PROVE f[i + 1] \in Results
        OBVIOUS
    <2>1. f[i] \in Results
        BY <1>0, <1>5
    <2>2. s[Len(s) - i] \in Letters
        BY <1>0, <1>3
    <2> QED BY <1>3, <2>1, <2>2, AddDigitType
<1>6. \A i \in Nat : i \in S
    <2> HIDE DEF S
    <2> QED BY <1>4, <1>5, SetInduction
<1> QED BY <1>2, <1>3, <1>6

LEMMA HornerStep ==
    ASSUME NEW x \in Int, NEW b \in Int, NEW d \in Int, NEW p \in Int
    PROVE  (x * b + d) * p = x * (b * p) + d * p
<1>1. (x * b + d) * p = x * b * p + d * p
    OBVIOUS
<1>2. x * b * p = x * (b * p)
    OBVIOUS
<1> QED BY <1>1, <1>2

\* What i turns of the loop come to, v being the values of the beginnings of
\* the part: the value of the last i digits, unless a place has no value.
TurnsOK(s, chk, v, num, i) ==
    /\ num >= 0 /\ (chk \/ i <= Places) =>
        num = v[Len(s)] - v[Len(s) - i] * Power(Base, i)
    /\ num >= 0 /\ chk => i <= Places
    /\ num = Overflow => chk /\ i > Places

LEMMA Turn ==
    ASSUME NEW s \in Seq(Letters), NEW chk \in BOOLEAN,
           NEW f, IsLoop(s, chk, f), NEW v, IsValue(s, v),
           NEW i \in Nat, i + 1 <= Len(s), TurnsOK(s, chk, v, f[i], i)
    PROVE  TurnsOK(s, chk, v, f[i + 1], i + 1)
<1> DEFINE c == s[Len(s) - i]
           place == Pow(i, chk)
<1>1. PICK l \in Nat : l = Len(s)
    BY LenProperties
<1>2. /\ l - i \in 1..l /\ l - i \in 0..l /\ l - (i + 1) \in 0..l /\ i \in 0..l
      /\ l - i - 1 = l - (i + 1) /\ i + 1 \in 0..l /\ l \in 0..l
    BY <1>1
<1>3. c \in Letters /\ f[i] \in Results /\ f[i + 1] \in Results
    BY <1>1, <1>2, LoopSteps, ElementOfSeq
<1>4. f[i + 1] = AddDigit(f[i], c, i, chk)
    BY LoopSteps
<1>5. /\ v[l - i] = v[l - (i + 1)] * Base + Digit(c)
      /\ v[l - i] \in Int /\ v[l - (i + 1)] \in Int /\ v[l] \in Int
    BY <1>1, <1>2, ValueSteps
<1>6. /\ place \in U32 \cup {Overflow}
      /\ i < Places => place = Power(Base, i)
      /\ place = Overflow <=> chk /\ i >= Places
    BY PowIs
<1>7. Places \in Nat /\ Size \in Nat /\ U32 = 0..Size - 1
    BY PlacesFit, U32IsNat
<1>8. PICK p \in Nat : p = Power(Base, i) /\ Power(Base, i + 1) = Base * p
    BY PowerSteps, PowerGrows, Base32Assumption
<1>9. Digit(c) \in Int
    BY <1>3, LetterTypes
<1>10. CASE f[i] < 0
    <2>1. f[i + 1] = f[i]
        BY <1>4, <1>10 DEF AddDigit
    <2>2. ~(f[i + 1] >= 0)
        BY <1>3, <1>7, <1>10, <2>1 DEF Results, Invalid, Overflow
    <2>3. f[i + 1] = Overflow => chk /\ i + 1 > Places
        BY <1>7, <2>1 DEF TurnsOK
    <2> QED BY <2>2, <2>3 DEF TurnsOK
<1>11. CASE f[i] >= 0 /\ f[i + 1] = Invalid
    BY <1>11 DEF TurnsOK, Invalid, Overflow
<1>12. CASE place = Overflow /\ f[i + 1] = Overflow
    <2>1. chk /\ i + 1 > Places
        BY <1>6, <1>7, <1>12
    <2> QED BY <1>12, <2>1 DEF TurnsOK, Overflow
<1>13. CASE /\ f[i] >= 0 /\ place # Overflow /\ f[i + 1] \in U32
            /\ f[i + 1] = f[i] + Digit(c) * place
    <2>1. f[i + 1] # Overflow
        BY <1>7, <1>13 DEF Overflow
    <2>2. ASSUME chk PROVE i + 1 <= Places
        <3>1. ~(i >= Places)
            BY <1>6, <1>13, <2>2, Zenon
        <3> QED BY <1>7, <3>1
    <2>3. ASSUME chk \/ i + 1 <= Places
          PROVE  f[i + 1] = v[l] - v[l - (i + 1)] * Power(Base, i + 1)
        <3>1. i < Places /\ i <= Places
            BY <1>7, <2>2, <2>3
        <3>2. place = p
            BY <1>6, <1>8, <3>1
        <3>3. f[i] = v[l] - v[l - i] * p
            BY <1>1, <1>8, <1>13, <3>1 DEF TurnsOK
        <3>4. PICK x \in Int, d \in Int, y \in Int :
                x = v[l - (i + 1)] /\ d = Digit(c) /\ y = v[l]
            BY <1>5, <1>9
        <3>5. (x * Base + d) * p = x * (Base * p) + d * p
            BY HornerStep, Base32Assumption
        <3>6. v[l - i] * p = x * (Base * p) + d * p
            BY <1>5, <3>4, <3>5
        <3>7. PICK q \in Int, e \in Int : q = x * (Base * p) /\ e = d * p
            BY Base32Assumption
        <3>8. f[i] = y - (q + e) /\ f[i + 1] = f[i] + e
            BY <1>13, <3>2, <3>3, <3>4, <3>6, <3>7
        <3>9. f[i + 1] = y - q
            BY <3>8
        <3> QED BY <1>8, <3>4, <3>7, <3>9
    <2> QED BY <1>1, <2>1, <2>2, <2>3 DEF TurnsOK
<1> HIDE DEF c, place
<1>14. \/ f[i] < 0
       \/ f[i] >= 0 /\ f[i + 1] = Invalid
       \/ place = Overflow /\ f[i + 1] = Overflow
       \/ /\ f[i] >= 0 /\ place # Overflow /\ f[i + 1] \in U32
          /\ f[i + 1] = f[i] + Digit(c) * place
    BY <1>3, <1>4, AddDigitIs DEF place
<1> QED BY <1>10, <1>11, <1>12, <1>13, <1>14

LEMMA Turns ==
    ASSUME NEW s \in Seq(Letters), NEW chk \in BOOLEAN,
           NEW f, IsLoop(s, chk, f), NEW v, IsValue(s, v)
    PROVE  \A i \in 0..Len(s) : TurnsOK(s, chk, v, f[i], i)
<1> DEFINE S == {i \in Nat : i <= Len(s) => TurnsOK(s, chk, v, f[i], i)}
<1>1. 0 \in S
    <2>1. Len(s) \in Nat /\ Len(s) - 0 = Len(s) /\ Len(s) \in 0..Len(s)
        BY LenProperties
    <2>2. f[0] = 0 /\ Power(Base, 0) = 1 /\ v[Len(s)] \in Int
        BY <2>1, LoopSteps, PowerSteps, ValueSteps, Base32Assumption
    <2>3. v[Len(s)] - v[Len(s)] * 1 = 0
        BY <2>2
    <2>4. Places \in Nat
        BY PlacesFit
    <2>5. TurnsOK(s, chk, v, f[0], 0)
        BY <2>1, <2>2, <2>3, <2>4 DEF TurnsOK, Overflow
    <2> QED BY <2>5
<1>2. ASSUME NEW i \in Nat, i \in S PROVE i + 1 \in S
    <2> SUFFICES ASSUME i + 1 <= Len(s)
                 PROVE  TurnsOK(s, chk, v, f[i + 1], i + 1)
        OBVIOUS
    <2>1. Len(s) \in Nat
        BY LenProperties
    <2>2. TurnsOK(s, chk, v, f[i], i)
        BY <1>2, <2>1
    <2> QED BY <2>2, Turn
<1>3. \A i \in Nat : i \in S
    <2> HIDE DEF S
    <2> QED BY <1>1, <1>2, SetInduction
<1> QED BY <1>3

\* A part is read as its value, or is too long.
LEMMA ReadsValue ==
    ASSUME NEW s \in Seq(Letters), NEW chk \in BOOLEAN
    PROVE  /\ StrToU32(s, chk) \in Results
           /\ StrToU32(s, chk) >= 0 =>
                \/ StrToU32(s, chk) = ValueOf(s)
                \/ ~chk /\ Len(s) > Places
           /\ StrToU32(s, chk) = Overflow => chk /\ Len(s) > Places
<1>1. PICK f : IsLoop(s, chk, f) /\ StrToU32(s, chk) = f[Len(s)]
    BY LoopIs
<1>2. PICK v : IsValue(s, v) /\ ValueOf(s) = v[Len(s)]
    BY ValueIs
<1>3. /\ Len(s) \in Nat /\ Len(s) \in 0..Len(s) /\ Len(s) - Len(s) = 0
      /\ Places \in Nat
    BY LenProperties, PlacesFit
<1>4. TurnsOK(s, chk, v, f[Len(s)], Len(s)) /\ f[Len(s)] \in Results
    BY <1>1, <1>2, <1>3, Turns, LoopSteps
<1>5. v[0] = 0 /\ v[Len(s)] \in Int
    BY <1>2, <1>3, ValueSteps
<1>6. v[Len(s)] - v[Len(s) - Len(s)] * Power(Base, Len(s)) = v[Len(s)]
    <2>1. Power(Base, Len(s)) \in Nat
        BY <1>3, PowerGrows, Base32Assumption
    <2>2. v[Len(s) - Len(s)] * Power(Base, Len(s)) = 0
        BY <1>3, <1>5, <2>1
    <2> QED BY <1>5, <2>2
<1>7. Len(s) <= Places \/ Len(s) > Places
    BY <1>3
<1> QED BY <1>1, <1>2, <1>4, <1>6, <1>7 DEF TurnsOK

\* A part that is not too long and stands for an u32 is read.
LEMMA ReadsIfFits ==
    ASSUME NEW s \in Seq(Letters), NEW chk \in BOOLEAN,
           \A i \in 1..Len(s) : s[i] # Bad,
           Len(s) <= Places, ValueOf(s) \in U32
    PROVE  StrToU32(s, chk) = ValueOf(s)
<1>1. PICK f : IsLoop(s, chk, f) /\ StrToU32(s, chk) = f[Len(s)]
    BY LoopIs
<1>2. PICK v : IsValue(s, v) /\ ValueOf(s) = v[Len(s)]
    BY ValueIs
<1>3. PICK l \in Nat : l = Len(s)
    BY LenProperties
<1>4. Places \in Nat /\ l <= Places /\ Size \in Nat /\ U32 = 0..Size - 1
    BY <1>3, PlacesFit, U32IsNat
<1>5. \A i \in 0..l : v[i] \in Int
    BY <1>2, <1>3, ValueSteps
<1>6. \A i \in 0..l : v[i] >= 0
    <2> DEFINE S == {i \in Nat : i <= l => v[i] >= 0}
    <2>1. 0 \in S
        BY <1>2, ValueSteps
    <2>2. ASSUME NEW i \in Nat, i \in S PROVE i + 1 \in S
        <3> SUFFICES ASSUME i + 1 <= l PROVE v[i + 1] >= 0
            OBVIOUS
        <3>1. /\ i + 1 \in 1..l /\ i + 1 \in 0..l /\ i \in 0..l
              /\ i + 1 - 1 = i /\ v[i] >= 0
            BY <2>2
        <3>2. v[i + 1] = v[i] * Base + Digit(s[i + 1])
            BY <1>2, <1>3, <3>1, ValueSteps
        <3>3. s[i + 1] \in Letters /\ s[i + 1] # Bad
            BY <1>3, <3>1, ElementOfSeq
        <3>4. PICK d \in Nat : d = Digit(s[i + 1])
            <4>1. Digit(s[i + 1]) # Bad
                BY <3>3, LetterTypes
            <4>2. Digit(s[i + 1]) \in Int /\ Digit(s[i + 1]) >= 0
                BY <3>3, <4>1, LetterTypes
            <4> QED BY <4>2
        <3>5. PICK x \in Nat : x = v[i]
            BY <1>5, <3>1
        <3>6. x * Base \in Nat
            BY Base32Assumption
        <3> QED BY <3>2, <3>4, <3>5, <3>6
    <2>3. \A i \in Nat : i \in S
        <3> HIDE DEF S
        <3> QED BY <2>1, <2>2, SetInduction
    <2> QED BY <2>3
<1> DEFINE S == {i \in Nat : i <= l => f[i] >= 0}
<1>7. 0 \in S
    BY <1>1, LoopSteps
<1>8. ASSUME NEW i \in Nat, i \in S PROVE i + 1 \in S
    <2> SUFFICES ASSUME i + 1 <= l PROVE f[i + 1] >= 0
        OBVIOUS
    <2> DEFINE c == s[l - i]
               place == Pow(i, chk)
    <2>1. /\ i \in 0..l /\ i + 1 \in 0..l /\ l - i \in 1..l /\ l \in 0..l
          /\ l - (i + 1) \in 0..l /\ l - i \in 0..l /\ l - i - 1 = l - (i + 1)
          /\ i < Places /\ i <= Places /\ f[i] >= 0
        BY <1>4, <1>8
    <2>2. c \in Letters /\ c # Bad /\ Digit(c) \in Int
        BY <1>3, <2>1, ElementOfSeq, LetterTypes
    <2>3. f[i] \in Results /\ f[i + 1] = AddDigit(f[i], c, i, chk)
        BY <1>1, <1>3, <2>1, LoopSteps
    <2>4. PICK p \in Nat : p = Power(Base, i) /\ place = p
        BY <2>1, PowerGrows, PowIs, Base32Assumption
    <2>5. place # Overflow
        BY <2>4 DEF Overflow
    <2>6. f[i] = v[l] - v[l - i] * p
        <3>1. TurnsOK(s, chk, v, f[i], i)
            BY <1>1, <1>2, <1>3, <2>1, Turns
        <3> QED BY <1>3, <2>1, <2>4, <3>1 DEF TurnsOK
    <2>7. PICK x \in Nat, d \in Int, y \in Nat :
            x = v[l - (i + 1)] /\ d = Digit(c) /\ y = v[l]
        BY <1>5, <1>6, <2>1, <2>2
    <2>8. v[l - i] = x * Base + d
        BY <1>2, <1>3, <2>1, <2>7, ValueSteps
    <2>9. v[l - i] * p = x * (Base * p) + d * p
        BY <2>8, HornerStep, Base32Assumption
    <2>10. PICK q \in Nat, e \in Int : q = x * (Base * p) /\ e = d * p
        <3>1. Base * p \in Nat
            BY Base32Assumption
        <3>2. x * (Base * p) \in Nat
            BY <3>1
        <3> QED BY <3>2
    <2>11. f[i] = y - (q + e) /\ Digit(c) * place = e
        BY <2>4, <2>6, <2>7, <2>9, <2>10
    <2>12. f[i] + Digit(c) * place = y - q
        BY <2>11
    <2>13. y \in U32
        BY <1>2, <1>3, <2>7
    <2>14. CASE f[i + 1] = f[i] + Digit(c) * place
               /\ f[i] + Digit(c) * place \in U32
        BY <1>4, <2>14
    <2>15. CASE f[i] + Digit(c) * place \notin U32
        \* The loop only adds, and the sum is not more than the value.
        <3>1. d >= 0 /\ e >= 0
            <4>1. Digit(c) # Bad
                BY <2>2, LetterTypes
            <4>2. d >= 0
                BY <2>2, <2>7, <4>1, LetterTypes
            <4> QED BY <2>10, <4>2
        <3>2. y - q = f[i] + e /\ f[i] \in Int
            BY <2>11
        <3>3. y - q >= 0 /\ y - q <= y
            BY <2>1, <3>1, <3>2
        <3> QED BY <1>4, <2>12, <2>13, <2>15, <3>3
    <2> HIDE DEF c, place
    <2>16. \/ f[i + 1] = f[i] + Digit(c) * place
               /\ f[i] + Digit(c) * place \in U32
           \/ f[i] + Digit(c) * place \notin U32
        <3>1. ~(f[i] < 0)
            BY <2>1, <2>11
        <3> QED BY <2>2, <2>3, <2>5, <3>1, AddDigitIs DEF place
    <2> QED BY <2>14, <2>15, <2>16
<1>9. \A i \in Nat : i \in S
    <2> HIDE DEF S
    <2> QED BY <1>7, <1>8, SetInduction
<1>10. f[l] >= 0 /\ ~(Len(s) > Places)
    BY <1>3, <1>4, <1>9
<1> QED BY <1>1, <1>3, <1>10, ReadsValue

----------------------------------------------------------------------------
\* u32_to_str

LEMMA Divided ==
    ASSUME NEW n \in Nat
    PROVE  \E q \in Nat, r \in 0..Base - 1 :
                /\ q = n \div Base /\ r = n % Base
                /\ q * Base + r = n
                /\ n > 0 => q < n
<1>1. Base \in Nat /\ Base > 1
    BY Base32Assumption
<1>2. PICK q \in Int, r \in Int : q = n \div Base /\ r = n % Base
    BY <1>1
<1>3. q >= 0 /\ r \in 0..Base - 1
    BY <1>1, <1>2
<1>4. q * Base + r = n
    BY <1>1, <1>2
<1>5. n > 0 => q < n
    <2>1. CASE q = 0
        BY <2>1
    <2>2. CASE q > 0
        <3>1. q \in Nat /\ Base * q > q /\ Base * q = q * Base
            BY <1>1, <1>3, <2>2, Scale
        <3>2. q * Base \in Int
            BY <1>1
        <3> QED BY <1>3, <1>4, <3>1, <3>2
    <2> QED BY <1>3, <2>1, <2>2
<1>6. q \in Nat /\ r \in 0..Base - 1
    BY <1>3
<1> QED BY <1>2, <1>4, <1>5, <1>6

Shown == Seq(0..Base - 1)

IsStr(f) ==
    f = [n \in Nat |-> IF n = 0 THEN <<>>
                       ELSE Append(f[n \div Base], n % Base)]

LEMMA StrExists == \E f : IsStr(f)
<1> DEFINE D == Nat
           S == Shown
           B == {0}
           z == <<>>
           h == [n \in D |-> n \div Base]
           g == [p \in D \X S |-> Append(p[2], p[1] % Base)]
<1>1. /\ D \subseteq Nat /\ z \in S
      /\ h \in [D -> D] /\ \A n \in D : n \in B \/ h[n] < n
    <2>1. <<>> \in Shown
        BY DEF Shown
    <2>2. ASSUME NEW n \in Nat
          PROVE  n \div Base \in Nat /\ (n # 0 => n \div Base < n)
        BY Divided
    <2> QED BY <2>1, <2>2
<1>2. g \in [D \X S -> S]
    <2>1. ASSUME NEW n \in D, NEW x \in S PROVE Append(x, n % Base) \in S
        <3>1. n % Base \in 0..Base - 1
            BY Divided
        <3> QED BY <3>1, AppendProperties DEF Shown
    <2> HIDE DEF S, D
    <2> QED BY <2>1
<1>3. PICK f \in [D -> S] :
        \A n \in D : f[n] = IF n \in B THEN z ELSE g[<<n, f[h[n]]>>]
    <2> HIDE DEF D, S, B, z, h, g
    <2>1. WellDefined(D, S, B, z, h, g)
        BY <1>1, <1>2 DEF WellDefined
    <2> QED BY <2>1, Recursion DEF Solves
<1>4. ASSUME NEW n \in Nat
      PROVE  f[n] = IF n = 0 THEN <<>> ELSE Append(f[n \div Base], n % Base)
    <2>1. CASE n = 0
        BY <1>3, <2>1
    <2>2. CASE n # 0
        <3>0. n \div Base \in Nat
            BY Divided
        <3>1. h[n] = n \div Base /\ f[n \div Base] \in S /\ n \in D
            BY <3>0
        <3>2. g[<<n, f[n \div Base]>>] = Append(f[n \div Base], n % Base)
            BY <3>1
        <3> HIDE DEF h, g, D, S
        <3> QED BY <1>3, <2>2, <3>1, <3>2
    <2> QED BY <2>1, <2>2
<1>5. IsStr(f)
    <2>1. f = [n \in Nat |-> f[n]]
        OBVIOUS
    <2> HIDE DEF h, g
    <2> QED BY <1>4, <2>1 DEF IsStr
<1> HIDE DEF D, S, B, z, h, g
<1> QED BY <1>5

\* The digits of n: its value is n, and it has no digit more than it needs.
DigitsOf(n, s) ==
    /\ s \in Shown
    /\ ValueOf(s) = n
    /\ n # 0 => Len(s) >= 1 /\ Power(Base, Len(s) - 1) <= n

LEMMA ShownIsTyped == Shown \subseteq Seq(Letters)
<1> SUFFICES ASSUME NEW s \in Shown PROVE s \in Seq(Letters)
    OBVIOUS
<1>1. Len(s) \in Nat /\ s \in [1..Len(s) -> 0..Base - 1]
    BY LenProperties DEF Shown
<1>2. s \in [1..Len(s) -> Letters]
    BY <1>1, LetterTypes
<1> QED BY <1>1, <1>2

LEMMA StrSteps ==
    ASSUME NEW f, IsStr(f)
    PROVE  \A n \in Nat : DigitsOf(n, f[n])
<1>1. ASSUME NEW n \in Nat
      PROVE  f[n] = IF n = 0 THEN <<>> ELSE Append(f[n \div Base], n % Base)
    BY Zenon DEF IsStr
<1> DEFINE Q == {n \in Nat : DigitsOf(n, f[n])}
<1>2. ASSUME NEW n \in Nat, \A m \in Nat : m < n => m \in Q
      PROVE  n \in Q
    <2>1. CASE n = 0
        <3>1. f[n] = <<>> /\ <<>> \in Shown
            BY <1>1, <2>1 DEF Shown
        <3> QED BY <2>1, <3>1, ValueOfEmpty DEF DigitsOf
    <2>2. CASE n # 0
        <3>1. PICK m \in Nat, d \in 0..Base - 1 :
                /\ m = n \div Base /\ d = n % Base
                /\ m * Base + d = n /\ m < n
            <4>1. n > 0
                BY <2>2
            <4> QED BY <4>1, Divided
        <3>2. PICK t : t = f[m]
            OBVIOUS
        <3>3. f[n] = Append(t, d)
            BY <1>1, <2>2, <3>1, <3>2
        <3>4. DigitsOf(m, t)
            BY <1>2, <3>1, <3>2
        <3>5. t \in Shown /\ t \in Seq(Letters) /\ d \in Letters /\ Digit(d) = d
            BY <3>4, ShownIsTyped, LetterTypes DEF DigitsOf
        <3>6. /\ Append(t, d) \in Shown /\ Len(Append(t, d)) = Len(t) + 1
              /\ Len(t) \in Nat
            BY <3>5, AppendProperties, LenProperties DEF Shown
        <3>7. ValueOf(Append(t, d)) = n
            BY <3>1, <3>4, <3>5, ValueOfAppend DEF DigitsOf
        <3>8. Power(Base, Len(t)) <= n
            <4>1. CASE m = 0
                <5>1. t = <<>>
                    BY <1>1, <3>2, <4>1
                <5>2. Power(Base, 0) = 1 /\ Len(t) = 0
                    BY <5>1, PowerSteps, Base32Assumption
                <5> QED BY <2>2, <5>2
            <4>2. CASE m # 0
                <5>1. PICK k \in Nat : Len(t) = k + 1 /\ Power(Base, k) <= m
                    <6>1. Len(t) >= 1 /\ Power(Base, Len(t) - 1) <= m
                        BY <3>4, <4>2 DEF DigitsOf
                    <6>2. Len(t) - 1 \in Nat /\ Len(t) = Len(t) - 1 + 1
                        BY <3>6, <6>1
                    <6> QED BY <6>1, <6>2
                <5>2. PICK p \in Nat : p = Power(Base, k)
                                       /\ Power(Base, k + 1) = Base * p
                    <6>1. Base \in Nat /\ Base > 1
                        BY Base32Assumption
                    <6>2. Power(Base, k + 1) = Base * Power(Base, k)
                        BY <6>1, PowerSteps
                    <6>3. Power(Base, k) \in Nat
                        BY <6>1, PowerGrows
                    <6> QED BY <6>2, <6>3
                <5>3. PICK e \in Nat : m = p + e
                    <6>1. m - p \in Nat /\ m = p + (m - p)
                        BY <5>1, <5>2
                    <6> QED BY <6>1
                <5>4. m * Base = Base * p + e * Base /\ e * Base \in Nat
                    BY <5>3, Base32Assumption
                <5>5. PICK x \in Nat, y \in Nat : x = Base * p /\ y = e * Base
                    BY <5>4, Base32Assumption
                <5>6. x <= n
                    BY <3>1, <5>4, <5>5
                <5> QED BY <5>1, <5>2, <5>5, <5>6
            <4> QED BY <4>1, <4>2
        <3>9. Len(t) + 1 >= 1 /\ Len(t) + 1 - 1 = Len(t)
            BY <3>6
        <3>10. DigitsOf(n, Append(t, d))
            BY <3>6, <3>7, <3>8, <3>9 DEF DigitsOf
        <3> QED BY <3>3, <3>10
    <2> QED BY <2>1, <2>2
<1>3. Nat \subseteq Nat
    OBVIOUS
<1>4. \A n \in Nat : n \in Q
    <2> HIDE DEF Q
    <2> QED BY <1>2, <1>3, StrongInduction
<1> QED BY <1>4

\* What u32_to_str writes has a place value for every digit.
LEMMA ShownFits ==
    ASSUME NEW n \in U32
    PROVE  /\ U32ToStr(n) \in Shown
           /\ ValueOf(U32ToStr(n)) = n
           /\ Len(U32ToStr(n)) <= Places
<1>0. n \in Nat /\ Places \in Nat /\ Places >= 1
    BY U32IsNat, PlacesFit
<1>1. CASE n = 0
    <2>1. U32ToStr(n) = Append(<<>>, 0)
        BY <1>1 DEF U32ToStr
    <2>2. 0 \in 0..Base - 1 /\ 0 \in Letters /\ Digit(0) = 0
        BY Base32Assumption, LetterTypes
    <2>3. Append(<<>>, 0) \in Shown /\ Len(Append(<<>>, 0)) = 1
        BY <2>2 DEF Shown
    <2>4. ValueOf(Append(<<>>, 0)) = ValueOf(<<>>) * Base + Digit(0)
        <3>1. <<>> \in Seq(Letters)
            OBVIOUS
        <3> QED BY <2>2, <3>1, ValueOfAppend
    <2>5. ValueOf(Append(<<>>, 0)) = 0
        BY <2>2, <2>4, ValueOfEmpty, Base32Assumption
    <2> QED BY <1>0, <1>1, <2>1, <2>3, <2>5
<1>2. CASE n # 0
    <2> DEFINE f == CHOOSE str : IsStr(str)
    <2>1. IsStr(f)
        BY StrExists
    <2>2. U32ToStr(n) = f[n]
        BY <1>2 DEF U32ToStr, IsStr
    <2> HIDE DEF f
    <2>3. PICK s : s = f[n] /\ DigitsOf(n, s)
        BY <1>0, <2>1, StrSteps
    <2>4. /\ s \in Shown /\ ValueOf(s) = n /\ Len(s) >= 1 /\ Len(s) \in Nat
          /\ Power(Base, Len(s) - 1) <= n
        BY <1>2, <2>3, LenProperties DEF DigitsOf, Shown
    <2>5. Len(s) - 1 \in Nat
        BY <2>4
    <2>6. Power(Base, Len(s) - 1) \in Nat
        BY <2>5, PowerGrows, Base32Assumption
    <2>7. Power(Base, Len(s) - 1) \in U32
        BY <2>4, <2>6, U32IsNat
    <2>8. Len(s) - 1 < Places
        BY <2>5, <2>7, PlacesFit
    <2>9. Len(s) <= Places
        BY <1>0, <2>4, <2>8
    <2> QED BY <2>2, <2>3, <2>4, <2>9
<1> QED BY <1>1, <1>2

----------------------------------------------------------------------------
\* join: the code is read

\* A part that was shown is read as the number it was shown for.
LEMMA ReadsBack ==
    ASSUME NEW n \in U32, NEW part \in Seq(Letters), NEW chk \in BOOLEAN,
           Reads(part, U32ToStr(n))
    PROVE  StrToU32(part, chk) = n
<1>1. PICK s : s = U32ToStr(n) /\ s \in Shown /\ ValueOf(s) = n /\ Len(s) <= Places
    BY ShownFits
<1>2. s \in Seq(Letters) /\ \A i \in 1..Len(s) : s[i] \in 0..Base - 1
    BY <1>1, ShownIsTyped, ElementOfSeq DEF Shown
<1>3. /\ Len(part) = Len(s) /\ DOMAIN part = 1..Len(part)
      /\ \A i \in DOMAIN part :
            part[i] = s[i] \/ (part[i] = One /\ s[i] = 1)
    BY <1>1, LenProperties DEF Reads
<1>4. ASSUME NEW i \in 1..Len(part)
      PROVE  Digit(part[i]) = Digit(s[i]) /\ part[i] # Bad
    <2>1. s[i] \in 0..Base - 1
        BY <1>2, <1>3
    <2>2. CASE part[i] = s[i]
        BY <2>1, <2>2, Base32Assumption DEF Bad
    <2>3. CASE part[i] = One /\ s[i] = 1
        BY <2>3 DEF Digit, One, Bad
    <2> QED BY <1>3, <2>2, <2>3
<1>5. ValueOf(part) = n
    <2>1. ValueOf(part) = ValueOf(s)
        BY <1>2, <1>3, <1>4, ValueOfSame
    <2> QED BY <1>1, <2>1
<1>6. Len(part) <= Places
    BY <1>1, <1>3
<1> QED BY <1>4, <1>5, <1>6, ReadsIfFits

LEMMA IsSequence ==
    ASSUME NEW S, NEW n \in Nat, NEW f \in [1..n -> S]
    PROVE  f \in Seq(S) /\ Len(f) = n /\ DOMAIN f = 1..n
    OBVIOUS

LEMMA NumsAre ==
    ASSUME NEW parts \in Seq(Seq(Letters)), NEW chk \in BOOLEAN, NEW nums,
           nums = FromString(parts, chk)
    PROVE  /\ DOMAIN nums = DOMAIN parts /\ DOMAIN parts = 1..Len(parts)
           /\ Len(parts) \in Nat
           /\ nums \in Seq(Results) /\ Len(nums) = Len(parts)
           /\ \A i \in DOMAIN parts :
                /\ parts[i] \in Seq(Letters)
                /\ nums[i] = StrToU32(parts[i], chk)
                /\ nums[i] \in Results /\ nums[i] \in Int
<1>1. /\ Len(parts) \in Nat /\ DOMAIN parts = 1..Len(parts)
      /\ \A i \in DOMAIN parts : parts[i] \in Seq(Letters)
    BY LenProperties, ElementOfSeq
<1>2. /\ nums = [i \in 1..Len(parts) |-> StrToU32(parts[i], chk)]
      /\ DOMAIN nums = 1..Len(parts)
    BY <1>1 DEF FromString
<1>3. \A i \in DOMAIN parts :
        nums[i] = StrToU32(parts[i], chk) /\ nums[i] \in Results
    BY <1>1, <1>2, ReadsValue
<1>4. Results \subseteq Int
    BY U32IsNat DEF Results, Invalid, Overflow
<1>5. nums \in [1..Len(parts) -> Results]
    BY <1>1, <1>2, <1>3
<1>6. nums \in Seq(Results) /\ Len(nums) = Len(parts)
    BY <1>1, <1>5, IsSequence
<1> QED BY <1>1, <1>2, <1>3, <1>4, <1>6

LEMMA FirstWrongIs ==
    ASSUME NEW parts \in Seq(Seq(Letters)), NEW chk \in BOOLEAN, NEW nums,
           nums = FromString(parts, chk), Wrong(nums) # {}
    PROVE  \E i \in DOMAIN parts : FirstWrong(nums) = nums[i]
<1>1. DOMAIN nums = DOMAIN parts /\ DOMAIN parts \subseteq Nat
    BY NumsAre
<1>2. Wrong(nums) \subseteq Nat /\ Wrong(nums) \subseteq DOMAIN parts
    BY <1>1 DEF Wrong
<1> DEFINE W == Wrong(nums)
<1> HIDE DEF W
<1>3. \E i \in W : \A j \in W : i <= j
    BY <1>2, LeastElement DEF W
<1>4. (CHOOSE i \in W : \A j \in W : i <= j) \in W
    BY <1>3
<1> QED BY <1>2, <1>4 DEF FirstWrong, W

\* What join_room has made of the code.
Outcome(nums) ==
    \/ /\ state \in {"room", "no_server"}
       /\ Wrong(nums) = {} /\ Len(nums) = 3
       /\ room = <<nums[2], nums[3]>>
    \/ state = "failed" /\ (Wrong(nums) # {} \/ Len(nums) # 3)
    \/ state = "panic" /\ Wrong(nums) # {} /\ FirstWrong(nums) = Overflow

JoinInv ==
    command = "join" =>
        /\ dialog = "none" /\ code \in Typed /\ checked \in BOOLEAN
        /\ state = "start" \/ \E nums \in {FromString(code, checked)} :
                                    Outcome(nums)

LEMMA JoinInit == Init => JoinInv
    BY DEF Init, JoinInv, DialogIdle

LEMMA JoinNext == JoinInv /\ [Next]_vars => JoinInv'
<1> SUFFICES ASSUME JoinInv, [Next]_vars, command' = "join" PROVE JoinInv'
    BY DEF JoinInv
<1>1. CASE UNCHANGED vars
    <2>1. /\ command = "join" /\ dialog' = dialog /\ code' = code
          /\ checked' = checked /\ state' = state /\ room' = room
        BY <1>1 DEF vars, dialogVars
    <2> QED BY <2>1 DEF JoinInv, Outcome
<1>2. CASE Next
    <2>1. command' = command
        BY <1>2 DEF Next, AskFiles, NoFiles, StartRoom, JoinRoom, NoServer
    <2>2. /\ dialog = "none" /\ code \in Typed /\ checked \in BOOLEAN
          /\ command = "join"
        BY <2>1 DEF JoinInv
    <2>3. CASE AskFiles
        BY <2>2, <2>3 DEF AskFiles, ConfirmSend, CheckPaths, Visit, Prompt, Answer
    <2>4. CASE NoFiles
        BY <2>2, <2>4 DEF NoFiles
    <2>5. CASE StartRoom
        BY <2>2, <2>5 DEF StartRoom
    <2>6. CASE JoinRoom
        <3>1. PICK nums : nums = FromString(code, checked)
            OBVIOUS
        <3>2. /\ code' = code /\ checked' = checked /\ dialog' = dialog
            BY <2>6 DEF JoinRoom, dialogVars
        <3>3. CASE Wrong(nums) # {}
            <4>1. state' = IF FirstWrong(nums) = Overflow THEN "panic"
                           ELSE "failed"
                BY <2>6, <3>1, <3>3 DEF JoinRoom
            <4>2. Outcome(nums)'
                BY <3>3, <4>1, <3>1, <3>2 DEF Outcome
            <4> QED BY <2>2, <3>1, <3>2, <4>2 DEF JoinInv
        <3>4. CASE Wrong(nums) = {} /\ Len(nums) # 3
            <4>1. state' = "failed"
                BY <2>6, <3>1, <3>4 DEF JoinRoom
            <4> QED BY <2>2, <3>1, <3>2, <3>4, <4>1 DEF JoinInv, Outcome
        <3>5. CASE Wrong(nums) = {} /\ Len(nums) = 3
            <4>1. state' = "room" /\ room' = <<nums[2], nums[3]>>
                BY <2>6, <3>1, <3>5 DEF JoinRoom
            <4> QED BY <2>2, <3>1, <3>2, <3>5, <4>1 DEF JoinInv, Outcome
        <3> QED BY <3>3, <3>4, <3>5
    <2>7. CASE NoServer
        <3>1. /\ state = "room" /\ state' = "no_server"
              /\ dialog' = dialog /\ code' = code /\ checked' = checked
              /\ room' = room
            BY <2>2, <2>7 DEF NoServer, dialogVars
        <3> QED BY <2>2, <3>1 DEF JoinInv, Outcome
    <2> QED BY <1>2, <2>3, <2>4, <2>5, <2>6, <2>7 DEF Next
<1> QED BY <1>1, <1>2

LEMMA TypedInv == JoinInv => TypedOrTooLong
<1> SUFFICES ASSUME JoinInv, command = "join" PROVE TypedOrTooLong
    BY DEF TypedOrTooLong
<1>1. code \in Seq(Seq(Letters)) /\ checked \in BOOLEAN
    BY CommandLineAssumption DEF JoinInv
<1>2. PICK nums : nums = FromString(code, checked)
    OBVIOUS
<1>3. state = "start" \/ Outcome(nums)
    BY <1>2 DEF JoinInv
<1>4. /\ DOMAIN nums = DOMAIN code /\ DOMAIN code = 1..Len(code)
      /\ Len(nums) = Len(code)
      /\ \A i \in DOMAIN code :
            /\ code[i] \in Seq(Letters) /\ nums[i] = StrToU32(code[i], checked)
            /\ nums[i] \in Int
    BY <1>1, <1>2, NumsAre
<1>5. ASSUME state = "room", NEW i \in 2..3
      PROVE  \/ room[i - 1] = ValueOf(code[i])
             \/ ~checked /\ Len(code[i]) > Places
    <2>1. Wrong(nums) = {} /\ Len(nums) = 3 /\ room = <<nums[2], nums[3]>>
        BY <1>3, <1>5 DEF Outcome
    <2>2. i \in DOMAIN code /\ room[i - 1] = nums[i]
        BY <1>4, <2>1
    <2>3. nums[i] >= 0
        BY <1>4, <2>1, <2>2 DEF Wrong
    <2> QED BY <1>1, <1>4, <2>2, <2>3, ReadsValue
<1>6. ASSUME state = "panic"
      PROVE  checked /\ \E i \in DOMAIN code : Len(code[i]) > Places
    <2>1. Wrong(nums) # {} /\ FirstWrong(nums) = Overflow
        BY <1>3, <1>6 DEF Outcome
    <2>2. PICK i \in DOMAIN code : nums[i] = Overflow
        BY <1>1, <1>2, <2>1, FirstWrongIs
    <2> QED BY <1>1, <1>4, <2>2, ReadsValue
<1> QED BY <1>5, <1>6 DEF TypedOrTooLong

LEMMA RoundTripInv == JoinInv => CodeRoundTrip
<1> SUFFICES ASSUME JoinInv, command = "join", state # "start", Len(code) = 3,
                    \A i \in 1..3 : \E v \in U32 : Reads(code[i], U32ToStr(v))
             PROVE  /\ state \in {"room", "no_server"}
                    /\ \A v \in U32 : \A i \in 2..3 :
                        Reads(code[i], U32ToStr(v)) => room[i - 1] = v
    BY DEF CodeRoundTrip
<1>1. code \in Seq(Seq(Letters)) /\ checked \in BOOLEAN
    BY CommandLineAssumption DEF JoinInv
<1>2. PICK nums : nums = FromString(code, checked)
    OBVIOUS
<1>3. Outcome(nums)
    BY <1>2 DEF JoinInv
<1>4. /\ DOMAIN nums = 1..3 /\ Len(nums) = 3
      /\ \A i \in 1..3 :
            /\ code[i] \in Seq(Letters) /\ nums[i] = StrToU32(code[i], checked)
            /\ nums[i] \in Int
    BY <1>1, <1>2, NumsAre
<1>5. ASSUME NEW i \in 1..3, NEW v \in U32, Reads(code[i], U32ToStr(v))
      PROVE  nums[i] = v /\ v >= 0
    <2>1. nums[i] = v
        BY <1>1, <1>4, <1>5, ReadsBack
    <2> QED BY <2>1, U32IsNat
<1>6. Wrong(nums) = {}
    <2> SUFFICES ASSUME NEW i \in 1..3, nums[i] < 0 PROVE FALSE
        BY <1>4 DEF Wrong
    <2>1. PICK v \in U32 : Reads(code[i], U32ToStr(v))
        OBVIOUS
    <2>2. nums[i] >= 0
        BY <1>5, <2>1
    <2> QED BY <1>4, <2>2
<1>7. state \in {"room", "no_server"} /\ room = <<nums[2], nums[3]>>
    BY <1>3, <1>4, <1>6 DEF Outcome
<1>8. ASSUME NEW v \in U32, NEW i \in 2..3, Reads(code[i], U32ToStr(v))
      PROVE  room[i - 1] = v
    <2>1. i \in 1..3 /\ room[i - 1] = nums[i]
        BY <1>7
    <2> QED BY <1>5, <1>8, <2>1
<1> QED BY <1>7, <1>8

----------------------------------------------------------------------------
\* send: the file system

AllNodes == Nodes \cup {Root}

\* The file system does not change while it is walked.
Tree ==
    /\ parent \in [Nodes -> AllNodes]
    /\ \A n \in Nodes : parent[n] < n
    /\ kind \in [Nodes -> Kinds]
    /\ \A n \in Nodes : parent[n] # Root => kind[parent[n]] = "dir"
    /\ name \in [Nodes -> Names]
    /\ \A m, n \in Nodes : m # n /\ parent[m] = parent[n] => name[m] # name[n]
    /\ target \in [Nodes -> Nodes \cup {Nowhere}]
    /\ \A n \in Nodes :
        IF n \in Links THEN target[n] \notin Links ELSE target[n] = Nowhere
    /\ paths \in Seq(Nodes)

LEMMA NodesAreNat == /\ AllNodes \subseteq Nat /\ Nodes \subseteq AllNodes
                     /\ Root \in AllNodes /\ Root = 0 /\ Root \notin Nodes
                     /\ Nowhere \notin AllNodes
                     /\ \A n \in AllNodes : n # Root => n \in Nodes
    BY FileDialogAssumption DEF AllNodes, Root

IsUp(f) == f = [m \in Nodes \cup {Root} |->
                    IF m = Root THEN {Root} ELSE {m} \cup f[parent[m]]]

LEMMA UpExists ==
    ASSUME Tree
    PROVE  \E f : IsUp(f)
<1> DEFINE D == AllNodes
           S == SUBSET AllNodes
           B == {Root}
           z == {Root}
           h == [n \in D |-> IF n = Root THEN Root ELSE parent[n]]
           g == [p \in D \X S |-> {p[1]} \cup p[2]]
<1>1. /\ D \subseteq Nat /\ z \in S
      /\ h \in [D -> D] /\ \A n \in D : n \in B \/ h[n] < n
    BY NodesAreNat DEF Tree
<1>2. g \in [D \X S -> S]
    <2>1. ASSUME NEW n \in D, NEW x \in S PROVE {n} \cup x \in S
        OBVIOUS
    <2> HIDE DEF D, S
    <2> QED BY <2>1
<1>3. PICK f \in [D -> S] :
        \A n \in D : f[n] = IF n \in B THEN z ELSE g[<<n, f[h[n]]>>]
    <2> HIDE DEF D, S, B, z, h, g
    <2>1. WellDefined(D, S, B, z, h, g)
        BY <1>1, <1>2 DEF WellDefined
    <2> QED BY <2>1, Recursion DEF Solves
<1>4. ASSUME NEW n \in D
      PROVE  f[n] = IF n = Root THEN {Root} ELSE {n} \cup f[parent[n]]
    <2>1. CASE n = Root
        BY <1>3, <2>1
    <2>2. CASE n # Root
        <3>1. h[n] = parent[n] /\ h[n] \in D /\ f[parent[n]] \in S
            BY <1>1, <2>2
        <3>2. g[<<n, f[parent[n]]>>] = {n} \cup f[parent[n]]
            BY <3>1
        <3>3. n \notin B
            BY <2>2
        <3> HIDE DEF h, g, D, S, B
        <3> QED BY <1>3, <2>2, <3>1, <3>2, <3>3
    <2> QED BY <2>1, <2>2
<1>5. IsUp(f)
    <2>1. f = [n \in D |-> f[n]]
        OBVIOUS
    <2> HIDE DEF h, g
    <2> QED BY <1>4, <2>1 DEF IsUp, AllNodes
<1> HIDE DEF D, S, B, z, h, g
<1> QED BY <1>5

LEMMA PathSteps ==
    ASSUME Tree
    PROVE  /\ PathTo(Root) = {Root}
           /\ \A n \in Nodes : PathTo(n) = {n} \cup PathTo(parent[n])
<1> DEFINE f == CHOOSE up : IsUp(up)
<1>1. IsUp(f)
    BY UpExists
<1>2. ASSUME NEW n PROVE PathTo(n) = f[n]
    BY DEF PathTo, IsUp
<1> HIDE DEF f
<1>3. ASSUME NEW n \in AllNodes
      PROVE  f[n] = IF n = Root THEN {Root} ELSE {n} \cup f[parent[n]]
    BY <1>1, Zenon DEF IsUp, AllNodes
<1>4. f[Root] = {Root}
    BY <1>3, NodesAreNat
<1>5. ASSUME NEW n \in Nodes PROVE f[n] = {n} \cup f[parent[n]]
    <2>1. n \in AllNodes /\ n # Root
        BY NodesAreNat
    <2> QED BY <1>3, <2>1
<1> QED BY <1>2, <1>4, <1>5

LEMMA Upward ==
    ASSUME Tree, NEW n \in Nodes
    PROVE  /\ parent[n] \in AllNodes /\ parent[n] < n /\ n \in Nat
           /\ parent[n] \in Nat /\ n \in AllNodes /\ n # Root /\ parent[n] # n
<1>1. parent[n] \in AllNodes /\ parent[n] < n
    BY DEF Tree
<1>2. n \in Nat /\ parent[n] \in Nat /\ n \in AllNodes /\ n # Root
    BY <1>1, NodesAreNat
<1> QED BY <1>1, <1>2

\* A node is on the way to itself; what is on the way to it is not after it,
\* and is in a directory or is one.
LEMMA PathBasics ==
    ASSUME Tree
    PROVE  \A n \in AllNodes :
            /\ n \in PathTo(n)
            /\ PathTo(n) \subseteq AllNodes
            /\ \A m \in PathTo(n) : m <= n
            /\ \A m \in PathTo(n) : PathTo(m) \subseteq PathTo(n)
<1>1. /\ PathTo(Root) = {Root}
      /\ \A n \in Nodes : PathTo(n) = {n} \cup PathTo(parent[n])
    BY PathSteps
<1> DEFINE Good(n) == /\ n \in PathTo(n)
                      /\ PathTo(n) \subseteq AllNodes
                      /\ \A m \in PathTo(n) : m <= n
                      /\ \A m \in PathTo(n) : PathTo(m) \subseteq PathTo(n)
           Q == {n \in AllNodes : Good(n)}
<1>2. ASSUME NEW n \in AllNodes, \A m \in AllNodes : m < n => m \in Q
      PROVE  n \in Q
    <2>1. CASE n = Root
        BY <1>1, <2>1, NodesAreNat
    <2>2. CASE n # Root
        <3>1. n \in Nodes
            BY <2>2, NodesAreNat
        <3>2. PICK p : p = parent[n]
            OBVIOUS
        <3>3. p \in AllNodes /\ p < n /\ n \in Nat /\ p \in Nat
            BY <3>1, <3>2, Upward
        <3>4. Good(p)
            BY <1>2, <3>3
        <3>5. PathTo(n) = {n} \cup PathTo(p)
            BY <1>1, <3>1, <3>2
        <3>6. ASSUME NEW m \in PathTo(p) PROVE m <= n
            <4>1. m \in Nat /\ m <= p
                BY <3>4, NodesAreNat
            <4> QED BY <3>3, <4>1
        <3>7. n \in PathTo(n) /\ PathTo(n) \subseteq AllNodes
            BY <3>4, <3>5
        <3>8. \A m \in PathTo(n) : m <= n
            BY <3>3, <3>5, <3>6
        <3>9. \A m \in PathTo(n) : PathTo(m) \subseteq PathTo(n)
            BY <3>4, <3>5
        <3> QED BY <3>7, <3>8, <3>9
    <2> QED BY <2>1, <2>2
<1>3. \A n \in AllNodes : n \in Q
    <2>1. AllNodes \subseteq Nat
        BY NodesAreNat
    <2> HIDE DEF Q
    <2> QED BY <1>2, <2>1, StrongInduction
<1> QED BY <1>3

\* Of two nodes on the way to a third, one is on the way to the other.
LEMMA PathChain ==
    ASSUME Tree
    PROVE  \A n \in AllNodes : \A l, m \in PathTo(n) :
                l \in PathTo(m) \/ m \in PathTo(l)
<1>1. /\ PathTo(Root) = {Root}
      /\ \A n \in Nodes : PathTo(n) = {n} \cup PathTo(parent[n])
    BY PathSteps
<1> DEFINE Good(n) == \A l, m \in PathTo(n) : l \in PathTo(m) \/ m \in PathTo(l)
           Q == {n \in AllNodes : Good(n)}
<1>2. ASSUME NEW n \in AllNodes, \A m \in AllNodes : m < n => m \in Q
      PROVE  n \in Q
    <2>1. CASE n = Root
        BY <1>1, <2>1
    <2>2. CASE n # Root
        <3>1. n \in Nodes
            BY <2>2, NodesAreNat
        <3>2. PICK p : p = parent[n]
            OBVIOUS
        <3>3. p \in AllNodes /\ p < n
            BY <3>1, <3>2, Upward
        <3>4. Good(p)
            BY <1>2, <3>3
        <3>5. PathTo(n) = {n} \cup PathTo(p)
            BY <1>1, <3>1, <3>2
        <3>6. Good(n)
            BY <3>4, <3>5
        <3> QED BY <3>6
    <2> QED BY <2>1, <2>2
<1>3. \A n \in AllNodes : n \in Q
    <2>1. AllNodes \subseteq Nat
        BY NodesAreNat
    <2> HIDE DEF Q
    <2> QED BY <1>2, <2>1, StrongInduction
<1> QED BY <1>3

\* From a directory on the way to a node, the way goes on.
LEMMA PathChild ==
    ASSUME Tree
    PROVE  \A n \in AllNodes : \A m \in PathTo(n) : m # n =>
                /\ m # Root => kind[m] = "dir"
                /\ \E e \in Nodes : parent[e] = m /\ e \in PathTo(n)
<1>1. /\ PathTo(Root) = {Root}
      /\ \A n \in Nodes : PathTo(n) = {n} \cup PathTo(parent[n])
    BY PathSteps
<1> DEFINE Good(n) == \A m \in PathTo(n) : m # n =>
                /\ m # Root => kind[m] = "dir"
                /\ \E e \in Nodes : parent[e] = m /\ e \in PathTo(n)
           Q == {n \in AllNodes : Good(n)}
<1>2. ASSUME NEW n \in AllNodes, \A m \in AllNodes : m < n => m \in Q
      PROVE  n \in Q
    <2>1. CASE n = Root
        BY <1>1, <2>1
    <2>2. CASE n # Root
        <3>1. n \in Nodes
            BY <2>2, NodesAreNat
        <3>2. PICK p : p = parent[n]
            OBVIOUS
        <3>3. p \in AllNodes /\ p < n /\ (p # Root => kind[p] = "dir")
            BY <3>1, <3>2, Upward DEF Tree
        <3>4. Good(p)
            BY <1>2, <3>3
        <3>5. PathTo(n) = {n} \cup PathTo(p)
            BY <1>1, <3>1, <3>2
        <3>6. Good(n)
            BY <3>1, <3>2, <3>3, <3>4, <3>5
        <3> QED BY <3>6
    <2> QED BY <2>1, <2>2
<1>3. \A n \in AllNodes : n \in Q
    <2>1. AllNodes \subseteq Nat
        BY NodesAreNat
    <2> HIDE DEF Q
    <2> QED BY <1>2, <2>1, StrongInduction
<1> QED BY <1>3

\* The way to a node has one entry of a directory.
LEMMA PathSiblings ==
    ASSUME Tree, NEW n \in AllNodes, NEW d \in Nodes, NEW e \in Nodes,
           d \in PathTo(n), e \in PathTo(n), parent[d] = parent[e]
    PROVE  d = e
<1>1. ASSUME NEW x \in Nodes, NEW y \in Nodes, parent[x] = parent[y],
             x \in PathTo(y), x # y
      PROVE  FALSE
    <2>1. PICK p : p = parent[x] /\ p = parent[y]
        BY <1>1
    <2>2. PathTo(y) = {y} \cup PathTo(p)
        BY <2>1, PathSteps
    <2>3. x \in PathTo(p)
        BY <1>1, <2>2
    <2>4. p \in AllNodes /\ p \in Nat /\ x \in Nat /\ p < x
        BY <2>1, Upward
    <2>5. x <= p
        BY <2>3, <2>4, PathBasics
    <2> QED BY <2>4, <2>5
<1>2. d \in PathTo(e) \/ e \in PathTo(d)
    BY PathChain
<1> QED BY <1>1, <1>2

----------------------------------------------------------------------------
\* Public paths

IsDown(top, f) == f = [m \in Nodes \cup {Root} |->
                        IF m \in {top, Root} THEN <<>>
                        ELSE Append(f[parent[m]], name[m])]

LEMMA DownExists ==
    ASSUME Tree, NEW top
    PROVE  \E f : IsDown(top, f)
<1> DEFINE D == AllNodes
           S == Seq(Names)
           B == {top, Root}
           z == <<>>
           h == [n \in D |-> IF n = Root THEN Root ELSE parent[n]]
           g == [p \in D \X S |-> IF p[1] = Root THEN <<>>
                                  ELSE Append(p[2], name[p[1]])]
<1>1. /\ D \subseteq Nat /\ z \in S
      /\ h \in [D -> D] /\ \A n \in D : n \in B \/ h[n] < n
    BY NodesAreNat DEF Tree
<1>2. g \in [D \X S -> S]
    <2>1. ASSUME NEW n \in D, NEW x \in S, n # Root
          PROVE  Append(x, name[n]) \in S
        <3>1. name[n] \in Names
            BY <2>1, NodesAreNat DEF Tree
        <3> QED BY <3>1, AppendProperties
    <2>2. <<>> \in S
        OBVIOUS
    <2> HIDE DEF D, S
    <2> QED BY <2>1, <2>2
<1>3. PICK f \in [D -> S] :
        \A n \in D : f[n] = IF n \in B THEN z ELSE g[<<n, f[h[n]]>>]
    <2> HIDE DEF D, S, B, z, h, g
    <2>1. WellDefined(D, S, B, z, h, g)
        BY <1>1, <1>2 DEF WellDefined
    <2> QED BY <2>1, Recursion DEF Solves
<1>4. ASSUME NEW n \in D
      PROVE  f[n] = IF n \in {top, Root} THEN <<>>
                    ELSE Append(f[parent[n]], name[n])
    <2>1. CASE n \in B
        <3>1. f[n] = z
            <4> HIDE DEF D, S, B, z, h, g
            <4> QED BY <1>3, <2>1
        <3> QED BY <2>1, <3>1
    <2>2. CASE n \notin B
        <3>1. n # Root
            BY <2>2
        <3>2. h[n] = parent[n] /\ h[n] \in D /\ f[parent[n]] \in S
            BY <1>1, <3>1
        <3>3. g[<<n, f[parent[n]]>>] = Append(f[parent[n]], name[n])
            BY <3>1, <3>2
        <3>4. f[n] = g[<<n, f[h[n]]>>]
            <4> HIDE DEF D, S, B, z, h, g
            <4> QED BY <1>3, <2>2
        <3>5. f[n] = Append(f[parent[n]], name[n])
            <4> HIDE DEF D, S, B, z, h, g
            <4> QED BY <3>2, <3>3, <3>4
        <3> QED BY <2>2, <3>5
    <2> QED BY <2>1, <2>2
<1>5. IsDown(top, f)
    <2>1. f = [n \in D |-> f[n]]
        OBVIOUS
    <2> HIDE DEF h, g
    <2> QED BY <1>4, <2>1 DEF IsDown, AllNodes
<1> HIDE DEF D, S, B, z, h, g
<1> QED BY <1>5

LEMMA PublicSteps ==
    ASSUME Tree, NEW top
    PROVE  \A n \in AllNodes :
            IF n \in {top, Root} THEN PublicPath(top, n) = <<>>
            ELSE /\ n \in Nodes /\ parent[n] \in AllNodes /\ name[n] \in Names
                 /\ PublicPath(top, n)
                        = Append(PublicPath(top, parent[n]), name[n])
<1> DEFINE f == CHOOSE down : IsDown(top, down)
<1>1. IsDown(top, f)
    BY DownExists
<1>2. ASSUME NEW n PROVE PublicPath(top, n) = f[n]
    BY DEF PublicPath, IsDown
<1> HIDE DEF f
<1>3. ASSUME NEW n \in AllNodes
      PROVE  f[n] = IF n \in {top, Root} THEN <<>>
                    ELSE Append(f[parent[n]], name[n])
    BY <1>1, Zenon DEF IsDown, AllNodes
<1>4. ASSUME NEW n \in AllNodes, n \notin {top, Root}
      PROVE  n \in Nodes /\ parent[n] \in AllNodes /\ name[n] \in Names
    BY <1>4, NodesAreNat DEF Tree
<1> QED BY <1>2, <1>3, <1>4

LEMMA PublicType ==
    ASSUME Tree, NEW top
    PROVE  \A n \in AllNodes : PublicPath(top, n) \in Seq(Names)
<1> DEFINE Q == {n \in AllNodes : PublicPath(top, n) \in Seq(Names)}
<1>1. ASSUME NEW n \in AllNodes, \A m \in AllNodes : m < n => m \in Q
      PROVE  n \in Q
    <2>1. CASE n \in {top, Root}
        <3>1. PublicPath(top, n) = <<>>
            BY <2>1, PublicSteps
        <3> QED BY <3>1
    <2>2. CASE n \notin {top, Root}
        <3>1. /\ n \in Nodes /\ parent[n] \in AllNodes /\ name[n] \in Names
              /\ PublicPath(top, n) = Append(PublicPath(top, parent[n]), name[n])
            BY <2>2, PublicSteps
        <3>2. PublicPath(top, parent[n]) \in Seq(Names)
            BY <1>1, <3>1, Upward
        <3>3. Append(PublicPath(top, parent[n]), name[n]) \in Seq(Names)
            BY <3>1, <3>2, AppendProperties
        <3> QED BY <3>1, <3>3
    <2> QED BY <2>1, <2>2
<1>2. AllNodes \subseteq Nat
    BY NodesAreNat
<1>3. \A n \in AllNodes : n \in Q
    <2> HIDE DEF Q
    <2> QED BY <1>1, <1>2, StrongInduction
<1> QED BY <1>3

\* Below a directory, public paths tell the nodes apart.
LEMMA PublicInjective ==
    ASSUME Tree, NEW top \in AllNodes
    PROVE  \A n, m \in AllNodes :
            /\ top \in PathTo(n) /\ top \in PathTo(m)
            /\ PublicPath(top, n) = PublicPath(top, m)
            => n = m
<1> DEFINE Good(n) == \A m \in AllNodes :
                /\ top \in PathTo(n) /\ top \in PathTo(m)
                /\ PublicPath(top, n) = PublicPath(top, m)
                => n = m
           Q == {n \in AllNodes : Good(n)}
<1>1. /\ PathTo(Root) = {Root}
      /\ \A n \in Nodes : PathTo(n) = {n} \cup PathTo(parent[n])
    BY PathSteps
<1>2. ASSUME NEW n \in AllNodes, n \in {top, Root}, top \in PathTo(n)
      PROVE  n = top
    BY <1>1, <1>2
<1>3. ASSUME NEW n \in AllNodes, \A m \in AllNodes : m < n => m \in Q
      PROVE  n \in Q
    <2> SUFFICES ASSUME NEW m \in AllNodes,
                        top \in PathTo(n), top \in PathTo(m),
                        PublicPath(top, n) = PublicPath(top, m)
                 PROVE  n = m
        OBVIOUS
    <2>0. ASSUME NEW k \in AllNodes, k \notin {top, Root}
          PROVE  PublicPath(top, k) # <<>>
        <3>1. /\ parent[k] \in AllNodes /\ name[k] \in Names
              /\ PublicPath(top, k) = Append(PublicPath(top, parent[k]), name[k])
            BY <2>0, PublicSteps
        <3>2. PublicPath(top, parent[k]) \in Seq(Names)
            BY <3>1, PublicType
        <3> QED BY <3>1, <3>2
    <2>1. CASE n \in {top, Root}
        <3>1. PublicPath(top, n) = <<>>
            BY <2>1, PublicSteps
        <3>2. m \in {top, Root}
            BY <2>0, <3>1
        <3> QED BY <1>2, <2>1, <3>2
    <2>2. CASE m \in {top, Root}
        <3>1. PublicPath(top, m) = <<>>
            BY <2>2, PublicSteps
        <3>2. n \in {top, Root}
            BY <2>0, <3>1
        <3> QED BY <1>2, <2>2, <3>2
    <2>3. CASE n \notin {top, Root} /\ m \notin {top, Root}
        <3>1. /\ n \in Nodes /\ parent[n] \in AllNodes /\ name[n] \in Names
              /\ PublicPath(top, n) = Append(PublicPath(top, parent[n]), name[n])
            BY <2>3, PublicSteps
        <3>2. /\ m \in Nodes /\ parent[m] \in AllNodes /\ name[m] \in Names
              /\ PublicPath(top, m) = Append(PublicPath(top, parent[m]), name[m])
            BY <2>3, PublicSteps
        <3>3. PICK s \in Seq(Names), t \in Seq(Names) :
                /\ s = PublicPath(top, parent[n])
                /\ t = PublicPath(top, parent[m])
            BY <3>1, <3>2, PublicType
        <3>4. Append(s, name[n]) = Append(t, name[m])
            BY <3>1, <3>2, <3>3
        <3>5. s = t /\ name[n] = name[m]
            <4>1. PICK a \in Names, b \in Names : a = name[n] /\ b = name[m]
                BY <3>1, <3>2
            <4>2. Append(s, a) = Append(t, b)
                BY <3>4, <4>1
            <4>3. /\ Len(Append(s, a)) = Len(s) + 1 /\ Append(s, a)[Len(s) + 1] = a
                  /\ \A i \in 1..Len(s) : Append(s, a)[i] = s[i]
                BY AppendProperties
            <4>4. /\ Len(Append(t, b)) = Len(t) + 1 /\ Append(t, b)[Len(t) + 1] = b
                  /\ \A i \in 1..Len(t) : Append(t, b)[i] = t[i]
                BY AppendProperties
            <4>5. Len(s) = Len(t)
                BY <4>2, <4>3, <4>4, LenProperties
            <4>6. s = t
                BY <4>2, <4>3, <4>4, <4>5, SeqEqual
            <4> QED BY <4>1, <4>2, <4>3, <4>4, <4>5, <4>6
        <3>6. top \in PathTo(parent[n]) /\ top \in PathTo(parent[m])
            BY <1>1, <2>3, <3>1, <3>2
        <3>7. parent[n] \in Q
            BY <1>3, <3>1, Upward
        <3>8. parent[n] = parent[m]
            BY <3>2, <3>3, <3>5, <3>6, <3>7
        <3> QED BY <3>1, <3>2, <3>5, <3>8 DEF Tree
    <2> QED BY <2>1, <2>2, <2>3
<1>4. AllNodes \subseteq Nat
    BY NodesAreNat
<1>5. \A n \in AllNodes : n \in Q
    <2> HIDE DEF Q
    <2> QED BY <1>3, <1>4, StrongInduction
<1> QED BY <1>5

\* A public path begins with the name of the node it leads through.
LEMMA PublicFirst ==
    ASSUME Tree, NEW a \in Nodes
    PROVE  \A n \in AllNodes : a \in PathTo(n) =>
            /\ Len(PublicPath(parent[a], n)) >= 1
            /\ PublicPath(parent[a], n)[1] = name[a]
<1> DEFINE top == parent[a]
           Good(n) == a \in PathTo(n) => /\ Len(PublicPath(top, n)) >= 1
                                         /\ PublicPath(top, n)[1] = name[a]
           Q == {n \in AllNodes : Good(n)}
<1>1. /\ PathTo(Root) = {Root}
      /\ \A n \in Nodes : PathTo(n) = {n} \cup PathTo(parent[n])
    BY PathSteps
<1>2. top \in AllNodes /\ top < a /\ a \in Nat /\ top \in Nat /\ a # Root
    BY Upward
<1>3. ASSUME NEW n \in AllNodes, \A m \in AllNodes : m < n => m \in Q
      PROVE  n \in Q
    <2> SUFFICES ASSUME a \in PathTo(n)
                 PROVE  /\ Len(PublicPath(top, n)) >= 1
                        /\ PublicPath(top, n)[1] = name[a]
        OBVIOUS
    <2>1. a <= n /\ n \in Nat
        BY PathBasics, NodesAreNat
    <2>2. n \notin {top, Root}
        BY <1>1, <1>2, <2>1
    <2>3. /\ n \in Nodes /\ parent[n] \in AllNodes /\ name[n] \in Names
          /\ PublicPath(top, n) = Append(PublicPath(top, parent[n]), name[n])
        BY <2>2, PublicSteps
    <2>4. PICK s \in Seq(Names) : s = PublicPath(top, parent[n])
        BY <2>3, PublicType
    <2>5. PICK b \in Names : b = name[n]
        BY <2>3
    <2>6. PublicPath(top, n) = Append(s, b)
        BY <2>3, <2>4, <2>5
    <2>7. CASE n = a
        <3>1. s = <<>>
            BY <1>2, <2>4, <2>7, PublicSteps
        <3>2. Len(Append(<<>>, b)) >= 1 /\ Append(<<>>, b)[1] = b
            OBVIOUS
        <3> QED BY <2>5, <2>6, <2>7, <3>1, <3>2
    <2>8. CASE n # a
        <3>1. a \in PathTo(parent[n])
            BY <1>1, <2>3, <2>8
        <3>2. parent[n] \in Q
            BY <1>3, <2>3, Upward
        <3>3. Len(s) >= 1 /\ s[1] = name[a]
            BY <2>4, <3>1, <3>2
        <3>4. Len(Append(s, b)) >= 1 /\ Append(s, b)[1] = s[1]
            BY <3>3
        <3> QED BY <2>6, <3>3, <3>4
    <2> QED BY <2>7, <2>8
<1>4. AllNodes \subseteq Nat
    BY NodesAreNat
<1>5. \A n \in AllNodes : n \in Q
    <2> HIDE DEF Q
    <2> QED BY <1>3, <1>4, StrongInduction
<1> QED BY <1>5

----------------------------------------------------------------------------
\* Links

LEMMA CanonicalOf ==
    ASSUME Tree, NEW n \in Nodes
    PROVE  /\ Canonical(n) \in Nodes \cup {Nowhere}
           /\ n \notin Links => Canonical(n) = n
           /\ \A m \in AllNodes : n \in Links /\ StartsWith(m, Canonical(n))
                => Linked(m)
<1>1. /\ Canonical(n) \in Nodes \cup {Nowhere}
      /\ n \notin Links => Canonical(n) = n
    BY DEF Canonical, Tree
<1>2. ASSUME NEW m \in AllNodes, n \in Links, StartsWith(m, Canonical(n))
      PROVE  Linked(m)
    <2>1. Canonical(n) = target[n]
        BY <1>2 DEF Canonical
    <2>2. target[n] \in PathTo(m) /\ PathTo(m) \subseteq AllNodes
        BY <1>2, <2>1, PathBasics DEF StartsWith
    <2>3. target[n] # Nowhere
        BY <2>2, NodesAreNat
    <2> QED BY <1>2, <2>1, <2>3 DEF Linked
<1> QED BY <1>1, <1>2

LEMMA Below ==
    ASSUME Tree
    PROVE  /\ \A n \in AllNodes : StartsWith(n, n)
           /\ \A n \in Nodes : StartsWith(n, parent[n])
           /\ \A n \in AllNodes : \A m : StartsWith(n, m) => m \in AllNodes
           /\ \A n \in AllNodes : \A m, l :
                StartsWith(n, m) /\ StartsWith(m, l) => StartsWith(n, l)
           /\ \A n \in AllNodes : \A m :
                StartsWith(n, m) /\ Linked(m) => Linked(n)
<1>1. \A n \in AllNodes : /\ n \in PathTo(n) /\ PathTo(n) \subseteq AllNodes
                         /\ \A m \in PathTo(n) : PathTo(m) \subseteq PathTo(n)
    BY PathBasics
<1>2. ASSUME NEW n \in Nodes PROVE parent[n] \in PathTo(n)
    <2>1. PathTo(n) = {n} \cup PathTo(parent[n]) /\ parent[n] \in AllNodes
        BY PathSteps, Upward
    <2> QED BY <1>1, <2>1
<1>3. \A n \in AllNodes : \A m, l :
        StartsWith(n, m) /\ StartsWith(m, l) => StartsWith(n, l)
    BY <1>1 DEF StartsWith
<1>4. \A n \in AllNodes : \A m :
        StartsWith(n, m) /\ Linked(m) => Linked(n)
    BY <1>3 DEF Linked
<1> QED BY <1>1, <1>2, <1>3, <1>4 DEF StartsWith

\* What is below where an entry of d leads is below d, or a link leads there.
LEMMA EntryCovers ==
    ASSUME Tree, NEW d \in AllNodes, NEW e \in Nodes, parent[e] = d,
           NEW n \in AllNodes, StartsWith(n, Canonical(e))
    PROVE  Linked(n) \/ (Canonical(e) = e /\ StartsWith(n, e) /\ StartsWith(n, d))
<1>1. CASE e \in Links
    BY <1>1, CanonicalOf
<1>2. CASE e \notin Links
    <2>1. Canonical(e) = e /\ StartsWith(n, e)
        BY <1>2, CanonicalOf
    <2>2. StartsWith(e, d)
        BY Below
    <2>3. StartsWith(n, d)
        BY <2>1, <2>2, Below
    <2> QED BY <2>1, <2>3
<1> QED BY <1>1, <1>2

----------------------------------------------------------------------------
\* The walk

\* The paths have passed the first loop of confirm_send.
Passed ==
    /\ \A i \in DOMAIN paths : Canonical(paths[i]) # Nowhere
    /\ \A i, j \in DOMAIN paths : i < j => ~Overlap(i, j)

CallType == [top : AllNodes, path : Nodes, above : SUBSET Nodes]
FileType == [local_path : Nodes, public_path : Seq(Names)]

\* n is below the given path a, or a link leads there.
Found(n, a) == StartsWith(n, a) \/ Linked(n)

DirLink == \E l \in Links : target[l] # Nowhere /\ kind[target[l]] = "dir"

\* A call was made for a given path: it is for a node below it, or that a link
\* leads to. The directories being read are those that the node is in, unless
\* there is a link to one.
CallOK(c) ==
    /\ c \in CallType
    /\ \E a \in Given : /\ c.top = parent[a]
                        /\ \/ Canonical(c.path) = Nowhere
                           \/ Found(Canonical(c.path), a)
    /\ DirLink \/ c.above \subseteq PathTo(parent[c.path])

\* The same for a file of the list.
FileOK(f) ==
    /\ f \in FileType
    /\ \E a \in Given :
        /\ StartsWith(f.local_path, parent[a]) /\ Found(f.local_path, a)
        /\ f.public_path = PublicPath(parent[a], f.local_path)

\* The node n is in the list, or below what is still to be visited.
Pending(n, calls, found) ==
    \/ \E i \in 1..Len(found) : found[i].local_path = n
    \/ \E i \in 1..Len(calls) : StartsWith(n, Canonical(calls[i].path))

AllPending(calls, found) ==
    \A n \in Nodes : kind[n] = "file" /\ (\E a \in Given : StartsWith(n, a))
                        => Pending(n, calls, found)

\* No file is in the list twice, none in it is visited again, and nothing is
\* visited twice, unless a link leads there.
FilesOnce(found) ==
    \A i, j \in 1..Len(found) :
        i # j /\ found[i].local_path = found[j].local_path =>
            Linked(found[i].local_path)

NotAgain(calls, found) ==
    \A i \in 1..Len(found), j \in 1..Len(calls) :
        StartsWith(found[i].local_path, Canonical(calls[j].path)) =>
            Linked(found[i].local_path)

CallsApart(calls) ==
    \A i, j \in 1..Len(calls) : \A n \in Nodes :
        /\ i # j /\ StartsWith(n, Canonical(calls[i].path))
        /\ StartsWith(n, Canonical(calls[j].path))
        => Linked(n)

Asked == {"prompt", "accepted", "cancelled"}

\* The invariant of the walk.
WalkOK(calls, found, d) ==
    /\ Passed
    /\ calls \in Seq(CallType) /\ found \in Seq(FileType)
    /\ \A i \in 1..Len(calls) : CallOK(calls[i])
    /\ \A i \in 1..Len(found) : FileOK(found[i])
    /\ d \in Asked \cup {"walk"} => AllPending(calls, found)
    /\ FilesOnce(found) /\ NotAgain(calls, found) /\ CallsApart(calls)
    /\ d \in Asked => calls = <<>>
    /\ d = "overflow" => DirLink
    /\ d = "panic" => \E l \in Links, a \in Given :
                        target[l] # Nowhere /\ ~StartsWith(target[l], parent[a])

LEMMA GivenAre ==
    ASSUME Tree, Passed
    PROVE  /\ Given \subseteq Nodes
           /\ \A i \in 1..Len(paths) : paths[i] \in Nodes
           /\ DOMAIN paths = 1..Len(paths) /\ Len(paths) \in Nat
<1>1. /\ \A i \in 1..Len(paths) : paths[i] \in Nodes
      /\ DOMAIN paths = 1..Len(paths) /\ Len(paths) \in Nat
    BY ElementOfSeq, LenProperties DEF Tree
<1>2. ASSUME NEW i \in DOMAIN paths PROVE Canonical(paths[i]) \in Nodes
    BY <1>1, CanonicalOf DEF Passed
<1> QED BY <1>1, <1>2 DEF Given

\* The first calls: one for each path.
LEMMA WalkBegin ==
    ASSUME Tree, Passed, NEW calls,
           calls = [i \in DOMAIN paths |->
                        Call(TopPath(i), Canonical(paths[i]), {})]
    PROVE  WalkOK(calls, <<>>, "walk")
<1>1. /\ Given \subseteq Nodes /\ Len(paths) \in Nat
      /\ \A i \in 1..Len(paths) : paths[i] \in Nodes
      /\ DOMAIN paths = 1..Len(paths)
    BY GivenAre
<1>2. ASSUME NEW i \in 1..Len(paths)
      PROVE  /\ calls[i] = Call(TopPath(i), Canonical(paths[i]), {})
             /\ Canonical(paths[i]) \in Given /\ Canonical(paths[i]) \in Nodes
             /\ Canonical(Canonical(paths[i])) = Canonical(paths[i])
    <2>1. calls[i] = Call(TopPath(i), Canonical(paths[i]), {})
        BY <1>1
    <2>2. Canonical(paths[i]) \in Given /\ Canonical(paths[i]) \in Nodes
        BY <1>1 DEF Given
    <2>3. Canonical(paths[i]) \notin Links
        BY <1>1, <2>2, NodesAreNat DEF Canonical, Tree
    <2> QED BY <2>1, <2>2, <2>3, CanonicalOf
<1>3. ASSUME NEW i \in 1..Len(paths)
      PROVE  /\ calls[i] \in CallType /\ CallOK(calls[i])
             /\ Canonical(calls[i].path) = Canonical(paths[i])
    <2>1. PICK a \in Nodes : a = Canonical(paths[i])
        BY <1>2
    <2>2. /\ calls[i] = [top |-> parent[a], path |-> a, above |-> {}]
          /\ a \in Given /\ Canonical(a) = a
        BY <1>2, <2>1 DEF Call, TopPath
    <2>3. parent[a] \in AllNodes /\ a \in AllNodes
        BY Upward
    <2>4. calls[i] \in CallType
        BY <2>2, <2>3 DEF CallType
    <2>5. Found(a, a)
        BY <2>3, Below DEF Found
    <2>6. CallOK(calls[i])
        BY <2>2, <2>4, <2>5 DEF CallOK
    <2> QED BY <2>1, <2>2, <2>4, <2>6
<1>4. calls \in Seq(CallType) /\ Len(calls) = Len(paths)
    <2>1. calls \in [1..Len(paths) -> CallType]
        BY <1>1, <1>3
    <2> QED BY <1>1, <2>1, IsSequence
<1>5. <<>> \in Seq(FileType) /\ Len(<<>>) = 0
    OBVIOUS
<1>6. AllPending(calls, <<>>)
    <2> SUFFICES ASSUME NEW n \in Nodes, NEW a \in Given, StartsWith(n, a)
                 PROVE  Pending(n, calls, <<>>)
        BY DEF AllPending
    <2>1. PICK i \in 1..Len(paths) : a = Canonical(paths[i])
        BY <1>1 DEF Given
    <2> QED BY <1>3, <1>4, <2>1 DEF Pending
<1>7. CallsApart(calls)
    <2> SUFFICES ASSUME NEW i \in 1..Len(calls), NEW j \in 1..Len(calls), i # j,
                        NEW n \in Nodes,
                        StartsWith(n, Canonical(calls[i].path)),
                        StartsWith(n, Canonical(calls[j].path))
                 PROVE  FALSE
        BY DEF CallsApart
    <2>1. /\ StartsWith(n, Canonical(paths[i]))
          /\ StartsWith(n, Canonical(paths[j]))
          /\ i \in DOMAIN paths /\ j \in DOMAIN paths
        BY <1>1, <1>3, <1>4
    <2>2. n \in AllNodes
        BY NodesAreNat
    <2>3. \/ StartsWith(Canonical(paths[i]), Canonical(paths[j]))
          \/ StartsWith(Canonical(paths[j]), Canonical(paths[i]))
        BY <2>1, <2>2, PathChain DEF StartsWith
    <2>4. Overlap(i, j) /\ Overlap(j, i)
        BY <2>3 DEF Overlap
    <2>5. i < j \/ j < i
        OBVIOUS
    <2> QED BY <2>1, <2>4, <2>5 DEF Passed
<1>8. FilesOnce(<<>>) /\ NotAgain(calls, <<>>)
    BY <1>5 DEF FilesOnce, NotAgain
<1>9. \A i \in 1..Len(calls) : CallOK(calls[i])
    BY <1>3, <1>4
<1>10. \A i \in 1..Len(<<>>) : FileOK(<<>>[i])
    BY <1>5
<1>11. /\ "walk" \in Asked \cup {"walk"} => AllPending(calls, <<>>)
       /\ "walk" \in Asked => calls = <<>>
       /\ "walk" = "overflow" => DirLink
       /\ "walk" = "panic" => \E l \in Links, a \in Given :
                        target[l] # Nowhere /\ ~StartsWith(target[l], parent[a])
    BY <1>6 DEF Asked
<1> QED BY <1>4, <1>5, <1>7, <1>8, <1>9, <1>10, <1>11, Zenon DEF WalkOK

\* The calls of a list of which the first one has returned, and has made others.
IsPushed(calls, k, more, new) ==
    /\ new \in Seq(CallType)
    /\ \A i \in 1..Len(new) :
        \/ i \in 1..k /\ new[i] = more[i]
        \/ \E j \in 1..Len(calls) :
            j # 1 /\ i = k + j - 1 /\ new[i] = calls[j]
    /\ \A i \in 1..k : i \in 1..Len(new) /\ new[i] = more[i]
    /\ \A j \in 1..Len(calls) : j # 1 =>
        \E i \in 1..Len(new) : new[i] = calls[j]

LEMMA Pushed ==
    ASSUME NEW calls \in Seq(CallType), calls # <<>>,
           NEW more \in Seq(CallType), NEW new, new = more \o Tail(calls)
    PROVE  IsPushed(calls, Len(more), more, new)
<1>1. PICK l \in Nat, k \in Nat : l = Len(calls) /\ k = Len(more)
    BY LenProperties
<1>2. l >= 1
    <2>1. Len(calls) # 0
        BY EmptySeq
    <2> QED BY <1>1, <2>1
<1>3. PICK t \in Seq(CallType) :
        /\ t = Tail(calls) /\ Len(t) = l - 1
        /\ \A i \in 1..l - 1 : t[i] = calls[i + 1]
    <2>1. /\ Tail(calls) \in Seq(CallType) /\ Len(Tail(calls)) = Len(calls) - 1
          /\ \A i \in 1..Len(Tail(calls)) : Tail(calls)[i] = calls[i + 1]
        BY HeadTailProperties
    <2> QED BY <1>1, <2>1
<1>4. /\ new \in Seq(CallType) /\ Len(new) = k + (l - 1)
      /\ \A i \in 1..k + (l - 1) :
            new[i] = IF i <= k THEN more[i] ELSE t[i - k]
    BY <1>1, <1>3, ConcatProperties
<1>5. ASSUME NEW i \in 1..Len(new)
      PROVE  \/ i \in 1..k /\ new[i] = more[i]
             \/ \E j \in 1..l : j # 1 /\ i = k + j - 1 /\ new[i] = calls[j]
    <2>1. CASE i <= k
        <3>1. i \in 1..k /\ i \in 1..k + (l - 1)
            BY <1>4, <2>1
        <3>2. new[i] = more[i]
            BY <1>4, <2>1, <3>1
        <3> QED BY <3>1, <3>2
    <2>2. CASE i > k
        <3>1. /\ i - k \in 1..l - 1 /\ i - k + 1 \in 1..l /\ i - k + 1 # 1
              /\ i = k + (i - k + 1) - 1
            BY <1>4, <2>2
        <3>2. new[i] = calls[i - k + 1]
            BY <1>3, <1>4, <2>2, <3>1
        <3> QED BY <3>1, <3>2
    <2>3. i <= k \/ i > k
        BY <1>4
    <2> QED BY <2>1, <2>2, <2>3
<1>6. ASSUME NEW i \in 1..k PROVE i \in 1..Len(new) /\ new[i] = more[i]
    <2>1. i \in 1..k + (l - 1) /\ i <= k
        BY <1>2
    <2> QED BY <1>4, <2>1
<1>7. ASSUME NEW j \in 1..l, j # 1
      PROVE  \E i \in 1..Len(new) : new[i] = calls[j]
    <2>1. /\ k + j - 1 \in 1..k + (l - 1) /\ ~(k + j - 1 <= k)
          /\ k + j - 1 - k = j - 1 /\ j - 1 \in 1..l - 1 /\ j - 1 + 1 = j
        BY <1>7
    <2>2. new[k + j - 1] = calls[j]
        BY <1>3, <1>4, <2>1
    <2> QED BY <1>4, <2>1, <2>2
<1>8. IsPushed(calls, k, more, new)
    BY <1>1, <1>4, <1>5, <1>6, <1>7 DEF IsPushed
<1> QED BY <1>1, <1>8

\* Dropping the first call keeps what does not depend on it.
Dropped(calls, found, new) ==
    /\ new \in Seq(CallType) /\ 1 \in 1..Len(calls)
    /\ \A i \in 1..Len(new) :
        i + 1 \in 1..Len(calls) /\ i + 1 # 1 /\ new[i] = calls[i + 1]
    /\ \A j \in 1..Len(calls) : j # 1 =>
        \E i \in 1..Len(new) : new[i] = calls[j]
    /\ \A i \in 1..Len(new) : CallOK(new[i])
    /\ NotAgain(new, found) /\ CallsApart(new)

LEMMA WalkDrop ==
    ASSUME Tree, NEW calls, NEW found, WalkOK(calls, found, "walk"),
           calls # <<>>, NEW new, new = Tail(calls)
    PROVE  Dropped(calls, found, new)
<1>1. /\ calls \in Seq(CallType) /\ found \in Seq(FileType)
      /\ \A i \in 1..Len(calls) : CallOK(calls[i])
      /\ NotAgain(calls, found) /\ CallsApart(calls)
    BY DEF WalkOK
<1>2. PICK l \in Nat : l = Len(calls)
    BY <1>1, LenProperties
<1>3. l >= 1
    <2>1. Len(calls) # 0
        BY <1>1, EmptySeq
    <2> QED BY <1>2, <2>1
<1>4. /\ new \in Seq(CallType) /\ Len(new) = l - 1
      /\ \A i \in 1..l - 1 : new[i] = calls[i + 1]
    BY <1>1, <1>2, HeadTailProperties
<1>5. ASSUME NEW i \in 1..Len(new)
      PROVE  i + 1 \in 1..l /\ i + 1 # 1 /\ new[i] = calls[i + 1] /\ i \in Nat
    <2>1. i \in 1..l - 1
        BY <1>4
    <2> QED BY <1>4, <2>1
<1>6. ASSUME NEW j \in 1..l, j # 1
      PROVE  \E i \in 1..Len(new) : new[i] = calls[j]
    <2>1. j - 1 \in 1..l - 1 /\ j - 1 + 1 = j
        BY <1>6
    <2> QED BY <1>4, <2>1
<1>7. \A i \in 1..Len(new) : CallOK(new[i])
    BY <1>1, <1>2, <1>5
<1>8. NotAgain(new, found)
    BY <1>1, <1>2, <1>5 DEF NotAgain
<1>9. CallsApart(new)
    <2> SUFFICES ASSUME NEW i \in 1..Len(new), NEW j \in 1..Len(new), i # j,
                        NEW n \in Nodes,
                        StartsWith(n, Canonical(new[i].path)),
                        StartsWith(n, Canonical(new[j].path))
                 PROVE  Linked(n)
        BY DEF CallsApart
    <2>1. PICK x \in 1..Len(calls), y \in 1..Len(calls) :
            x # y /\ new[i] = calls[x] /\ new[j] = calls[y]
        <3>1. i + 1 # j + 1
            BY <1>5
        <3> QED BY <1>2, <1>5, <3>1
    <2> QED BY <1>1, <2>1 DEF CallsApart
<1> QED BY <1>2, <1>3, <1>4, <1>5, <1>6, <1>7, <1>8, <1>9 DEF Dropped

\* A file is below a node that is no directory only if it is that node.
LEMMA NotBelow ==
    ASSUME Tree, NEW q \in Nodes, kind[q] # "dir", NEW n \in Nodes,
           StartsWith(n, q)
    PROVE  n = q
<1>1. n \in AllNodes /\ q # Root /\ q \in PathTo(n)
    BY NodesAreNat DEF StartsWith
<1> QED BY <1>1, PathChild

\* What the first call is for.
LEMMA FirstCall ==
    ASSUME Tree, NEW calls, NEW found, WalkOK(calls, found, "walk"),
           calls # <<>>, NEW c, c = Head(calls)
    PROVE  /\ 1 \in 1..Len(calls) /\ calls[1] = c /\ CallOK(c) /\ c \in CallType
           /\ c.path \in Nodes /\ c.top \in AllNodes /\ c.above \subseteq Nodes
           /\ Canonical(c.path) \in Nodes \cup {Nowhere}
<1>1. calls \in Seq(CallType) /\ \A i \in 1..Len(calls) : CallOK(calls[i])
    BY DEF WalkOK
<1>2. Len(calls) \in Nat \ {0}
    BY <1>1, EmptySeq
<1>3. 1 \in 1..Len(calls) /\ calls[1] = c
    BY <1>1, <1>2
<1>4. CallOK(c) /\ c \in CallType
    BY <1>1, <1>3 DEF CallOK
<1>5. c.path \in Nodes /\ c.top \in AllNodes /\ c.above \subseteq Nodes
    BY <1>4 DEF CallType
<1> QED BY <1>3, <1>4, <1>5, CanonicalOf

\* A file that cannot be opened is left out.
LEMMA WalkSkip ==
    ASSUME Tree, NEW calls, NEW found, WalkOK(calls, found, "walk"),
           calls # <<>>, NEW c, c = Head(calls), NEW q \in Nodes,
           q = Canonical(c.path), kind[q] = "locked",
           NEW new, new = Tail(calls)
    PROVE  WalkOK(new, found, "walk")
<1>1. /\ new \in Seq(CallType) /\ \A i \in 1..Len(new) : CallOK(new[i])
      /\ \A j \in 1..Len(calls) : j # 1 => \E i \in 1..Len(new) : new[i] = calls[j]
      /\ NotAgain(new, found) /\ CallsApart(new)
    <2>1. Dropped(calls, found, new)
        BY WalkDrop
    <2> QED BY <2>1 DEF Dropped
<1>2. calls[1] = c
    BY FirstCall
<1>3. AllPending(calls, found)
    BY DEF WalkOK, Asked
<1>4. AllPending(new, found)
    <2> SUFFICES ASSUME NEW n \in Nodes, kind[n] = "file",
                        \E a \in Given : StartsWith(n, a)
                 PROVE  Pending(n, new, found)
        BY DEF AllPending
    <2>1. Pending(n, calls, found)
        BY <1>3 DEF AllPending
    <2>2. ASSUME NEW i \in 1..Len(calls),
                 StartsWith(n, Canonical(calls[i].path))
          PROVE  i # 1
        <3> SUFFICES ASSUME i = 1 PROVE FALSE
            OBVIOUS
        <3>1. StartsWith(n, q)
            BY <1>2, <2>2
        <3> QED BY <3>1, NotBelow
    <2> QED BY <1>1, <2>1, <2>2 DEF Pending
<1> QED BY <1>1, <1>4 DEF WalkOK, Asked

\* A file is put into the list.
LEMMA WalkFile ==
    ASSUME Tree, NEW calls, NEW found, WalkOK(calls, found, "walk"),
           calls # <<>>, NEW c, c = Head(calls), NEW q \in Nodes,
           q = Canonical(c.path), kind[q] = "file", StartsWith(q, c.top),
           NEW new, new = Tail(calls),
           NEW f, f = [local_path |-> q, public_path |-> PublicPath(c.top, q)],
           NEW longer, longer = Append(found, f)
    PROVE  WalkOK(new, longer, "walk")
<1>1. /\ new \in Seq(CallType) /\ \A i \in 1..Len(new) : CallOK(new[i])
      /\ \A i \in 1..Len(new) :
            i + 1 \in 1..Len(calls) /\ i + 1 # 1 /\ new[i] = calls[i + 1]
      /\ \A j \in 1..Len(calls) : j # 1 => \E i \in 1..Len(new) : new[i] = calls[j]
      /\ NotAgain(new, found) /\ CallsApart(new)
    <2>1. Dropped(calls, found, new)
        BY WalkDrop
    <2> QED BY <2>1 DEF Dropped
<1>2. 1 \in 1..Len(calls) /\ calls[1] = c /\ CallOK(c)
    BY FirstCall
<1>3. /\ AllPending(calls, found) /\ Passed /\ found \in Seq(FileType)
      /\ \A i \in 1..Len(found) : FileOK(found[i])
      /\ FilesOnce(found) /\ NotAgain(calls, found) /\ CallsApart(calls)
    BY DEF WalkOK, Asked
<1>4. q \in AllNodes /\ q # Nowhere
    BY NodesAreNat
<1>5. FileOK(f) /\ f \in FileType
    <2>1. PICK a \in Given : c.top = parent[a] /\ Found(q, a)
        BY <1>2, <1>4 DEF CallOK
    <2>2. PublicPath(c.top, q) \in Seq(Names)
        BY <1>4, PublicType
    <2>3. f \in FileType
        BY <2>2 DEF FileType
    <2>4. f.local_path = q /\ f.public_path = PublicPath(parent[a], q)
        BY <2>1
    <2> QED BY <2>1, <2>3, <2>4 DEF FileOK
<1>6. PICK k \in Nat : k = Len(found)
    BY <1>3, LenProperties
<1>7. /\ longer \in Seq(FileType) /\ Len(longer) = k + 1
      /\ \A i \in 1..k : longer[i] = found[i]
      /\ longer[k + 1] = f
    BY <1>3, <1>5, <1>6, AppendProperties
<1>8. f.local_path = q
    OBVIOUS
<1>9. ASSUME NEW i \in 1..Len(longer)
      PROVE  \/ i \in 1..Len(found) /\ longer[i] = found[i]
             \/ i = k + 1 /\ i \notin 1..Len(found) /\ longer[i] = f
    BY <1>6, <1>7
<1>10. \A i \in 1..Len(longer) : FileOK(longer[i])
    BY <1>3, <1>5, <1>9
<1>11. AllPending(new, longer)
    <2> SUFFICES ASSUME NEW n \in Nodes, kind[n] = "file",
                        \E a \in Given : StartsWith(n, a)
                 PROVE  Pending(n, new, longer)
        BY DEF AllPending
    <2>1. Pending(n, calls, found)
        BY <1>3 DEF AllPending
    <2>2. CASE \E i \in 1..Len(found) : found[i].local_path = n
        <3>1. PICK i \in 1..k : found[i].local_path = n
            BY <1>6, <2>2
        <3>2. i \in 1..Len(longer) /\ longer[i].local_path = n
            BY <1>7, <3>1
        <3> QED BY <3>2 DEF Pending
    <2>3. ASSUME NEW i \in 1..Len(calls), i # 1,
                 StartsWith(n, Canonical(calls[i].path))
          PROVE  Pending(n, new, longer)
        BY <1>1, <2>3 DEF Pending
    <2>4. CASE StartsWith(n, Canonical(calls[1].path))
        <3>1. StartsWith(n, q)
            BY <1>2, <2>4
        <3>2. n = q
            BY <3>1, NotBelow
        <3>3. k + 1 \in 1..Len(longer) /\ longer[k + 1].local_path = n
            BY <1>7, <1>8, <3>2
        <3> QED BY <3>3 DEF Pending
    <2> QED BY <2>1, <2>2, <2>3, <2>4 DEF Pending
<1>12. ASSUME NEW i \in 1..Len(found), found[i].local_path = q
       PROVE  Linked(q)
    <2>1. StartsWith(q, Canonical(calls[1].path))
        BY <1>2, <1>4, Below
    <2> QED BY <1>2, <1>3, <1>12, <2>1 DEF NotAgain
<1>13. FilesOnce(longer)
    <2> SUFFICES ASSUME NEW i \in 1..Len(longer), NEW j \in 1..Len(longer),
                        i # j, longer[i].local_path = longer[j].local_path
                 PROVE  Linked(longer[i].local_path)
        BY DEF FilesOnce
    <2>1. CASE i \in 1..Len(found) /\ j \in 1..Len(found)
        <3>1. longer[i] = found[i] /\ longer[j] = found[j]
            BY <1>9, <2>1
        <3> QED BY <1>3, <2>1, <3>1 DEF FilesOnce
    <2>2. CASE i \notin 1..Len(found)
        <3>1. longer[i] = f /\ j \in 1..Len(found) /\ longer[j] = found[j]
            BY <1>9, <2>2
        <3> QED BY <1>8, <1>12, <3>1
    <2>3. CASE j \notin 1..Len(found)
        <3>1. longer[j] = f /\ i \in 1..Len(found) /\ longer[i] = found[i]
            BY <1>9, <2>3
        <3> QED BY <1>8, <1>12, <3>1
    <2> QED BY <2>1, <2>2, <2>3
<1>14. NotAgain(new, longer)
    <2> SUFFICES ASSUME NEW i \in 1..Len(longer), NEW j \in 1..Len(new),
                        StartsWith(longer[i].local_path, Canonical(new[j].path))
                 PROVE  Linked(longer[i].local_path)
        BY DEF NotAgain
    <2>1. CASE i \in 1..Len(found) /\ longer[i] = found[i]
        BY <1>1, <2>1 DEF NotAgain
    <2>2. CASE longer[i] = f
        <3>1. PICK x \in 1..Len(calls) : x # 1 /\ new[j] = calls[x]
            BY <1>1
        <3>2. StartsWith(q, Canonical(calls[x].path))
            BY <1>8, <2>2, <3>1
        <3>3. StartsWith(q, Canonical(calls[1].path))
            BY <1>2, <1>4, Below
        <3>4. Linked(q)
            BY <1>2, <1>3, <3>1, <3>2, <3>3 DEF CallsApart
        <3> QED BY <1>8, <2>2, <3>4
    <2> QED BY <1>9, <2>1, <2>2
<1> QED BY <1>1, <1>3, <1>7, <1>10, <1>11, <1>13, <1>14 DEF WalkOK, Asked

\* A directory is read again only because of a link to a directory.
LEMMA AboveNeedsLink ==
    ASSUME Tree, NEW calls, NEW found, WalkOK(calls, found, "walk"),
           calls # <<>>, NEW c, c = Head(calls), NEW q \in Nodes,
           q = Canonical(c.path), kind[q] = "dir", ~DirLink
    PROVE  c.path = q /\ c.above \subseteq PathTo(parent[q]) /\ q \notin c.above
<1>1. CallOK(c) /\ c.path \in Nodes
    BY FirstCall
<1>2. c.path \notin Links
    <2> SUFFICES ASSUME c.path \in Links PROVE FALSE
        OBVIOUS
    <2>1. target[c.path] = q
        BY DEF Canonical
    <2> QED BY <2>1, NodesAreNat DEF DirLink
<1>3. c.path = q
    BY <1>1, <1>2, CanonicalOf
<1>4. c.above \subseteq PathTo(parent[q])
    BY <1>1, <1>3 DEF CallOK
<1>5. /\ parent[q] \in AllNodes /\ parent[q] < q
      /\ parent[q] \in Nat /\ q \in Nat
    BY Upward
<1>6. q \notin PathTo(parent[q])
    <2> SUFFICES ASSUME q \in PathTo(parent[q]) PROVE FALSE
        OBVIOUS
    <2>1. q <= parent[q]
        BY <1>5, PathBasics
    <2> QED BY <1>5, <2>1
<1> QED BY <1>3, <1>4, <1>6

\* strip_prefix fails only because of a link out of the directory.
LEMMA PanicNeedsLink ==
    ASSUME Tree, NEW calls, NEW found, WalkOK(calls, found, "walk"),
           calls # <<>>, NEW c, c = Head(calls), NEW q \in Nodes,
           q = Canonical(c.path), ~StartsWith(q, c.top)
    PROVE  \E l \in Links, a \in Given :
                target[l] # Nowhere /\ ~StartsWith(target[l], parent[a])
<1>1. CallOK(c)
    BY FirstCall
<1>2. q \in AllNodes /\ q # Nowhere
    BY NodesAreNat
<1>3. PICK a \in Given : c.top = parent[a] /\ Found(q, a)
    BY <1>1, <1>2 DEF CallOK
<1>4. a \in Nodes
    BY GivenAre DEF WalkOK
<1>5. ~StartsWith(q, a)
    <2> SUFFICES ASSUME StartsWith(q, a) PROVE FALSE
        OBVIOUS
    <2>1. StartsWith(a, parent[a])
        BY <1>4, Below
    <2>2. StartsWith(q, parent[a])
        BY <1>2, <2>1, Below
    <2> QED BY <1>3, <2>2
<1>6. PICK l \in Links : target[l] # Nowhere /\ StartsWith(q, target[l])
    BY <1>3, <1>5 DEF Found, Linked
<1>7. ~StartsWith(target[l], parent[a])
    BY <1>2, <1>3, <1>6, Below
<1> QED BY <1>6, <1>7

\* What read_dir returns: every entry of the directory, once.
Listing(d, k, entries) ==
    /\ DOMAIN entries = 1..k
    /\ \A i \in 1..k : entries[i] \in Nodes /\ parent[entries[i]] = d
    /\ \A i, j \in 1..k : entries[i] = entries[j] => i = j
    /\ \A e \in Nodes : parent[e] = d => \E i \in 1..k : entries[i] = e

LEMMA EntriesAre ==
    ASSUME NEW d, NEW entries \in Entries(d)
    PROVE  \E k \in Nat : Listing(d, k, entries)
<1> DEFINE inside == {n \in Nodes : parent[n] = d}
<1>1. IsFiniteSet(inside)
    <2>1. inside \in SUBSET Nodes /\ IsFiniteSet(Nodes)
        BY FileDialogAssumption
    <2> HIDE DEF inside
    <2> QED BY <2>1, FS_Subset
<1>2. PICK k \in Nat : k = Cardinality(inside)
    <2> HIDE DEF inside
    <2> QED BY <1>1, FS_CardinalityType
<1>3. entries \in Bijection(1..k, inside)
    BY <1>2 DEF Entries
<1>4. /\ entries \in [1..k -> inside]
      /\ \A i, j \in 1..k : entries[i] = entries[j] => i = j
      /\ \A e \in inside : \E i \in 1..k : entries[i] = e
    <2> HIDE DEF inside
    <2> QED BY <1>3 DEF Bijection, Injection, Surjection, IsInjective
<1>5. DOMAIN entries = 1..k /\ \A i \in 1..k : entries[i] \in inside
    <2> HIDE DEF inside
    <2> QED BY <1>4
<1> QED BY <1>4, <1>5 DEF Listing

\* The calls for the entries of a directory, c being the call that reads it.
EntryCall(c, d, e) == [top |-> c.top, path |-> e, above |-> c.above \cup {d}]

CallsFor(c, d, k, entries, more) ==
    \A i \in 1..k : more[i] = EntryCall(c, d, entries[i])

\* A directory is read.
LEMMA WalkEntries ==
    ASSUME Tree, NEW calls, NEW found, WalkOK(calls, found, "walk"),
           calls # <<>>, NEW c, c = Head(calls), NEW d \in Nodes,
           d = Canonical(c.path), kind[d] = "dir",
           NEW k \in Nat, NEW entries, Listing(d, k, entries),
           NEW more, CallsFor(c, d, k, entries, more),
           NEW new, IsPushed(calls, k, more, new)
    PROVE  WalkOK(new, found, "walk")
<1>1. /\ \A i \in 1..k : entries[i] \in Nodes /\ parent[entries[i]] = d
      /\ \A i, j \in 1..k : entries[i] = entries[j] => i = j
      /\ \A e \in Nodes : parent[e] = d => \E i \in 1..k : entries[i] = e
    BY DEF Listing
<1>2. /\ 1 \in 1..Len(calls) /\ calls[1] = c /\ CallOK(c)
      /\ c.top \in AllNodes /\ c.above \subseteq Nodes
    BY FirstCall
<1>3. /\ AllPending(calls, found) /\ Passed /\ calls \in Seq(CallType)
      /\ found \in Seq(FileType)
      /\ \A i \in 1..Len(calls) : CallOK(calls[i])
      /\ \A i \in 1..Len(found) : FileOK(found[i])
      /\ FilesOnce(found) /\ NotAgain(calls, found) /\ CallsApart(calls)
    BY DEF WalkOK, Asked
<1>4. d \in AllNodes /\ d # Nowhere /\ Nodes \subseteq AllNodes
    BY NodesAreNat
<1>5. ASSUME NEW i \in 1..k
      PROVE  /\ more[i] \in CallType /\ more[i].top = c.top
             /\ more[i].path = entries[i] /\ more[i].above = c.above \cup {d}
    <2>1. more[i] = [top |-> c.top, path |-> entries[i],
                     above |-> c.above \cup {d}]
        BY DEF CallsFor, EntryCall
    <2>2. c.above \cup {d} \in SUBSET Nodes
        BY <1>2
    <2> QED BY <1>1, <1>2, <2>1, <2>2 DEF CallType
<1>6. /\ new \in Seq(CallType)
      /\ \A i \in 1..Len(new) :
            \/ i \in 1..k /\ new[i] = more[i]
            \/ \E j \in 1..Len(calls) :
                    j # 1 /\ i = k + j - 1 /\ new[i] = calls[j]
      /\ \A i \in 1..k : i \in 1..Len(new) /\ new[i] = more[i]
      /\ \A j \in 1..Len(calls) : j # 1 => \E i \in 1..Len(new) : new[i] = calls[j]
    BY DEF IsPushed
\* A node below where the call for an entry leads.
<1>7. ASSUME NEW i \in 1..k, NEW n \in Nodes,
             StartsWith(n, Canonical(more[i].path))
      PROVE  \/ Linked(n)
             \/ StartsWith(n, entries[i]) /\ StartsWith(n, Canonical(calls[1].path))
    <2>1. PICK e \in Nodes : e = entries[i] /\ parent[e] = d
        BY <1>1
    <2>2. StartsWith(n, Canonical(e)) /\ n \in AllNodes
        BY <1>4, <1>5, <1>7, <2>1
    <2>3. Linked(n) \/ (StartsWith(n, e) /\ StartsWith(n, d))
        BY <1>4, <2>1, <2>2, EntryCovers
    <2> QED BY <1>2, <2>1, <2>3
<1>8. ASSUME NEW i \in 1..k PROVE CallOK(more[i])
    <2>1. PICK e \in Nodes : e = entries[i] /\ parent[e] = d
        BY <1>1
    <2>2. /\ more[i] \in CallType /\ more[i].top = c.top /\ more[i].path = e
          /\ more[i].above = c.above \cup {d}
        BY <1>5, <2>1
    <2>3. PICK a \in Given : c.top = parent[a] /\ Found(d, a)
        BY <1>2, <1>4 DEF CallOK
    <2>4. ASSUME Canonical(e) # Nowhere PROVE Found(Canonical(e), a)
        <3>1. PICK n \in Nodes : n = Canonical(e)
            BY <2>4, CanonicalOf
        <3>2. n \in AllNodes /\ StartsWith(n, n)
            BY <1>4, Below
        <3>3. Linked(n) \/ StartsWith(n, d)
            BY <1>4, <2>1, <3>1, <3>2, EntryCovers
        <3>4. CASE Linked(n)
            BY <3>1, <3>4 DEF Found
        <3>5. CASE StartsWith(n, d) /\ StartsWith(d, a)
            BY <3>1, <3>2, <3>5, Below DEF Found
        <3>6. CASE StartsWith(n, d) /\ Linked(d)
            BY <3>1, <3>2, <3>6, Below DEF Found
        <3> QED BY <2>3, <3>3, <3>4, <3>5, <3>6 DEF Found
    <2>5. DirLink \/ c.above \cup {d} \subseteq PathTo(d)
        <3> SUFFICES ASSUME ~DirLink PROVE c.above \cup {d} \subseteq PathTo(d)
            OBVIOUS
        <3>1. c.above \subseteq PathTo(parent[d])
            BY AboveNeedsLink
        <3>2. PathTo(d) = {d} \cup PathTo(parent[d])
            BY PathSteps
        <3> QED BY <3>1, <3>2
    <2> QED BY <2>1, <2>2, <2>3, <2>4, <2>5 DEF CallOK
<1>9. \A i \in 1..Len(new) : CallOK(new[i])
    BY <1>3, <1>6, <1>8
<1>10. AllPending(new, found)
    <2> SUFFICES ASSUME NEW n \in Nodes, kind[n] = "file",
                        \E a \in Given : StartsWith(n, a)
                 PROVE  Pending(n, new, found)
        BY DEF AllPending
    <2>1. Pending(n, calls, found)
        BY <1>3 DEF AllPending
    <2>2. CASE \E i \in 1..Len(found) : found[i].local_path = n
        BY <2>2 DEF Pending
    <2>3. ASSUME NEW i \in 1..Len(calls), i # 1,
                 StartsWith(n, Canonical(calls[i].path))
          PROVE  Pending(n, new, found)
        BY <1>6, <2>3 DEF Pending
    <2>4. CASE StartsWith(n, Canonical(calls[1].path))
        <3>1. d \in PathTo(n) /\ d # n /\ n \in AllNodes
            BY <1>2, <1>4, <2>4 DEF StartsWith
        <3>2. PICK e \in Nodes : parent[e] = d /\ e \in PathTo(n)
            BY <3>1, PathChild
        <3>3. kind[e] # "link"
            <4>1. CASE e = n
                BY <4>1
            <4>2. CASE e # n
                <5>1. e # Root
                    BY NodesAreNat
                <5>2. kind[e] = "dir"
                    BY <3>1, <3>2, <4>2, <5>1, PathChild
                <5> QED BY <5>2
            <4> QED BY <4>1, <4>2
        <3>4. Canonical(e) = e
            BY <3>3 DEF Canonical, Links
        <3>5. PICK i \in 1..k : entries[i] = e
            BY <1>1, <3>2
        <3>6. i \in 1..Len(new) /\ new[i].path = e
            BY <1>5, <1>6, <3>5
        <3>7. StartsWith(n, Canonical(new[i].path))
            BY <3>2, <3>4, <3>6 DEF StartsWith
        <3> QED BY <3>6, <3>7 DEF Pending
    <2> QED BY <2>1, <2>2, <2>3, <2>4 DEF Pending
<1>11. NotAgain(new, found)
    <2> SUFFICES ASSUME NEW i \in 1..Len(found), NEW j \in 1..Len(new),
                        StartsWith(found[i].local_path, Canonical(new[j].path))
                 PROVE  Linked(found[i].local_path)
        BY DEF NotAgain
    <2>1. PICK n \in Nodes : n = found[i].local_path
        BY <1>3 DEF FileOK, FileType
    <2>2. CASE j \in 1..k /\ new[j] = more[j]
        <3>1. Linked(n) \/ StartsWith(n, Canonical(calls[1].path))
            BY <1>7, <2>1, <2>2
        <3> QED BY <1>2, <1>3, <2>1, <3>1 DEF NotAgain
    <2>3. CASE \E x \in 1..Len(calls) : new[j] = calls[x]
        BY <1>3, <2>3 DEF NotAgain
    <2> QED BY <1>6, <2>2, <2>3
<1>12. CallsApart(new)
    <2>1. ASSUME NEW i \in 1..k, NEW j \in 1..k, i # j, NEW n \in Nodes,
                 StartsWith(n, Canonical(more[i].path)),
                 StartsWith(n, Canonical(more[j].path))
          PROVE  Linked(n)
        <3> SUFFICES ASSUME ~Linked(n) PROVE FALSE
            OBVIOUS
        <3>1. StartsWith(n, entries[i]) /\ StartsWith(n, entries[j])
            BY <1>7, <2>1
        <3>2. /\ entries[i] \in Nodes /\ entries[j] \in Nodes
              /\ parent[entries[i]] = parent[entries[j]]
            BY <1>1
        <3>3. entries[i] = entries[j]
            BY <1>4, <3>1, <3>2, PathSiblings DEF StartsWith
        <3> QED BY <1>1, <2>1, <3>3
    <2>2. ASSUME NEW i \in 1..k, NEW x \in 1..Len(calls), x # 1,
                 NEW n \in Nodes,
                 StartsWith(n, Canonical(more[i].path)),
                 StartsWith(n, Canonical(calls[x].path))
          PROVE  Linked(n)
        <3>1. Linked(n) \/ StartsWith(n, Canonical(calls[1].path))
            BY <1>7, <2>2
        <3> QED BY <1>2, <1>3, <2>2, <3>1 DEF CallsApart
    <2> SUFFICES ASSUME NEW i \in 1..Len(new), NEW j \in 1..Len(new), i # j,
                        NEW n \in Nodes,
                        StartsWith(n, Canonical(new[i].path)),
                        StartsWith(n, Canonical(new[j].path))
                 PROVE  Linked(n)
        BY DEF CallsApart
    <2>3. \/ i \in 1..k /\ new[i] = more[i]
          \/ \E x \in 1..Len(calls) : x # 1 /\ i = k + x - 1 /\ new[i] = calls[x]
        BY <1>6
    <2>4. \/ j \in 1..k /\ new[j] = more[j]
          \/ \E x \in 1..Len(calls) : x # 1 /\ j = k + x - 1 /\ new[j] = calls[x]
        BY <1>6
    <2>5. CASE i \in 1..k /\ new[i] = more[i]
        BY <2>1, <2>2, <2>4, <2>5
    <2>6. CASE j \in 1..k /\ new[j] = more[j]
        BY <2>1, <2>2, <2>3, <2>6
    <2>7. ASSUME NEW x \in 1..Len(calls), NEW y \in 1..Len(calls),
                 i = k + x - 1, new[i] = calls[x],
                 j = k + y - 1, new[j] = calls[y]
          PROVE  Linked(n)
        <3>1. x # y
            BY <2>7
        <3> QED BY <1>3, <2>7, <3>1 DEF CallsApart
    <2> QED BY <2>3, <2>4, <2>5, <2>6, <2>7
<1> QED BY <1>3, <1>6, <1>9, <1>10, <1>11, <1>12 DEF WalkOK, Asked

EntryCalls(c, d, entries) ==
    [i \in DOMAIN entries |-> Call(c.top, entries[i], c.above \cup {d})]

LEMMA WalkDir ==
    ASSUME Tree, NEW calls, NEW found, WalkOK(calls, found, "walk"),
           calls # <<>>, NEW c, c = Head(calls), NEW d \in Nodes,
           d = Canonical(c.path), kind[d] = "dir", NEW entries \in Entries(d),
           NEW more, more = EntryCalls(c, d, entries),
           NEW new, new = more \o Tail(calls)
    PROVE  WalkOK(new, found, "walk")
<1>1. PICK k \in Nat : Listing(d, k, entries)
    BY EntriesAre
<1>2. /\ more = [i \in 1..k |-> EntryCall(c, d, entries[i])]
      /\ \A i \in 1..k : more[i] = EntryCall(c, d, entries[i])
    BY <1>1 DEF Listing, EntryCall, EntryCalls, Call
<1>3. c.top \in AllNodes /\ c.above \subseteq Nodes /\ calls \in Seq(CallType)
    BY FirstCall DEF WalkOK
<1>4. ASSUME NEW i \in 1..k PROVE EntryCall(c, d, entries[i]) \in CallType
    <2>1. entries[i] \in Nodes /\ c.above \cup {d} \in SUBSET Nodes
        BY <1>1, <1>3 DEF Listing
    <2> QED BY <1>3, <2>1 DEF EntryCall, CallType
<1>5. more \in Seq(CallType) /\ Len(more) = k
    <2>1. more \in [1..k -> CallType]
        BY <1>2, <1>4
    <2> QED BY <2>1, IsSequence
<1>6. IsPushed(calls, k, more, new)
    BY <1>3, <1>5, Pushed
<1>7. CallsFor(c, d, k, entries, more)
    BY <1>2 DEF CallsFor
<1> QED BY <1>1, <1>6, <1>7, WalkEntries

----------------------------------------------------------------------------
\* The steps of the dialog

\* Nothing that is said of the file system changes with the walk.
LEMMA SameTree ==
    ASSUME UNCHANGED <<treeVars, paths>>
    PROVE  /\ Tree => Tree'
           /\ \A calls, found, d :
                WalkOK(calls, found, d) => WalkOK(calls, found, d)'
<1>1. /\ parent' = parent /\ name' = name /\ kind' = kind
      /\ target' = target /\ paths' = paths
    BY DEF treeVars
<1>2. Links' = Links
    BY <1>1 DEF Links
<1>3. \A n : Canonical(n)' = Canonical(n)
    BY <1>1, <1>2 DEF Canonical
<1>4. \A n : PathTo(n)' = PathTo(n)
    BY <1>1 DEF PathTo
<1>5. \A n, m : StartsWith(n, m)' = StartsWith(n, m)
    BY <1>4 DEF StartsWith
<1>6. \A t, n : PublicPath(t, n)' = PublicPath(t, n)
    BY <1>1 DEF PublicPath
<1>7. Given' = Given
    BY <1>1, <1>3 DEF Given
<1>8. \A n : Linked(n)' = Linked(n)
    BY <1>1, <1>2, <1>5 DEF Linked
<1>9. Passed' = Passed
    BY <1>1, <1>3, <1>5 DEF Passed, Overlap
<1>10. DirLink' = DirLink
    BY <1>1, <1>2 DEF DirLink
<1>11. \A n, a : Found(n, a)' = Found(n, a)
    BY <1>5, <1>8 DEF Found
<1>12. \A c : CallOK(c)' = CallOK(c)
    BY <1>1, <1>3, <1>4, <1>7, <1>10, <1>11 DEF CallOK
<1>13. \A f : FileOK(f)' = FileOK(f)
    BY <1>1, <1>5, <1>6, <1>7, <1>11 DEF FileOK
<1>14. \A calls, found : AllPending(calls, found)' = AllPending(calls, found)
    BY <1>1, <1>3, <1>5, <1>7 DEF AllPending, Pending
<1>15. /\ \A found : FilesOnce(found)' = FilesOnce(found)
       /\ \A calls, found : NotAgain(calls, found)' = NotAgain(calls, found)
       /\ \A calls : CallsApart(calls)' = CallsApart(calls)
    BY <1>3, <1>5, <1>8 DEF FilesOnce, NotAgain, CallsApart
<1>16. ASSUME NEW calls, NEW found, NEW d, WalkOK(calls, found, d)
       PROVE  WalkOK(calls, found, d)'
    BY <1>1, <1>2, <1>5, <1>7, <1>9, <1>10, <1>12, <1>13, <1>14, <1>15, <1>16
       DEF WalkOK
<1>17. Tree => Tree'
    BY <1>1, <1>2 DEF Tree
<1> QED BY <1>16, <1>17

\* The walk has not begun, or WalkOK holds.
Begun == \E calls \in {stack}, found \in {files}, d \in {dialog} :
            WalkOK(calls, found, d)

SendInv ==
    /\ command # "send" => dialog = "none" /\ files = <<>>
    /\ command = "send" =>
        /\ Tree
        /\ dialog \in Dialogs \ {"none"}
        /\ \/ dialog \in {"check", "refused"} /\ stack = <<>> /\ files = <<>>
           \/ dialog # "check" /\ Begun

LEMMA SendInit == Init => SendInv
<1> SUFFICES ASSUME Init PROVE SendInv
    OBVIOUS
<1>1. CASE command # "send"
    BY <1>1 DEF Init, DialogIdle, SendInv
<1>2. CASE command = "send"
    <2>1. DialogInit
        BY <1>2 DEF Init
    <2>2. paths \in Seq(Nodes)
        <3>1. PICK m \in 0..MaxArgs : paths \in [1..m -> Nodes]
            BY <2>1 DEF DialogInit
        <3>2. m \in Nat
            BY FileDialogAssumption
        <3> QED BY <3>1, <3>2, IsSequence
    <2>3. Tree
        BY <2>1, <2>2 DEF DialogInit, Tree, AllNodes
    <2>4. dialog = "check" /\ stack = <<>> /\ files = <<>>
        BY <2>1 DEF DialogInit
    <2> QED BY <1>2, <2>3, <2>4 DEF SendInv, Dialogs
<1> QED BY <1>1, <1>2

\* A step of confirm_send.
LEMMA DialogStep ==
    ASSUME SendInv, command = "send", command' = command, ConfirmSend
    PROVE  SendInv'
<1>1. UNCHANGED <<treeVars, paths>>
    BY DEF ConfirmSend, CheckPaths, Visit, Prompt, Answer
<1>2. Tree
    BY DEF SendInv
<1>3. Tree' /\ \A calls, found, d :
                    WalkOK(calls, found, d) => WalkOK(calls, found, d)'
    BY <1>1, <1>2, SameTree
<1>4. PICK calls, found : calls = stack' /\ found = files'
    OBVIOUS
<1>5. SUFFICES /\ dialog' \in Dialogs \ {"none", "check"}
               /\ \/ dialog' = "refused" /\ calls = <<>> /\ found = <<>>
                  \/ \E d \in {dialog'} : WalkOK(calls, found, d)
    BY <1>3, <1>4 DEF SendInv, Begun
<1>6. CASE CheckPaths
    <2>1. dialog = "check" /\ stack = <<>> /\ files = <<>> /\ files' = files
        BY <1>6 DEF CheckPaths, SendInv
    <2>2. CASE Passed
        <3>1. dialog' = "walk" /\ stack' = [i \in DOMAIN paths |->
                            Call(TopPath(i), Canonical(paths[i]), {})]
            BY <1>6, <2>2 DEF CheckPaths, Passed
        <3>2. WalkOK(calls, <<>>, "walk")
            BY <1>2, <1>4, <2>2, <3>1, WalkBegin
        <3> QED BY <1>4, <2>1, <3>1, <3>2 DEF Dialogs
    <2>3. CASE ~Passed
        <3>1. dialog' = "refused" /\ stack' = stack
            BY <1>6, <2>3 DEF CheckPaths, Passed
        <3> QED BY <1>4, <2>1, <3>1 DEF Dialogs
    <2> QED BY <2>2, <2>3
<1>7. CASE Visit
    <2>1. dialog = "walk" /\ stack # <<>>
        BY <1>7 DEF Visit
    <2>2. PICK old, list : /\ old = stack /\ list = files
                           /\ WalkOK(old, list, "walk") /\ old # <<>>
        BY <2>1 DEF SendInv, Begun
    <2>3. PICK c, q : c = Head(old) /\ q = Canonical(c.path)
        OBVIOUS
    <2>4. q \in Nodes \cup {Nowhere} /\ c.path \in Nodes
        BY <1>2, <2>2, <2>3, FirstCall
    <2>5. \/ dialog' = "refused" /\ stack' = stack /\ files' = files
          \/ q # Nowhere /\ kind[q] = "dir" /\ VisitDir(c, q)
          \/ q # Nowhere /\ kind[q] = "file" /\ VisitFile(c, q)
          \/ q # Nowhere /\ kind[q] = "locked" /\ Skip
        BY <1>7, <2>2, <2>3 DEF Visit
    <2>6. CASE dialog' = "refused" /\ stack' = stack /\ files' = files
        <3>1. WalkOK(old, list, "refused")
            BY <2>2 DEF WalkOK, Asked
        <3> QED BY <1>4, <2>2, <2>6, <3>1 DEF Dialogs
    <2>7. CASE q # Nowhere /\ kind[q] = "dir" /\ VisitDir(c, q)
        <3>1. q \in Nodes /\ files' = files
            BY <2>4, <2>7 DEF VisitDir
        <3>2. CASE q \in c.above
            <4>1. dialog' \in {"refused", "overflow"} /\ stack' = stack
                BY <2>7, <3>2 DEF VisitDir
            <4>2. DirLink
                BY <1>2, <2>2, <2>3, <2>7, <3>1, <3>2, AboveNeedsLink
            <4>3. WalkOK(old, list, "refused") /\ WalkOK(old, list, "overflow")
                BY <2>2, <4>2 DEF WalkOK, Asked
            <4> QED BY <1>4, <2>2, <3>1, <4>1, <4>3 DEF Dialogs
        <3>3. CASE q \notin c.above
            <4>1. dialog' = dialog
                BY <2>7, <3>3 DEF VisitDir
            <4>2. PICK entries \in Entries(q) :
                    stack' = [i \in DOMAIN entries |->
                                Call(c.top, entries[i], c.above \cup {q})]
                             \o Tail(stack)
                BY <2>7, <3>3 DEF VisitDir
            <4>3. PICK more : more = EntryCalls(c, q, entries)
                OBVIOUS
            <4>4. calls = more \o Tail(old)
                BY <1>4, <2>2, <4>2, <4>3 DEF EntryCalls
            <4>5. WalkOK(calls, list, "walk")
                BY <1>2, <2>2, <2>3, <2>7, <3>1, <4>3, <4>4, WalkDir
            <4> QED BY <1>4, <2>1, <2>2, <3>1, <4>1, <4>5 DEF Dialogs
        <3> QED BY <3>2, <3>3
    <2>8. CASE q # Nowhere /\ kind[q] = "file" /\ VisitFile(c, q)
        <3>1. q \in Nodes
            BY <2>4, <2>8
        <3>2. CASE StartsWith(q, c.top)
            <4>1. PICK f : f = [local_path |-> q,
                                public_path |-> PublicPath(c.top, q)]
                OBVIOUS
            <4>2. /\ found = Append(list, f) /\ calls = Tail(old)
                  /\ dialog' = dialog
                BY <1>4, <2>2, <2>8, <3>2, <4>1 DEF VisitFile
            <4>3. WalkOK(calls, found, "walk")
                BY <1>2, <2>2, <2>3, <2>8, <3>1, <3>2, <4>1, <4>2, WalkFile
            <4> QED BY <2>1, <4>2, <4>3 DEF Dialogs
        <3>3. CASE ~StartsWith(q, c.top)
            <4>1. dialog' = "panic" /\ stack' = stack /\ files' = files
                BY <2>8, <3>3 DEF VisitFile
            <4>2. \E l \in Links, a \in Given :
                    target[l] # Nowhere /\ ~StartsWith(target[l], parent[a])
                BY <1>2, <2>2, <2>3, <3>1, <3>3, PanicNeedsLink
            <4>3. WalkOK(old, list, "panic")
                BY <2>2, <4>2 DEF WalkOK, Asked
            <4> QED BY <1>4, <2>2, <4>1, <4>3 DEF Dialogs
        <3> QED BY <3>2, <3>3
    <2>9. CASE q # Nowhere /\ kind[q] = "locked" /\ Skip
        <3>1. q \in Nodes
            BY <2>4, <2>9
        <3>2. calls = Tail(old) /\ found = list /\ dialog' = dialog
            BY <1>4, <2>2, <2>9 DEF Skip
        <3>3. WalkOK(calls, list, "walk")
            BY <1>2, <2>2, <2>3, <2>9, <3>1, <3>2, WalkSkip
        <3> QED BY <2>1, <3>2, <3>3 DEF Dialogs
    <2> QED BY <2>5, <2>6, <2>7, <2>8, <2>9
<1>8. CASE Prompt
    <2>1. /\ dialog = "walk" /\ stack = <<>> /\ dialog' = "prompt"
          /\ stack' = stack /\ files' = files
        BY <1>8 DEF Prompt
    <2>2. WalkOK(calls, found, "walk")
        BY <1>4, <2>1 DEF SendInv, Begun
    <2>3. WalkOK(calls, found, "prompt")
        BY <1>4, <2>1, <2>2 DEF WalkOK, Asked
    <2> QED BY <2>1, <2>3 DEF Dialogs
<1>9. ASSUME NEW response, Answer(response)
      PROVE  /\ dialog' \in Dialogs \ {"none", "check"}
             /\ \E d \in {dialog'} : WalkOK(calls, found, d)
    <2>1. /\ dialog = "prompt" /\ dialog' \in {"accepted", "cancelled"}
          /\ stack' = stack /\ files' = files
        BY <1>9 DEF Answer
    <2>2. WalkOK(calls, found, "prompt")
        BY <1>4, <2>1 DEF SendInv, Begun
    <2>3. WalkOK(calls, found, "accepted") /\ WalkOK(calls, found, "cancelled")
        BY <2>2 DEF WalkOK, Asked
    <2> QED BY <2>1, <2>3 DEF Dialogs
<1> QED BY <1>6, <1>7, <1>8, <1>9 DEF ConfirmSend

LEMMA SendNext == SendInv /\ [Next]_vars => SendInv'
<1> SUFFICES ASSUME SendInv, [Next]_vars PROVE SendInv'
    OBVIOUS
<1>1. command' = command
    BY DEF Next, AskFiles, NoFiles, StartRoom, JoinRoom, NoServer, vars
<1>2. CASE UNCHANGED dialogVars
    <2>1. UNCHANGED <<treeVars, paths>> /\ UNCHANGED <<dialog, stack, files>>
        BY <1>2 DEF dialogVars
    <2>2. /\ Tree => Tree'
          /\ \A calls, found, d :
                WalkOK(calls, found, d) => WalkOK(calls, found, d)'
        BY <2>1, SameTree
    <2>3. Begun => Begun'
        BY <2>1, <2>2 DEF Begun
    <2> QED BY <1>1, <2>1, <2>2, <2>3 DEF SendInv
<1>3. CASE AskFiles
    <2>1. ConfirmSend
        BY <1>3 DEF AskFiles
    <2>2. command = "send"
        BY <2>1 DEF SendInv, ConfirmSend, CheckPaths, Visit, Prompt, Answer
    <2> QED BY <1>1, <2>1, <2>2, DialogStep
<1>4. AskFiles \/ UNCHANGED dialogVars
    BY DEF Next, NoFiles, StartRoom, JoinRoom, NoServer, vars
<1> QED BY <1>2, <1>3, <1>4

----------------------------------------------------------------------------
\* The theorems

\* What SendInv says of the list and of where the dialog is.
LEMMA WalkFacts ==
    ASSUME SendInv
    PROVE  \/ files = <<>> /\ dialog \in {"none", "check", "refused"}
           \/ /\ command = "send" /\ Tree
              /\ \E calls \in {stack}, found \in {files}, d \in {dialog} :
                    WalkOK(calls, found, d)
    BY DEF SendInv, Begun

LEMMA ListedInv == SendInv => ListedOnce
<1> SUFFICES ASSUME SendInv PROVE ListedOnce
    OBVIOUS
<1>1. CASE files = <<>> /\ dialog \in {"none", "check", "refused"}
    BY <1>1 DEF ListedOnce, Listed
<1>2. ASSUME Tree, NEW calls, NEW found, NEW d, calls = stack, found = files,
             d = dialog, WalkOK(calls, found, d)
      PROVE  ListedOnce
    <2>1. /\ found \in Seq(FileType) /\ DOMAIN found = 1..Len(found)
          /\ \A i \in 1..Len(found) : FileOK(found[i])
          /\ FilesOnce(found)
        BY <1>2, LenProperties DEF WalkOK
    <2>2. ASSUME Listed, NEW n \in Nodes, kind[n] = "file",
                 \E a \in Given : StartsWith(n, a)
          PROVE  \E i \in DOMAIN found : found[i].local_path = n
        <3>1. d \in Asked
            BY <1>2, <2>2 DEF Listed, Asked
        <3>2. AllPending(calls, found) /\ calls = <<>>
            BY <1>2, <3>1 DEF WalkOK
        <3>3. Pending(n, <<>>, found)
            BY <2>2, <3>2 DEF AllPending
        <3> QED BY <2>1, <3>3 DEF Pending
    <2>3. ASSUME NEW i \in DOMAIN found
          PROVE  \/ \E a \in Given : StartsWith(found[i].local_path, a)
                 \/ Linked(found[i].local_path)
        BY <2>1 DEF FileOK, Found
    <2>4. \A i, j \in DOMAIN found :
            i # j /\ found[i].local_path = found[j].local_path =>
                Linked(found[i].local_path)
        BY <2>1 DEF FilesOnce
    <2> QED BY <1>2, <2>2, <2>3, <2>4 DEF ListedOnce
<1> QED BY <1>1, <1>2, WalkFacts

LEMMA CrashInv == SendInv => CrashNeedsLink
<1> SUFFICES ASSUME SendInv PROVE CrashNeedsLink
    OBVIOUS
<1>1. CASE files = <<>> /\ dialog \in {"none", "check", "refused"}
    BY <1>1 DEF CrashNeedsLink
<1>2. ASSUME NEW calls, NEW found, NEW d, d = dialog, WalkOK(calls, found, d)
      PROVE  CrashNeedsLink
    BY <1>2 DEF WalkOK, CrashNeedsLink, DirLink
<1> QED BY <1>1, <1>2, WalkFacts

LEMMA PublicInv == SendInv => PublicPathsDiffer
<1> SUFFICES ASSUME SendInv PROVE PublicPathsDiffer
    OBVIOUS
<1>1. CASE files = <<>> /\ dialog \in {"none", "check", "refused"}
    BY <1>1 DEF PublicPathsDiffer
<1>2. ASSUME Tree, NEW calls, NEW found, NEW d, calls = stack, found = files,
             d = dialog, WalkOK(calls, found, d)
      PROVE  PublicPathsDiffer
    <2>1. /\ found \in Seq(FileType) /\ DOMAIN found = 1..Len(found)
          /\ \A i \in 1..Len(found) : FileOK(found[i])
          /\ Given \subseteq Nodes
        BY <1>2, LenProperties, GivenAre DEF WalkOK
    <2>2. ASSUME NEW i \in DOMAIN found, NEW j \in DOMAIN found,
                 found[i].public_path = found[j].public_path,
                 found[i].local_path # found[j].local_path
          PROVE  \E a, b \in Given :
                    /\ parent[a] # parent[b]
                    /\ \/ name[a] = name[b]
                       \/ Linked(found[i].local_path)
                       \/ Linked(found[j].local_path)
        <3>1. PICK n \in Nodes, m \in Nodes :
                n = found[i].local_path /\ m = found[j].local_path
            BY <2>1 DEF FileOK, FileType
        <3>2. n \in AllNodes /\ m \in AllNodes /\ n # m
            BY <2>2, <3>1, NodesAreNat
        <3>3. PICK a \in Given :
                /\ StartsWith(n, parent[a]) /\ Found(n, a)
                /\ found[i].public_path = PublicPath(parent[a], n)
            BY <2>1, <3>1 DEF FileOK
        <3>4. PICK b \in Given :
                /\ StartsWith(m, parent[b]) /\ Found(m, b)
                /\ found[j].public_path = PublicPath(parent[b], m)
            BY <2>1, <3>1 DEF FileOK
        <3>5. PublicPath(parent[a], n) = PublicPath(parent[b], m)
            BY <2>2, <3>3, <3>4
        <3>6. a \in Nodes /\ b \in Nodes /\ parent[a] \in AllNodes
            BY <1>2, <2>1, Upward
        <3>7. parent[a] # parent[b]
            <4> SUFFICES ASSUME parent[a] = parent[b] PROVE FALSE
                OBVIOUS
            <4>1. PICK top \in AllNodes : top = parent[a] /\ top = parent[b]
                BY <3>6
            <4>2. /\ top \in PathTo(n) /\ top \in PathTo(m)
                  /\ PublicPath(top, n) = PublicPath(top, m)
                BY <3>3, <3>4, <3>5, <4>1 DEF StartsWith
            <4> QED BY <1>2, <3>2, <4>2, PublicInjective
        <3>8. ASSUME StartsWith(n, a), StartsWith(m, b)
              PROVE  name[a] = name[b]
            <4>1. PublicPath(parent[a], n)[1] = name[a]
                BY <1>2, <3>2, <3>6, <3>8, PublicFirst DEF StartsWith
            <4>2. PublicPath(parent[b], m)[1] = name[b]
                BY <1>2, <3>2, <3>6, <3>8, PublicFirst DEF StartsWith
            <4> QED BY <3>5, <4>1, <4>2
        <3>9. name[a] = name[b] \/ Linked(n) \/ Linked(m)
            BY <3>3, <3>4, <3>8 DEF Found
        <3> QED BY <3>1, <3>7, <3>9
    <2> QED BY <1>2, <2>2 DEF PublicPathsDiffer
<1> QED BY <1>1, <1>2, WalkFacts

LEMMA DialogTypes == SendInv => (command = "send" => DialogTypeOK)
<1> SUFFICES ASSUME SendInv, command = "send" PROVE DialogTypeOK
    OBVIOUS
<1>1. dialog \in Dialogs
    BY DEF SendInv
<1>2. CASE stack = <<>> /\ files = <<>>
    BY <1>1, <1>2 DEF DialogTypeOK
<1>3. ASSUME NEW calls, NEW found, NEW d, calls = stack, found = files,
             WalkOK(calls, found, d)
      PROVE  DialogTypeOK
    <2>1. /\ DOMAIN calls = 1..Len(calls) /\ DOMAIN found = 1..Len(found)
          /\ \A i \in 1..Len(calls) : calls[i] \in CallType
          /\ \A i \in 1..Len(found) : found[i] \in FileType
        BY <1>3, LenProperties DEF WalkOK, CallOK, FileOK
    <2>2. \A i \in DOMAIN calls :
            /\ calls[i].path \in Nodes /\ calls[i].top \in Nodes \cup {Root}
            /\ calls[i].above \subseteq Nodes
        BY <2>1 DEF CallType, AllNodes
    <2>3. \A i \in DOMAIN found :
            found[i].local_path \in Nodes /\ found[i].public_path \in Seq(Names)
        BY <2>1 DEF FileType
    <2> QED BY <1>1, <1>3, <2>2, <2>3 DEF DialogTypeOK
<1> QED BY <1>2, <1>3 DEF SendInv, Begun

\* The types of what is not of the dialog.
RestOK ==
    /\ checked \in BOOLEAN
    /\ code \in Seq(Seq(Letters))
    /\ room \in U32 \X U32
    /\ state \in States

LEMMA RestInit == Init => RestOK
<1> SUFFICES ASSUME Init PROVE RestOK
    OBVIOUS
<1>1. checked \in BOOLEAN
    BY DEF Init
<1>2. code \in Seq(Seq(Letters))
    <2>1. code \in Typed \/ code = <<>>
        BY DEF Init
    <2>2. <<>> \in Seq(Seq(Letters))
        BY EmptySeq
    <2> QED BY <2>1, <2>2, CommandLineAssumption
<1>3. room \in U32 \X U32
    BY U32IsNat DEF Init
<1> QED BY <1>1, <1>2, <1>3 DEF Init, RestOK, States

LEMMA RestNext == RestOK /\ [Next]_vars => RestOK'
<1> SUFFICES ASSUME RestOK, [Next]_vars PROVE RestOK'
    OBVIOUS
<1>1. CASE UNCHANGED vars
    BY <1>1 DEF vars, RestOK
<1>2. CASE AskFiles
    BY <1>2 DEF AskFiles, RestOK
<1>3. CASE NoFiles
    BY <1>3 DEF NoFiles, RestOK, States
<1>4. CASE StartRoom
    <2>1. PICK r \in Rooms : room' = r /\ code' = ToString(<<0, r[1], r[2]>>)
        BY <1>4 DEF StartRoom
    <2>2. r \in U32 \X U32 /\ 0 \in U32
        BY CommandLineAssumption, U32IsNat
    <2>3. PICK v : v = <<0, r[1], r[2]>>
        OBVIOUS
    <2>4. DOMAIN v = 1..3 /\ \A i \in 1..3 : v[i] \in U32
        BY <2>2, <2>3
    <2>5. code' = [i \in 1..3 |-> U32ToStr(v[i])]
        BY <2>1, <2>3, <2>4 DEF ToString
    <2>6. \A i \in 1..3 : U32ToStr(v[i]) \in Seq(Letters)
        BY <2>4, ShownFits, ShownIsTyped
    <2>7. PICK new : new = code' /\ new \in [1..3 -> Seq(Letters)]
        BY <2>5, <2>6
    <2>8. new \in Seq(Seq(Letters))
        BY <2>7, IsSequence
    <2>9. checked' = checked /\ state' = "room"
        BY <1>4 DEF StartRoom
    <2> QED BY <2>1, <2>2, <2>7, <2>8, <2>9 DEF RestOK, States
<1>5. CASE JoinRoom
    <2>1. checked' = checked /\ code' = code
        BY <1>5 DEF JoinRoom
    <2>2. PICK nums : nums = FromString(code, checked)
        OBVIOUS
    <2>3. CASE Wrong(nums) = {} /\ Len(nums) = 3
        <3>1. state' = "room" /\ room' = <<nums[2], nums[3]>>
            BY <1>5, <2>2, <2>3 DEF JoinRoom
        <3>2. /\ DOMAIN nums = 1..3
              /\ \A i \in 1..3 : nums[i] \in Results /\ nums[i] \in Int
            <4>1. code \in Seq(Seq(Letters)) /\ checked \in BOOLEAN
                BY DEF RestOK
            <4>2. /\ DOMAIN nums = 1..Len(code) /\ Len(nums) = Len(code)
                  /\ \A i \in DOMAIN nums : nums[i] \in Results /\ nums[i] \in Int
                BY <2>2, <4>1, NumsAre
            <4> QED BY <2>3, <4>2
        <3>3. ASSUME NEW i \in 1..3 PROVE nums[i] \in U32
            <4>1. nums[i] >= 0
                BY <2>3, <3>2 DEF Wrong
            <4> QED BY <3>2, <4>1 DEF Results, Invalid, Overflow
        <3>4. room' \in U32 \X U32
            BY <3>1, <3>3
        <3> QED BY <2>1, <3>1, <3>4 DEF RestOK, States
    <2>4. CASE ~(Wrong(nums) = {} /\ Len(nums) = 3)
        <3>1. state' \in {"failed", "panic"} /\ room' = room
            BY <1>5, <2>2, <2>4 DEF JoinRoom
        <3> QED BY <2>1, <3>1 DEF RestOK, States
    <2> QED BY <2>3, <2>4
<1>6. CASE NoServer
    BY <1>6 DEF NoServer, RestOK, States
<1> QED BY <1>1, <1>2, <1>3, <1>4, <1>5, <1>6 DEF Next

LEMMA Invariants == Spec => [](JoinInv /\ SendInv /\ RestOK)
<1>1. Init => JoinInv /\ SendInv /\ RestOK
    BY JoinInit, SendInit, RestInit
<1>2. JoinInv /\ SendInv /\ RestOK /\ [Next]_vars
        => (JoinInv /\ SendInv /\ RestOK)'
    BY JoinNext, SendNext, RestNext
<1> QED BY <1>1, <1>2, PTL DEF Spec

\* The types of CommandLine, those of the walk of FileDialog included: the
\* numbers that StrToU32 returns and shows are u32, and a call of the helper is
\* for a node of the file system.
THEOREM TypesCorrect == Spec => []TypeOK
<1>1. SendInv /\ RestOK => TypeOK
    BY DialogTypes DEF TypeOK, RestOK
<1> QED BY <1>1, Invariants, PTL

\* confirm_send lists every file that can be opened below the given paths, and
\* nothing else and nothing twice unless a link leads there, for every file
\* system, with any number of links, every order of read_dir and every list of
\* paths.
THEOREM EveryFileOnce == Spec => []ListedOnce
    BY ListedInv, Invariants, PTL

\* The recursion of get_file_metadatas_helper overflows the stack only if a
\* link leads to a directory, and the unwrap of strip_prefix panics only if one
\* leads out of the directory of a given path.
THEOREM CrashesNeedLinks == Spec => []CrashNeedsLink
    BY CrashInv, Invariants, PTL

\* Two files are offered under one public path only if given paths of
\* different directories have the same name, or a link leads to one of the
\* files.
THEOREM PublicPathsClash == Spec => []PublicPathsDiffer
    BY PublicInv, Invariants, PTL

\* A code that u32_to_str has written is read back by str_to_u32 as the room
\* and the secret it was written for, in a build with overflow checks and in
\* one without, for every number of letters in ALPHABET and every width of the
\* integers.
THEOREM CodesRoundTrip == Spec => []CodeRoundTrip
    BY RoundTripInv, Invariants, PTL

\* join joins the room whose number was typed and does not crash, unless a part
\* of the code has more digits than there are place values.
THEOREM JoinsTheRoomTyped == Spec => []TypedOrTooLong
    BY TypedInv, Invariants, PTL
============================================================================
