----------------------- MODULE EncryptedStreamProofs -----------------------
(***************************************************************************)
(* Proofs about EncryptedStream: its types, that HelperBuf never panics,   *)
(* that a read that is not the end returns something, that no byte is lost *)
(* between the two ends, and that the stream implements BytePipe, for      *)
(* every size of chunk, header, tag and buffer.                            *)
(*                                                                         *)
(* The inductive invariant says how the bytes between the two ends are cut *)
(* into chunks: F is a function on the places where a chunk of the stream  *)
(* begins, and F[b] is how many bytes of the application come before the   *)
(* place b.                                                                *)
(***************************************************************************)
EXTENDS EncryptedStream, DataInduction, SequenceTheorems, TLAPS

----------------------------------------------------------------------------
\* Sequences

\* A sequence is what comes before a place and what comes after it.
LEMMA Cut ==
    ASSUME NEW S, NEW s \in Seq(S), NEW n \in 0..Len(s)
    PROVE  /\ SubSeq(s, 1, n) \in Seq(S)
           /\ SubSeq(s, n + 1, Len(s)) \in Seq(S)
           /\ Len(SubSeq(s, 1, n)) = n
           /\ Len(SubSeq(s, n + 1, Len(s))) = Len(s) - n
           /\ \A i \in 1..n : SubSeq(s, 1, n)[i] = s[i]
           /\ \A i \in 1..Len(s) - n : SubSeq(s, n + 1, Len(s))[i] = s[n + i]
           /\ SubSeq(s, 1, n) \o SubSeq(s, n + 1, Len(s)) = s
<1>1. Len(s) \in Nat /\ \A i \in 1..Len(s) : s[i] \in S
    BY LenProperties, ElementOfSeq
<1>2. /\ SubSeq(s, 1, n) \in Seq(S)
      /\ Len(SubSeq(s, 1, n)) = n
      /\ \A i \in 1..n : SubSeq(s, 1, n)[i] = s[i]
    <2>1. \A i \in 1..n : s[i] \in S
        BY <1>1
    <2>2. /\ SubSeq(s, 1, n) \in Seq(S)
          /\ Len(SubSeq(s, 1, n)) = IF 1 <= n THEN n - 1 + 1 ELSE 0
          /\ \A i \in 1..n - 1 + 1 : SubSeq(s, 1, n)[i] = s[1 + i - 1]
        BY <1>1, <2>1, SubSeqProperties
    <2> QED BY <1>1, <2>2
<1>3. /\ SubSeq(s, n + 1, Len(s)) \in Seq(S)
      /\ Len(SubSeq(s, n + 1, Len(s))) = Len(s) - n
      /\ \A i \in 1..Len(s) - n : SubSeq(s, n + 1, Len(s))[i] = s[n + i]
    <2>1. \A i \in n + 1..Len(s) : s[i] \in S
        BY <1>1
    <2>2. /\ SubSeq(s, n + 1, Len(s)) \in Seq(S)
          /\ Len(SubSeq(s, n + 1, Len(s)))
                = IF n + 1 <= Len(s) THEN Len(s) - (n + 1) + 1 ELSE 0
          /\ \A i \in 1..Len(s) - (n + 1) + 1 :
                SubSeq(s, n + 1, Len(s))[i] = s[n + 1 + i - 1]
        BY <1>1, <2>1, SubSeqProperties
    <2> QED BY <1>1, <2>2
<1>4. SubSeq(s, 1, n) \o SubSeq(s, n + 1, Len(s)) = s
    <2>1. /\ 1 \in 1..Len(s) + 1 /\ n \in 1 - 1..Len(s)
          /\ Len(s) \in n..Len(s)
        BY <1>1
    <2>2. SubSeq(s, 1, n) \o SubSeq(s, n + 1, Len(s)) = SubSeq(s, 1, Len(s))
        BY <2>1, ConcatAdjacentSubSeq
    <2> QED BY <2>2, SubSeqFull
<1> QED BY <1>2, <1>3, <1>4

\* Bytes from the front of what comes next belong to what comes before.
LEMMA Moved ==
    ASSUME NEW S, NEW s \in Seq(S), NEW t \in Seq(S), NEW n \in 0..Len(t)
    PROVE  (s \o SubSeq(t, 1, n)) \o SubSeq(t, n + 1, Len(t)) = s \o t
<1> DEFINE first == SubSeq(t, 1, n)
           rest == SubSeq(t, n + 1, Len(t))
<1>1. first \in Seq(S) /\ rest \in Seq(S) /\ first \o rest = t
    BY Cut
<1> HIDE DEF first, rest
<1>2. s \in Seq(S) /\ first \in Seq(S) /\ rest \in Seq(S)
    BY <1>1
<1>3. (s \o first) \o rest = s \o (first \o rest)
    BY <1>2, ConcatAssociative, SMTT(30)
<1> QED BY <1>1, <1>3 DEF first, rest

\* w has three parts.
ThreeParts(w, s, t, u) ==
    /\ w \in Seq(Byte)
    /\ Len(w) = Len(s) + Len(t) + Len(u)
    /\ \A i \in 1..Len(s) : w[i] = s[i]
    /\ \A i \in 1..Len(t) : w[Len(s) + i] = t[i]
    /\ \A i \in 1..Len(u) : w[Len(s) + Len(t) + i] = u[i]

LEMMA Parts ==
    ASSUME NEW s \in Seq(Byte), NEW t \in Seq(Byte), NEW u \in Seq(Byte)
    PROVE  ThreeParts((s \o t) \o u, s, t, u)
<1>1. Len(s) \in Nat /\ Len(t) \in Nat /\ Len(u) \in Nat
    BY LenProperties
<1>2. /\ s \o t \in Seq(Byte)
      /\ Len(s \o t) = Len(s) + Len(t)
      /\ \A i \in 1..Len(s) + Len(t) :
            (s \o t)[i] = IF i <= Len(s) THEN s[i] ELSE t[i - Len(s)]
    BY ConcatProperties
<1>3. /\ (s \o t) \o u \in Seq(Byte)
      /\ Len((s \o t) \o u) = Len(s \o t) + Len(u)
      /\ \A i \in 1..Len(s \o t) + Len(u) :
            ((s \o t) \o u)[i] = IF i <= Len(s \o t) THEN (s \o t)[i]
                                 ELSE u[i - Len(s \o t)]
    BY <1>2, ConcatProperties
<1> DEFINE st == s \o t
           stu == st \o u
<1> HIDE DEF st, stu
<1>4. ASSUME NEW i \in 1..Len(s) PROVE stu[i] = s[i]
    BY <1>1, <1>2, <1>3 DEF st, stu
<1>5. ASSUME NEW i \in 1..Len(t) PROVE stu[Len(s) + i] = t[i]
    BY <1>1, <1>2, <1>3 DEF st, stu
<1>6. ASSUME NEW i \in 1..Len(u) PROVE stu[Len(s) + Len(t) + i] = u[i]
    BY <1>1, <1>2, <1>3 DEF st, stu
<1>7. ThreeParts(stu, s, t, u)
    BY <1>1, <1>2, <1>3, <1>4, <1>5, <1>6 DEF st, stu, ThreeParts
<1> QED BY <1>7 DEF st, stu

\* A slice of a sequence.
LEMMA Slice ==
    ASSUME NEW S, NEW s \in Seq(S), NEW h \in Nat, NEW m \in Nat,
           h + m <= Len(s), NEW w, w = SubSeq(s, h + 1, h + m)
    PROVE  w \in Seq(S) /\ Len(w) = m /\ \A i \in 1..m : w[i] = s[h + i]
<1>1. Len(s) \in Nat /\ \A i \in 1..Len(s) : s[i] \in S
    BY LenProperties, ElementOfSeq
<1>2. \A i \in h + 1..h + m : s[i] \in S
    BY <1>1
<1>3. /\ SubSeq(s, h + 1, h + m) \in Seq(S)
      /\ Len(SubSeq(s, h + 1, h + m))
            = IF h + 1 <= h + m THEN h + m - (h + 1) + 1 ELSE 0
      /\ \A i \in 1..h + m - (h + 1) + 1 :
            SubSeq(s, h + 1, h + m)[i] = s[h + 1 + i - 1]
    BY <1>2, SubSeqProperties
<1>4. /\ w \in Seq(S)
      /\ Len(w) = IF h + 1 <= h + m THEN h + m - (h + 1) + 1 ELSE 0
      /\ \A i \in 1..h + m - (h + 1) + 1 : w[i] = s[h + 1 + i - 1]
    BY <1>3
<1>5. h + m - (h + 1) + 1 = m
    OBVIOUS
<1>6. ASSUME NEW i \in 1..m PROVE w[i] = s[h + i]
    <2>1. h + 1 + i - 1 = h + i
        OBVIOUS
    <2> QED BY <1>4, <1>5, <2>1
<1>7. Len(w) = m
    <2> DEFINE l == Len(w)
    <2>1. l = IF h + 1 <= h + m THEN h + m - (h + 1) + 1 ELSE 0
        BY <1>4
    <2> HIDE DEF l
    <2>2. l = m
        BY <2>1
    <2> QED BY <2>2 DEF l
<1> QED BY <1>4, <1>6, <1>7

\* x is w without its first k bytes.
Shifted(x, w, k) ==
    /\ x \in Seq(Byte) /\ Len(w) = k + Len(x)
    /\ \A i \in 1..Len(x) : x[i] = w[k + i]

\* The first k bytes are taken from the first of three parts.
LEMMA Dropped ==
    ASSUME NEW s \in Seq(Byte), NEW t \in Seq(Byte), NEW u \in Seq(Byte),
           NEW k \in 0..Len(s)
    PROVE  Shifted((SubSeq(s, k + 1, Len(s)) \o t) \o u, (s \o t) \o u, k)
<1> DEFINE r == SubSeq(s, k + 1, Len(s))
           x == (r \o t) \o u
           w == (s \o t) \o u
<1>0. Len(s) \in Nat /\ Len(t) \in Nat /\ Len(u) \in Nat
    BY LenProperties
<1>1. /\ r \in Seq(Byte) /\ Len(r) = Len(s) - k
      /\ \A i \in 1..Len(s) - k : r[i] = s[k + i]
    BY Cut
<1> HIDE DEF r
<1>2. ThreeParts(x, r, t, u) /\ ThreeParts(w, s, t, u)
    BY <1>1, Parts
<1> HIDE DEF x, w
<1>3. /\ x \in Seq(Byte) /\ Len(x) = Len(r) + Len(t) + Len(u)
      /\ \A i \in 1..Len(r) : x[i] = r[i]
      /\ \A i \in 1..Len(t) : x[Len(r) + i] = t[i]
      /\ \A i \in 1..Len(u) : x[Len(r) + Len(t) + i] = u[i]
    BY <1>2 DEF ThreeParts
<1>4. /\ Len(w) = Len(s) + Len(t) + Len(u)
      /\ \A i \in 1..Len(s) : w[i] = s[i]
      /\ \A i \in 1..Len(t) : w[Len(s) + i] = t[i]
      /\ \A i \in 1..Len(u) : w[Len(s) + Len(t) + i] = u[i]
    BY <1>2 DEF ThreeParts
<1>5. Len(w) = k + Len(x)
    BY <1>0, <1>1, <1>3, <1>4
<1>6. ASSUME NEW i \in 1..Len(x)
      PROVE  x[i] = w[k + i]
    <2>1. CASE i <= Len(r)
        <3>1. i \in 1..Len(r) /\ i \in 1..Len(s) - k /\ k + i \in 1..Len(s)
            BY <1>0, <1>1, <2>1
        <3> QED BY <1>1, <1>3, <1>4, <3>1
    <2>2. CASE Len(r) < i /\ i <= Len(r) + Len(t)
        <3> DEFINE j == i - Len(r)
        <3>1. /\ j \in 1..Len(t) /\ i = Len(r) + j
              /\ k + i = Len(s) + j
            BY <1>0, <1>1, <2>2
        <3> HIDE DEF j
        <3> QED BY <1>3, <1>4, <3>1
    <2>3. CASE Len(r) + Len(t) < i
        <3> DEFINE j == i - (Len(r) + Len(t))
        <3>1. /\ j \in 1..Len(u) /\ i = Len(r) + Len(t) + j
              /\ k + i = Len(s) + Len(t) + j
            BY <1>0, <1>1, <1>3, <2>3
        <3> HIDE DEF j
        <3> QED BY <1>3, <1>4, <3>1
    <2>4. i \in Int /\ Len(r) \in Int /\ Len(t) \in Int
        BY <1>0, <1>1
    <2> QED BY <2>1, <2>2, <2>3, <2>4
<1>7. Shifted(x, w, k)
    BY <1>3, <1>5, <1>6 DEF Shifted
<1> QED BY <1>7 DEF r, x, w

\* w holds the bytes of the application behind the a-th.
DataFrom(w, a) == \A i \in 1..Len(w) : w[i] = <<"data", a + i>>

\* Bytes of the application that come next are joined to those before them.
LEMMA DataJoined ==
    ASSUME NEW a \in Nat, NEW s \in Seq(Byte), NEW t \in Seq(Byte),
           DataFrom(s, a), DataFrom(t, a + Len(s))
    PROVE  DataFrom(s \o t, a)
<1> DEFINE w == s \o t
<1>0. Len(s) \in Nat /\ Len(t) \in Nat
    BY LenProperties
<1>1. /\ w \in Seq(Byte) /\ Len(w) = Len(s) + Len(t)
      /\ \A i \in 1..Len(s) + Len(t) :
            w[i] = IF i <= Len(s) THEN s[i] ELSE t[i - Len(s)]
    BY ConcatProperties
<1> HIDE DEF w
<1>2. ASSUME NEW i \in 1..Len(w)
      PROVE  w[i] = <<"data", a + i>>
    <2>0. i \in 1..Len(s) + Len(t)
        BY <1>1
    <2>1. CASE i <= Len(s)
        <3>1. i \in 1..Len(s) /\ w[i] = s[i]
            BY <1>0, <1>1, <2>0, <2>1
        <3> QED BY <3>1 DEF DataFrom
    <2>2. CASE ~(i <= Len(s))
        <3> DEFINE j == i - Len(s)
        <3>1. j \in 1..Len(t) /\ a + Len(s) + j = a + i
            BY <1>0, <2>0, <2>2
        <3>2. w[i] = t[j]
            BY <1>1, <2>0, <2>2
        <3> HIDE DEF j
        <3> QED BY <3>1, <3>2 DEF DataFrom
    <2> QED BY <2>1, <2>2
<1>3. DataFrom(w, a)
    BY <1>2 DEF DataFrom
<1> QED BY <1>3 DEF w

\* What is left when the first n bytes of the application are taken.
LEMMA DataCut ==
    ASSUME NEW a \in Nat, NEW s \in Seq(Byte), NEW n \in 0..Len(s),
           DataFrom(s, a)
    PROVE  /\ DataFrom(SubSeq(s, 1, n), a)
           /\ DataFrom(SubSeq(s, n + 1, Len(s)), a + n)
<1>0. Len(s) \in Nat
    BY LenProperties
<1> DEFINE first == SubSeq(s, 1, n)
           rest == SubSeq(s, n + 1, Len(s))
<1>1. /\ Len(first) = n /\ Len(rest) = Len(s) - n
      /\ \A i \in 1..n : first[i] = s[i]
      /\ \A i \in 1..Len(s) - n : rest[i] = s[n + i]
    BY Cut
<1> HIDE DEF first, rest
<1>2. ASSUME NEW i \in 1..Len(first) PROVE first[i] = <<"data", a + i>>
    BY <1>0, <1>1 DEF DataFrom
<1>3. ASSUME NEW i \in 1..Len(rest) PROVE rest[i] = <<"data", a + n + i>>
    <2>1. n + i \in 1..Len(s) /\ a + (n + i) = a + n + i
        BY <1>0, <1>1
    <2> QED BY <1>1, <2>1 DEF DataFrom
<1>4. DataFrom(first, a) /\ DataFrom(rest, a + n)
    BY <1>2, <1>3 DEF DataFrom
<1> QED BY <1>4 DEF first, rest

----------------------------------------------------------------------------
\* The bytes of the application in a stream

\* One step of the recursion of Payload.
PayloadStep(s, f, n) ==
    IF n = 0 THEN <<>>
    ELSE IF s[n][1] = "data" THEN Append(f[n - 1], s[n])
    ELSE f[n - 1]

IsPayload(s, f, m) == f = [n \in 0..m |-> PayloadStep(s, f, n)]

\* The recursion of Payload has a solution.
LEMMA PayloadExists ==
    ASSUME NEW s
    PROVE  \A m \in Nat : \E f : IsPayload(s, f, m)
<1> DEFINE S == {m \in Nat : \E f : IsPayload(s, f, m)}
<1>1. 0 \in S
    <2> DEFINE f == [n \in 0..0 |-> <<>>]
    <2>1. IsPayload(s, f, 0)
        BY DEF IsPayload, PayloadStep
    <2> QED BY <2>1
<1>2. ASSUME NEW m \in Nat, m \in S
      PROVE  m + 1 \in S
    <2>1. PICK f : IsPayload(s, f, m)
        BY <1>2
    <2> DEFINE g == [n \in 0..(m + 1) |->
                        IF n <= m THEN f[n] ELSE PayloadStep(s, f, m + 1)]
    <2>2. \A n \in 0..m : g[n] = f[n] /\ f[n] = PayloadStep(s, f, n)
        BY <2>1 DEF IsPayload
    <2>3. g[m + 1] = PayloadStep(s, f, m + 1)
        OBVIOUS
    <2>4. ASSUME NEW n \in 0..(m + 1)
          PROVE  PayloadStep(s, g, n) = PayloadStep(s, f, n)
        <3>1. n = 0 \/ g[n - 1] = f[n - 1]
            BY <2>2
        <3> HIDE DEF g
        <3> QED BY <3>1 DEF PayloadStep
    <2>5. ASSUME NEW n \in 0..(m + 1)
          PROVE  g[n] = PayloadStep(s, g, n)
        <3>1. n \in 0..m \/ n = m + 1
            OBVIOUS
        <3> HIDE DEF g
        <3> QED BY <2>2, <2>3, <2>4, <3>1
    <2>6. g = [n \in 0..(m + 1) |-> g[n]]
        OBVIOUS
    <2>7. IsPayload(s, g, m + 1)
        <3> HIDE DEF g
        <3> QED BY <2>5, <2>6 DEF IsPayload
    <2> QED BY <2>7
<1> HIDE DEF S
<1>3. \A m \in Nat : m \in S
    BY <1>1, <1>2, SetInduction
<1> QED BY <1>3 DEF S

\* The function that Payload defines.
LEMMA PayloadIs ==
    ASSUME NEW s \in Seq(Byte)
    PROVE  \E f : IsPayload(s, f, Len(s)) /\ Payload(s) = f[Len(s)]
<1> DEFINE f == CHOOSE f : IsPayload(s, f, Len(s))
<1>0. Len(s) \in Nat
    BY LenProperties
<1>1. IsPayload(s, f, Len(s))
    <2>1. \E g : IsPayload(s, g, Len(s))
        BY <1>0, PayloadExists
    <2> QED BY <2>1
<1>2. Payload(s) = f[Len(s)]
    BY DEF Payload, IsPayload, PayloadStep
<1> QED BY <1>1, <1>2

\* Two solutions agree as far as the streams do.
LEMMA PayloadAgrees ==
    ASSUME NEW s, NEW t, NEW f, NEW g, NEW l \in Nat, NEW m \in Nat,
           IsPayload(s, f, l), IsPayload(t, g, m), NEW k \in Nat,
           k <= l, k <= m, \A i \in 1..k : s[i] = t[i]
    PROVE  \A n \in 0..k : f[n] = g[n]
<1> DEFINE S == {n \in Nat : n <= k => f[n] = g[n]}
<1>1. \A n \in 0..k : f[n] = PayloadStep(s, f, n) /\ g[n] = PayloadStep(t, g, n)
    <2>1. \A n \in 0..l : f[n] = PayloadStep(s, f, n)
        BY DEF IsPayload
    <2>2. \A n \in 0..m : g[n] = PayloadStep(t, g, n)
        BY DEF IsPayload
    <2>3. \A n \in 0..k : n \in 0..l /\ n \in 0..m
        OBVIOUS
    <2> QED BY <2>1, <2>2, <2>3
<1>2. 0 \in S
    BY <1>1 DEF PayloadStep
<1>3. ASSUME NEW n \in Nat, n \in S
      PROVE  n + 1 \in S
    <2> SUFFICES ASSUME n + 1 <= k PROVE f[n + 1] = g[n + 1]
        OBVIOUS
    <2>1. f[n] = g[n] /\ s[n + 1] = t[n + 1]
        BY <1>3
    <2>2. /\ f[n + 1] = PayloadStep(s, f, n + 1)
          /\ g[n + 1] = PayloadStep(t, g, n + 1)
        BY <1>1
    <2>3. n + 1 # 0 /\ n + 1 - 1 = n
        OBVIOUS
    <2> QED BY <2>1, <2>2, <2>3 DEF PayloadStep
<1> HIDE DEF S
<1>4. \A n \in Nat : n \in S
    BY <1>2, <1>3, SetInduction
<1> QED BY <1>4 DEF S

\* Nothing is among nothing.
LEMMA PayloadEmpty == Payload(<<>>) = <<>>
<1>1. <<>> \in Seq(Byte) /\ Len(<<>>) = 0
    BY EmptySeq
<1>2. PICK f : IsPayload(<<>>, f, Len(<<>>)) /\ Payload(<<>>) = f[Len(<<>>)]
    BY <1>1, PayloadIs
<1>3. f[0] = PayloadStep(<<>>, f, 0)
    BY <1>1, <1>2 DEF IsPayload
<1> QED BY <1>1, <1>2, <1>3 DEF PayloadStep

\* One more byte.
LEMMA PayloadAppend ==
    ASSUME NEW s \in Seq(Byte), NEW b \in Byte
    PROVE  Payload(Append(s, b)) = IF b[1] = "data" THEN Append(Payload(s), b)
                                   ELSE Payload(s)
<1>1. PICK l \in Nat : l = Len(s)
    BY LenProperties
<1>2. PICK m \in Nat : m = l + 1
    OBVIOUS
<1>3. PICK t : t = Append(s, b)
    OBVIOUS
<1>4. /\ t \in Seq(Byte) /\ Len(t) = m /\ t[m] = b
      /\ \A i \in 1..l : s[i] = t[i]
    BY <1>1, <1>2, <1>3, AppendProperties
<1>5. PICK f : IsPayload(s, f, l) /\ Payload(s) = f[l]
    BY <1>1, PayloadIs
<1>6. PICK g : IsPayload(t, g, m) /\ Payload(t) = g[m]
    BY <1>4, PayloadIs
<1>7. /\ l <= l /\ l <= m /\ l \in 0..l /\ m \in 0..m /\ m # 0
      /\ m - 1 = l
    BY <1>2
<1>8. \A n \in 0..l : f[n] = g[n]
    <2>1. \A i \in 1..l : s[i] = t[i]
        BY <1>4
    <2> QED BY <1>5, <1>6, <1>7, <2>1, PayloadAgrees, SMTT(30)
<1>9. g[m] = PayloadStep(t, g, m)
    <2>1. \A n \in 0..m : g[n] = PayloadStep(t, g, n)
        BY <1>6 DEF IsPayload
    <2> QED BY <1>7, <2>1
<1>10. g[m] = IF b[1] = "data" THEN Append(g[l], b) ELSE g[l]
    BY <1>4, <1>7, <1>9 DEF PayloadStep
<1> QED BY <1>3, <1>5, <1>6, <1>7, <1>8, <1>10

\* A sequence that is not empty is another one and one byte more.
LEMMA LastByte ==
    ASSUME NEW n \in Nat, NEW t \in Seq(Byte), Len(t) = n + 1
    PROVE  \E r \in Seq(Byte), b \in Byte :
            /\ Len(r) = n /\ t = Append(r, b) /\ t[n + 1] = b
            /\ \A i \in 1..n : t[i] = r[i]
<1> DEFINE r == [i \in 1..n |-> t[i]]
           b == t[n + 1]
           a == Append(r, b)
<1>1. \A i \in 1..n + 1 : t[i] \in Byte
    BY ElementOfSeq
<1>2. r \in Seq(Byte) /\ Len(r) = n /\ b \in Byte /\ \A i \in 1..n : t[i] = r[i]
    BY <1>1
<1> HIDE DEF r
<1>3. /\ a \in Seq(Byte) /\ Len(a) = n + 1 /\ a[n + 1] = b
      /\ \A i \in 1..n : a[i] = r[i]
    BY <1>2, AppendProperties
<1> HIDE DEF a
<1>4. ASSUME NEW i \in 1..n + 1 PROVE t[i] = a[i]
    <2>1. i \in 1..n \/ i = n + 1
        OBVIOUS
    <2> QED BY <1>2, <1>3, <2>1
<1>5. t = a
    BY <1>3, <1>4, SeqEqual
<1> QED BY <1>2, <1>5 DEF a

\* The payload is a sequence of bytes.
LEMMA PayloadType ==
    ASSUME NEW s \in Seq(Byte)
    PROVE  Payload(s) \in Seq(Byte)
<1> DEFINE S == {n \in Nat : \A t \in Seq(Byte) :
                                Len(t) = n => Payload(t) \in Seq(Byte)}
<1>1. 0 \in S
    <2>1. ASSUME NEW t \in Seq(Byte), Len(t) = 0 PROVE Payload(t) \in Seq(Byte)
        <3>1. t = <<>>
            BY <2>1, EmptySeq
        <3> QED BY <3>1, PayloadEmpty
    <2> QED BY <2>1
<1>2. ASSUME NEW n \in Nat, n \in S
      PROVE  n + 1 \in S
    <2>1. ASSUME NEW t \in Seq(Byte), Len(t) = n + 1
          PROVE  Payload(t) \in Seq(Byte)
        <3>1. PICK r \in Seq(Byte), b \in Byte : Len(r) = n /\ t = Append(r, b)
            BY <2>1, LastByte
        <3>2. Payload(r) \in Seq(Byte)
            BY <1>2, <3>1
        <3>3. Append(Payload(r), b) \in Seq(Byte)
            BY <3>2, AppendProperties
        <3> QED BY <3>1, <3>2, <3>3, PayloadAppend
    <2> QED BY <2>1
<1> HIDE DEF S
<1>3. \A n \in Nat : n \in S
    BY <1>1, <1>2, SetInduction
<1>4. Len(s) \in Nat
    BY LenProperties
<1> QED BY <1>3, <1>4 DEF S

\* The payload of two streams, one behind the other.
LEMMA PayloadConcat ==
    ASSUME NEW s \in Seq(Byte), NEW u \in Seq(Byte)
    PROVE  Payload(s \o u) = Payload(s) \o Payload(u)
<1> DEFINE S == {n \in Nat : \A t \in Seq(Byte) :
                    Len(t) = n => Payload(s \o t) = Payload(s) \o Payload(t)}
<1>0. Payload(s) \in Seq(Byte)
    BY PayloadType
<1>1. 0 \in S
    <2>1. ASSUME NEW t \in Seq(Byte), Len(t) = 0
          PROVE  Payload(s \o t) = Payload(s) \o Payload(t)
        <3>1. t = <<>>
            BY <2>1, EmptySeq
        <3>2. s \o <<>> = s /\ Payload(s) \o <<>> = Payload(s)
            BY <1>0, ConcatEmptySeq
        <3> QED BY <3>1, <3>2, PayloadEmpty
    <2> QED BY <2>1
<1>2. ASSUME NEW n \in Nat, n \in S
      PROVE  n + 1 \in S
    <2>1. ASSUME NEW t \in Seq(Byte), Len(t) = n + 1
          PROVE  Payload(s \o t) = Payload(s) \o Payload(t)
        <3>1. PICK r \in Seq(Byte), b \in Byte : Len(r) = n /\ t = Append(r, b)
            BY <2>1, LastByte, SMTT(30)
        <3>2. Payload(s \o r) = Payload(s) \o Payload(r)
            BY <1>2, <3>1
        <3>3. s \o t = Append(s \o r, b) /\ s \o r \in Seq(Byte)
            BY <3>1, AppendIsConcat, ConcatAssociative, ConcatProperties
        <3>4. Payload(r) \in Seq(Byte)
            BY PayloadType
        <3>5. Append(Payload(s) \o Payload(r), b)
                = Payload(s) \o Append(Payload(r), b)
            <4>0. PICK x \in Seq(Byte) : x = Payload(s)
                BY <1>0
            <4>1. PICK y \in Seq(Byte) : y = Payload(r)
                BY <3>4
            <4>2. (x \o y) \o <<b>> = x \o (y \o <<b>>)
                <5>1. <<b>> \in Seq(Byte)
                    OBVIOUS
                <5> QED BY <5>1, ConcatAssociative, SMTT(30)
            <4>3. /\ x \o y \in Seq(Byte)
                  /\ Append(x \o y, b) = (x \o y) \o <<b>>
                  /\ Append(y, b) = y \o <<b>>
                BY ConcatProperties, AppendIsConcat
            <4> QED BY <4>0, <4>1, <4>2, <4>3
        <3>6. /\ Payload(s \o t) = IF b[1] = "data" THEN Append(Payload(s \o r), b)
                                   ELSE Payload(s \o r)
              /\ Payload(t) = IF b[1] = "data" THEN Append(Payload(r), b)
                              ELSE Payload(r)
            BY <3>1, <3>3, PayloadAppend
        <3> QED BY <3>2, <3>5, <3>6
    <2> QED BY <2>1
<1> HIDE DEF S
<1>3. \A n \in Nat : n \in S
    BY <1>1, <1>2, SetInduction
<1>4. Len(u) \in Nat
    BY LenProperties
<1> QED BY <1>3, <1>4 DEF S

\* A stream of nothing but bytes of the application.
LEMMA PayloadAll ==
    ASSUME NEW s \in Seq(Byte), \A i \in 1..Len(s) : s[i][1] = "data"
    PROVE  Payload(s) = s
<1> DEFINE All(t) == \A i \in 1..Len(t) : t[i][1] = "data"
           S == {n \in Nat : \A t \in Seq(Byte) :
                    Len(t) = n /\ All(t) => Payload(t) = t}
<1>1. 0 \in S
    <2>1. ASSUME NEW t \in Seq(Byte), Len(t) = 0 PROVE Payload(t) = t
        <3>1. t = <<>>
            BY <2>1, EmptySeq
        <3> QED BY <3>1, PayloadEmpty
    <2> QED BY <2>1
<1>2. ASSUME NEW n \in Nat, n \in S
      PROVE  n + 1 \in S
    <2>1. ASSUME NEW t \in Seq(Byte), Len(t) = n + 1, All(t)
          PROVE  Payload(t) = t
        <3>1. PICK r \in Seq(Byte), b \in Byte :
                /\ Len(r) = n /\ t = Append(r, b) /\ t[n + 1] = b
                /\ \A i \in 1..n : t[i] = r[i]
            BY <2>1, LastByte
        <3>2. All(r) /\ b[1] = "data"
            BY <2>1, <3>1
        <3>3. Payload(r) = r
            BY <1>2, <3>1, <3>2
        <3> QED BY <3>1, <3>2, <3>3, PayloadAppend
    <2> QED BY <2>1
<1> HIDE DEF S
<1>3. \A n \in Nat : n \in S
    BY <1>1, <1>2, SetInduction
<1>4. Len(s) \in Nat
    BY LenProperties
<1> QED BY <1>3, <1>4 DEF S

\* A stream without a byte of the application.
LEMMA PayloadNone ==
    ASSUME NEW s \in Seq(Byte), \A i \in 1..Len(s) : s[i][1] # "data"
    PROVE  Payload(s) = <<>>
<1> DEFINE None(t) == \A i \in 1..Len(t) : t[i][1] # "data"
           S == {n \in Nat : \A t \in Seq(Byte) :
                    Len(t) = n /\ None(t) => Payload(t) = <<>>}
<1>1. 0 \in S
    <2>1. ASSUME NEW t \in Seq(Byte), Len(t) = 0 PROVE Payload(t) = <<>>
        <3>1. t = <<>>
            BY <2>1, EmptySeq
        <3> QED BY <3>1, PayloadEmpty
    <2> QED BY <2>1
<1>2. ASSUME NEW n \in Nat, n \in S
      PROVE  n + 1 \in S
    <2>1. ASSUME NEW t \in Seq(Byte), Len(t) = n + 1, None(t)
          PROVE  Payload(t) = <<>>
        <3>1. PICK r \in Seq(Byte), b \in Byte :
                /\ Len(r) = n /\ t = Append(r, b) /\ t[n + 1] = b
                /\ \A i \in 1..n : t[i] = r[i]
            BY <2>1, LastByte
        <3>2. None(r) /\ b[1] # "data"
            BY <2>1, <3>1
        <3>3. Payload(r) = <<>>
            BY <1>2, <3>1, <3>2
        <3> QED BY <3>1, <3>2, <3>3, PayloadAppend
    <2> QED BY <2>1
<1> HIDE DEF S
<1>3. \A n \in Nat : n \in S
    BY <1>1, <1>2, SetInduction
<1>4. Len(s) \in Nat
    BY LenProperties
<1> QED BY <1>3, <1>4 DEF S
----------------------------------------------------------------------------
\* How a stream is cut into chunks

\* Where the bytes of a chunk of length n are that are not the application's:
\* in its header and in its tag.
Framing(n) ==
    {i \in 1..HeaderLen + n :
        i <= HeaderLen \/ i > HeaderLen + (n - CIPHERTEXT_OVERHEAD)}

\* A chunk begins behind the b-th byte of the stream S: its length, at least
\* that of a tag and at most what fits a chunk; the bytes of the application
\* behind the header, as many of them as are there; the next chunk behind it.
ChunkAt(S, F, b) ==
    LET n == S[b + 1][2]
    IN  /\ n \in CIPHERTEXT_OVERHEAD..MAX_CHUNK_SIZE - HeaderLen
        /\ b + HeaderLen + n \in DOMAIN F
        /\ F[b + HeaderLen + n] = F[b] + (n - CIPHERTEXT_OVERHEAD)
        /\ \A i \in 1..n - CIPHERTEXT_OVERHEAD :
            b + HeaderLen + i <= Len(S)
                => S[b + HeaderLen + i] = <<"data", F[b] + i>>
        /\ \A i \in Framing(n) : b + i <= Len(S) => S[b + i][1] # "data"

\* F counts the bytes of the application before each place where a chunk
\* begins: one begins at the front, and one wherever another ends.
Chunked(S, F) ==
    /\ DOMAIN F \subseteq Nat /\ \A b \in DOMAIN F : F[b] \in Nat
    /\ 0 \in DOMAIN F
    /\ \A b, c \in DOMAIN F : b <= c => F[b] <= F[c]
    /\ \A b \in DOMAIN F : b < Len(S) => ChunkAt(S, F, b)

\* A stream that is cut off is cut into the same chunks.
LEMMA ChunkedPrefix ==
    ASSUME NEW S \in Seq(Byte), NEW T \in Seq(Byte), NEW F,
           Chunked(S, F),
           Len(T) <= Len(S),
           \A i \in 1..Len(T) : T[i] = S[i]
    PROVE  Chunked(T, F)
<1>0. Len(S) \in Nat /\ Len(T) \in Nat
    BY LenProperties
<1>1. ASSUME NEW b \in DOMAIN F, b < Len(T)
      PROVE  ChunkAt(T, F, b)
    <2>1. b \in Nat /\ ChunkAt(S, F, b)
        BY <1>0, <1>1 DEF Chunked
    <2>2. T[b + 1] = S[b + 1]
        BY <1>0, <1>1, <2>1
    <2> DEFINE n == S[b + 1][2]
    <2>3. /\ n \in CIPHERTEXT_OVERHEAD..MAX_CHUNK_SIZE - HeaderLen
          /\ b + HeaderLen + n \in DOMAIN F
          /\ F[b + HeaderLen + n] = F[b] + (n - CIPHERTEXT_OVERHEAD)
          /\ \A i \in 1..n - CIPHERTEXT_OVERHEAD :
                b + HeaderLen + i <= Len(S)
                    => S[b + HeaderLen + i] = <<"data", F[b] + i>>
          /\ \A i \in Framing(n) : b + i <= Len(S) => S[b + i][1] # "data"
        BY <2>1 DEF ChunkAt
    <2>4. T[b + 1][2] = n
        BY <2>2
    <2> HIDE DEF n
    <2>5. ASSUME NEW i \in 1..n - CIPHERTEXT_OVERHEAD,
                 b + HeaderLen + i <= Len(T)
          PROVE  T[b + HeaderLen + i] = <<"data", F[b] + i>>
        <3>1. b + HeaderLen + i \in 1..Len(T)
            BY <1>0, <2>1, <2>3, <2>5, SizeAssumption
        <3>2. b + HeaderLen + i <= Len(S)
            BY <1>0, <3>1
        <3> QED BY <2>3, <3>1, <3>2
    <2>6. ASSUME NEW i \in Framing(n), b + i <= Len(T)
          PROVE  T[b + i][1] # "data"
        <3>1. b + i \in 1..Len(T)
            BY <1>0, <2>1, <2>6 DEF Framing
        <3>2. b + i <= Len(S)
            BY <1>0, <3>1
        <3> QED BY <2>3, <3>1, <3>2
    <2> QED BY <2>3, <2>4, <2>5, <2>6 DEF ChunkAt
<1> QED BY <1>1 DEF Chunked

\* Without its first k bytes, where a chunk begins there, the stream is cut
\* at the same places.
LEMMA ChunkedDrop ==
    ASSUME NEW S \in Seq(Byte), NEW T \in Seq(Byte), NEW F, NEW k \in Nat,
           Chunked(S, F), k \in DOMAIN F,
           Len(S) = k + Len(T),
           \A i \in 1..Len(T) : T[i] = S[k + i]
    PROVE  Chunked(T, [b \in {c \in Nat : k + c \in DOMAIN F} |-> F[k + b]])
<1>0. Len(S) \in Nat /\ Len(T) \in Nat
    BY LenProperties
<1> DEFINE G == [b \in {c \in Nat : k + c \in DOMAIN F} |-> F[k + b]]
<1>1. /\ DOMAIN G \subseteq Nat
      /\ \A b \in Nat : b \in DOMAIN G <=> k + b \in DOMAIN F
      /\ \A b \in DOMAIN G : G[b] = F[k + b]
    OBVIOUS
<1> HIDE DEF G
<1>2. DOMAIN G \subseteq Nat /\ \A b \in DOMAIN G : G[b] \in Nat
    BY <1>1 DEF Chunked
<1>3. 0 \in DOMAIN G
    BY <1>1
<1>4. ASSUME NEW b \in DOMAIN G, NEW c \in DOMAIN G, b <= c
      PROVE  G[b] <= G[c]
    <2>1. k + b \in DOMAIN F /\ k + c \in DOMAIN F 
        BY <1>1
    <2>3. k + b <= k + c
        BY <1>1, <1>4
    <2>2. F[k + b] <= F[k + c]
        BY <2>1, <2>3 DEF Chunked
    <2> QED BY <1>1, <2>2
<1>5. ASSUME NEW b \in DOMAIN G, b < Len(T)
      PROVE  ChunkAt(T, G, b)
    <2>1. b \in Nat /\ k + b \in DOMAIN F /\ k + b < Len(S)
        <3>1. b \in Nat /\ k + b \in DOMAIN F
            BY <1>1
        <3> DEFINE ls == Len(S)
                   lt == Len(T)
        <3>2. ls \in Nat /\ lt \in Nat /\ ls = k + lt /\ b < lt
            BY <1>0, <1>5
        <3> HIDE DEF ls, lt
        <3>3. k + b < ls
            BY <3>1, <3>2
        <3> QED BY <3>1, <3>3 DEF ls
    <2>2. ChunkAt(S, F, k + b)
        BY <2>1 DEF Chunked
    <2> DEFINE n == S[k + b + 1][2]
    <2>3. /\ n \in CIPHERTEXT_OVERHEAD..MAX_CHUNK_SIZE - HeaderLen
          /\ k + b + HeaderLen + n \in DOMAIN F
          /\ F[k + b + HeaderLen + n] = F[k + b] + (n - CIPHERTEXT_OVERHEAD)
          /\ \A i \in 1..n - CIPHERTEXT_OVERHEAD :
                k + b + HeaderLen + i <= Len(S)
                    => S[k + b + HeaderLen + i] = <<"data", F[k + b] + i>>
          /\ \A i \in Framing(n) :
                k + b + i <= Len(S) => S[k + b + i][1] # "data"
        BY <2>2 DEF ChunkAt
    <2>4. T[b + 1][2] = n
        <3>1. b + 1 \in 1..Len(T) /\ k + (b + 1) = k + b + 1
            BY <1>0, <1>5, <2>1
        <3> QED BY <3>1
    <2> HIDE DEF n
    <2>5. n \in Nat
        BY <2>3, SizeAssumption
    <2>6. /\ k + b + HeaderLen + n = k + (b + HeaderLen + n)
          /\ b + HeaderLen + n \in Nat
        BY <2>1, <2>5, SizeAssumption
    <2>7. /\ b + HeaderLen + n \in DOMAIN G
          /\ G[b + HeaderLen + n] = G[b] + (n - CIPHERTEXT_OVERHEAD)
        BY <1>1, <2>3, <2>6
    <2>8. ASSUME NEW i \in 1..n - CIPHERTEXT_OVERHEAD,
                 b + HeaderLen + i <= Len(T)
          PROVE  T[b + HeaderLen + i] = <<"data", G[b] + i>>
        <3>1. /\ b + HeaderLen + i \in 1..Len(T)
              /\ k + (b + HeaderLen + i) = k + b + HeaderLen + i
              /\ k + b + HeaderLen + i <= Len(S)
            <4> DEFINE ls == Len(S)
                       lt == Len(T)
            <4>1. /\ ls \in Nat /\ lt \in Nat /\ ls = k + lt
                  /\ b + HeaderLen + i <= lt
                  /\ b \in Nat /\ HeaderLen \in Nat /\ i \in Nat /\ i >= 1
                BY <1>0, <2>1, <2>5, <2>8, SizeAssumption
            <4> HIDE DEF ls, lt
            <4>2. /\ b + HeaderLen + i \in 1..lt
                  /\ k + (b + HeaderLen + i) = k + b + HeaderLen + i
                  /\ k + b + HeaderLen + i <= ls
                BY <4>1
            <4> QED BY <4>2 DEF ls, lt
        <3> QED BY <1>1, <2>3, <3>1
    <2>9. ASSUME NEW i \in Framing(n), b + i <= Len(T)
          PROVE  T[b + i][1] # "data"
        <3>1. /\ b + i \in 1..Len(T) /\ k + (b + i) = k + b + i
              /\ k + b + i <= Len(S)
            <4> DEFINE ls == Len(S)
                       lt == Len(T)
            <4>1. /\ ls \in Nat /\ lt \in Nat /\ ls = k + lt
                  /\ b + i <= lt /\ b \in Nat /\ i \in Nat /\ i >= 1
                BY <1>0, <2>1, <2>9 DEF Framing
            <4> HIDE DEF ls, lt
            <4>2. /\ b + i \in 1..lt /\ k + (b + i) = k + b + i
                  /\ k + b + i <= ls
                BY <4>1
            <4> QED BY <4>2 DEF ls, lt
        <3> QED BY <2>3, <3>1
    <2> QED BY <2>3, <2>4, <2>7, <2>8, <2>9 DEF ChunkAt
<1>6. Chunked(T, G)
    BY <1>2, <1>3, <1>4, <1>5 DEF Chunked
<1> QED BY <1>6 DEF G
\* A chunk with the bytes of the application that come next is appended to a
\* stream that ends where a chunk ends.
LEMMA ChunkedAppend ==
    ASSUME NEW S \in Seq(Byte), NEW T \in Seq(Byte), NEW F, NEW m \in Nat,
           Chunked(S, F),
           Len(S) \in DOMAIN F,
           \A b \in DOMAIN F : b <= Len(S),
           m + CIPHERTEXT_OVERHEAD + HeaderLen <= MAX_CHUNK_SIZE,
           Len(T) = Len(S) + HeaderLen + m + CIPHERTEXT_OVERHEAD,
           \A i \in 1..Len(S) : T[i] = S[i],
           T[Len(S) + 1] = <<"len", m + CIPHERTEXT_OVERHEAD>>,
           \A i \in 1..m :
                T[Len(S) + HeaderLen + i] = <<"data", F[Len(S)] + i>>,
           \A i \in Framing(m + CIPHERTEXT_OVERHEAD) :
                T[Len(S) + i][1] # "data",
           NEW G,
           G = [b \in DOMAIN F \cup {Len(T)} |->
                    IF b = Len(T) THEN F[Len(S)] + m ELSE F[b]]
    PROVE  Chunked(T, G)
<1>0. Len(S) \in Nat /\ Len(T) \in Nat
    BY LenProperties
<1>1. /\ MAX_CHUNK_SIZE \in Nat /\ CIPHERTEXT_OVERHEAD \in Nat \ {0}
      /\ HeaderLen \in Nat \ {0}
    BY SizeAssumption
<1>2. /\ DOMAIN F \subseteq Nat /\ \A b \in DOMAIN F : F[b] \in Nat
      /\ 0 \in DOMAIN F
      /\ \A b, c \in DOMAIN F : b <= c => F[b] <= F[c]
      /\ \A b \in DOMAIN F : b < Len(S) => ChunkAt(S, F, b)
    BY DEF Chunked
<1>3. Len(S) < Len(T)
    BY <1>0, <1>1
<1>4. /\ DOMAIN G = DOMAIN F \cup {Len(T)}
      /\ G[Len(T)] = F[Len(S)] + m
      /\ \A b \in DOMAIN F : b # Len(T) => G[b] = F[b]
    OBVIOUS
<1>5. ASSUME NEW b \in DOMAIN F
      PROVE  b \in Nat /\ b <= Len(S) /\ b # Len(T) /\ G[b] = F[b]
                       /\ F[b] <= F[Len(S)] /\ F[b] \in Nat
    <2>1. b \in Nat /\ b <= Len(S) /\ F[b] \in Nat
        BY <1>2
    <2>2. b # Len(T)
        BY <1>0, <1>3, <2>1
    <2> QED BY <1>2, <1>4, <2>1, <2>2
<1>6. DOMAIN G \subseteq Nat /\ 0 \in DOMAIN G
    BY <1>0, <1>2, <1>4
<1>7. ASSUME NEW b \in DOMAIN G PROVE G[b] \in Nat
    BY <1>4, <1>5
<1>8. ASSUME NEW b \in DOMAIN G, NEW c \in DOMAIN G, b <= c
      PROVE  G[b] <= G[c]
    <2>1. CASE b \in DOMAIN F /\ c \in DOMAIN F
        BY <1>2, <1>5, <1>8, <2>1
    <2>2. CASE b \in DOMAIN F /\ c = Len(T)
        <3>1. G[b] = F[b] /\ F[b] <= F[Len(S)] /\ F[b] \in Nat
            BY <1>5, <2>2
        <3>2. F[Len(S)] \in Nat
            BY <1>5
        <3> QED BY <1>4, <2>2, <3>1, <3>2
    <2>3. CASE b = Len(T) /\ c \in DOMAIN F
        BY <1>0, <1>3, <1>5, <1>8, <2>3
    <2>4. CASE b = Len(T) /\ c = Len(T)
        <3>1. F[Len(S)] + m \in Nat
            BY <1>5
        <3> QED BY <1>4, <2>4, <3>1
    <2> QED BY <1>4, <2>1, <2>2, <2>3, <2>4
<1>9. ASSUME NEW b \in DOMAIN G, b < Len(T)
      PROVE  ChunkAt(T, G, b)
    <2>1. b \in DOMAIN F /\ b \in Nat /\ b <= Len(S) /\ G[b] = F[b]
        BY <1>0, <1>4, <1>5, <1>9
    <2>2. CASE b < Len(S)
        <3>1. ChunkAt(S, F, b)
            BY <1>2, <2>1, <2>2
        <3> DEFINE n == S[b + 1][2]
        <3>2. /\ n \in CIPHERTEXT_OVERHEAD..MAX_CHUNK_SIZE - HeaderLen
              /\ b + HeaderLen + n \in DOMAIN F
              /\ F[b + HeaderLen + n] = F[b] + (n - CIPHERTEXT_OVERHEAD)
              /\ \A i \in 1..n - CIPHERTEXT_OVERHEAD :
                    b + HeaderLen + i <= Len(S)
                        => S[b + HeaderLen + i] = <<"data", F[b] + i>>
              /\ \A i \in Framing(n) : b + i <= Len(S) => S[b + i][1] # "data"
            BY <3>1 DEF ChunkAt
        <3>3. T[b + 1][2] = n
            BY <1>0, <2>1, <2>2, SMTT(30)
        <3> HIDE DEF n
        <3>4. /\ b + HeaderLen + n \in DOMAIN G
              /\ G[b + HeaderLen + n] = G[b] + (n - CIPHERTEXT_OVERHEAD)
              /\ b + HeaderLen + n <= Len(S)
            BY <1>4, <1>5, <2>1, <3>2
        <3>5. ASSUME NEW i \in 1..n - CIPHERTEXT_OVERHEAD
              PROVE  T[b + HeaderLen + i] = <<"data", G[b] + i>>
            <4>1. b + HeaderLen + i \in 1..Len(S)
                BY <1>0, <1>1, <2>1, <3>2, <3>4
            <4> QED BY <2>1, <3>2, <4>1
        <3>6. ASSUME NEW i \in Framing(n)
              PROVE  T[b + i][1] # "data"
            <4>1. b + i \in 1..Len(S)
                BY <1>0, <1>1, <2>1, <3>2, <3>4 DEF Framing
            <4> QED BY <3>2, <4>1
        <3> QED BY <3>2, <3>3, <3>4, <3>5, <3>6 DEF ChunkAt
    <2>3. CASE b = Len(S)
        <3> DEFINE n == T[b + 1][2]
        <3>1. n = m + CIPHERTEXT_OVERHEAD
            BY <2>3
        <3> HIDE DEF n
        <3>2. /\ n \in CIPHERTEXT_OVERHEAD..MAX_CHUNK_SIZE - HeaderLen
              /\ n - CIPHERTEXT_OVERHEAD = m
              /\ b + HeaderLen + n = Len(T)
            BY <1>0, <1>1, <2>3, <3>1
        <3>3. /\ b + HeaderLen + n \in DOMAIN G
              /\ G[b + HeaderLen + n] = G[b] + (n - CIPHERTEXT_OVERHEAD)
            BY <1>4, <2>1, <2>3, <3>2
        <3>4. ASSUME NEW i \in 1..n - CIPHERTEXT_OVERHEAD
              PROVE  T[b + HeaderLen + i] = <<"data", G[b] + i>>
            BY <2>1, <2>3, <3>2
        <3>5. ASSUME NEW i \in Framing(n)
              PROVE  T[b + i][1] # "data"
            BY <2>3, <3>1
        <3> QED BY <3>2, <3>3, <3>4, <3>5 DEF ChunkAt, n
    <2> QED BY <1>0, <2>1, <2>2, <2>3
<1> QED BY <1>6, <1>7, <1>8, <1>9 DEF Chunked
----------------------------------------------------------------------------
\* The buffers

LEMMA Sizes ==
    /\ MAX_CHUNK_SIZE \in Nat /\ MAX_CHUNK_SIZE >= 1
    /\ CIPHERTEXT_OVERHEAD \in Nat /\ CIPHERTEXT_OVERHEAD >= 1
    /\ HeaderLen \in Nat /\ HeaderLen >= 1
    /\ MAX_CHUNK_SIZE > HeaderLen + CIPHERTEXT_OVERHEAD
    /\ WireCap \in Nat
BY SizeAssumption

\* spare_capacity_mut and what is put there.
LEMMA Extended ==
    ASSUME NEW buf \in HelperBuf, NEW more \in Seq(Byte)
    PROVE  /\ Extend(buf, more) \in HelperBuf
           /\ Extend(buf, more).data = buf.data \o more
           /\ Extend(buf, more).cursor = buf.cursor
<1>1. buf.data \in Seq(Byte) /\ buf.cursor \in Nat
    BY DEF HelperBuf
<1>2. buf.data \o more \in Seq(Byte)
    BY <1>1, ConcatProperties
<1> QED BY <1>1, <1>2 DEF Extend, HelperBuf

\* wrap
LEMMA Wrapped ==
    ASSUME NEW buf \in HelperBuf
    PROVE  /\ Wrap(buf) \in HelperBuf
           /\ Wrap(buf).data = buf.data
           /\ Wrap(buf).cursor = 0
BY DEF Wrap, HelperBuf

\* advance_cursor: the data behind the cursor is what is left, the capacity
\* behind it never shrinks, and a buffer without data is blank.
LEMMA Advanced ==
    ASSUME NEW buf \in HelperBuf, NEW n \in 0..Len(buf.data),
           NEW new, new = AdvanceCursor(buf, n),
           buf.data = <<>> => buf.cursor = 0
    PROVE  /\ new \in HelperBuf
           /\ new.data = SubSeq(buf.data, n + 1, Len(buf.data))
           /\ Len(new.data) = Len(buf.data) - n
           /\ new.cursor + Len(new.data) <= buf.cursor + Len(buf.data)
           /\ new.data = <<>> => new.cursor = 0
<1>1. buf.data \in Seq(Byte) /\ buf.cursor \in Nat /\ Len(buf.data) \in Nat
    BY LenProperties DEF HelperBuf
<1>2. /\ SubSeq(buf.data, n + 1, Len(buf.data)) \in Seq(Byte)
      /\ Len(SubSeq(buf.data, n + 1, Len(buf.data))) = Len(buf.data) - n
    BY <1>1, Cut
<1>3. <<>> \in Seq(Byte) /\ Len(<<>>) = 0
    BY EmptySeq
<1>4. CASE n = Len(buf.data)
    <2>1. SubSeq(buf.data, n + 1, Len(buf.data)) = <<>>
        BY <1>1, <1>4, SubSeqEmpty
    <2>2. new = [data |-> <<>>, cursor |-> 0]
        BY <1>4 DEF AdvanceCursor, EmptyBuf
    <2>3. new.data = <<>> /\ new.cursor = 0 /\ new \in HelperBuf
        BY <1>3, <2>2 DEF HelperBuf
    <2>4. Len(new.data) = 0 /\ Len(buf.data) - n = 0
        BY <1>1, <1>3, <1>4, <2>3
    <2> QED BY <1>1, <2>1, <2>3, <2>4
<1>5. CASE n # Len(buf.data)
    <2> DEFINE rest == SubSeq(buf.data, n + 1, Len(buf.data))
    <2>1. rest \in Seq(Byte) /\ Len(rest) = Len(buf.data) - n
        BY <1>2
    <2>2. new = [data |-> rest, cursor |-> buf.cursor + n]
        BY <1>5 DEF AdvanceCursor
    <2> HIDE DEF rest
    <2>3. new.data = rest /\ new.cursor = buf.cursor + n /\ new \in HelperBuf
        BY <1>1, <2>1, <2>2 DEF HelperBuf
    <2>4. rest # <<>>
        BY <1>1, <1>3, <1>5, <2>1
    <2> QED BY <1>1, <2>1, <2>3, <2>4 DEF rest
<1> QED BY <1>4, <1>5

\* encrypt_in_place and the header: where the parts of a chunk are.
LEMMA ChunkParts ==
    ASSUME NEW msg \in Seq(Byte)
    PROVE  /\ Chunk(msg) \in Seq(Byte)
           /\ Len(Chunk(msg)) = HeaderLen + Len(msg) + CIPHERTEXT_OVERHEAD
           /\ Chunk(msg)[1] = <<"len", Len(msg) + CIPHERTEXT_OVERHEAD>>
           /\ \A i \in 1..Len(msg) : Chunk(msg)[HeaderLen + i] = msg[i]
           /\ \A i \in Framing(Len(msg) + CIPHERTEXT_OVERHEAD) :
                Chunk(msg)[i][1] # "data"
<1> DEFINE n == Len(msg) + CIPHERTEXT_OVERHEAD
           header == Header(n)
           tag == Tag
<1>1. n \in Nat /\ Len(msg) \in Nat
    BY Sizes, LenProperties
<1>2. /\ header \in Seq(Byte) /\ Len(header) = HeaderLen
      /\ header[1] = <<"len", n>>
      /\ \A i \in 1..HeaderLen : header[i][1] # "data"
    BY <1>1, Sizes DEF Header, Copies, Byte
<1>3. /\ tag \in Seq(Byte) /\ Len(tag) = CIPHERTEXT_OVERHEAD
      /\ \A i \in 1..CIPHERTEXT_OVERHEAD : tag[i][1] # "data"
    BY Sizes DEF Tag, Copies, Byte
<1>4. Chunk(msg) = (header \o msg) \o tag
    BY DEF Chunk
<1> HIDE DEF n, header, tag
<1> DEFINE chunk == Chunk(msg)
<1> HIDE DEF chunk
<1>5. /\ chunk \in Seq(Byte)
      /\ Len(chunk) = Len(header) + Len(msg) + Len(tag)
      /\ \A i \in 1..Len(header) : chunk[i] = header[i]
      /\ \A i \in 1..Len(msg) : chunk[Len(header) + i] = msg[i]
      /\ \A i \in 1..Len(tag) : chunk[Len(header) + Len(msg) + i] = tag[i]
    <2>1. ThreeParts((header \o msg) \o tag, header, msg, tag)
        BY <1>2, <1>3, Parts
    <2>2. ThreeParts(chunk, header, msg, tag)
        BY <1>4, <2>1 DEF chunk
    <2> QED BY <2>2 DEF ThreeParts
<1>6. 1 \in 1..Len(header)
    BY <1>2, Sizes
<1>7. ASSUME NEW i \in Framing(Len(msg) + CIPHERTEXT_OVERHEAD)
      PROVE  chunk[i][1] # "data"
    <2>1. PICK l \in Nat : l = Len(msg)
        BY <1>1
    <2>2. /\ i \in 1..HeaderLen + (l + CIPHERTEXT_OVERHEAD)
          /\ i <= HeaderLen \/ i > HeaderLen + l
        <3>1. i \in Framing(l + CIPHERTEXT_OVERHEAD)
            BY <2>1
        <3>2. PICK k : k = l + CIPHERTEXT_OVERHEAD
            OBVIOUS
        <3>3. /\ i \in 1..HeaderLen + k
              /\ i <= HeaderLen \/ i > HeaderLen + (k - CIPHERTEXT_OVERHEAD)
            BY <3>1, <3>2 DEF Framing
        <3> QED BY <3>2, <3>3, Sizes
    <2>3. CASE i <= HeaderLen
        <3>1. i \in 1..HeaderLen
            BY <2>2, <2>3, Sizes
        <3> QED BY <1>2, <1>5, <3>1
    <2>4. CASE i > HeaderLen + l
        <3>1. PICK j \in 1..CIPHERTEXT_OVERHEAD : i = HeaderLen + l + j
            <4>1. /\ i - (HeaderLen + l) \in 1..CIPHERTEXT_OVERHEAD
                  /\ i = HeaderLen + l + (i - (HeaderLen + l))
                BY <2>2, <2>4, Sizes
            <4> QED BY <4>1
        <3>2. chunk[i] = tag[j]
            BY <1>2, <1>3, <1>5, <2>1, <3>1
        <3> QED BY <1>3, <3>2
    <2> QED BY <2>2, <2>3, <2>4, Sizes
<1> QED BY <1>2, <1>3, <1>5, <1>6, <1>7 DEF n, chunk

\* The buffer of a writer that is not flushing.
LEMMA Headed ==
    ASSUME NEW msg \in Seq(Byte)
    PROVE  /\ Header(0) \o msg \in Seq(Byte)
           /\ Len(Header(0) \o msg) = HeaderLen + Len(msg)
           /\ \A i \in 1..Len(msg) : (Header(0) \o msg)[HeaderLen + i] = msg[i]
           /\ Header(0) \in Seq(Byte) /\ Len(Header(0)) = HeaderLen
<1> DEFINE header == Header(0)
<1>1. header \in Seq(Byte) /\ Len(header) = HeaderLen
    BY Sizes DEF Header, Copies, Byte
<1> HIDE DEF header
<1>2. /\ header \o msg \in Seq(Byte)
      /\ Len(header \o msg) = Len(header) + Len(msg)
      /\ \A i \in 1..Len(header) + Len(msg) :
            (header \o msg)[i] = IF i <= Len(header) THEN header[i]
                                 ELSE msg[i - Len(header)]
    BY <1>1, ConcatProperties
<1>3. ASSUME NEW i \in 1..Len(msg) PROVE (header \o msg)[HeaderLen + i] = msg[i]
    <2>1. Len(msg) \in Nat
        BY LenProperties
    <2> DEFINE both == header \o msg
    <2>2. \A j \in 1..Len(header) + Len(msg) :
            both[j] = IF j <= Len(header) THEN header[j] ELSE msg[j - Len(header)]
        BY <1>2
    <2> DEFINE j == HeaderLen + i
    <2>3. /\ j \in 1..Len(header) + Len(msg)
          /\ ~(j <= Len(header)) /\ j - Len(header) = i
        BY <1>1, <2>1, Sizes
    <2> HIDE DEF both, j
    <2>4. both[j] = msg[i]
        BY <2>2, <2>3
    <2> QED BY <2>4 DEF both, j
<1> QED BY <1>1, <1>2, <1>3 DEF header
----------------------------------------------------------------------------
\* The inductive invariant

\* The writer. One that is not flushing has room for another byte and a tag.
WriterSide ==
    /\ call \in {"none", "write", "flush", "shutdown", "gone"}
    /\ bytes \in Seq(Byte) /\ Len(bytes) <= MAX_CHUNK_SIZE
    /\ flushing \in BOOLEAN /\ closed \in BOOLEAN
    /\ offered \in Nat /\ written \in Nat /\ flushed \in Nat /\ flushes \in Nat
    /\ closed <=> call = "gone"
    /\ call = "write" => offered >= 1
    /\ ~flushing /\ ~closed =>
        /\ HeaderLen <= Len(bytes)
        /\ Len(bytes) + CIPHERTEXT_OVERHEAD < MAX_CHUNK_SIZE

\* Where the reader may be, given its buffers.
ReaderSide ==
    /\ rpc \in RPCs /\ wanted \in Nat
    /\ ciphertext \in HelperBuf /\ cleartext \in HelperBuf
    /\ ciphertext.cursor + Len(ciphertext.data) <= 2 * MAX_CHUNK_SIZE
    /\ cleartext.cursor + Len(cleartext.data) <= MAX_CHUNK_SIZE
    /\ ciphertext.data = <<>> => ciphertext.cursor = 0
    /\ cleartext.data = <<>> => cleartext.cursor = 0
    /\ rpc = "loop" =>
        \/ ciphertext.cursor + Len(ciphertext.data) < 2 * MAX_CHUNK_SIZE
        \/ cleartext.data # <<>>
    /\ rpc = "return" => cleartext.data # <<>>
    /\ rpc # "panic"

\* What the reader has returned and what it has decrypted are the bytes
\* written, in order.
InOrder ==
    /\ out \in Seq(Byte)
    /\ DataFrom(out, 0)
    /\ DataFrom(cleartext.data, Len(out))

\* The encrypted bytes that the reader has not decrypted.
Outgoing == IF flushing THEN bytes ELSE <<>>

Stream == (ciphertext.data \o wire) \o Outgoing

\* The stream goes on where the reader's cleartext ends, and contains nothing
\* that was not written; it holds all that was flushed in front of what the
\* writer holds; and as long as the writer lives it ends with a chunk, behind
\* which the bytes taken since then come next.
Tracks(F) ==
    /\ Chunked(Stream, F)
    /\ F[0] = Len(out) + Len(cleartext.data)
    /\ \A b \in DOMAIN F : F[b] <= written
    /\ \E b \in DOMAIN F :
        b <= Len(ciphertext.data) + Len(wire) /\ flushed <= F[b]
    /\ ~closed =>
        /\ Len(Stream) \in DOMAIN F
        /\ \A b \in DOMAIN F : b <= Len(Stream)
        /\ flushing => F[Len(Stream)] = written
        /\ ~flushing =>
            /\ F[Len(Stream)] + (Len(bytes) - HeaderLen) = written
            /\ \A i \in 1..Len(bytes) - HeaderLen :
                bytes[HeaderLen + i] = <<"data", F[Len(Stream)] + i>>

IInv ==
    /\ WriterSide /\ ReaderSide /\ InOrder
    /\ wire \in Seq(Byte)
    /\ \E F : Tracks(F)

\* The parts of the state are sequences, and the stream has three parts.
LEMMA Lengths ==
    ASSUME WriterSide, ReaderSide, InOrder, wire \in Seq(Byte)
    PROVE  /\ ciphertext.data \in Seq(Byte) /\ Len(ciphertext.data) \in Nat
           /\ cleartext.data \in Seq(Byte) /\ Len(cleartext.data) \in Nat
           /\ ciphertext.cursor \in Nat /\ cleartext.cursor \in Nat
           /\ Len(wire) \in Nat /\ Len(bytes) \in Nat /\ Len(out) \in Nat
           /\ Outgoing \in Seq(Byte) /\ Len(Outgoing) \in Nat
           /\ Stream \in Seq(Byte) /\ Len(Stream) \in Nat
           /\ Len(Stream)
                = Len(ciphertext.data) + Len(wire) + Len(Outgoing)
           /\ \A i \in 1..Len(ciphertext.data) : Stream[i] = ciphertext.data[i]
           /\ ~flushing => Len(Outgoing) = 0
<1>1. /\ ciphertext.data \in Seq(Byte) /\ cleartext.data \in Seq(Byte)
      /\ ciphertext.cursor \in Nat /\ cleartext.cursor \in Nat
    BY DEF ReaderSide, HelperBuf
<1>2. bytes \in Seq(Byte) /\ out \in Seq(Byte)
    BY DEF WriterSide, InOrder
<1>3. <<>> \in Seq(Byte) /\ Len(<<>>) = 0
    BY EmptySeq
<1>4. Outgoing \in Seq(Byte) /\ (~flushing => Len(Outgoing) = 0)
    BY <1>2, <1>3 DEF Outgoing
<1>5. /\ Len(ciphertext.data) \in Nat /\ Len(cleartext.data) \in Nat
      /\ Len(wire) \in Nat /\ Len(bytes) \in Nat /\ Len(out) \in Nat
      /\ Len(Outgoing) \in Nat
    BY <1>1, <1>2, <1>4, LenProperties
<1>6. Stream = (ciphertext.data \o wire) \o Outgoing
    BY DEF Stream
<1>7. /\ Stream \in Seq(Byte)
      /\ Len(Stream) = Len(ciphertext.data) + Len(wire) + Len(Outgoing)
      /\ \A i \in 1..Len(ciphertext.data) : Stream[i] = ciphertext.data[i]
    <2>1. ThreeParts(Stream, ciphertext.data, wire, Outgoing)
        BY <1>1, <1>4, <1>6, Parts
    <2> QED BY <2>1 DEF ThreeParts
<1> QED BY <1>1, <1>4, <1>5, <1>7

\* peek_cipher_chunk reads a length that a writer has set.
LEMMA FirstChunk ==
    ASSUME WriterSide, ReaderSide, InOrder, wire \in Seq(Byte),
           NEW F, Tracks(F), Len(ciphertext.data) >= 1
    PROVE  /\ ChunkLen \in CIPHERTEXT_OVERHEAD..MAX_CHUNK_SIZE - HeaderLen
           /\ HeaderLen + ChunkLen \in DOMAIN F
           /\ F[HeaderLen + ChunkLen] = F[0] + (ChunkLen - CIPHERTEXT_OVERHEAD)
           /\ \A i \in 1..ChunkLen - CIPHERTEXT_OVERHEAD :
                HeaderLen + i <= Len(ciphertext.data) =>
                    ciphertext.data[HeaderLen + i] = <<"data", F[0] + i>>
           /\ \A i \in Framing(ChunkLen) :
                i <= Len(ciphertext.data) => ciphertext.data[i][1] # "data"
<1>1. /\ Len(ciphertext.data) \in Nat /\ Len(Stream) \in Nat
      /\ Len(ciphertext.data) <= Len(Stream)
      /\ \A i \in 1..Len(ciphertext.data) : Stream[i] = ciphertext.data[i]
    <2> DEFINE lc == Len(ciphertext.data)
               lw == Len(wire)
               lo == Len(Outgoing)
               ls == Len(Stream)
    <2>1. /\ lc \in Nat /\ lw \in Nat /\ lo \in Nat /\ ls \in Nat
          /\ ls = lc + lw + lo
        BY Lengths
    <2>2. \A i \in 1..lc : Stream[i] = ciphertext.data[i]
        BY Lengths
    <2> HIDE DEF lc, lw, lo, ls
    <2>3. lc <= ls
        BY <2>1
    <2> QED BY <2>1, <2>2, <2>3 DEF lc, ls
<1>2. ChunkAt(Stream, F, 0)
    <2>1. Chunked(Stream, F)
        BY DEF Tracks
    <2>2. 0 < Len(Stream)
        BY <1>1
    <2> QED BY <2>1, <2>2 DEF Chunked
<1>3. Stream[0 + 1] = ciphertext.data[1]
    BY <1>1
<1>4. ChunkLen = Stream[0 + 1][2]
    BY <1>3 DEF ChunkLen
<1>5. /\ ChunkLen \in CIPHERTEXT_OVERHEAD..MAX_CHUNK_SIZE - HeaderLen
      /\ 0 + HeaderLen + ChunkLen \in DOMAIN F
      /\ F[0 + HeaderLen + ChunkLen] = F[0] + (ChunkLen - CIPHERTEXT_OVERHEAD)
      /\ \A i \in 1..ChunkLen - CIPHERTEXT_OVERHEAD :
            0 + HeaderLen + i <= Len(Stream)
                => Stream[0 + HeaderLen + i] = <<"data", F[0] + i>>
      /\ \A i \in Framing(ChunkLen) :
            0 + i <= Len(Stream) => Stream[0 + i][1] # "data"
    BY <1>2, <1>4 DEF ChunkAt
<1>6. 0 + HeaderLen = HeaderLen
    BY Sizes
<1>7. ASSUME NEW i \in 1..ChunkLen - CIPHERTEXT_OVERHEAD,
             HeaderLen + i <= Len(ciphertext.data)
      PROVE  ciphertext.data[HeaderLen + i] = <<"data", F[0] + i>>
    <2>1. HeaderLen + i \in 1..Len(ciphertext.data) /\ HeaderLen + i <= Len(Stream)
        BY <1>1, <1>5, <1>7, Sizes
    <2> QED BY <1>1, <1>5, <1>6, <2>1
<1>8. ASSUME NEW i \in Framing(ChunkLen), i <= Len(ciphertext.data)
      PROVE  ciphertext.data[i][1] # "data"
    <2>1. i \in Nat /\ i >= 1 /\ 0 + i = i
        BY DEF Framing
    <2>2. i \in 1..Len(ciphertext.data) /\ i <= Len(Stream)
        BY <1>1, <1>8, <2>1
    <2> QED BY <1>1, <1>5, <2>1, <2>2
<1> QED BY <1>5, <1>6, <1>7, <1>8

\* The invariant holds at the start: nothing is on its way.
LEMMA InitInv == Init => IInv
<1> SUFFICES ASSUME Init PROVE IInv
    OBVIOUS
<1>1. <<>> \in Seq(Byte) /\ Len(<<>>) = 0
    BY EmptySeq
<1>2. EmptyBuf \in HelperBuf /\ EmptyBuf.data = <<>> /\ EmptyBuf.cursor = 0
    BY <1>1 DEF EmptyBuf, HelperBuf
<1>3. WriterSide
    <2>1. closed = FALSE /\ flushing = TRUE /\ call = "none" /\ bytes = <<>>
        BY DEF Init
    <2>2. ~closed /\ flushing /\ call # "gone" /\ call # "write"
        BY <2>1
    <2>3. bytes \in Seq(Byte) /\ Len(bytes) <= MAX_CHUNK_SIZE
        BY <1>1, <2>1, Sizes
    <2>4. offered \in Nat /\ written \in Nat /\ flushed \in Nat /\ flushes \in Nat
        BY DEF Init
    <2> QED BY <2>1, <2>2, <2>3, <2>4 DEF WriterSide
<1>4. ReaderSide
    BY <1>1, <1>2, Sizes DEF Init, ReaderSide, RPCs
<1>5. InOrder
    BY <1>1, <1>2 DEF Init, InOrder, DataFrom
<1>6. wire \in Seq(Byte)
    BY <1>1 DEF Init
<1>7. \E F : Tracks(F)
    <2> DEFINE F == [b \in {0} |-> 0]
    <2>1. DOMAIN F = {0} /\ F[0] = 0
        OBVIOUS
    <2> HIDE DEF F
    <2>2. /\ Len(Stream) = 0 /\ Len(ciphertext.data) = 0 /\ Len(wire) = 0
          /\ Len(out) = 0 /\ Len(cleartext.data) = 0
        <3>1. /\ Len(ciphertext.data) = 0 /\ Len(wire) = 0
              /\ Len(out) = 0 /\ Len(cleartext.data) = 0
            BY <1>1, <1>2 DEF Init
        <3>2. Len(Outgoing) = 0
            BY <1>1 DEF Init, Outgoing
        <3> QED BY <1>3, <1>4, <1>5, <1>6, <3>1, <3>2, Lengths
    <2>3. Chunked(Stream, F)
        BY <2>1, <2>2 DEF Chunked
    <2>4. Tracks(F)
        BY <2>1, <2>2, <2>3 DEF Tracks, Init
    <2> QED BY <2>4
<1> QED BY <1>3, <1>4, <1>5, <1>6, <1>7 DEF IInv
----------------------------------------------------------------------------
\* Steps that leave one side alone

LEMMA ReaderRests ==
    ASSUME ReaderSide, InOrder, UNCHANGED readerVars
    PROVE  ReaderSide' /\ InOrder'
<1>1. /\ rpc' = rpc /\ wanted' = wanted /\ ciphertext' = ciphertext
      /\ cleartext' = cleartext /\ out' = out
    BY DEF readerVars
<1>2. ReaderSide'
    BY <1>1 DEF ReaderSide
<1>3. InOrder'
    BY <1>1 DEF InOrder
<1> QED BY <1>2, <1>3

LEMMA WriterRests ==
    ASSUME WriterSide, UNCHANGED writerVars, closed' = closed
    PROVE  WriterSide'
<1>1. /\ call' = call /\ offered' = offered /\ bytes' = bytes
      /\ flushing' = flushing /\ written' = written /\ flushed' = flushed
      /\ flushes' = flushes
    BY DEF writerVars
<1> QED BY <1>1 DEF WriterSide

\* Bytes that move within the stream, or from the reader's cleartext to the
\* application, are still counted by the same function.
LEMMA TracksKept ==
    ASSUME NEW F, Tracks(F),
           Stream' = Stream,
           Len(out') + Len(cleartext'.data) = Len(out) + Len(cleartext.data),
           written' = written, flushed' = flushed,
           {Len(ciphertext.data) + Len(wire),
            Len(ciphertext'.data) + Len(wire')} \subseteq Nat,
           Len(ciphertext.data) + Len(wire)
                <= Len(ciphertext'.data) + Len(wire'),
           ~closed' => ~closed,
           flushing' = flushing,
           ~flushing /\ ~closed' => bytes' = bytes
    PROVE  Tracks(F)'
<1>1. Chunked(Stream', F)
    BY DEF Tracks
<1>2. F[0] = Len(out') + Len(cleartext'.data)
    BY DEF Tracks
<1>3. \A b \in DOMAIN F : F[b] <= written'
    BY DEF Tracks
<1>4. \E b \in DOMAIN F :
        b <= Len(ciphertext'.data) + Len(wire') /\ flushed' <= F[b]
    <2>1. PICK b \in DOMAIN F :
            b <= Len(ciphertext.data) + Len(wire) /\ flushed <= F[b]
        BY DEF Tracks
    <2>2. b \in Nat
        BY DEF Tracks, Chunked
    <2>3. b <= Len(ciphertext'.data) + Len(wire')
        BY <2>1, <2>2
    <2> QED BY <2>1, <2>3
<1>5. ASSUME ~closed'
      PROVE  /\ Len(Stream') \in DOMAIN F
             /\ \A b \in DOMAIN F : b <= Len(Stream')
             /\ flushing' => F[Len(Stream')] = written'
             /\ ~flushing' =>
                /\ F[Len(Stream')] + (Len(bytes') - HeaderLen) = written'
                /\ \A i \in 1..Len(bytes') - HeaderLen :
                    bytes'[HeaderLen + i] = <<"data", F[Len(Stream')] + i>>
    BY <1>5 DEF Tracks
<1> QED BY <1>1, <1>2, <1>3, <1>4, <1>5 DEF Tracks

\* What a step of the reader has to show.
LEMMA ReaderStep ==
    ASSUME IInv, UNCHANGED writerVars, closed' = closed,
           ReaderSide', InOrder', wire' \in Seq(Byte),
           \E F : Tracks(F)'
    PROVE  IInv'
<1>1. WriterSide'
    BY WriterRests DEF IInv
<1> QED BY <1>1 DEF IInv

\* What a step of the writer has to show.
LEMMA WriterStep ==
    ASSUME IInv, UNCHANGED readerVars,
           WriterSide', wire' \in Seq(Byte),
           \E F : Tracks(F)'
    PROVE  IInv'
<1>1. ReaderSide' /\ InOrder'
    BY ReaderRests DEF IInv
<1> QED BY <1>1 DEF IInv

----------------------------------------------------------------------------
\* The steps of the reader

\* The steps that only change where the reader is.
LEMMA GotoInv ==
    ASSUME IInv, NEW where, Goto(where),
           where \in RPCs \ {"panic", "loop"},
           where = "return" => cleartext.data # <<>>
    PROVE  IInv'
<1>1. /\ UNCHANGED writerVars /\ closed' = closed /\ wire' = wire
      /\ rpc' = where /\ wanted' = wanted /\ ciphertext' = ciphertext
      /\ cleartext' = cleartext /\ out' = out
    BY DEF Goto
<1>2. ReaderSide'
    BY <1>1 DEF IInv, ReaderSide
<1>3. InOrder'
    BY <1>1 DEF IInv, InOrder
<1>4. PICK F : Tracks(F)
    BY DEF IInv
<1>5. Tracks(F)'
    BY <1>1, <1>4 DEF Tracks, Stream, Outgoing, writerVars
<1> QED BY <1>1, <1>2, <1>3, <1>5, ReaderStep DEF IInv

LEMMA CallReadInv ==
    ASSUME IInv, NEW n \in 0..MaxWritten, CallRead(n)
    PROVE  IInv'
<1>1. /\ UNCHANGED writerVars /\ closed' = closed /\ wire' = wire
      /\ rpc' = "decrypt" /\ wanted' = n /\ ciphertext' = ciphertext
      /\ cleartext' = cleartext /\ out' = out
    BY DEF CallRead
<1>2. ReaderSide'
    BY <1>1 DEF IInv, ReaderSide, RPCs
<1>3. InOrder'
    BY <1>1 DEF IInv, InOrder
<1>4. PICK F : Tracks(F)
    BY DEF IInv
<1>5. Tracks(F)'
    BY <1>1, <1>4 DEF Tracks, Stream, Outgoing, writerVars
<1> QED BY <1>1, <1>2, <1>3, <1>5, ReaderStep DEF IInv
\* LoopEnds: enough is decrypted, or the ciphertext buffer is full, which
\* cannot be while nothing is decrypted.
LEMMA LoopEndsInv ==
    ASSUME IInv, LoopEnds
    PROVE  IInv'
<1>1. rpc = "loop" /\ ~KeepsReading /\ Goto("return")
    BY DEF LoopEnds
<1>2. /\ Len(cleartext.data) \in Nat /\ Len(ciphertext.data) \in Nat
      /\ ciphertext.cursor \in Nat
    BY Lengths DEF IInv
<1>3. cleartext.data # <<>>
    <2> SUFFICES ASSUME cleartext.data = <<>> PROVE FALSE
        OBVIOUS
    <2>1. Len(cleartext.data) = 0
        BY EmptySeq
    <2>2. BytesAmount >= 1
        BY Sizes DEF BytesAmount, Min, IInv, ReaderSide
    <2>3. BytesAmount \in Nat
        BY Sizes DEF BytesAmount, Min, IInv, ReaderSide
    <2>4. CipherSpare = 0
        BY <1>1, <2>1, <2>2, <2>3 DEF KeepsReading
    <2>5. ciphertext.cursor + Len(ciphertext.data) < 2 * MAX_CHUNK_SIZE
        BY <1>1 DEF IInv, ReaderSide
    <2> QED BY <1>2, <2>4, <2>5, Sizes DEF CipherSpare, SpareCapacity
<1>4. "return" \in RPCs \ {"panic", "loop"}
    BY DEF RPCs
<1> QED BY <1>1, <1>3, <1>4, GotoInv

LEMMA InnerPendingInv ==
    ASSUME IInv, InnerPending
    PROVE  IInv'
<1>1. CASE cleartext.data = <<>>
    <2>1. Goto("parked")
        BY <1>1 DEF InnerPending
    <2>2. "parked" \in RPCs \ {"panic", "loop"}
        BY DEF RPCs
    <2> QED BY <2>1, <2>2, GotoInv
<1>2. CASE cleartext.data # <<>>
    <2>1. Goto("return")
        BY <1>2 DEF InnerPending
    <2>2. "return" \in RPCs \ {"panic", "loop"}
        BY DEF RPCs
    <2> QED BY <1>2, <2>1, <2>2, GotoInv
<1> QED BY <1>1, <1>2

LEMMA InnerEofInv ==
    ASSUME IInv, InnerEof
    PROVE  IInv'
<1>1. Goto("eof") \/ Goto("spin")
    BY DEF InnerEof
<1>2. {"eof", "spin"} \subseteq RPCs \ {"panic", "loop"}
    BY DEF RPCs
<1>3. CASE Goto("eof")
    BY <1>2, <1>3, GotoInv
<1>4. CASE Goto("spin")
    BY <1>2, <1>4, GotoInv
<1> QED BY <1>1, <1>3, <1>4

LEMMA WakeInv ==
    ASSUME IInv, Wake
    PROVE  IInv'
<1>1. Goto("decrypt")
    BY DEF Wake
<1>2. "decrypt" \in RPCs \ {"panic", "loop"}
    BY DEF RPCs
<1> QED BY <1>1, <1>2, GotoInv

\* decrypt_all_full_chunks returns. A full buffer without a whole chunk holds
\* less than one chunk, so that more than half of it is before the cursor. A
\* full buffer with a whole chunk is left only if something is decrypted.
LEMMA DecryptedInv ==
    ASSUME IInv, Decrypted
    PROVE  IInv'
<1>0. WriterSide /\ ReaderSide /\ InOrder /\ wire \in Seq(Byte)
    BY DEF IInv
<1>1. PICK F : Tracks(F)
    BY DEF IInv
<1>2. /\ Len(ciphertext.data) \in Nat /\ Len(cleartext.data) \in Nat
      /\ ciphertext.cursor \in Nat /\ cleartext.cursor \in Nat
    BY <1>0, Lengths
<1>3. Len(ciphertext.data) >= 1
        => ChunkLen \in CIPHERTEXT_OVERHEAD..MAX_CHUNK_SIZE - HeaderLen
    BY <1>0, <1>1, FirstChunk
<1>4. /\ UNCHANGED writerVars /\ wire' = wire /\ closed' = closed
      /\ wanted' = wanted /\ cleartext' = cleartext /\ out' = out
      /\ rpc = "decrypt"
      /\ ~HasChunk \/ NoRoom
    BY DEF Decrypted, LeaveDecrypt
<1>5. ciphertext.cursor + Len(ciphertext.data) <= 2 * MAX_CHUNK_SIZE
    BY <1>0 DEF ReaderSide
<1>6. CASE ~HasChunk /\ CipherSpare = 0
    <2>1. Len(ciphertext.data) < MAX_CHUNK_SIZE
        BY <1>2, <1>3, <1>6, Sizes DEF HasChunk
    <2>2. ciphertext.cursor > Len(ciphertext.data)
        BY <1>2, <1>6, <2>1, Sizes DEF CipherSpare, SpareCapacity
    <2>3. ciphertext' = Wrap(ciphertext) /\ rpc' = "loop"
        <3>1. ~(Len(ciphertext.data) > ciphertext.cursor)
            BY <1>2, <2>2
        <3> QED BY <1>6, <3>1 DEF Decrypted, LeaveDecrypt
    <2>4. /\ ciphertext' \in HelperBuf /\ ciphertext'.data = ciphertext.data
          /\ ciphertext'.cursor = 0
        BY <1>0, <2>3, Wrapped DEF ReaderSide
    <2>5. ciphertext'.cursor + Len(ciphertext'.data) < 2 * MAX_CHUNK_SIZE
        BY <1>2, <2>1, <2>4, Sizes
    <2>6. ReaderSide'
        BY <1>0, <1>2, <1>4, <2>3, <2>4, <2>5, Sizes DEF ReaderSide, RPCs
    <2>7. Tracks(F)'
        BY <1>1, <1>4, <2>4 DEF Tracks, Stream, Outgoing, writerVars
    <2>8. InOrder'
        BY <1>0, <1>4 DEF InOrder
    <2> QED BY <1>0, <1>4, <2>6, <2>7, <2>8, ReaderStep
<1>7. CASE ~(~HasChunk /\ CipherSpare = 0)
    <2>1. ciphertext' = ciphertext /\ rpc' = "loop"
        BY <1>7 DEF Decrypted, LeaveDecrypt
    <2>2. \/ ciphertext.cursor + Len(ciphertext.data) < 2 * MAX_CHUNK_SIZE
          \/ cleartext.data # <<>>
        <3>1. CASE ~HasChunk
            BY <1>2, <1>5, <1>7, <3>1, Sizes DEF CipherSpare, SpareCapacity
        <3>2. CASE HasChunk
            <4>1. ClearSpare < ChunkLen
                BY <1>4, <3>2 DEF NoRoom
            <4>2. ChunkLen \in CIPHERTEXT_OVERHEAD..MAX_CHUNK_SIZE - HeaderLen
                BY <1>2, <1>3, <3>2, Sizes DEF HasChunk
            <4>3. ClearSpare
                    = MAX_CHUNK_SIZE - (cleartext.cursor + Len(cleartext.data))
                BY DEF ClearSpare, SpareCapacity
            <4>4. cleartext.cursor + Len(cleartext.data) > 0
                BY <1>2, <4>1, <4>2, <4>3, Sizes
            <4>5. cleartext.data = <<>> => cleartext.cursor = 0
                BY <1>0 DEF ReaderSide
            <4>6. cleartext.data = <<>> => Len(cleartext.data) = 0
                BY EmptySeq
            <4> QED BY <1>2, <4>4, <4>5, <4>6
        <3> QED BY <3>1, <3>2
    <2>3. ReaderSide'
        BY <1>0, <1>4, <2>1, <2>2 DEF ReaderSide, RPCs
    <2>4. Tracks(F)'
        BY <1>1, <1>4, <2>1 DEF Tracks, Stream, Outgoing, writerVars
    <2>5. InOrder'
        BY <1>0, <1>4 DEF InOrder
    <2> QED BY <1>0, <1>4, <2>3, <2>4, <2>5, ReaderStep
<1> QED BY <1>6, <1>7
\* poll_read on the inner reader: bytes move from the wire to the ciphertext.
LEMMA InnerReadInv ==
    ASSUME IInv, InnerRead
    PROVE  IInv'
<1>0. WriterSide /\ ReaderSide /\ InOrder /\ wire \in Seq(Byte)
    BY DEF IInv
<1>1. PICK F : Tracks(F)
    BY DEF IInv
<1>2. /\ ciphertext.data \in Seq(Byte) /\ Len(ciphertext.data) \in Nat
      /\ Len(cleartext.data) \in Nat /\ Len(wire) \in Nat
      /\ ciphertext.cursor \in Nat
    BY <1>0, Lengths
<1>3. /\ UNCHANGED writerVars /\ closed' = closed /\ wanted' = wanted
      /\ cleartext' = cleartext /\ out' = out /\ rpc' = "decrypt"
    BY DEF InnerRead
<1>4. PICK n \in 1..Min(Len(wire), CipherSpare) :
        /\ ciphertext' = Extend(ciphertext, SubSeq(wire, 1, n))
        /\ wire' = SubSeq(wire, n + 1, Len(wire))
    BY DEF InnerRead
<1>5. /\ n \in 1..Len(wire)
      /\ ciphertext.cursor + Len(ciphertext.data) + n <= 2 * MAX_CHUNK_SIZE
    <2>1. CipherSpare
            = 2 * MAX_CHUNK_SIZE - (ciphertext.cursor + Len(ciphertext.data))
        BY DEF CipherSpare, SpareCapacity
    <2> QED BY <1>2, <2>1, Sizes DEF Min
<1> DEFINE first == SubSeq(wire, 1, n)
<1>6. /\ first \in Seq(Byte) /\ Len(first) = n
      /\ wire' \in Seq(Byte) /\ Len(wire') = Len(wire) - n
    BY <1>0, <1>2, <1>4, <1>5, Cut
<1>7. (ciphertext.data \o first) \o wire' = ciphertext.data \o wire
    <2>1. /\ ciphertext.data \in Seq(Byte) /\ wire \in Seq(Byte)
          /\ n \in 0..Len(wire)
        BY <1>0, <1>2, <1>5
    <2>2. (ciphertext.data \o SubSeq(wire, 1, n))
                \o SubSeq(wire, n + 1, Len(wire)) = ciphertext.data \o wire
        BY <2>1, Moved
    <2> QED BY <1>4, <2>2
<1>8. ciphertext' = Extend(ciphertext, first)
    BY <1>4
<1> HIDE DEF first
<1>9. /\ ciphertext' \in HelperBuf /\ ciphertext'.data = ciphertext.data \o first
      /\ ciphertext'.cursor = ciphertext.cursor
    BY <1>0, <1>6, <1>8, Extended DEF ReaderSide
<1>10. Len(ciphertext'.data) = Len(ciphertext.data) + n
    BY <1>2, <1>6, <1>9, ConcatProperties
<1>11. ciphertext'.data # <<>>
    BY <1>2, <1>10, EmptySeq
<1>12. ReaderSide'
    <2>1. ciphertext'.cursor + Len(ciphertext'.data) <= 2 * MAX_CHUNK_SIZE
        BY <1>2, <1>5, <1>9, <1>10, Sizes
    <2> QED BY <1>0, <1>3, <1>9, <1>11, <2>1 DEF ReaderSide, RPCs
<1>13. InOrder'
    BY <1>0, <1>3 DEF InOrder
<1>14. Tracks(F)'
    <2>1. Stream' = Stream
        BY <1>3, <1>7, <1>9 DEF Stream, Outgoing, writerVars
    <2>2. /\ {Len(ciphertext.data) + Len(wire),
              Len(ciphertext'.data) + Len(wire')} \subseteq Nat
          /\ Len(ciphertext.data) + Len(wire)
                <= Len(ciphertext'.data) + Len(wire')
        BY <1>2, <1>5, <1>6, <1>10
    <2>3. /\ Len(out') + Len(cleartext'.data) = Len(out) + Len(cleartext.data)
          /\ written' = written /\ flushed' = flushed /\ (~closed' => ~closed)
          /\ flushing' = flushing /\ bytes' = bytes
        BY <1>3 DEF writerVars
    <2> QED BY <1>1, <2>1, <2>2, <2>3, TracksKept
<1> QED BY <1>3, <1>6, <1>12, <1>13, <1>14, ReaderStep

\* poll_read and consume: what is returned are the bytes that come next.
LEMMA ReturnFacts ==
    ASSUME IInv, Return
    PROVE  \E n \in 1..Len(cleartext.data) :
            /\ Len(out') = Len(out) + n
            /\ out' \in Seq(Byte)
            /\ DataFrom(out', 0)
            /\ cleartext' \in HelperBuf
            /\ Len(cleartext'.data) = Len(cleartext.data) - n
            /\ cleartext'.cursor + Len(cleartext'.data)
                    <= cleartext.cursor + Len(cleartext.data)
            /\ cleartext'.data = <<>> => cleartext'.cursor = 0
            /\ DataFrom(cleartext'.data, Len(out'))
<1>0. WriterSide /\ ReaderSide /\ InOrder /\ wire \in Seq(Byte)
    BY DEF IInv
<1>1. /\ cleartext.data \in Seq(Byte) /\ Len(cleartext.data) \in Nat
      /\ out \in Seq(Byte) /\ Len(out) \in Nat
    BY <1>0, Lengths DEF InOrder
<1>2. PICK n \in IF wanted = 0 THEN 1..Len(cleartext.data)
                 ELSE {Min(wanted, Len(cleartext.data))} :
        /\ out' = out \o SubSeq(cleartext.data, 1, n)
        /\ cleartext' = AdvanceCursor(cleartext, n)
    BY DEF Return
<1>3. n \in 1..Len(cleartext.data)
    <2>1. Len(cleartext.data) >= 1
        BY <1>0, <1>1, EmptySeq DEF Return, ReaderSide
    <2>2. wanted \in Nat
        BY <1>0 DEF ReaderSide
    <2> QED BY <1>1, <2>1, <2>2 DEF Min
<1> DEFINE clear == cleartext.data
           first == SubSeq(clear, 1, n)
           rest == SubSeq(clear, n + 1, Len(clear))
<1>4. /\ cleartext' \in HelperBuf
      /\ cleartext'.data = rest
      /\ Len(cleartext'.data) = Len(cleartext.data) - n
      /\ cleartext'.cursor + Len(cleartext'.data)
            <= cleartext.cursor + Len(cleartext.data)
      /\ cleartext'.data = <<>> => cleartext'.cursor = 0
    <2>1. /\ cleartext \in HelperBuf /\ n \in 0..Len(cleartext.data)
          /\ cleartext.data = <<>> => cleartext.cursor = 0
        BY <1>0, <1>1, <1>3 DEF ReaderSide
    <2> QED BY <1>2, <2>1, Advanced
<1>5. out' = out \o first
    BY <1>2
<1>6. /\ clear \in Seq(Byte) /\ n \in 0..Len(clear) /\ n \in Nat
      /\ DataFrom(out, 0) /\ DataFrom(clear, Len(out))
    BY <1>0, <1>1, <1>3 DEF InOrder
<1> HIDE DEF clear
<1>7. /\ first \in Seq(Byte) /\ Len(first) = n
      /\ DataFrom(first, Len(out)) /\ DataFrom(rest, Len(out) + n)
    BY <1>1, <1>6, Cut, DataCut
<1> HIDE DEF first, rest
<1>8. out' \in Seq(Byte) /\ Len(out') = Len(out) + n
    BY <1>1, <1>5, <1>7, ConcatProperties
<1>9. DataFrom(out', 0)
    <2>1. DataFrom(first, 0 + Len(out))
        BY <1>1, <1>7
    <2> QED BY <1>1, <1>5, <1>6, <1>7, <2>1, DataJoined
<1>10. DataFrom(cleartext'.data, Len(out'))
    BY <1>4, <1>7, <1>8
<1> QED BY <1>3, <1>4, <1>8, <1>9, <1>10

LEMMA ReturnInv ==
    ASSUME IInv, Return
    PROVE  IInv'
<1>0. WriterSide /\ ReaderSide /\ InOrder /\ wire \in Seq(Byte)
    BY DEF IInv
<1>1. PICK F : Tracks(F)
    BY DEF IInv
<1>2. /\ Len(ciphertext.data) \in Nat /\ Len(wire) \in Nat
      /\ Len(cleartext.data) \in Nat /\ Len(out) \in Nat
      /\ cleartext.cursor \in Nat
    BY <1>0, Lengths
<1>3. /\ UNCHANGED writerVars /\ wire' = wire /\ closed' = closed
      /\ wanted' = wanted /\ ciphertext' = ciphertext /\ rpc' = "idle"
    BY DEF Return
<1>4. PICK n \in 1..Len(cleartext.data) :
        /\ Len(out') = Len(out) + n
        /\ out' \in Seq(Byte)
        /\ DataFrom(out', 0)
        /\ cleartext' \in HelperBuf
        /\ Len(cleartext'.data) = Len(cleartext.data) - n
        /\ cleartext'.cursor + Len(cleartext'.data)
                <= cleartext.cursor + Len(cleartext.data)
        /\ cleartext'.data = <<>> => cleartext'.cursor = 0
        /\ DataFrom(cleartext'.data, Len(out'))
    BY ReturnFacts
<1>5. ReaderSide'
    <2>1. cleartext'.cursor + Len(cleartext'.data) <= MAX_CHUNK_SIZE
        <3>1. cleartext'.cursor \in Nat
            BY <1>4 DEF HelperBuf
        <3>2. cleartext.cursor + Len(cleartext.data) <= MAX_CHUNK_SIZE
            BY <1>0 DEF ReaderSide
        <3> DEFINE new == Len(cleartext'.data)
                   old == Len(cleartext.data)
        <3>3. old \in Nat /\ n \in Nat /\ new = old - n
            BY <1>2, <1>4
        <3>4. cleartext'.cursor + new <= cleartext.cursor + old
            BY <1>4
        <3>5. cleartext.cursor \in Nat /\ MAX_CHUNK_SIZE \in Nat
            BY <1>2, Sizes
        <3> HIDE DEF new, old
        <3> QED BY <3>1, <3>2, <3>3, <3>4, <3>5 DEF new, old
    <2> QED BY <1>0, <1>3, <1>4, <2>1 DEF ReaderSide, RPCs
<1>6. InOrder'
    BY <1>4 DEF InOrder
<1>7. Tracks(F)'
    <2>1. Stream' = Stream
        BY <1>3 DEF Stream, Outgoing, writerVars
    <2>2. Len(out') + Len(cleartext'.data) = Len(out) + Len(cleartext.data)
        <3> DEFINE now == Len(cleartext.data)
                   then == Len(cleartext'.data)
        <3>1. /\ Len(out') = Len(out) + n /\ then = now - n
              /\ n \in Nat /\ now \in Nat /\ Len(out) \in Nat
            BY <1>2, <1>4
        <3> HIDE DEF now, then
        <3>2. Len(out') + then = Len(out) + now
            BY <3>1
        <3> QED BY <3>2 DEF now, then
    <2>3. /\ {Len(ciphertext.data) + Len(wire),
              Len(ciphertext'.data) + Len(wire')} \subseteq Nat
          /\ Len(ciphertext.data) + Len(wire)
                <= Len(ciphertext'.data) + Len(wire')
          /\ written' = written /\ flushed' = flushed /\ (~closed' => ~closed)
          /\ flushing' = flushing /\ bytes' = bytes
        BY <1>2, <1>3 DEF writerVars
    <2> QED BY <1>1, <2>1, <2>2, <2>3, TracksKept
<1> QED BY <1>0, <1>3, <1>5, <1>6, <1>7, ReaderStep
\* One turn of decrypt_all_full_chunks: the first chunk leaves the stream, and
\* the bytes it holds are the ones that come next.
LEMMA DecryptChunkInv ==
    ASSUME IInv, DecryptChunk
    PROVE  IInv'
<1>0. WriterSide /\ ReaderSide /\ InOrder /\ wire \in Seq(Byte)
    BY DEF IInv
<1>1. PICK F : Tracks(F)
    BY DEF IInv
<1>2. /\ ciphertext.data \in Seq(Byte) /\ Len(ciphertext.data) \in Nat
      /\ cleartext.data \in Seq(Byte) /\ Len(cleartext.data) \in Nat
      /\ Len(wire) \in Nat /\ Len(out) \in Nat
      /\ ciphertext.cursor \in Nat /\ cleartext.cursor \in Nat
      /\ Outgoing \in Seq(Byte) /\ Len(Outgoing) \in Nat
      /\ Stream \in Seq(Byte) /\ Len(Stream) \in Nat
    BY <1>0, Lengths
<1>3. /\ UNCHANGED writerVars /\ wire' = wire /\ closed' = closed
      /\ wanted' = wanted /\ out' = out /\ rpc' = "decrypt"
    BY DEF DecryptChunk
<1>4. Len(ciphertext.data) >= HeaderLen + ChunkLen /\ Len(ciphertext.data) >= 1
    BY <1>2, Sizes DEF DecryptChunk, HasChunk
<1>5. /\ ChunkLen \in CIPHERTEXT_OVERHEAD..MAX_CHUNK_SIZE - HeaderLen
      /\ HeaderLen + ChunkLen \in DOMAIN F
      /\ F[HeaderLen + ChunkLen] = F[0] + (ChunkLen - CIPHERTEXT_OVERHEAD)
      /\ \A i \in 1..ChunkLen - CIPHERTEXT_OVERHEAD :
            HeaderLen + i <= Len(ciphertext.data) =>
                ciphertext.data[HeaderLen + i] = <<"data", F[0] + i>>
    BY <1>0, <1>1, <1>4, FirstChunk
<1>6. F[0] = Len(out) + Len(cleartext.data)
    BY <1>1 DEF Tracks
<1>7. PICK k : k = HeaderLen + ChunkLen
    OBVIOUS
<1>8. PICK m : m = ChunkLen - CIPHERTEXT_OVERHEAD
    OBVIOUS
<1> DEFINE cipher == ciphertext.data
           clear == cleartext.data
           piece == SubSeq(cipher, HeaderLen + 1, HeaderLen + m)
<1>9. /\ k \in Nat /\ m \in Nat /\ k \in DOMAIN F /\ F[k] = F[0] + m
      /\ k \in 0..Len(cipher) /\ HeaderLen + m <= Len(cipher)
      /\ \A i \in 1..m : cipher[HeaderLen + i] = <<"data", F[0] + i>>
    <2>1. /\ k \in Nat /\ m \in Nat /\ k <= Len(cipher)
          /\ HeaderLen + m <= Len(cipher)
        <3> DEFINE l == Len(cipher)
                   c == ChunkLen
        <3>1. /\ l \in Nat /\ l >= HeaderLen + c
              /\ c \in CIPHERTEXT_OVERHEAD..MAX_CHUNK_SIZE - HeaderLen
              /\ k = HeaderLen + c /\ m = c - CIPHERTEXT_OVERHEAD
            BY <1>2, <1>4, <1>5, <1>7, <1>8
        <3> HIDE DEF l, c
        <3>2. k \in Nat /\ m \in Nat /\ k <= l /\ HeaderLen + m <= l
            BY <3>1, Sizes
        <3> QED BY <3>2 DEF l
    <2>2. ASSUME NEW i \in 1..m
          PROVE  cipher[HeaderLen + i] = <<"data", F[0] + i>>
        <3>1. HeaderLen + i <= Len(ciphertext.data)
            BY <1>2, <2>1, Sizes
        <3> QED BY <1>5, <1>8, <3>1
    <2> QED BY <1>2, <1>5, <1>7, <1>8, <2>1, <2>2
<1>10. /\ cleartext' = Extend(cleartext, piece)
       /\ ciphertext' = AdvanceCursor(ciphertext, k)
    <2>1. HeaderLen + ChunkLen - CIPHERTEXT_OVERHEAD = HeaderLen + m
        BY <1>5, <1>8, Sizes
    <2> QED BY <1>7, <2>1 DEF DecryptChunk
<1>11. /\ cipher \in Seq(Byte) /\ Len(cipher) \in Nat
       /\ clear \in Seq(Byte) /\ Len(clear) \in Nat
       /\ F[0] = Len(out) + Len(clear)
       /\ cleartext.cursor + Len(clear) + ChunkLen <= MAX_CHUNK_SIZE
    <2>1. ~(ClearSpare < ChunkLen)
        BY DEF DecryptChunk, NoRoom
    <2> QED BY <1>2, <1>5, <1>6, <2>1, Sizes, SMTT(30) DEF ClearSpare, SpareCapacity
<1>12. /\ ciphertext' \in HelperBuf
       /\ ciphertext'.data = SubSeq(cipher, k + 1, Len(cipher))
       /\ Len(ciphertext'.data) = Len(cipher) - k
       /\ ciphertext'.cursor + Len(ciphertext'.data)
            <= ciphertext.cursor + Len(cipher)
       /\ ciphertext'.data = <<>> => ciphertext'.cursor = 0
    <2>1. /\ ciphertext \in HelperBuf /\ k \in 0..Len(ciphertext.data)
          /\ ciphertext.data = <<>> => ciphertext.cursor = 0
        BY <1>0, <1>9 DEF ReaderSide
    <2> QED BY <1>10, <2>1, Advanced
<1>13. Stream = (cipher \o wire) \o Outgoing
    BY DEF Stream
<1>14. ciphertext.cursor + Len(cipher) <= 2 * MAX_CHUNK_SIZE
    BY <1>0 DEF ReaderSide
<1>15. DataFrom(clear, Len(out))
    BY <1>0 DEF InOrder
<1>16. /\ piece \in Seq(Byte) /\ Len(piece) = m
       /\ DataFrom(piece, Len(out) + Len(clear))
    <2> HIDE DEF cipher, clear
    <2>1. /\ piece \in Seq(Byte) /\ Len(piece) = m
          /\ \A i \in 1..m : piece[i] = cipher[HeaderLen + i]
        BY <1>9, <1>11, Sizes, Slice
    <2> HIDE DEF piece
    <2> QED BY <1>9, <1>11, <2>1 DEF DataFrom
<1> HIDE DEF piece
<1>17. /\ cleartext' \in HelperBuf
       /\ cleartext'.data = clear \o piece
       /\ cleartext'.cursor = cleartext.cursor
    BY <1>0, <1>10, <1>16, Extended DEF ReaderSide
<1>18. cleartext.data = <<>> => cleartext.cursor = 0
    BY <1>0 DEF ReaderSide
<1> HIDE DEF cipher, clear
<1> DEFINE cipherNew == ciphertext'.data
           clearNew == cleartext'.data
<1>19. /\ clearNew \in Seq(Byte) /\ Len(clearNew) = Len(clear) + m
       /\ DataFrom(clearNew, Len(out))
    <2>1. clearNew = clear \o piece
        BY <1>17
    <2> HIDE DEF clearNew
    <2>2. clearNew \in Seq(Byte) /\ Len(clearNew) = Len(clear) + Len(piece)
        BY <1>11, <1>16, <2>1, ConcatProperties
    <2>3. DataFrom(clearNew, Len(out))
        BY <1>2, <1>11, <1>15, <1>16, <2>1, DataJoined
    <2> QED BY <1>16, <2>2, <2>3
<1>20. ReaderSide'
    <2>1. cleartext'.cursor + Len(clearNew) <= MAX_CHUNK_SIZE
        <3>1. /\ cleartext'.cursor = cleartext.cursor /\ cleartext.cursor \in Nat
              /\ m = ChunkLen - CIPHERTEXT_OVERHEAD /\ ChunkLen \in Nat
            BY <1>2, <1>5, <1>8, <1>17, Sizes
        <3>2. Len(clearNew) = Len(clear) + m
            BY <1>19
        <3> HIDE DEF clearNew
        <3> QED BY <1>11, <3>1, <3>2, Sizes
    <2>2. ciphertext'.cursor + Len(cipherNew) <= 2 * MAX_CHUNK_SIZE
        <3>1. ciphertext'.cursor \in Nat
            BY <1>12 DEF HelperBuf
        <3>2. /\ Len(cipherNew) = Len(cipher) - k
              /\ ciphertext'.cursor + Len(cipherNew)
                    <= ciphertext.cursor + Len(cipher)
            BY <1>12
        <3>3. ciphertext.cursor \in Nat
            BY <1>2
        <3>4. Len(cipherNew) \in Int
            BY <1>9, <1>11, <3>2
        <3> HIDE DEF cipherNew
        <3> QED BY <1>11, <1>14, <3>1, <3>2, <3>3, <3>4, Sizes
    <2>3. clearNew = <<>> => cleartext'.cursor = 0
        <3> SUFFICES ASSUME clearNew = <<>>
                     PROVE  clear = <<>>
            BY <1>17, <1>18 DEF clear
        <3> HIDE DEF clearNew
        <3>1. Len(clearNew) = 0
            BY EmptySeq
        <3>2. Len(clear) = 0
            BY <1>9, <1>11, <1>19, <3>1
        <3> QED BY <1>11, <3>2, EmptySeq
    <2> QED BY <1>0, <1>3, <1>12, <1>17, <2>1, <2>2, <2>3 DEF ReaderSide, RPCs
<1>21. InOrder'
    BY <1>0, <1>3, <1>19 DEF InOrder
<1>22. /\ Stream' \in Seq(Byte)
       /\ Len(Stream) = k + Len(Stream')
       /\ \A i \in 1..Len(Stream') : Stream'[i] = Stream[k + i]
    <2>1. Stream' = (SubSeq(cipher, k + 1, Len(cipher)) \o wire) \o Outgoing
        BY <1>3, <1>12 DEF Stream, Outgoing, writerVars
    <2>2. /\ cipher \in Seq(Byte) /\ wire \in Seq(Byte) /\ Outgoing \in Seq(Byte)
          /\ k \in 0..Len(cipher)
        BY <1>0, <1>2, <1>9, <1>11
    <2>3. Shifted(Stream', Stream, k)
        BY <1>13, <2>1, <2>2, Dropped
    <2> QED BY <2>3 DEF Shifted
<1>23. PICK G : G = [b \in {c \in Nat : k + c \in DOMAIN F} |-> F[k + b]]
    OBVIOUS
<1>24. /\ DOMAIN G \subseteq Nat
       /\ \A b \in Nat : b \in DOMAIN G <=> k + b \in DOMAIN F
       /\ \A b \in DOMAIN G : G[b] = F[k + b]
    BY <1>23
<1>25. Tracks(G)'
    <2>1. /\ Chunked(Stream, F)
          /\ DOMAIN F \subseteq Nat /\ \A b \in DOMAIN F : F[b] \in Nat
          /\ \A b, c \in DOMAIN F : b <= c => F[b] <= F[c]
        BY <1>1 DEF Tracks, Chunked
    <2>2. Chunked(Stream', G)
        <3> DEFINE s == Stream
                   t == Stream'
        <3>1. /\ s \in Seq(Byte) /\ t \in Seq(Byte) /\ Chunked(s, F)
              /\ k \in Nat /\ k \in DOMAIN F /\ Len(s) = k + Len(t)
              /\ \A i \in 1..Len(t) : t[i] = s[k + i]
            BY <1>2, <1>9, <1>22, <2>1
        <3> HIDE DEF s, t
        <3>2. Chunked(t, [b \in {c \in Nat : k + c \in DOMAIN F} |-> F[k + b]])
            BY <3>1, ChunkedDrop
        <3> QED BY <1>23, <3>2 DEF t
    <2>3. G[0] = Len(out') + Len(cleartext'.data)
        <3>1. 0 \in DOMAIN G /\ k + 0 = k
            BY <1>9, <1>24
        <3>2. G[0] = F[k]
            BY <1>24, <3>1
        <3>3. F[k] = Len(out) + Len(clearNew)
            <4>1. Len(clearNew) = Len(clear) + m
                BY <1>19
            <4> HIDE DEF clearNew
            <4> QED BY <1>2, <1>9, <1>11, <4>1
        <3> QED BY <1>3, <3>2, <3>3
    <2>4. \A b \in DOMAIN G : G[b] <= written'
        BY <1>1, <1>3, <1>24 DEF Tracks, writerVars
    <2>5. \E b \in DOMAIN G :
            b <= Len(ciphertext'.data) + Len(wire') /\ flushed' <= G[b]
        <3>1. PICK b \in DOMAIN F :
                b <= Len(ciphertext.data) + Len(wire) /\ flushed <= F[b]
            BY <1>1 DEF Tracks
        <3>2. b \in Nat /\ flushed' = flushed /\ flushed \in Nat
            BY <1>0, <1>3, <2>1 DEF writerVars, WriterSide
        <3>3. CASE b <= k
            <4>1. 0 \in DOMAIN G /\ k + 0 = k /\ G[0] = F[k + 0]
                <5>1. k \in Nat /\ k + 0 = k /\ k \in DOMAIN F
                    BY <1>9
                <5>2. 0 \in DOMAIN G
                    BY <1>24, <5>1
                <5> QED BY <1>24, <5>1, <5>2
            <4>2. F[b] <= F[k] /\ F[b] \in Nat /\ F[k] \in Nat
                BY <1>9, <2>1, <3>3
            <4>3. flushed' <= G[0]
                BY <3>1, <3>2, <4>1, <4>2
            <4>4. 0 <= Len(ciphertext'.data) + Len(wire')
                BY <1>2, <1>3, <1>9, <1>12
            <4> QED BY <4>1, <4>3, <4>4
        <3>4. CASE b > k
            <4>1. PICK c \in Nat : b = k + c
                <5>1. b - k \in Nat /\ b = k + (b - k)
                    BY <1>9, <3>2, <3>4
                <5> QED BY <5>1
            <4>2. c \in DOMAIN G /\ G[c] = F[b]
                BY <1>24, <4>1
            <4>3. c <= Len(ciphertext'.data) + Len(wire')
                <5>1. /\ Len(cipherNew) = Len(cipher) - k /\ Len(wire') = Len(wire)
                      /\ k + c <= Len(cipher) + Len(wire)
                    BY <1>3, <1>12, <3>1, <4>1 DEF cipher
                <5>2. c <= Len(cipherNew) + Len(wire')
                    <6> HIDE DEF cipherNew
                    <6> QED BY <1>2, <1>9, <1>11, <5>1
                <5> QED BY <5>2
            <4> QED BY <3>1, <3>2, <4>2, <4>3
        <3> QED BY <1>9, <3>2, <3>3, <3>4
    <2>6. ASSUME ~closed'
          PROVE  /\ Len(Stream') \in DOMAIN G
                 /\ \A b \in DOMAIN G : b <= Len(Stream')
                 /\ G[Len(Stream')] = F[Len(Stream)]
        <3>1. /\ Len(Stream) \in DOMAIN F
              /\ \A b \in DOMAIN F : b <= Len(Stream)
            BY <1>1, <1>3, <2>6 DEF Tracks
        <3>2. Len(Stream') \in Nat
            BY <1>22, LenProperties
        <3>3. Len(Stream') \in DOMAIN G
            BY <1>22, <1>24, <3>1, <3>2
        <3>4. ASSUME NEW b \in DOMAIN G PROVE b <= Len(Stream')
            <4>1. b \in Nat /\ k + b <= Len(Stream)
                BY <1>24, <3>1
            <4> QED BY <1>9, <1>22, <3>2, <4>1
        <3> QED BY <1>22, <1>24, <3>3, <3>4
    <2>7. ~closed' =>
            /\ flushing' => G[Len(Stream')] = written'
            /\ ~flushing' =>
                /\ G[Len(Stream')] + (Len(bytes') - HeaderLen) = written'
                /\ \A i \in 1..Len(bytes') - HeaderLen :
                    bytes'[HeaderLen + i] = <<"data", G[Len(Stream')] + i>>
        BY <1>1, <1>3, <2>6 DEF Tracks, writerVars
    <2> QED BY <2>2, <2>3, <2>4, <2>5, <2>6, <2>7 DEF Tracks
<1> QED BY <1>0, <1>3, <1>20, <1>21, <1>25, ReaderStep
----------------------------------------------------------------------------
\* The steps of the writer

\* x is w and u behind it.
TwoParts(x, w, u) ==
    /\ x \in Seq(Byte) /\ Len(x) = Len(w) + Len(u)
    /\ \A i \in 1..Len(w) : x[i] = w[i]
    /\ \A i \in 1..Len(u) : x[Len(w) + i] = u[i]

LEMMA Joined ==
    ASSUME NEW w \in Seq(Byte), NEW u \in Seq(Byte)
    PROVE  TwoParts(w \o u, w, u)
<1> DEFINE x == w \o u
<1>0. Len(w) \in Nat /\ Len(u) \in Nat
    BY LenProperties
<1>1. /\ x \in Seq(Byte) /\ Len(x) = Len(w) + Len(u)
      /\ \A i \in 1..Len(w) + Len(u) :
            x[i] = IF i <= Len(w) THEN w[i] ELSE u[i - Len(w)]
    BY ConcatProperties
<1> HIDE DEF x
<1>2. ASSUME NEW i \in 1..Len(w) PROVE x[i] = w[i]
    BY <1>0, <1>1
<1>3. ASSUME NEW i \in 1..Len(u) PROVE x[Len(w) + i] = u[i]
    <2> DEFINE j == Len(w) + i
    <2>1. /\ j \in 1..Len(w) + Len(u) /\ ~(j <= Len(w)) /\ j - Len(w) = i
        BY <1>0
    <2> HIDE DEF j
    <2>2. x[j] = u[i]
        BY <1>1, <2>1
    <2> QED BY <2>2 DEF j
<1>4. TwoParts(x, w, u)
    BY <1>1, <1>2, <1>3 DEF TwoParts
<1> QED BY <1>4 DEF x

\* What has left the writer.
Sent == ciphertext.data \o wire

LEMMA SentFacts ==
    ASSUME WriterSide, ReaderSide, InOrder, wire \in Seq(Byte)
    PROVE  /\ Sent \in Seq(Byte) /\ Len(Sent) \in Nat
           /\ Len(Sent) = Len(ciphertext.data) + Len(wire)
           /\ Stream = Sent \o Outgoing
           /\ Outgoing = <<>> => Stream = Sent
<1>1. ciphertext.data \in Seq(Byte)
    BY Lengths
<1>2. TwoParts(Sent, ciphertext.data, wire)
    BY <1>1, Joined DEF Sent
<1>3. /\ Sent \in Seq(Byte)
      /\ Len(Sent) = Len(ciphertext.data) + Len(wire)
    BY <1>2 DEF TwoParts
<1>4. Len(Sent) \in Nat
    BY <1>3, LenProperties
<1>5. Stream = Sent \o Outgoing
    BY DEF Stream, Sent
<1>6. Sent \o <<>> = Sent
    BY <1>3, ConcatEmptySeq
<1> QED BY <1>3, <1>4, <1>5, <1>6

\* The bytes taken since the last chunk are the ones that come next.
LEMMA UnsentFacts ==
    ASSUME WriterSide, ReaderSide, InOrder, wire \in Seq(Byte),
           NEW F, Tracks(F), ~flushing, ~closed
    PROVE  /\ Unsent \in Seq(Byte) /\ Len(Unsent) \in Nat
           /\ Len(Unsent) = Len(bytes) - HeaderLen
           /\ DataFrom(Unsent, F[Len(Stream)])
           /\ F[Len(Stream)] \in Nat
           /\ F[Len(Stream)] + Len(Unsent) = written
<1>1. /\ bytes \in Seq(Byte) /\ HeaderLen <= Len(bytes)
      /\ Len(bytes) \in Nat
    BY LenProperties DEF WriterSide
<1>2. /\ F[Len(Stream)] + (Len(bytes) - HeaderLen) = written
      /\ \A i \in 1..Len(bytes) - HeaderLen :
            bytes[HeaderLen + i] = <<"data", F[Len(Stream)] + i>>
      /\ F[Len(Stream)] \in Nat
    BY DEF Tracks, Chunked
<1>3. HeaderLen \in 0..Len(bytes)
    BY <1>1, Sizes
<1>4. /\ Unsent \in Seq(Byte) /\ Len(Unsent) = Len(bytes) - HeaderLen
      /\ \A i \in 1..Len(bytes) - HeaderLen : Unsent[i] = bytes[HeaderLen + i]
    BY <1>1, <1>3, Cut DEF Unsent
<1>5. DataFrom(Unsent, F[Len(Stream)])
    BY <1>2, <1>4 DEF DataFrom
<1> QED BY <1>1, <1>2, <1>3, <1>4, <1>5, LenProperties

\* start_flushing: a chunk with the bytes that come next is appended.
LEMMA Sealed ==
    ASSUME WriterSide, ReaderSide, InOrder, wire \in Seq(Byte),
           NEW F, Tracks(F), ~flushing, ~closed,
           NEW msg \in Seq(Byte), DataFrom(msg, F[Len(Stream)]),
           Len(msg) + CIPHERTEXT_OVERHEAD + HeaderLen <= MAX_CHUNK_SIZE,
           bytes' = Chunk(msg), flushing' = TRUE, wire' = wire,
           written' = F[Len(Stream)] + Len(msg), written <= written',
           flushed' = flushed,
           UNCHANGED readerVars
    PROVE  \E G : Tracks(G)'
<1>1. /\ Sent \in Seq(Byte) /\ Len(Sent) \in Nat
      /\ Stream = Sent
    BY SentFacts DEF Outgoing
<1>2. /\ Chunk(msg) \in Seq(Byte)
      /\ Len(Chunk(msg)) = HeaderLen + Len(msg) + CIPHERTEXT_OVERHEAD
      /\ Chunk(msg)[1] = <<"len", Len(msg) + CIPHERTEXT_OVERHEAD>>
      /\ \A i \in 1..Len(msg) : Chunk(msg)[HeaderLen + i] = msg[i]
      /\ \A i \in Framing(Len(msg) + CIPHERTEXT_OVERHEAD) :
            Chunk(msg)[i][1] # "data"
    BY ChunkParts
<1>3. Len(msg) \in Nat
    BY LenProperties
<1>4. PICK T : T = Sent \o Chunk(msg)
    OBVIOUS
<1>5. Stream' = T
    BY <1>4 DEF Stream, Outgoing, Sent, readerVars
<1>6. /\ T \in Seq(Byte)
      /\ Len(T) = Len(Sent) + HeaderLen + Len(msg) + CIPHERTEXT_OVERHEAD
      /\ \A i \in 1..Len(Sent) : T[i] = Sent[i]
      /\ T[Len(Sent) + 1] = <<"len", Len(msg) + CIPHERTEXT_OVERHEAD>>
      /\ \A i \in 1..Len(msg) :
            T[Len(Sent) + HeaderLen + i] = <<"data", F[Len(Sent)] + i>>
      /\ \A i \in Framing(Len(msg) + CIPHERTEXT_OVERHEAD) :
            T[Len(Sent) + i][1] # "data"
    <2>1. TwoParts(T, Sent, Chunk(msg))
        BY <1>1, <1>2, <1>4, Joined
    <2> DEFINE chunk == Chunk(msg)
    <2>2. /\ T \in Seq(Byte) /\ Len(T) = Len(Sent) + Len(chunk)
          /\ \A i \in 1..Len(Sent) : T[i] = Sent[i]
          /\ \A i \in 1..Len(chunk) : T[Len(Sent) + i] = chunk[i]
        BY <2>1 DEF TwoParts
    <2>3. /\ Len(chunk) = HeaderLen + Len(msg) + CIPHERTEXT_OVERHEAD
          /\ chunk[1] = <<"len", Len(msg) + CIPHERTEXT_OVERHEAD>>
          /\ \A i \in 1..Len(msg) : chunk[HeaderLen + i] = msg[i]
          /\ \A i \in Framing(Len(msg) + CIPHERTEXT_OVERHEAD) :
                chunk[i][1] # "data"
        BY <1>2
    <2> HIDE DEF chunk
    <2>4. Len(T) = Len(Sent) + HeaderLen + Len(msg) + CIPHERTEXT_OVERHEAD
        BY <1>1, <1>3, <2>2, <2>3, Sizes
    <2>5. 1 \in 1..Len(chunk)
        BY <1>3, <2>3, Sizes
    <2>6. ASSUME NEW i \in 1..Len(msg)
          PROVE  T[Len(Sent) + HeaderLen + i] = <<"data", F[Len(Sent)] + i>>
        <3>1. /\ HeaderLen + i \in 1..Len(chunk)
              /\ Len(Sent) + HeaderLen + i = Len(Sent) + (HeaderLen + i)
            BY <1>1, <1>3, <2>3, Sizes
        <3>2. T[Len(Sent) + HeaderLen + i] = msg[i]
            BY <2>2, <2>3, <3>1
        <3> QED BY <1>1, <3>2 DEF DataFrom
    <2>7. ASSUME NEW i \in Framing(Len(msg) + CIPHERTEXT_OVERHEAD)
          PROVE  T[Len(Sent) + i][1] # "data"
        <3>1. i \in 1..HeaderLen + (Len(msg) + CIPHERTEXT_OVERHEAD)
            BY DEF Framing
        <3>2. i \in 1..Len(chunk)
            BY <1>3, <2>3, <3>1, Sizes
        <3> QED BY <2>2, <2>3, <3>2
    <2> QED BY <2>2, <2>3, <2>4, <2>5, <2>6, <2>7
<1>7. PICK G : G = [b \in DOMAIN F \cup {Len(T)} |->
                        IF b = Len(T) THEN F[Len(Sent)] + Len(msg) ELSE F[b]]
    OBVIOUS
<1>8. /\ Chunked(Sent, F) /\ Len(Sent) \in DOMAIN F
      /\ \A b \in DOMAIN F : b <= Len(Sent)
      /\ F[0] = Len(out) + Len(cleartext.data)
      /\ \A b \in DOMAIN F : F[b] <= written
      /\ DOMAIN F \subseteq Nat /\ \A b \in DOMAIN F : F[b] \in Nat
      /\ 0 \in DOMAIN F
    BY <1>1 DEF Tracks, Chunked
<1>9. Chunked(T, G)
    BY <1>1, <1>3, <1>6, <1>7, <1>8, ChunkedAppend
<1>10. Len(T) > Len(Sent) /\ Len(T) \in Nat
    BY <1>1, <1>3, <1>6, Sizes
<1>11. /\ DOMAIN G = DOMAIN F \cup {Len(T)}
       /\ G[Len(T)] = written'
       /\ \A b \in DOMAIN F : G[b] = F[b]
    <2>1. \A b \in DOMAIN F : b # Len(T)
        BY <1>1, <1>8, <1>10
    <2> QED BY <1>1, <1>7, <2>1
<1>12. Tracks(G)'
    <2>1. Chunked(Stream', G)
        BY <1>5, <1>9
    <2>2. G[0] = Len(out') + Len(cleartext'.data)
        BY <1>8, <1>11 DEF readerVars
    <2>3. \A b \in DOMAIN G : G[b] <= written'
        <3>1. ASSUME NEW b \in DOMAIN F PROVE F[b] <= written'
            <4>1. F[b] \in Nat /\ F[b] <= written
                BY <1>8
            <4>2. written \in Nat /\ written' \in Nat
                BY <1>1, <1>3, <1>8 DEF WriterSide
            <4> QED BY <4>1, <4>2
        <3>2. written' <= written'
            BY <1>1, <1>3, <1>8
        <3> QED BY <1>11, <3>1, <3>2
    <2>4. \E b \in DOMAIN G :
            b <= Len(ciphertext'.data) + Len(wire') /\ flushed' <= G[b]
        <3>1. PICK b \in DOMAIN F :
                b <= Len(ciphertext.data) + Len(wire) /\ flushed <= F[b]
            BY DEF Tracks
        <3> QED BY <1>11, <3>1 DEF readerVars
    <2>5. /\ Len(Stream') \in DOMAIN G
          /\ \A b \in DOMAIN G : b <= Len(Stream')
          /\ G[Len(Stream')] = written'
        <3>1. ASSUME NEW b \in DOMAIN G PROVE b <= Len(T)
            BY <1>1, <1>8, <1>10, <1>11
        <3> QED BY <1>5, <1>11, <3>1
    <2> QED BY <2>1, <2>2, <2>3, <2>4, <2>5 DEF Tracks
<1> QED BY <1>12
LEMMA CallWriteInv ==
    ASSUME IInv, NEW n \in 1..MaxWritten, CallWrite(n)
    PROVE  IInv'
<1>1. /\ call = "none" /\ call' = "write" /\ offered' = n
      /\ bytes' = bytes /\ flushing' = flushing /\ written' = written
      /\ flushed' = flushed /\ flushes' = flushes /\ wire' = wire
      /\ closed' = closed /\ UNCHANGED readerVars
    BY DEF CallWrite
<1>2. WriterSide'
    <2>1. ~closed
        BY <1>1 DEF IInv, WriterSide
    <2>2. n \in Nat /\ n >= 1
        BY SizeAssumption
    <2> QED BY <1>1, <2>1, <2>2 DEF IInv, WriterSide
<1>3. PICK F : Tracks(F)
    BY DEF IInv
<1>4. Tracks(F)'
    BY <1>1, <1>3 DEF Tracks, Stream, Outgoing, readerVars
<1>5. wire' \in Seq(Byte)
    BY <1>1 DEF IInv
<1> QED BY <1>1, <1>2, <1>4, <1>5, WriterStep

\* poll_write takes at least one byte, and never more than fit with the tag.
LEMMA TakenFits ==
    ASSUME WriterSide, call = "write", ~flushing,
           NEW spare, spare = MAX_CHUNK_SIZE - Len(bytes),
           NEW taken, taken = Min(offered, spare - CIPHERTEXT_OVERHEAD)
    PROVE  /\ taken \in Nat /\ taken >= 1
           /\ Len(bytes) + taken + CIPHERTEXT_OVERHEAD <= MAX_CHUNK_SIZE
           /\ (spare - taken = CIPHERTEXT_OVERHEAD)
                \/ Len(bytes) + taken + CIPHERTEXT_OVERHEAD < MAX_CHUNK_SIZE
           /\ HeaderLen <= Len(bytes) /\ Len(bytes) \in Nat
           /\ ~closed
<1>1. ~closed /\ bytes \in Seq(Byte)
    BY DEF WriterSide
<1>2. /\ HeaderLen <= Len(bytes)
      /\ Len(bytes) + CIPHERTEXT_OVERHEAD < MAX_CHUNK_SIZE
      /\ offered \in Nat /\ offered >= 1
    BY <1>1 DEF WriterSide
<1>3. Len(bytes) \in Nat
    BY <1>1, LenProperties
<1>4. taken \in Nat /\ taken >= 1 /\ taken <= spare - CIPHERTEXT_OVERHEAD
    BY <1>2, <1>3, Sizes DEF Min
<1> QED BY <1>1, <1>2, <1>3, <1>4, Sizes

LEMMA PollWriteInv ==
    ASSUME IInv, PollWrite
    PROVE  IInv'
<1>0. WriterSide /\ ReaderSide /\ InOrder /\ wire \in Seq(Byte)
    BY DEF IInv
<1>1. PICK F : Tracks(F)
    BY DEF IInv
<1>2. PICK spare : spare = MAX_CHUNK_SIZE - Len(bytes)
    OBVIOUS
<1>3. PICK taken : taken = Min(offered, spare - CIPHERTEXT_OVERHEAD)
    OBVIOUS
<1>4. PICK full \in BOOLEAN : full <=> (spare - taken = CIPHERTEXT_OVERHEAD)
    OBVIOUS
<1>5. call = "write" /\ ~flushing
    BY DEF PollWrite
<1>6. /\ taken \in Nat /\ taken >= 1
      /\ Len(bytes) + taken + CIPHERTEXT_OVERHEAD <= MAX_CHUNK_SIZE
      /\ full \/ Len(bytes) + taken + CIPHERTEXT_OVERHEAD < MAX_CHUNK_SIZE
      /\ HeaderLen <= Len(bytes) /\ Len(bytes) \in Nat
      /\ ~closed
    BY <1>0, <1>2, <1>3, <1>4, <1>5, TakenFits
<1> DEFINE more == [i \in 1..taken |-> <<"data", written + i>>]
           msg == Unsent \o more
<1>7. /\ bytes' = IF full THEN Chunk(msg) ELSE Header(0) \o msg
      /\ flushing' = full /\ written' = written + taken
      /\ call' = "none" /\ offered' = 0
      /\ flushed' = flushed /\ flushes' = flushes /\ wire' = wire
      /\ closed' = closed /\ UNCHANGED readerVars
    <2>1. Take(taken, spare - taken = CIPHERTEXT_OVERHEAD)
        BY <1>2, <1>3 DEF PollWrite
    <2>2. (spare - taken = CIPHERTEXT_OVERHEAD) = full
        BY <1>4
    <2>3. Take(taken, full)
        BY <2>1, <2>2
    <2> QED BY <2>3 DEF Take
<1>8. written \in Nat
    BY <1>0 DEF WriterSide
<1>9. more \in Seq(Byte) /\ Len(more) = taken /\ DataFrom(more, written)
    <2>1. \A i \in 1..taken : <<"data", written + i>> \in Byte
        BY <1>6, <1>8 DEF Byte
    <2> QED BY <1>6, <2>1 DEF DataFrom
<1> HIDE DEF more
<1>10. PICK base : base = F[Len(Stream)]
    OBVIOUS
<1>11. /\ Unsent \in Seq(Byte) /\ Len(Unsent) \in Nat
       /\ Len(Unsent) = Len(bytes) - HeaderLen
       /\ DataFrom(Unsent, base) /\ base \in Nat
       /\ base + Len(Unsent) = written
    BY <1>0, <1>1, <1>5, <1>6, <1>10, UnsentFacts
<1>12. msg \in Seq(Byte) /\ Len(msg) = Len(Unsent) + taken
    BY <1>9, <1>11, ConcatProperties
<1>13. DataFrom(msg, base)
    <2>1. DataFrom(more, base + Len(Unsent))
        BY <1>9, <1>11
    <2> QED BY <1>9, <1>11, <2>1, DataJoined
<1> HIDE DEF msg
<1>14. /\ base + Len(msg) = written' /\ written' \in Nat /\ written <= written'
       /\ Len(msg) \in Nat
       /\ HeaderLen + Len(msg) = Len(bytes) + taken
    <2>1. written' = written + taken
        BY <1>7
    <2> QED BY <1>6, <1>8, <1>11, <1>12, <2>1, Sizes, SMTT(30)
<1>15. CASE full
    <2>1. bytes' = Chunk(msg) /\ flushing' = TRUE
        BY <1>4, <1>7, <1>15
    <2>2. Len(msg) + CIPHERTEXT_OVERHEAD + HeaderLen <= MAX_CHUNK_SIZE
        BY <1>6, <1>14, Sizes
    <2>3. \E G : Tracks(G)'
        <3>1. /\ DataFrom(msg, F[Len(Stream)])
              /\ written' = F[Len(Stream)] + Len(msg)
            BY <1>10, <1>13, <1>14
        <3>2. wire' = wire /\ flushed' = flushed /\ UNCHANGED readerVars
            BY <1>7
        <3> QED BY <1>0, <1>1, <1>5, <1>6, <1>12, <1>14, <2>1, <2>2, <3>1, <3>2,
                   Sealed
    <2>4. WriterSide'
        <3>1. bytes' \in Seq(Byte) /\ Len(bytes') <= MAX_CHUNK_SIZE
            <4>1. /\ Chunk(msg) \in Seq(Byte)
                  /\ Len(Chunk(msg)) = HeaderLen + Len(msg) + CIPHERTEXT_OVERHEAD
                BY <1>12, ChunkParts
            <4> QED BY <1>14, <2>1, <2>2, <4>1, Sizes
        <3> QED BY <1>0, <1>6, <1>7, <1>14, <2>1, <3>1 DEF WriterSide
    <2> QED BY <1>0, <1>7, <2>3, <2>4, WriterStep
<1>16. CASE ~full
    <2>1. bytes' = Header(0) \o msg /\ ~flushing'
        BY <1>7, <1>16
    <2>2. /\ bytes' \in Seq(Byte) /\ Len(bytes') = HeaderLen + Len(msg)
          /\ \A i \in 1..Len(msg) : bytes'[HeaderLen + i] = msg[i]
        BY <1>12, <2>1, Headed
    <2>3. /\ HeaderLen <= Len(bytes')
          /\ Len(bytes') + CIPHERTEXT_OVERHEAD < MAX_CHUNK_SIZE
          /\ Len(bytes') - HeaderLen = Len(msg)
        BY <1>6, <1>14, <1>16, <2>2, Sizes
    <2>4. WriterSide'
        <3>1. Len(bytes') <= MAX_CHUNK_SIZE
            BY <1>14, <2>2, <2>3, Sizes
        <3>2. flushing' \in BOOLEAN
            BY <1>7
        <3> QED BY <1>0, <1>6, <1>7, <1>14, <2>1, <2>2, <2>3, <3>1, <3>2
            DEF WriterSide
    <2>5. Tracks(F)'
        <3>1. Stream' = Stream
            BY <1>5, <1>7, <2>1 DEF Stream, Outgoing, readerVars
        <3>2. Chunked(Stream', F) /\ F[0] = Len(out') + Len(cleartext'.data)
            BY <1>1, <1>7, <3>1 DEF Tracks, readerVars
        <3>3. ASSUME NEW b \in DOMAIN F PROVE F[b] <= written'
            <4>1. F[b] \in Nat /\ F[b] <= written
                BY <1>1 DEF Tracks, Chunked
            <4> QED BY <1>8, <1>14, <4>1
        <3>4. \E b \in DOMAIN F :
                b <= Len(ciphertext'.data) + Len(wire') /\ flushed' <= F[b]
            BY <1>1, <1>7 DEF Tracks, readerVars
        <3>5. /\ Len(Stream') \in DOMAIN F
              /\ \A b \in DOMAIN F : b <= Len(Stream')
            BY <1>1, <1>6, <3>1 DEF Tracks
        <3>6. F[Len(Stream')] + (Len(bytes') - HeaderLen) = written'
            BY <1>10, <1>14, <2>3, <3>1
        <3>7. ASSUME NEW i \in 1..Len(bytes') - HeaderLen
              PROVE  bytes'[HeaderLen + i] = <<"data", F[Len(Stream')] + i>>
            BY <1>10, <1>13, <2>2, <2>3, <3>1 DEF DataFrom
        <3> QED BY <2>1, <3>2, <3>3, <3>4, <3>5, <3>6, <3>7 DEF Tracks
    <2> QED BY <1>0, <1>7, <2>4, <2>5, WriterStep
<1> QED BY <1>15, <1>16

\* poll_flush or poll_shutdown: what was taken is sealed, unless a chunk is
\* already on its way.
LEMMA CallFlushInv ==
    ASSUME IInv, CallFlush
    PROVE  IInv'
<1>0. WriterSide /\ ReaderSide /\ InOrder /\ wire \in Seq(Byte)
    BY DEF IInv
<1>1. PICK F : Tracks(F)
    BY DEF IInv
<1>2. /\ call = "none" /\ call' \in {"flush", "shutdown"}
      /\ flushes' = flushes + 1 /\ flushing' = TRUE
      /\ offered' = offered /\ written' = written /\ flushed' = flushed
      /\ wire' = wire /\ closed' = closed /\ UNCHANGED readerVars
    BY DEF CallFlush
<1>3. ~closed
    BY <1>0, <1>2 DEF WriterSide
<1>4. CASE flushing
    <2>1. bytes' = bytes
        BY <1>4 DEF CallFlush
    <2>2. WriterSide'
        BY <1>0, <1>2, <1>3, <2>1 DEF WriterSide
    <2>3. Tracks(F)'
        <3>1. flushing = TRUE
            BY <1>0, <1>4 DEF WriterSide
        <3> QED BY <1>1, <1>2, <2>1, <3>1 DEF Tracks, Stream, Outgoing, readerVars
    <2> QED BY <1>0, <1>2, <2>2, <2>3, WriterStep
<1>5. CASE ~flushing
    <2>1. bytes' = Chunk(Unsent)
        BY <1>5 DEF CallFlush
    <2>2. /\ Unsent \in Seq(Byte) /\ Len(Unsent) \in Nat
          /\ Len(Unsent) = Len(bytes) - HeaderLen
          /\ DataFrom(Unsent, F[Len(Stream)])
          /\ F[Len(Stream)] + Len(Unsent) = written
        BY <1>0, <1>1, <1>3, <1>5, UnsentFacts
    <2>3. Len(Unsent) + CIPHERTEXT_OVERHEAD + HeaderLen <= MAX_CHUNK_SIZE
        <3>1. /\ HeaderLen <= Len(bytes) /\ bytes \in Seq(Byte)
              /\ Len(bytes) + CIPHERTEXT_OVERHEAD < MAX_CHUNK_SIZE
            BY <1>0, <1>3, <1>5 DEF WriterSide
        <3>2. Len(bytes) \in Nat
            BY <3>1, LenProperties
        <3> QED BY <2>2, <3>1, <3>2, Sizes
    <2>4. \E G : Tracks(G)'
        <3>1. written' = F[Len(Stream)] + Len(Unsent) /\ written <= written'
            BY <1>0, <1>2, <2>2 DEF WriterSide
        <3> QED BY <1>0, <1>1, <1>2, <1>3, <1>5, <2>1, <2>2, <2>3, <3>1, Sealed
    <2>5. WriterSide'
        <3>1. bytes' \in Seq(Byte) /\ Len(bytes') <= MAX_CHUNK_SIZE
            <4>1. /\ Chunk(Unsent) \in Seq(Byte)
                  /\ Len(Chunk(Unsent))
                        = HeaderLen + Len(Unsent) + CIPHERTEXT_OVERHEAD
                BY <2>2, ChunkParts
            <4> QED BY <2>1, <2>2, <2>3, <4>1, Sizes
        <3> QED BY <1>0, <1>2, <1>3, <3>1 DEF WriterSide
    <2> QED BY <1>0, <1>2, <2>4, <2>5, WriterStep
<1> QED BY <1>4, <1>5
\* poll_flush_local: bytes move from the writer's buffer to the wire.
LEMMA FlushSomeInv ==
    ASSUME IInv, FlushSome
    PROVE  IInv'
<1>0. WriterSide /\ ReaderSide /\ InOrder /\ wire \in Seq(Byte)
    BY DEF IInv
<1>1. PICK F : Tracks(F)
    BY DEF IInv
<1>2. /\ flushing /\ call' = call /\ offered' = offered /\ flushing' = flushing
      /\ written' = written /\ flushed' = flushed /\ flushes' = flushes
      /\ closed' = closed /\ UNCHANGED readerVars
    BY DEF FlushSome
<1>3. PICK n \in 1..Min(Len(bytes), WireCap - Len(wire)) :
        /\ wire' = wire \o SubSeq(bytes, 1, n)
        /\ bytes' = SubSeq(bytes, n + 1, Len(bytes))
    BY DEF FlushSome
<1>4. /\ bytes \in Seq(Byte) /\ Len(bytes) \in Nat /\ Len(wire) \in Nat
      /\ Len(bytes) <= MAX_CHUNK_SIZE
    BY <1>0, LenProperties DEF WriterSide
<1>5. n \in 0..Len(bytes) /\ n \in Nat
    BY <1>4, Sizes DEF Min
<1> DEFINE first == SubSeq(bytes, 1, n)
           cipher == ciphertext.data
<1>6. /\ first \in Seq(Byte) /\ Len(first) = n
      /\ bytes' \in Seq(Byte) /\ Len(bytes') = Len(bytes) - n
    BY <1>3, <1>4, <1>5, Cut
<1>7. /\ Sent \in Seq(Byte) /\ Sent = cipher \o wire
      /\ cipher \in Seq(Byte) /\ Len(cipher) \in Nat
    BY <1>0, SentFacts, Lengths DEF Sent
<1>8. (Sent \o first) \o bytes' = Sent \o bytes
    <2>1. (Sent \o SubSeq(bytes, 1, n)) \o SubSeq(bytes, n + 1, Len(bytes))
            = Sent \o bytes
        BY <1>4, <1>5, <1>7, Moved
    <2> QED BY <1>3, <2>1
<1>9. wire' = wire \o first
    BY <1>3
<1>10. /\ Stream = Sent \o bytes
       /\ Stream' = (cipher \o wire') \o bytes'
    BY <1>2 DEF Stream, Outgoing, Sent, readerVars
<1>11. ciphertext' = ciphertext /\ cleartext' = cleartext /\ out' = out
    BY <1>2 DEF readerVars
<1> HIDE DEF first
<1>12. wire' \in Seq(Byte) /\ Len(wire') = Len(wire) + n
    BY <1>0, <1>6, <1>9, ConcatProperties
<1>13. Stream' = Stream
    <2> HIDE DEF cipher
    <2>1. (cipher \o wire) \o first = cipher \o (wire \o first)
        BY <1>0, <1>6, <1>7, ConcatAssociative, SMTT(30)
    <2> QED BY <1>7, <1>8, <1>9, <1>10, <2>1
<1>14. Tracks(F)'
    <2>1. /\ {Len(ciphertext.data) + Len(wire),
              Len(ciphertext'.data) + Len(wire')} \subseteq Nat
          /\ Len(ciphertext.data) + Len(wire)
                <= Len(ciphertext'.data) + Len(wire')
        <3>1. /\ {Len(cipher) + Len(wire), Len(cipher) + Len(wire')} \subseteq Nat
              /\ Len(cipher) + Len(wire) <= Len(cipher) + Len(wire')
            <4> HIDE DEF cipher
            <4> QED BY <1>4, <1>5, <1>7, <1>12
        <3> QED BY <1>11, <3>1
    <2>2. /\ Len(out') + Len(cleartext'.data) = Len(out) + Len(cleartext.data)
          /\ written' = written /\ flushed' = flushed /\ (~closed' => ~closed)
          /\ flushing' = flushing /\ flushing
        BY <1>2, <1>11
    <2> QED BY <1>1, <1>13, <2>1, <2>2, TracksKept
<1>15. WriterSide'
    <2>1. Len(bytes') <= MAX_CHUNK_SIZE
        BY <1>4, <1>5, <1>6, Sizes
    <2> QED BY <1>0, <1>2, <1>6, <2>1 DEF WriterSide
<1> QED BY <1>2, <1>12, <1>14, <1>15, WriterStep

\* poll_flush_local has written everything.
LEMMA FlushDoneInv ==
    ASSUME IInv, FlushDone
    PROVE  IInv'
<1>0. WriterSide /\ ReaderSide /\ InOrder /\ wire \in Seq(Byte)
    BY DEF IInv
<1>1. PICK F : Tracks(F)
    BY DEF IInv
<1>2. /\ call \in {"write", "flush", "shutdown"}
      /\ flushing /\ bytes = <<>> /\ ~flushing' /\ flushing' = FALSE
      /\ bytes' = Header(0)
      /\ flushed' = (IF call = "write" THEN flushed ELSE written)
      /\ closed' = (call = "shutdown")
      /\ offered' = offered /\ written' = written /\ flushes' = flushes
      /\ wire' = wire /\ UNCHANGED readerVars
    BY DEF FlushDone
<1>3. ~closed
    BY <1>0, <1>2 DEF WriterSide
<1>4. bytes' \in Seq(Byte) /\ Len(bytes') = HeaderLen
    <2>1. <<>> \in Seq(Byte)
        BY EmptySeq
    <2> QED BY <1>2, <2>1, Headed
<1>5. WriterSide'
    <2>1. /\ call' \in {"none", "write", "flush", "shutdown", "gone"}
          /\ call' = "gone" <=> call = "shutdown"
          /\ call' = "write" <=> call = "write"
        BY <1>2 DEF FlushDone
    <2>2. closed' \in BOOLEAN /\ (closed' <=> call = "shutdown")
        BY <1>2
    <2>3. /\ HeaderLen <= Len(bytes') /\ Len(bytes') <= MAX_CHUNK_SIZE
          /\ Len(bytes') + CIPHERTEXT_OVERHEAD < MAX_CHUNK_SIZE
        BY <1>4, Sizes
    <2>4. flushed' \in Nat
        BY <1>0, <1>2 DEF WriterSide
    <2> QED BY <1>0, <1>2, <1>4, <2>1, <2>2, <2>3, <2>4 DEF WriterSide
<1>6. Stream' = Stream
    BY <1>2 DEF Stream, Outgoing, readerVars
<1>7. /\ Len(Stream) \in DOMAIN F /\ \A b \in DOMAIN F : b <= Len(Stream)
      /\ F[Len(Stream)] = written
    BY <1>1, <1>2, <1>3 DEF Tracks
<1>8. written \in Nat
    BY <1>0 DEF WriterSide
<1>9. Tracks(F)'
    <2>1. Chunked(Stream', F) /\ F[0] = Len(out') + Len(cleartext'.data)
        BY <1>1, <1>2, <1>6 DEF Tracks, readerVars
    <2>2. \A b \in DOMAIN F : F[b] <= written'
        BY <1>1, <1>2 DEF Tracks
    <2>3. \E b \in DOMAIN F :
            b <= Len(ciphertext'.data) + Len(wire') /\ flushed' <= F[b]
        <3>1. CASE call = "write"
            BY <1>1, <1>2, <3>1 DEF Tracks, readerVars
        <3>2. CASE call # "write"
            <4>1. flushed' = F[Len(Stream)]
                BY <1>2, <1>7, <3>2
            <4>2. Len(Stream) = Len(ciphertext.data) + Len(wire)
                <5>1. Outgoing = <<>>
                    BY <1>2 DEF Outgoing
                <5> QED BY <1>0, <5>1, SentFacts
            <4>3. Len(Stream) \in Nat /\ flushed' \in Nat
                BY <1>0, <1>7, <1>8, <4>1, Lengths
            <4>4. /\ Len(Stream) <= Len(ciphertext'.data) + Len(wire')
                  /\ flushed' <= F[Len(Stream)]
                BY <1>2, <4>1, <4>2, <4>3 DEF readerVars
            <4> QED BY <1>7, <4>4
        <3> QED BY <3>1, <3>2
    <2>4. /\ Len(Stream') \in DOMAIN F /\ \A b \in DOMAIN F : b <= Len(Stream')
          /\ F[Len(Stream')] + (Len(bytes') - HeaderLen) = written'
        <3>1. Len(bytes') - HeaderLen = 0
            BY <1>4, Sizes
        <3> QED BY <1>2, <1>6, <1>7, <1>8, <3>1
    <2>5. ASSUME NEW i \in 1..Len(bytes') - HeaderLen PROVE FALSE
        BY <1>4, <2>5, Sizes
    <2> QED BY <1>2, <2>1, <2>2, <2>3, <2>4, <2>5 DEF Tracks
<1> QED BY <1>0, <1>2, <1>5, <1>9, WriterStep

\* The writer dies: the stream is cut off behind what has left it.
LEMMA DieInv ==
    ASSUME IInv, Die
    PROVE  IInv'
<1>0. WriterSide /\ ReaderSide /\ InOrder /\ wire \in Seq(Byte)
    BY DEF IInv
<1>1. PICK F : Tracks(F)
    BY DEF IInv
<1>2. /\ call' = "gone" /\ closed' = TRUE /\ bytes' = <<>>
      /\ offered' = offered /\ flushing' = flushing /\ written' = written
      /\ flushed' = flushed /\ flushes' = flushes /\ wire' = wire
      /\ UNCHANGED readerVars
    BY DEF Die
<1>3. <<>> \in Seq(Byte) /\ Len(<<>>) = 0
    BY EmptySeq
<1>4. WriterSide'
    <2>1. bytes' \in Seq(Byte) /\ Len(bytes') <= MAX_CHUNK_SIZE
        BY <1>2, <1>3, Sizes
    <2> QED BY <1>0, <1>2, <2>1 DEF WriterSide
<1>5. /\ Sent \in Seq(Byte) /\ Len(Sent) \in Nat /\ Stream = Sent \o Outgoing
      /\ Outgoing \in Seq(Byte) /\ Len(Outgoing) \in Nat /\ Stream \in Seq(Byte)
    BY <1>0, SentFacts, Lengths
<1>6. Stream' = Sent
    <2>1. Stream' = Sent \o <<>>
        BY <1>2 DEF Stream, Sent, Outgoing, readerVars
    <2> QED BY <1>5, <2>1, ConcatEmptySeq
<1>7. Chunked(Sent, F)
    <2>1. TwoParts(Stream, Sent, Outgoing)
        BY <1>5, Joined
    <2>2. Len(Stream) = Len(Sent) + Len(Outgoing)
        BY <2>1 DEF TwoParts
    <2>3. \A i \in 1..Len(Sent) : Sent[i] = Stream[i]
        BY <2>1 DEF TwoParts
    <2>4. Len(Sent) <= Len(Stream)
        BY <1>5, <2>2
    <2>5. Chunked(Stream, F)
        BY <1>1 DEF Tracks
    <2> QED BY <1>5, <2>3, <2>4, <2>5, ChunkedPrefix
<1>8. Tracks(F)'
    <2>1. Chunked(Stream', F)
        BY <1>6, <1>7
    <2>2. /\ F[0] = Len(out') + Len(cleartext'.data)
          /\ \A b \in DOMAIN F : F[b] <= written'
          /\ \E b \in DOMAIN F :
                b <= Len(ciphertext'.data) + Len(wire') /\ flushed' <= F[b]
        BY <1>1, <1>2 DEF Tracks, readerVars
    <2> QED BY <1>2, <2>1, <2>2 DEF Tracks
<1> QED BY <1>0, <1>2, <1>4, <1>8, WriterStep

----------------------------------------------------------------------------
\* The invariant holds

LEMMA NextInv == IInv /\ [Next]_vars => IInv'
<1> SUFFICES ASSUME IInv, [Next]_vars PROVE IInv'
    OBVIOUS
<1>1. ASSUME NEW n \in 1..MaxWritten, CallWrite(n) PROVE IInv'
    BY <1>1, CallWriteInv
<1>2. CASE CallFlush
    BY <1>2, CallFlushInv
<1>3. CASE Die
    BY <1>3, DieInv
<1>4. CASE WriterRuns
    BY <1>4, PollWriteInv, FlushSomeInv, FlushDoneInv DEF WriterRuns
<1>5. CASE Reads
    BY <1>5, CallReadInv DEF Reads
<1>6. CASE ReaderRuns
    BY <1>6, DecryptChunkInv, DecryptedInv, LoopEndsInv, InnerReadInv,
       InnerPendingInv, InnerEofInv, WakeInv, ReturnInv DEF ReaderRuns
<1>7. CASE UNCHANGED vars
    <2>1. /\ UNCHANGED writerVars /\ UNCHANGED readerVars
          /\ wire' = wire /\ closed' = closed
        BY <1>7 DEF vars
    <2>2. PICK F : Tracks(F)
        BY DEF IInv
    <2>3. Tracks(F)'
        BY <2>1, <2>2 DEF Tracks, Stream, Outgoing, writerVars, readerVars
    <2>4. WriterSide'
        BY <2>1, WriterRests DEF IInv
    <2>5. wire' \in Seq(Byte)
        BY <2>1 DEF IInv
    <2> QED BY <2>1, <2>3, <2>4, <2>5, WriterStep
<1> QED BY <1>1, <1>2, <1>3, <1>4, <1>5, <1>6, <1>7 DEF Next

LEMMA Invariant == Spec => []IInv
<1>1. Init => IInv
    BY InitInv
<1>2. IInv /\ [Next]_vars => IInv'
    BY NextInv
<1> QED BY <1>1, <1>2, PTL DEF Spec

\* Types: no buffer of the writer or the reader (HelperBuf) outgrows the
\* capacity it was made with, whatever the sizes of a chunk, its header and
\* its tag, and however the bytes trickle through the stream.
THEOREM TypeCorrect == Spec => []TypeOK
<1>1. IInv => TypeOK
    <2> SUFFICES ASSUME IInv PROVE TypeOK
        OBVIOUS
    <2>1. WriterSide /\ ReaderSide /\ InOrder /\ wire \in Seq(Byte)
        BY DEF IInv
    <2>2. /\ Len(ciphertext.data) \in Nat /\ Len(cleartext.data) \in Nat
          /\ ciphertext.cursor \in Nat /\ cleartext.cursor \in Nat
        BY <2>1, Lengths
    <2>3. /\ cleartext.cursor + Len(cleartext.data) <= MAX_CHUNK_SIZE
          /\ ciphertext.cursor + Len(ciphertext.data) <= 2 * MAX_CHUNK_SIZE
        BY <2>1 DEF ReaderSide
    <2>4. ClearSpare >= 0
        BY <2>2, <2>3, Sizes DEF ClearSpare, SpareCapacity
    <2>5. CipherSpare >= 0
        BY <2>2, <2>3, Sizes DEF CipherSpare, SpareCapacity
    <2> QED BY <2>1, <2>4, <2>5 DEF TypeOK, WriterSide, ReaderSide, InOrder
<1> QED BY <1>1, Invariant, PTL

\* wrap never panics: a full ciphertext buffer without a whole chunk always
\* has more room before the cursor than data behind it, since a chunk fits
\* half of the buffer.
THEOREM NeverPanics == Spec => []WrapNeverPanics
<1>1. IInv => WrapNeverPanics
    BY DEF IInv, ReaderSide, WrapNeverPanics
<1> QED BY <1>1, Invariant, PTL

\* The debug_assert of read_if_necessary holds: when it returns false there is
\* something to return.
THEOREM FalseHasData == Spec => []FalseMeansData
<1>1. IInv => FalseMeansData
    BY DEF IInv, ReaderSide, FalseMeansData
<1> QED BY <1>1, Invariant, PTL
----------------------------------------------------------------------------
\* The stream is a pipe of bytes

\* The bytes the reader has returned, as BytePipe numbers them.
Numbers == [i \in DOMAIN out |-> out[i][2]]

LEMMA Numbered ==
    ASSUME NEW s \in Seq(Byte), DataFrom(s, 0),
           NEW f, f = [i \in DOMAIN s |-> s[i][2]]
    PROVE  /\ f \in Seq(Nat) /\ Len(f) = Len(s)
           /\ \A i \in 1..Len(s) : f[i] = i
<1>1. DOMAIN s = 1..Len(s) /\ Len(s) \in Nat
    BY LenProperties
<1>2. ASSUME NEW i \in 1..Len(s) PROVE s[i][2] = i
    <2>1. s[i] = <<"data", 0 + i>>
        BY DEF DataFrom
    <2> QED BY <1>1, <2>1
<1>3. f = [i \in 1..Len(s) |-> i]
    BY <1>1, <1>2
<1> QED BY <1>1, <1>3

\* Steps that the applications do not see.
LEMMA PipeStutters ==
    ASSUME written' = written, flushed' = flushed, closed' = closed,
           out' = out, (rpc' = "eof") = (rpc = "eof")
    PROVE  UNCHANGED Pipe!vars
BY DEF Pipe!vars

\* Steps of the reader between a call and its return.
LEMMA ReaderStutters ==
    ASSUME UNCHANGED writerVars, closed' = closed, out' = out,
           rpc # "eof", rpc' # "eof"
    PROVE  UNCHANGED Pipe!vars
<1>1. written' = written /\ flushed' = flushed
    BY DEF writerVars
<1>2. (rpc' = "eof") = (rpc = "eof")
    OBVIOUS
<1> QED BY <1>1, <1>2, PipeStutters

\* Return is a read of the bytes that come next, none of them unwritten.
LEMMA ReturnReads ==
    ASSUME IInv, Return
    PROVE  Pipe!Read
<1>0. WriterSide /\ ReaderSide /\ InOrder /\ wire \in Seq(Byte)
    BY DEF IInv
<1>1. PICK F : Tracks(F)
    BY DEF IInv
<1>2. /\ out \in Seq(Byte) /\ Len(out) \in Nat /\ Len(cleartext.data) \in Nat
      /\ DataFrom(out, 0) /\ written \in Nat
    BY <1>0, Lengths DEF InOrder, WriterSide
<1>3. PICK n \in 1..Len(cleartext.data) :
        Len(out') = Len(out) + n /\ out' \in Seq(Byte) /\ DataFrom(out', 0)
    BY ReturnFacts
<1>4. Len(out) + Len(cleartext.data) <= written
    <2>1. F[0] = Len(out) + Len(cleartext.data) /\ F[0] <= written
        BY <1>1 DEF Tracks, Chunked
    <2> QED BY <2>1
<1>5. n \in Nat /\ n >= 1 /\ Len(out) + n <= written
    <2> DEFINE clear == Len(cleartext.data)
    <2>1. clear \in Nat /\ n \in 1..clear /\ Len(out) + clear <= written
        BY <1>2, <1>3, <1>4
    <2> HIDE DEF clear
    <2> QED BY <1>2, <2>1
<1> DEFINE new == [i \in DOMAIN out' |-> out'[i][2]]
           more == [i \in 1..Len(out') - Len(Numbers) |-> Len(Numbers) + i]
<1>6. /\ Numbers \in Seq(Nat) /\ Len(Numbers) = Len(out)
      /\ \A i \in 1..Len(out) : Numbers[i] = i
    BY <1>2, Numbered DEF Numbers
<1>7. /\ new \in Seq(Nat) /\ Len(new) = Len(out')
      /\ \A i \in 1..Len(out') : new[i] = i
    BY <1>3, Numbered
<1>8. Len(out') - Len(Numbers) = n
    BY <1>2, <1>3, <1>5, <1>6
<1>9. /\ more \in Seq(Nat) /\ Len(more) = n
      /\ \A i \in 1..n : more[i] = Len(out) + i
    <2>1. PICK a \in Nat : a = Len(out)
        BY <1>2
    <2>2. more = [i \in 1..n |-> a + i]
        BY <1>6, <1>8, <2>1
    <2> HIDE DEF more
    <2>3. more \in Seq(Nat) /\ Len(more) = n /\ \A i \in 1..n : more[i] = a + i
        BY <1>5, <2>2
    <2> QED BY <2>1, <2>3
<1> HIDE DEF more
<1>10. new = Numbers \o more
    <2> HIDE DEF new
    <2> DEFINE both == Numbers \o more
    <2>1. /\ both \in Seq(Nat) /\ Len(both) = Len(out) + n
          /\ \A i \in 1..Len(out) + n :
                both[i] = IF i <= Len(out) THEN Numbers[i] ELSE more[i - Len(out)]
        BY <1>6, <1>9, ConcatProperties
    <2> HIDE DEF both
    <2>2. ASSUME NEW i \in 1..Len(new) PROVE new[i] = both[i]
        <3>1. i \in 1..Len(out) + n /\ new[i] = i
            BY <1>3, <1>7
        <3>2. CASE i <= Len(out)
            <4>1. i \in 1..Len(out) /\ both[i] = Numbers[i]
                BY <1>2, <2>1, <3>1, <3>2
            <4> QED BY <1>6, <3>1, <4>1
        <3>3. CASE ~(i <= Len(out))
            <4> DEFINE j == i - Len(out)
            <4>1. j \in 1..n /\ Len(out) + j = i
                BY <1>2, <1>5, <3>1, <3>3
            <4>2. both[i] = more[j]
                BY <2>1, <3>1, <3>3
            <4> HIDE DEF j
            <4> QED BY <1>9, <3>1, <4>1, <4>2
        <3> QED BY <3>2, <3>3
    <2>3. Len(new) = Len(both)
        BY <1>3, <1>7, <2>1
    <2>4. new = both
        BY <1>7, <2>1, <2>2, <2>3, SeqEqual
    <2> QED BY <2>4 DEF both
<1>11. Len(out') \in Len(Numbers) + 1..written
    BY <1>2, <1>3, <1>5, <1>6
<1>12. rpc = "return" /\ rpc' = "idle" /\ UNCHANGED writerVars /\ closed' = closed
    BY DEF Return
<1>13. /\ ~(rpc = "eof") /\ (rpc' = "eof") = (rpc = "eof")
       /\ written' = written /\ flushed' = flushed
    BY <1>12 DEF writerVars
<1> HIDE DEF new
<1> QED BY <1>10, <1>11, <1>12, <1>13 DEF Pipe!Read, Numbers, more, new

\* The end is reported when nothing flushed is missing.
LEMMA EofStep ==
    ASSUME IInv, InnerEof
    PROVE  Pipe!Eof \/ UNCHANGED Pipe!vars
<1>0. WriterSide /\ ReaderSide /\ InOrder /\ wire \in Seq(Byte)
    BY DEF IInv
<1>1. PICK F : Tracks(F)
    BY DEF IInv
<1>2. /\ rpc = "loop" /\ wire = <<>> /\ closed
      /\ UNCHANGED writerVars /\ closed' = closed /\ out' = out
    BY DEF InnerEof, Goto
<1>3. CASE ciphertext.data = <<>> /\ cleartext.data = <<>>
    <2>1. rpc' = "eof"
        BY <1>3 DEF InnerEof, Goto
    <2>2. /\ Len(wire) = 0 /\ Len(ciphertext.data) = 0
          /\ Len(cleartext.data) = 0
        BY <1>2, <1>3, EmptySeq
    <2>3. PICK b \in DOMAIN F :
            b <= Len(ciphertext.data) + Len(wire) /\ flushed <= F[b]
        BY <1>1 DEF Tracks
    <2>4. b = 0
        <3>1. b \in Nat
            BY <1>1 DEF Tracks, Chunked
        <3>2. b <= 0 + 0
            BY <2>2, <2>3
        <3> QED BY <3>1, <3>2
    <2>5. /\ out \in Seq(Byte) /\ Len(out) \in Nat /\ DataFrom(out, 0)
          /\ flushed \in Nat
        BY <1>0, Lengths DEF InOrder, WriterSide
    <2>6. F[0] = Len(out)
        <3>1. F[0] = Len(out) + 0
            BY <1>1, <2>2 DEF Tracks
        <3> QED BY <2>5, <3>1
    <2>7. Len(Numbers) >= flushed
        <3>1. Len(Numbers) = Len(out)
            BY <2>5, Numbered DEF Numbers
        <3> QED BY <2>3, <2>4, <2>5, <2>6, <3>1
    <2>8. (rpc' = "eof") = TRUE /\ written' = written /\ flushed' = flushed
        BY <1>2, <2>1 DEF writerVars
    <2> QED BY <1>2, <2>7, <2>8 DEF Pipe!Eof, Numbers
<1>4. CASE ~(ciphertext.data = <<>> /\ cleartext.data = <<>>)
    <2>1. rpc' = "spin"
        BY <1>4 DEF InnerEof, Goto
    <2> QED BY <1>2, <2>1, ReaderStutters
<1> QED BY <1>3, <1>4
\* Every other step is a write, a flush, the end of the writer, or nothing to
\* the applications.
LEMMA NextPipe == IInv /\ [Next]_vars => [Pipe!Next]_(Pipe!vars)
<1> SUFFICES ASSUME IInv, [Next]_vars
             PROVE  Pipe!Next \/ UNCHANGED Pipe!vars
    OBVIOUS
<1>0. WriterSide /\ ReaderSide
    BY DEF IInv
<1>1. ASSUME NEW n \in 1..MaxWritten, CallWrite(n)
      PROVE  UNCHANGED Pipe!vars
    BY <1>1, PipeStutters DEF CallWrite, readerVars
<1>2. CASE CallFlush
    BY <1>2, PipeStutters DEF CallFlush, readerVars
<1>3. CASE Die
    <2>1. Pipe!End
        BY <1>3 DEF Die, Pipe!End, readerVars
    <2> QED BY <2>1 DEF Pipe!Next
<1>4. CASE PollWrite
    <2>1. PICK spare : spare = MAX_CHUNK_SIZE - Len(bytes)
        OBVIOUS
    <2>2. PICK taken : taken = Min(offered, spare - CIPHERTEXT_OVERHEAD)
        OBVIOUS
    <2>3. call = "write" /\ ~flushing
        BY <1>4 DEF PollWrite
    <2>4. taken \in Nat /\ taken >= 1 /\ ~closed
        BY <1>0, <2>1, <2>2, <2>3, TakenFits
    <2>5. /\ written' = written + taken /\ flushed' = flushed
          /\ closed' = closed /\ UNCHANGED readerVars
        BY <1>4, <2>1, <2>2 DEF PollWrite, Take
    <2>6. written' > written
        BY <1>0, <2>4, <2>5 DEF WriterSide
    <2>7. Pipe!Write
        BY <2>4, <2>5, <2>6 DEF Pipe!Write, readerVars
    <2> QED BY <2>7 DEF Pipe!Next
<1>5. CASE FlushSome
    BY <1>5, PipeStutters DEF FlushSome, readerVars
<1>6. CASE FlushDone
    <2>1. ~closed /\ closed = FALSE
        BY <1>0, <1>6 DEF FlushDone, WriterSide
    <2>2. written' = written /\ UNCHANGED readerVars
        BY <1>6 DEF FlushDone
    <2>3. CASE call = "write"
        <3>1. flushed' = flushed
            BY <1>6, <2>3 DEF FlushDone
        <3>2. closed' = (call = "shutdown")
            BY <1>6 DEF FlushDone
        <3>3. closed' = FALSE
            BY <2>3, <3>2
        <3> QED BY <2>1, <2>2, <3>1, <3>3, PipeStutters DEF readerVars
    <2>4. CASE call # "write"
        <3>1. flushed' = written /\ closed' \in BOOLEAN
            BY <1>6, <2>4 DEF FlushDone
        <3>2. Pipe!Flush
            BY <2>1, <2>2, <3>1 DEF Pipe!Flush, readerVars
        <3> QED BY <3>2 DEF Pipe!Next
    <2> QED BY <2>3, <2>4
<1>7. ASSUME NEW n \in 0..MaxWritten, CallRead(n)
      PROVE  UNCHANGED Pipe!vars
    <2>1. /\ rpc # "eof" /\ rpc' # "eof" /\ UNCHANGED writerVars
          /\ closed' = closed /\ out' = out
        BY <1>7 DEF CallRead
    <2> QED BY <2>1, ReaderStutters
<1>8. CASE DecryptChunk
    <2>1. /\ rpc # "eof" /\ rpc' # "eof" /\ UNCHANGED writerVars
          /\ closed' = closed /\ out' = out
        BY <1>8 DEF DecryptChunk
    <2> QED BY <2>1, ReaderStutters
<1>9. CASE Decrypted
    <2>1. /\ rpc # "eof" /\ rpc' # "eof" /\ UNCHANGED writerVars
          /\ closed' = closed /\ out' = out
        BY <1>9 DEF Decrypted, LeaveDecrypt
    <2> QED BY <2>1, ReaderStutters
<1>10. CASE LoopEnds \/ InnerPending \/ Wake
    <2>1. /\ rpc # "eof" /\ rpc' # "eof" /\ UNCHANGED writerVars
          /\ closed' = closed /\ out' = out
        BY <1>10 DEF LoopEnds, InnerPending, Wake, Goto
    <2> QED BY <2>1, ReaderStutters
<1>11. CASE InnerRead
    <2>1. /\ rpc # "eof" /\ rpc' # "eof" /\ UNCHANGED writerVars
          /\ closed' = closed /\ out' = out
        BY <1>11 DEF InnerRead
    <2> QED BY <2>1, ReaderStutters
<1>12. CASE InnerEof
    BY <1>12, EofStep DEF Pipe!Next
<1>13. CASE Return
    BY <1>13, ReturnReads DEF Pipe!Next
<1>14. CASE UNCHANGED vars
    BY <1>14, PipeStutters DEF vars, writerVars, readerVars
<1> QED BY <1>1, <1>2, <1>3, <1>4, <1>5, <1>6, <1>7, <1>8, <1>9, <1>10, <1>11,
           <1>12, <1>13, <1>14 DEF Next, WriterRuns, Reads, ReaderRuns

\* The encrypted stream is a pipe of bytes for the applications at its ends:
\* what poll_read returns is a prefix of what poll_write took and only grows,
\* and the end is reported only when everything flushed was returned, also
\* when the writer dies in the middle of a chunk.
THEOREM StreamIsPipe == Spec => ImplementsPipe
<1>1. Init => Pipe!Init
    <2> SUFFICES ASSUME Init PROVE Pipe!Init
        OBVIOUS
    <2>1. /\ written = 0 /\ flushed = 0 /\ closed = FALSE /\ out = <<>>
          /\ (rpc = "eof") = FALSE
        BY DEF Init
    <2>2. Numbers = <<>>
        <3>1. out \in Seq(Byte) /\ Len(out) = 0
            BY <2>1, EmptySeq
        <3>2. DataFrom(out, 0)
            BY <3>1 DEF DataFrom
        <3>3. Numbers \in Seq(Nat) /\ Len(Numbers) = Len(out)
            BY <3>1, <3>2, Numbered DEF Numbers
        <3> QED BY <3>1, <3>3, EmptySeq
    <2> QED BY <2>1, <2>2 DEF Pipe!Init, Numbers
<1>2. IInv /\ [Next]_vars => [Pipe!Next]_(Pipe!vars)
    BY NextPipe
<1> QED BY <1>1, <1>2, Invariant, PTL DEF Spec, ImplementsPipe, Pipe!Spec
----------------------------------------------------------------------------
\* Nothing is lost on the way

\* The header of a writer that is not flushing is none of the bytes that the
\* application has written.
HeaderBlank ==
    ~flushing /\ ~closed => \A i \in 1..HeaderLen : bytes[i][1] # "data"

\* The bytes of the application between the reader's cleartext and the writer.
LEMMA InFlight ==
    ASSUME NEW s \in Seq(Byte), NEW t \in Seq(Byte), NEW u \in Seq(Byte)
    PROVE  /\ Payload((s \o t) \o u) = (Payload(s) \o Payload(t)) \o Payload(u)
           /\ Payload(s) \in Seq(Byte) /\ Payload(t) \in Seq(Byte)
           /\ Payload(u) \in Seq(Byte) /\ Payload(s) \o Payload(t) \in Seq(Byte)
<1>1. s \o t \in Seq(Byte)
    BY ConcatProperties
<1>2. /\ Payload((s \o t) \o u) = Payload(s \o t) \o Payload(u)
      /\ Payload(s \o t) = Payload(s) \o Payload(t)
    BY <1>1, PayloadConcat
<1>3. /\ Payload(s) \in Seq(Byte) /\ Payload(t) \in Seq(Byte)
      /\ Payload(u) \in Seq(Byte)
    BY PayloadType
<1> QED BY <1>2, <1>3, ConcatProperties

\* A chunk holds its message and no other byte of the application.
LEMMA PayloadOfChunk ==
    ASSUME NEW msg \in Seq(Byte), NEW a, DataFrom(msg, a)
    PROVE  /\ Payload(msg) = msg
           /\ Payload(Chunk(msg)) = msg
           /\ Payload(Header(0) \o msg) = msg
           /\ Payload(Header(0)) = <<>>
<1> DEFINE n == Len(msg) + CIPHERTEXT_OVERHEAD
<1>1. n \in Nat /\ Len(msg) \in Nat /\ 0 \in Nat
    BY Sizes, LenProperties
<1>2. ASSUME NEW m \in Nat
      PROVE  Header(m) \in Seq(Byte) /\ Payload(Header(m)) = <<>>
    <2>1. PICK h : h = Header(m)
        OBVIOUS
    <2>2. /\ h \in Seq(Byte) /\ Len(h) = HeaderLen
          /\ \A i \in 1..HeaderLen : h[i][1] # "data"
        BY <2>1, Sizes DEF Header, Copies, Byte
    <2>3. Payload(h) = <<>>
        BY <2>2, PayloadNone
    <2> QED BY <2>1, <2>2, <2>3
<1>3. Tag \in Seq(Byte) /\ Payload(Tag) = <<>>
    <2>1. PICK t : t = Tag
        OBVIOUS
    <2>2. /\ t \in Seq(Byte) /\ Len(t) = CIPHERTEXT_OVERHEAD
          /\ \A i \in 1..CIPHERTEXT_OVERHEAD : t[i][1] # "data"
        BY <2>1, Sizes DEF Tag, Copies, Byte
    <2>3. Payload(t) = <<>>
        BY <2>2, PayloadNone
    <2> QED BY <2>1, <2>2, <2>3
<1>4. Payload(msg) = msg
    <2>1. ASSUME NEW i \in 1..Len(msg) PROVE msg[i][1] = "data"
        BY DEF DataFrom
    <2> QED BY <2>1, PayloadAll
<1>5. <<>> \o msg = msg /\ msg \o <<>> = msg
    BY ConcatEmptySeq
<1>6. Payload(Chunk(msg)) = msg
    <2>1. Chunk(msg) = (Header(n) \o msg) \o Tag
        BY DEF Chunk
    <2> HIDE DEF n
    <2>2. PICK h \in Seq(Byte) : h = Header(n) /\ Payload(h) = <<>>
        BY <1>1, <1>2
    <2>3. PICK t \in Seq(Byte) : t = Tag /\ Payload(t) = <<>>
        BY <1>3
    <2>4. PICK x : x = h \o msg
        OBVIOUS
    <2>5. x \in Seq(Byte) /\ Payload(x) = Payload(h) \o Payload(msg)
        BY <2>4, PayloadConcat, ConcatProperties
    <2>6. Payload(x \o t) = Payload(x) \o Payload(t)
        BY <2>5, PayloadConcat
    <2> QED BY <1>4, <1>5, <2>1, <2>2, <2>3, <2>4, <2>5, <2>6
<1>7. Payload(Header(0) \o msg) = msg
    <2>1. PICK h \in Seq(Byte) : h = Header(0) /\ Payload(h) = <<>>
        BY <1>2
    <2>2. Payload(h \o msg) = Payload(h) \o Payload(msg)
        BY PayloadConcat
    <2> QED BY <1>4, <1>5, <2>1, <2>2
<1> QED BY <1>2, <1>4, <1>6, <1>7

\* What the writer holds of the application's bytes when it is not flushing.
LEMMA PayloadOfWriter ==
    ASSUME IInv, HeaderBlank, ~flushing, ~closed
    PROVE  /\ Unsent \in Seq(Byte) /\ Payload(bytes) = Unsent
           /\ \E a \in Nat : DataFrom(Unsent, a) /\ a + Len(Unsent) = written
<1>0. WriterSide /\ ReaderSide /\ InOrder /\ wire \in Seq(Byte)
    BY DEF IInv
<1>1. PICK F : Tracks(F)
    BY DEF IInv
<1>2. PICK a : a = F[Len(Stream)]
    OBVIOUS
<1>3. /\ Unsent \in Seq(Byte) /\ DataFrom(Unsent, a) /\ a \in Nat
      /\ a + Len(Unsent) = written
    BY <1>0, <1>1, <1>2, UnsentFacts
<1>4. /\ bytes \in Seq(Byte) /\ Len(bytes) \in Nat /\ HeaderLen <= Len(bytes)
    BY <1>0, LenProperties DEF WriterSide
<1>5. HeaderLen \in 0..Len(bytes)
    BY <1>4, Sizes
<1>6. PICK h : h = SubSeq(bytes, 1, HeaderLen)
    OBVIOUS
<1>7. /\ h \in Seq(Byte) /\ Len(h) = HeaderLen
      /\ \A i \in 1..HeaderLen : h[i] = bytes[i]
      /\ h \o Unsent = bytes
    BY <1>4, <1>5, <1>6, Cut DEF Unsent
<1>8. Payload(h) = <<>>
    <2>1. \A i \in 1..Len(h) : h[i][1] # "data"
        BY <1>7 DEF HeaderBlank
    <2> QED BY <1>7, <2>1, PayloadNone
<1>9. Payload(Unsent) = Unsent
    BY <1>3, PayloadOfChunk
<1>10. Payload(bytes) = <<>> \o Unsent
    BY <1>3, <1>7, <1>8, <1>9, PayloadConcat
<1>11. <<>> \o Unsent = Unsent
    BY <1>3, ConcatEmptySeq
<1> QED BY <1>3, <1>10, <1>11

LEMMA HeaderBlankInit == Init => HeaderBlank
BY DEF Init, HeaderBlank

LEMMA HeaderBlankNext ==
    ASSUME IInv, HeaderBlank, [Next]_vars
    PROVE  HeaderBlank'
<1>0. WriterSide
    BY DEF IInv
<1>1. ASSUME bytes' = bytes, flushing' = flushing, closed' = closed
      PROVE  HeaderBlank'
    BY <1>1 DEF HeaderBlank
<1>2. ASSUME NEW msg \in Seq(Byte), bytes' = Header(0) \o msg
      PROVE  HeaderBlank'
    <2>1. PICK h : h = Header(0)
        OBVIOUS
    <2>2. /\ h \in Seq(Byte) /\ Len(h) = HeaderLen
          /\ \A i \in 1..HeaderLen : h[i][1] # "data"
        BY <2>1, Sizes DEF Header, Copies, Byte
    <2>3. TwoParts(bytes', h, msg)
        BY <1>2, <2>1, <2>2, Joined
    <2>4. \A i \in 1..HeaderLen : bytes'[i] = h[i]
        BY <2>2, <2>3 DEF TwoParts
    <2> QED BY <2>2, <2>4 DEF HeaderBlank
<1>3. CASE PollWrite
    <2>1. PICK spare : spare = MAX_CHUNK_SIZE - Len(bytes)
        OBVIOUS
    <2>2. PICK taken : taken = Min(offered, spare - CIPHERTEXT_OVERHEAD)
        OBVIOUS
    <2>3. call = "write" /\ ~flushing
        BY <1>3 DEF PollWrite
    <2>4. taken \in Nat /\ ~closed
        BY <1>0, <2>1, <2>2, <2>3, TakenFits
    <2>5. PICK more : more = [i \in 1..taken |-> <<"data", written + i>>]
        OBVIOUS
    <2>6. PICK full \in BOOLEAN :
            /\ flushing' = full
            /\ bytes' = IF full THEN Chunk(Unsent \o more)
                        ELSE Header(0) \o (Unsent \o more)
        <3>1. PICK full \in BOOLEAN :
                full = (spare - taken = CIPHERTEXT_OVERHEAD)
            OBVIOUS
        <3>2. Take(taken, full)
            BY <1>3, <2>1, <2>2, <3>1 DEF PollWrite
        <3> QED BY <2>5, <3>2 DEF Take
    <2>7. Unsent \in Seq(Byte)
        BY <2>3, <2>4, PayloadOfWriter
    <2>8. more \in Seq(Byte)
        <3>1. \A i \in 1..taken : <<"data", written + i>> \in Byte
            BY <1>0, <2>4 DEF Byte, WriterSide
        <3> QED BY <2>4, <2>5, <3>1
    <2>9. Unsent \o more \in Seq(Byte)
        BY <2>7, <2>8, ConcatProperties
    <2>10. CASE full
        BY <2>6, <2>10 DEF HeaderBlank
    <2>11. CASE ~full
        BY <1>2, <2>6, <2>9, <2>11
    <2> QED BY <2>10, <2>11
<1>4. CASE FlushDone
    <2>1. PICK h : h = Header(0)
        OBVIOUS
    <2>2. \A i \in 1..HeaderLen : h[i][1] # "data"
        BY <2>1, Sizes DEF Header, Copies
    <2>3. bytes' = h
        BY <1>4, <2>1 DEF FlushDone
    <2> QED BY <2>2, <2>3 DEF HeaderBlank
<1>5. CASE CallFlush
    BY <1>5 DEF CallFlush, HeaderBlank
<1>6. CASE FlushSome
    BY <1>6 DEF FlushSome, HeaderBlank
<1>7. CASE Die
    BY <1>7 DEF Die, HeaderBlank
<1>8. ASSUME NEW n \in 1..MaxWritten, CallWrite(n) PROVE HeaderBlank'
    BY <1>1, <1>8 DEF CallWrite
<1>9. CASE Reads \/ ReaderRuns \/ UNCHANGED vars
    <2>1. bytes' = bytes /\ flushing' = flushing /\ closed' = closed
        BY <1>9 DEF Reads, ReaderRuns, vars, CallRead, DecryptChunk, Decrypted,
           LeaveDecrypt, LoopEnds, InnerRead, InnerPending, InnerEof, Wake,
           Return, Goto, writerVars
    <2> QED BY <1>1, <2>1
<1> QED BY <1>3, <1>4, <1>5, <1>6, <1>7, <1>8, <1>9 DEF Next, WriterRuns

\* All the bytes of the application, from what was returned to what the writer
\* holds.
Whole == (out \o cleartext.data) \o Payload((ciphertext.data \o wire) \o bytes)

\* The bytes of the application up to the n-th.
Written(n) == [i \in 1..n |-> <<"data", i>>]

LEMMA WholeWritten == BytesConserved = (~closed => Whole = Written(written))
BY DEF BytesConserved, Whole, Written

\* A step that neither takes nor loses a byte.
LEMMA WholeKept ==
    ASSUME BytesConserved, closed' = closed, written' = written,
           Whole' = Whole
    PROVE  BytesConserved'
BY DEF BytesConserved, Whole

\* The parts of the state that hold bytes.
LEMMA Holders ==
    ASSUME IInv
    PROVE  /\ out \in Seq(Byte) /\ cleartext.data \in Seq(Byte)
           /\ ciphertext.data \in Seq(Byte) /\ wire \in Seq(Byte)
           /\ bytes \in Seq(Byte)
<1>1. WriterSide /\ ReaderSide /\ InOrder /\ wire \in Seq(Byte)
    BY DEF IInv
<1> QED BY <1>1, Lengths DEF WriterSide, InOrder

\* One stream behind another, as an operator that the provers do not open.
Then(s, t) == s \o t

\* Where the parentheses are does not matter.
LEMMA ThenAssociative ==
    ASSUME NEW p \in Seq(Byte), NEW q \in Seq(Byte), NEW r \in Seq(Byte)
    PROVE  /\ Then(p, q) \in Seq(Byte)
           /\ Then(Then(p, q), r) = Then(p, Then(q, r))
<1>1. p \o q \in Seq(Byte)
    BY ConcatProperties
<1>2. (p \o q) \o r = p \o (q \o r)
    BY ConcatAssociative, SMTT(30)
<1> QED BY <1>1, <1>2 DEF Then

LEMMA Regrouped ==
    ASSUME NEW p \in Seq(Byte), NEW q \in Seq(Byte), NEW r \in Seq(Byte),
           NEW s \in Seq(Byte)
    PROVE  /\ Then(Then(p, Then(q, r)), s) = Then(Then(p, q), Then(r, s))
           /\ Then(p, Then(q, Then(r, s))) = Then(Then(p, Then(q, r)), s)
<1>1. /\ Then(q, r) \in Seq(Byte) /\ Then(r, s) \in Seq(Byte)
      /\ Then(p, q) \in Seq(Byte)
    BY ThenAssociative
<1>2. Then(Then(p, q), r) = Then(p, Then(q, r))
    BY ThenAssociative
<1>3. Then(Then(Then(p, q), r), s) = Then(Then(p, q), Then(r, s))
    BY <1>1, ThenAssociative
<1>4. Then(p, Then(q, Then(r, s))) = Then(Then(p, q), Then(r, s))
    BY <1>1, ThenAssociative
<1> QED BY <1>2, <1>3, <1>4

\* The first n bytes of t are moved to the end of s.
LEMMA ThenMoved ==
    ASSUME NEW s \in Seq(Byte), NEW t \in Seq(Byte), NEW n \in 0..Len(t)
    PROVE  Then(Then(s, SubSeq(t, 1, n)), SubSeq(t, n + 1, Len(t))) = Then(s, t)
<1>1. PICK first \in Seq(Byte) : first = SubSeq(t, 1, n)
    BY Cut
<1>2. PICK rest \in Seq(Byte) : rest = SubSeq(t, n + 1, Len(t))
    BY Cut
<1>3. Then(first, rest) = t
    BY <1>1, <1>2, Cut DEF Then
<1>4. Then(Then(s, first), rest) = Then(s, Then(first, rest))
    BY ThenAssociative
<1> QED BY <1>1, <1>2, <1>3, <1>4

\* poll_flush_local moves bytes from the writer to the wire.
LEMMA FlushSomeConserves ==
    ASSUME IInv, BytesConserved, FlushSome
    PROVE  BytesConserved'
<1>1. PICK n \in 1..Min(Len(bytes), WireCap - Len(wire)) :
        /\ wire' = wire \o SubSeq(bytes, 1, n)
        /\ bytes' = SubSeq(bytes, n + 1, Len(bytes))
    BY DEF FlushSome
<1>2. /\ out \in Seq(Byte) /\ cleartext.data \in Seq(Byte)
      /\ ciphertext.data \in Seq(Byte) /\ wire \in Seq(Byte)
      /\ bytes \in Seq(Byte)
    BY Holders
<1>3. n \in 0..Len(bytes)
    <2>1. PICK l \in Nat : l = Len(bytes)
        BY <1>2, LenProperties
    <2>2. PICK w \in Nat : w = Len(wire)
        BY <1>2, LenProperties
    <2>3. n \in 1..Min(l, WireCap - w)
        BY <2>1, <2>2
    <2>4. n \in 0..l
        BY <2>3, Sizes DEF Min
    <2> QED BY <2>1, <2>4
<1>4. PICK c \in Seq(Byte) : c = ciphertext.data
    BY <1>2
<1>5. PICK w \in Seq(Byte) : w = wire
    BY <1>2
<1>6. PICK first \in Seq(Byte) : first = SubSeq(bytes, 1, n)
    BY <1>2, <1>3, Cut
<1>7. PICK rest \in Seq(Byte) : rest = SubSeq(bytes, n + 1, Len(bytes))
    BY <1>2, <1>3, Cut
<1>8. Then(first, rest) = bytes
    BY <1>2, <1>3, <1>6, <1>7, Cut DEF Then
<1>9. Then(Then(c, Then(w, first)), rest) = Then(Then(c, w), Then(first, rest))
    BY Regrouped
<1>10. UNCHANGED readerVars /\ closed' = closed /\ written' = written
    BY DEF FlushSome
<1>11. (ciphertext'.data \o wire') \o bytes' = (ciphertext.data \o wire) \o bytes
    <2>1. ciphertext'.data = c /\ wire' = w \o first /\ bytes' = rest
        BY <1>1, <1>4, <1>5, <1>6, <1>7, <1>10 DEF readerVars
    <2>2. /\ Then(Then(ciphertext'.data, wire'), bytes')
                = Then(Then(c, Then(w, first)), rest)
          /\ Then(Then(ciphertext.data, wire), bytes) = Then(Then(c, w), bytes)
        <3>1. wire' = Then(w, first)
            BY <2>1 DEF Then
        <3> QED BY <1>4, <1>5, <2>1, <3>1
    <2>3. Then(Then(ciphertext'.data, wire'), bytes')
            = Then(Then(ciphertext.data, wire), bytes)
        BY <1>8, <1>9, <2>2
    <2> QED BY <2>3 DEF Then
<1>12. Whole' = Whole
    BY <1>10, <1>11 DEF Whole, readerVars
<1> QED BY <1>10, <1>12, WholeKept

\* The inner reader moves bytes from the wire to the ciphertext.
LEMMA InnerReadConserves ==
    ASSUME IInv, BytesConserved, InnerRead
    PROVE  BytesConserved'
<1>1. PICK n \in 1..Min(Len(wire), CipherSpare) :
        /\ ciphertext' = Extend(ciphertext, SubSeq(wire, 1, n))
        /\ wire' = SubSeq(wire, n + 1, Len(wire))
    BY DEF InnerRead
<1>2. /\ out \in Seq(Byte) /\ cleartext.data \in Seq(Byte)
      /\ ciphertext.data \in Seq(Byte) /\ wire \in Seq(Byte)
      /\ bytes \in Seq(Byte) /\ ciphertext \in HelperBuf
    BY Holders DEF IInv, ReaderSide
<1>3. n \in 0..Len(wire)
    <2>1. PICK l \in Nat : l = Len(wire)
        BY <1>2, LenProperties
    <2>2. PICK m \in Int : m = CipherSpare
        <3>1. Len(ciphertext.data) \in Nat /\ ciphertext.cursor \in Nat
            BY <1>2, LenProperties DEF HelperBuf
        <3> QED BY <3>1, Sizes DEF CipherSpare, SpareCapacity
    <2>3. n \in 1..Min(l, m)
        BY <2>1, <2>2
    <2>4. n \in 0..l
        BY <2>3 DEF Min
    <2> QED BY <2>1, <2>4
<1>4. /\ SubSeq(wire, 1, n) \in Seq(Byte)
      /\ (ciphertext.data \o SubSeq(wire, 1, n)) \o SubSeq(wire, n + 1, Len(wire))
            = ciphertext.data \o wire
    <2>1. Then(Then(ciphertext.data, SubSeq(wire, 1, n)),
               SubSeq(wire, n + 1, Len(wire))) = Then(ciphertext.data, wire)
        BY <1>2, <1>3, ThenMoved
    <2> QED BY <1>2, <1>3, <2>1, Cut DEF Then
<1>5. ciphertext'.data = ciphertext.data \o SubSeq(wire, 1, n)
    BY <1>1, <1>2, <1>4, Extended
<1>6. /\ UNCHANGED writerVars /\ closed' = closed /\ out' = out
      /\ cleartext' = cleartext
    BY DEF InnerRead
<1>7. (ciphertext'.data \o wire') \o bytes' = (ciphertext.data \o wire) \o bytes
    BY <1>1, <1>4, <1>5, <1>6 DEF writerVars
<1>8. Whole' = Whole
    BY <1>6, <1>7 DEF Whole
<1> QED BY <1>6, <1>8, WholeKept DEF writerVars

\* poll_read moves bytes from the cleartext to the application.
LEMMA ReturnConserves ==
    ASSUME IInv, BytesConserved, Return
    PROVE  BytesConserved'
<1>1. PICK n \in IF wanted = 0 THEN 1..Len(cleartext.data)
                 ELSE {Min(wanted, Len(cleartext.data))} :
        /\ out' = out \o SubSeq(cleartext.data, 1, n)
        /\ cleartext' = AdvanceCursor(cleartext, n)
    BY DEF Return
<1>2. /\ out \in Seq(Byte) /\ cleartext.data \in Seq(Byte)
      /\ cleartext \in HelperBuf /\ wanted \in Nat
      /\ cleartext.data = <<>> => cleartext.cursor = 0
    BY Holders DEF IInv, ReaderSide
<1>3. n \in 0..Len(cleartext.data)
    <2>1. PICK l \in Nat : l = Len(cleartext.data)
        BY <1>2, LenProperties
    <2>2. n \in IF wanted = 0 THEN 1..l ELSE {Min(wanted, l)}
        BY <1>1, <2>1
    <2>3. n \in 0..l
        BY <1>2, <2>2 DEF Min
    <2> QED BY <2>1, <2>3
<1>4. cleartext'.data = SubSeq(cleartext.data, n + 1, Len(cleartext.data))
    BY <1>1, <1>2, <1>3, Advanced
<1>5. out' \o cleartext'.data = out \o cleartext.data
    <2>1. Then(Then(out, SubSeq(cleartext.data, 1, n)),
               SubSeq(cleartext.data, n + 1, Len(cleartext.data)))
            = Then(out, cleartext.data)
        BY <1>2, <1>3, ThenMoved
    <2> QED BY <1>1, <1>4, <2>1 DEF Then
<1>6. /\ UNCHANGED writerVars /\ wire' = wire /\ closed' = closed
      /\ ciphertext' = ciphertext
    BY DEF Return
<1>7. Whole' = Whole
    BY <1>5, <1>6 DEF Whole, writerVars
<1> QED BY <1>6, <1>7, WholeKept DEF writerVars

\* A stream begins with a header of h bytes, m bytes of the application and a
\* tag of o bytes.
BeginsWithChunk(s, h, m, o) ==
    /\ h + m + o <= Len(s)
    /\ \A i \in 1..h : s[i][1] # "data"
    /\ \A i \in 1..m : s[h + i][1] = "data"
    /\ \A i \in 1..o : s[h + m + i][1] # "data"

\* A chunk at the front of a stream: its payload is the slice behind its
\* header, and the rest of the stream keeps its own.
LEMMA PayloadOfFirst ==
    ASSUME NEW s \in Seq(Byte), NEW h \in Nat, NEW m \in Nat, NEW o \in Nat,
           BeginsWithChunk(s, h, m, o)
    PROVE  Payload(s) = Then(SubSeq(s, h + 1, h + m),
                             Payload(SubSeq(s, h + m + o + 1, Len(s))))
<1>0. PICK l \in Nat : l = Len(s)
    BY LenProperties
<1>1. /\ h + m + o <= l
      /\ \A i \in 1..h : s[i][1] # "data"
      /\ \A i \in 1..m : s[h + i][1] = "data"
      /\ \A i \in 1..o : s[h + m + i][1] # "data"
    BY <1>0 DEF BeginsWithChunk
<1>2. PICK head : head = SubSeq(s, 0 + 1, 0 + h)
    OBVIOUS
<1>3. PICK piece : piece = SubSeq(s, h + 1, h + m)
    OBVIOUS
<1>4. PICK tag : tag = SubSeq(s, h + m + 1, h + m + o)
    OBVIOUS
<1>5. PICK rest : rest = SubSeq(s, h + m + o + 1, Len(s))
    OBVIOUS
<1>6. head \in Seq(Byte) /\ Len(head) = h /\ \A i \in 1..h : head[i] = s[0 + i]
    <2>1. 0 \in Nat /\ 0 + h <= Len(s)
        BY <1>0, <1>1
    <2> QED BY <1>2, <2>1, Slice
<1>7. piece \in Seq(Byte) /\ Len(piece) = m /\ \A i \in 1..m : piece[i] = s[h + i]
    <2>1. h + m <= Len(s)
        BY <1>0, <1>1
    <2> QED BY <1>3, <2>1, Slice
<1>8. tag \in Seq(Byte) /\ Len(tag) = o /\ \A i \in 1..o : tag[i] = s[h + m + i]
    <2>1. PICK hm \in Nat : hm = h + m
        OBVIOUS
    <2>2. hm + o <= Len(s) /\ tag = SubSeq(s, hm + 1, hm + o)
        BY <1>0, <1>1, <1>4, <2>1
    <2>3. tag \in Seq(Byte) /\ Len(tag) = o /\ \A i \in 1..o : tag[i] = s[hm + i]
        BY <2>2, Slice
    <2> QED BY <2>1, <2>3
<1>9. PICK k \in Nat : k = h + m + o
    OBVIOUS
<1>10. /\ k \in 0..Len(s) /\ rest = SubSeq(s, k + 1, Len(s))
    BY <1>0, <1>1, <1>5, <1>9
<1>11. PICK front : front = SubSeq(s, 1, k)
    OBVIOUS
<1>12. /\ front \in Seq(Byte) /\ rest \in Seq(Byte) /\ Len(front) = k
       /\ \A i \in 1..k : front[i] = s[i]
       /\ front \o rest = s
    <2>1. /\ front \in Seq(Byte) /\ rest \in Seq(Byte) /\ Len(front) = k
          /\ \A i \in 1..k : front[i] = s[i]
        BY <1>10, <1>11, Cut
    <2>2. SubSeq(s, 1, k) \o SubSeq(s, k + 1, Len(s)) = s
        BY <1>10, Cut
    <2> QED BY <1>10, <1>11, <2>1, <2>2
<1>13. front = (head \o piece) \o tag
    <2>1. PICK x : x = (head \o piece) \o tag
        OBVIOUS
    <2>2. ThreeParts(x, head, piece, tag)
        BY <1>6, <1>7, <1>8, <2>1, Parts
    <2>3. /\ x \in Seq(Byte) /\ Len(x) = h + m + o
          /\ \A i \in 1..h : x[i] = head[i]
          /\ \A i \in 1..m : x[h + i] = piece[i]
          /\ \A i \in 1..o : x[h + m + i] = tag[i]
        BY <1>6, <1>7, <1>8, <2>2 DEF ThreeParts
    <2>4. ASSUME NEW i \in 1..k PROVE front[i] = x[i]
        <3>0. i \in Nat /\ i >= 1 /\ i <= h + m + o /\ front[i] = s[i]
            BY <1>9, <1>12
        <3>1. CASE i <= h
            <4>1. i \in 1..h /\ 0 + i = i
                BY <3>0, <3>1
            <4> QED BY <1>6, <2>3, <3>0, <4>1
        <3>2. CASE h < i /\ i <= h + m
            <4>1. PICK j \in 1..m : i = h + j
                <5>1. i - h \in 1..m /\ i = h + (i - h)
                    BY <3>0, <3>2
                <5> QED BY <5>1
            <4> QED BY <1>7, <2>3, <3>0, <4>1
        <3>3. CASE h + m < i
            <4>1. PICK j \in 1..o : i = h + m + j
                <5>1. i - (h + m) \in 1..o /\ i = h + m + (i - (h + m))
                    BY <3>0, <3>3
                <5> QED BY <5>1
            <4> QED BY <1>8, <2>3, <3>0, <4>1
        <3> QED BY <3>0, <3>1, <3>2, <3>3
    <2>5. Len(front) = Len(x) /\ \A i \in 1..Len(front) : front[i] = x[i]
        BY <1>9, <1>12, <2>3, <2>4
    <2>6. front = x
        BY <1>12, <2>3, <2>5, SeqEqual
    <2> QED BY <2>1, <2>6
<1>14. Payload(head) = <<>>
    <2>1. ASSUME NEW i \in 1..Len(head) PROVE head[i][1] # "data"
        <3>1. i \in 1..h /\ 0 + i = i
            BY <1>6
        <3> QED BY <1>1, <1>6, <3>1
    <2> QED BY <1>6, <2>1, PayloadNone
<1>15. Payload(piece) = piece
    <2>1. ASSUME NEW i \in 1..Len(piece) PROVE piece[i][1] = "data"
        BY <1>1, <1>7
    <2> QED BY <1>7, <2>1, PayloadAll
<1>16. Payload(tag) = <<>>
    <2>1. ASSUME NEW i \in 1..Len(tag) PROVE tag[i][1] # "data"
        BY <1>1, <1>8
    <2> QED BY <1>8, <2>1, PayloadNone
<1>17. Payload(front) = piece
    <2>1. PICK x : x = head \o piece
        OBVIOUS
    <2>2. x \in Seq(Byte) /\ Payload(x) = Payload(head) \o Payload(piece)
        BY <1>6, <1>7, <2>1, PayloadConcat, ConcatProperties
    <2>3. Payload(x \o tag) = Payload(x) \o Payload(tag)
        BY <1>8, <2>2, PayloadConcat
    <2>4. <<>> \o piece = piece /\ piece \o <<>> = piece
        BY <1>7, ConcatEmptySeq
    <2> QED BY <1>13, <1>14, <1>15, <1>16, <2>1, <2>2, <2>3, <2>4
<1>18. Payload(s) = Payload(front) \o Payload(rest)
    BY <1>12, PayloadConcat
<1> QED BY <1>3, <1>5, <1>17, <1>18 DEF Then

\* decrypt_all_full_chunks moves the message of a chunk to the cleartext and
\* drops nothing but its header and its tag.
LEMMA DecryptConserves ==
    ASSUME IInv, BytesConserved, DecryptChunk
    PROVE  BytesConserved'
<1>0. WriterSide /\ ReaderSide /\ InOrder /\ wire \in Seq(Byte)
    BY DEF IInv
<1>1. PICK F : Tracks(F)
    BY DEF IInv
<1>2. PICK o \in Seq(Byte) : o = out
    BY Holders
<1>3. PICK clear \in Seq(Byte) : clear = cleartext.data
    BY Holders
<1>4. PICK c \in Seq(Byte) : c = ciphertext.data
    BY Holders
<1>5. PICK w \in Seq(Byte) : w = wire
    BY Holders
<1>6. PICK b \in Seq(Byte) : b = bytes
    BY Holders
<1>7. PICK l \in Nat : l = Len(c)
    BY LenProperties
<1>8. PICK n : n = ChunkLen
    OBVIOUS
<1>9. l >= HeaderLen + n /\ l >= 1
    BY <1>4, <1>7, <1>8, Sizes DEF DecryptChunk, HasChunk
<1>10. /\ n \in CIPHERTEXT_OVERHEAD..MAX_CHUNK_SIZE - HeaderLen
       /\ \A i \in 1..n - CIPHERTEXT_OVERHEAD :
            HeaderLen + i <= l => c[HeaderLen + i] = <<"data", F[0] + i>>
       /\ \A i \in Framing(n) : i <= l => c[i][1] # "data"
    BY <1>0, <1>1, <1>4, <1>7, <1>8, <1>9, FirstChunk
<1>11. PICK m \in Nat : n = m + CIPHERTEXT_OVERHEAD
    <2>1. n - CIPHERTEXT_OVERHEAD \in Nat
          /\ n = (n - CIPHERTEXT_OVERHEAD) + CIPHERTEXT_OVERHEAD
        BY <1>10, Sizes
    <2> QED BY <2>1
<1>12. /\ n \in Nat /\ n - CIPHERTEXT_OVERHEAD = m
       /\ HeaderLen + n = HeaderLen + m + CIPHERTEXT_OVERHEAD
       /\ HeaderLen + n - CIPHERTEXT_OVERHEAD = HeaderLen + m
       /\ HeaderLen + m + CIPHERTEXT_OVERHEAD <= l
       /\ HeaderLen + n \in 0..l
    BY <1>9, <1>10, <1>11, Sizes
<1>13. \A i \in 1..HeaderLen : c[i][1] # "data"
    <2>1. ASSUME NEW i \in 1..HeaderLen PROVE i \in Framing(n) /\ i <= l
        BY <1>12, Sizes DEF Framing
    <2> QED BY <1>10, <2>1
<1>14. \A i \in 1..m : c[HeaderLen + i][1] = "data"
    <2>1. ASSUME NEW i \in 1..m
          PROVE  i \in 1..n - CIPHERTEXT_OVERHEAD /\ HeaderLen + i <= l
        BY <1>12, Sizes
    <2> QED BY <1>10, <2>1
<1>15. \A i \in 1..CIPHERTEXT_OVERHEAD : c[HeaderLen + m + i][1] # "data"
    <2>1. ASSUME NEW i \in 1..CIPHERTEXT_OVERHEAD
          PROVE  /\ HeaderLen + m + i \in Framing(n)
                 /\ HeaderLen + m + i <= l
        <3>1. PICK j \in Nat : j = HeaderLen + m + i
            BY Sizes
        <3>2. /\ j \in 1..HeaderLen + n
              /\ j > HeaderLen + (n - CIPHERTEXT_OVERHEAD) /\ j <= l
            BY <1>12, <3>1, Sizes
        <3> QED BY <3>1, <3>2 DEF Framing
    <2> QED BY <1>10, <2>1
<1>16. PICK piece : piece = SubSeq(c, HeaderLen + 1, HeaderLen + m)
    OBVIOUS
<1>17. PICK rest : rest = SubSeq(c, HeaderLen + m + CIPHERTEXT_OVERHEAD + 1, Len(c))
    OBVIOUS
<1>18. Payload(c) = Then(piece, Payload(rest))
    <2>1. /\ HeaderLen \in Nat /\ CIPHERTEXT_OVERHEAD \in Nat
          /\ HeaderLen + m + CIPHERTEXT_OVERHEAD <= Len(c)
        BY <1>7, <1>12, Sizes
    <2>2. BeginsWithChunk(c, HeaderLen, m, CIPHERTEXT_OVERHEAD)
        BY <1>13, <1>14, <1>15, <2>1 DEF BeginsWithChunk
    <2>3. Payload(c)
            = Then(SubSeq(c, HeaderLen + 1, HeaderLen + m),
                   Payload(SubSeq(c, HeaderLen + m + CIPHERTEXT_OVERHEAD + 1, Len(c))))
        BY <2>1, <2>2, PayloadOfFirst
    <2> QED BY <1>16, <1>17, <2>3
<1>19. piece \in Seq(Byte) /\ rest \in Seq(Byte)
    <2>1. HeaderLen \in Nat /\ HeaderLen + m <= Len(c)
        BY <1>7, <1>12, Sizes
    <2>2. piece \in Seq(Byte)
        BY <1>16, <2>1, Slice
    <2>3. PICK k \in 0..l : k = HeaderLen + m + CIPHERTEXT_OVERHEAD
        BY <1>12
    <2>4. rest \in Seq(Byte)
        BY <1>7, <1>17, <2>3, Cut
    <2> QED BY <2>2, <2>4
<1>20. /\ UNCHANGED writerVars /\ wire' = wire /\ closed' = closed /\ out' = out
    BY DEF DecryptChunk
<1>21. ciphertext'.data = rest
    <2>1. ciphertext' = AdvanceCursor(ciphertext, HeaderLen + n)
        BY <1>8 DEF DecryptChunk
    <2>2. PICK k \in 0..l : k = HeaderLen + n
        BY <1>12
    <2>3. /\ ciphertext \in HelperBuf /\ k \in 0..Len(ciphertext.data)
          /\ ciphertext.data = <<>> => ciphertext.cursor = 0
        BY <1>0, <1>4, <1>7, <2>2 DEF ReaderSide
    <2>4. ciphertext'.data
            = SubSeq(ciphertext.data, k + 1, Len(ciphertext.data))
        BY <2>1, <2>2, <2>3, Advanced
    <2> QED BY <1>4, <1>12, <1>17, <2>2, <2>4
<1>22. cleartext'.data = clear \o piece
    <2>1. cleartext' = Extend(cleartext, piece)
        BY <1>4, <1>8, <1>12, <1>16 DEF DecryptChunk
    <2> QED BY <1>0, <1>3, <1>19, <2>1, Extended DEF ReaderSide
<1>23. PICK tail \in Seq(Byte) : tail = w \o b
    BY ConcatProperties
<1>24. PICK p \in Seq(Byte) : p = Payload(rest)
    BY <1>19, PayloadType
<1>25. PICK q \in Seq(Byte) : q = Payload(tail)
    BY PayloadType
<1>26. Payload((c \o w) \o b) = Then(Then(piece, p), q)
    <2>1. Then(Then(c, w), b) = Then(c, Then(w, b))
        BY ThenAssociative
    <2>2. (c \o w) \o b = c \o tail
        BY <1>23, <2>1 DEF Then
    <2>3. Payload(c \o tail) = Payload(c) \o Payload(tail)
        BY PayloadConcat
    <2> QED BY <1>18, <1>24, <1>25, <2>2, <2>3 DEF Then
<1>27. Payload((rest \o w) \o b) = Then(p, q)
    <2>1. Then(Then(rest, w), b) = Then(rest, Then(w, b))
        BY <1>19, ThenAssociative
    <2>2. (rest \o w) \o b = rest \o tail
        BY <1>23, <2>1 DEF Then
    <2>3. Payload(rest \o tail) = Payload(rest) \o Payload(tail)
        BY <1>19, PayloadConcat
    <2> QED BY <1>24, <1>25, <2>2, <2>3 DEF Then
<1>28. Then(Then(o, clear), Then(Then(piece, p), q))
        = Then(Then(o, Then(clear, piece)), Then(p, q))
    <2>1. /\ Then(p, q) \in Seq(Byte) /\ Then(o, clear) \in Seq(Byte)
        BY ThenAssociative
    <2>2. PICK pq \in Seq(Byte) : pq = Then(p, q)
        BY <2>1
    <2>3. Then(Then(piece, p), q) = Then(piece, pq)
        BY <1>19, <2>2, ThenAssociative
    <2>4. Then(Then(o, Then(clear, piece)), pq)
            = Then(Then(o, clear), Then(piece, pq))
        BY <1>19, Regrouped
    <2> QED BY <2>2, <2>3, <2>4
<1>29. Whole = Then(Then(o, clear), Then(Then(piece, p), q))
    BY <1>2, <1>3, <1>4, <1>5, <1>6, <1>26 DEF Whole, Then
<1>30. Whole' = Then(Then(o, Then(clear, piece)), Then(p, q))
    <2>1. /\ out' = o /\ cleartext'.data = clear \o piece /\ ciphertext'.data = rest
          /\ wire' = w /\ bytes' = b
        BY <1>2, <1>5, <1>6, <1>20, <1>21, <1>22 DEF writerVars
    <2> QED BY <1>27, <2>1 DEF Whole, Then
<1> QED BY <1>20, <1>28, <1>29, <1>30, WholeKept DEF writerVars

\* What a step of the writer does to its own bytes of the application, it does
\* to all of them.
LEMMA WriterConserves ==
    ASSUME IInv, IInv', UNCHANGED readerVars, wire' = wire,
           NEW more \in Seq(Byte),
           Payload(bytes') = Then(Payload(bytes), more)
    PROVE  Whole' = Then(Whole, more)
<1>1. PICK x \in Seq(Byte) : x = out \o cleartext.data
    BY Holders, ConcatProperties
<1>2. PICK s \in Seq(Byte) : s = ciphertext.data \o wire
    BY Holders, ConcatProperties
<1>3. PICK b \in Seq(Byte) : b = bytes
    BY Holders
<1>4. PICK new \in Seq(Byte) : new = bytes'
    BY DEF IInv, WriterSide
<1>5. PICK p \in Seq(Byte) : p = Payload(s)
    BY PayloadType
<1>6. PICK q \in Seq(Byte) : q = Payload(b)
    BY PayloadType
<1>7. Payload(s \o b) = Then(p, q)
    BY <1>5, <1>6, PayloadConcat DEF Then
<1>8. Payload(s \o new) = Then(p, Then(q, more))
    <2>1. Payload(s \o new) = Payload(s) \o Payload(new)
        BY PayloadConcat
    <2>2. Payload(new) = Then(q, more)
        BY <1>3, <1>4, <1>6
    <2> QED BY <1>5, <2>1, <2>2 DEF Then
<1>9. Then(x, Then(p, Then(q, more))) = Then(Then(x, Then(p, q)), more)
    BY Regrouped
<1>10. Whole = Then(x, Then(p, q))
    BY <1>1, <1>2, <1>3, <1>7 DEF Whole, Then
<1>11. Whole' = Then(x, Then(p, Then(q, more)))
    <2>1. /\ out' \o cleartext'.data = x /\ ciphertext'.data \o wire' = s
          /\ bytes' = new
        BY <1>1, <1>2, <1>4 DEF readerVars
    <2> QED BY <1>8, <2>1 DEF Whole, Then
<1> QED BY <1>9, <1>10, <1>11

\* A step of the writer that takes no byte.
LEMMA WriterKeeps ==
    ASSUME IInv, IInv', BytesConserved, UNCHANGED readerVars, wire' = wire,
           ~closed' => /\ closed' = closed
                       /\ written' = written
                       /\ Payload(bytes') = Payload(bytes)
    PROVE  BytesConserved'
<1> SUFFICES ASSUME ~closed' PROVE BytesConserved'
    BY DEF BytesConserved
<1>1. PICK p \in Seq(Byte) : p = Payload(bytes)
    BY Holders, PayloadType
<1>2. p \o <<>> = p
    BY ConcatEmptySeq
<1>3. PICK none \in Seq(Byte) : none = <<>>
    BY EmptySeq
<1>4. Payload(bytes') = Then(Payload(bytes), none)
    BY <1>1, <1>2, <1>3 DEF Then
<1>5. Whole' = Then(Whole, none)
    BY <1>4, WriterConserves
<1>6. Whole \in Seq(Byte)
    <2>1. PICK x \in Seq(Byte) : x = out \o cleartext.data
        BY Holders, ConcatProperties
    <2>2. PICK y \in Seq(Byte) : y = ciphertext.data \o wire
        BY Holders, ConcatProperties
    <2>3. PICK z \in Seq(Byte) : z = y \o bytes
        BY Holders, ConcatProperties
    <2>4. Payload(z) \in Seq(Byte)
        BY PayloadType
    <2>5. x \o Payload(z) \in Seq(Byte)
        BY <2>4, ConcatProperties
    <2> QED BY <2>1, <2>2, <2>3, <2>5 DEF Whole
<1>7. Whole \o <<>> = Whole
    BY <1>6, ConcatEmptySeq
<1> QED BY <1>3, <1>5, <1>7, WholeKept DEF Then

\* A function on 1..n with values that are bytes is a sequence of bytes.
LEMMA MakesSeq ==
    ASSUME NEW n \in Nat, NEW f, f = [i \in 1..n |-> f[i]],
           \A i \in 1..n : f[i] \in Byte
    PROVE  f \in Seq(Byte) /\ Len(f) = n
<1>1. f \in [1..n -> Byte]
    OBVIOUS
<1> QED BY <1>1

\* The bytes up to the w-th and the t bytes behind them.
LEMMA WrittenMore ==
    ASSUME NEW w \in Nat, NEW t \in Nat,
           NEW more, more = [i \in 1..t |-> <<"data", w + i>>]
    PROVE  Then(Written(w), more) = Written(w + t)
<1>1. /\ more \in Seq(Byte) /\ Len(more) = t
      /\ \A i \in 1..t : more[i] = <<"data", w + i>>
    <2>1. \A i \in 1..t : <<"data", w + i>> \in Byte
        BY DEF Byte
    <2>2. /\ \A i \in 1..t : more[i] = <<"data", w + i>>
          /\ more = [i \in 1..t |-> more[i]]
        OBVIOUS
    <2>3. more \in Seq(Byte) /\ Len(more) = t
        <3>1. \A i \in 1..t : more[i] \in Byte
            BY <2>1, <2>2
        <3> QED BY <2>2, <3>1, MakesSeq
    <2> QED BY <2>2, <2>3
<1>2. PICK s : s = Written(w)
    OBVIOUS
<1>3. /\ s \in Seq(Byte) /\ Len(s) = w
      /\ \A i \in 1..w : s[i] = <<"data", i>>
    <2>1. \A i \in 1..w : <<"data", i>> \in Byte
        BY DEF Byte
    <2> QED BY <1>2, <2>1 DEF Written
<1>4. PICK n \in Nat : n = w + t
    OBVIOUS
<1>5. PICK u : u = Written(n)
    OBVIOUS
<1>6. /\ u \in Seq(Byte) /\ Len(u) = n
      /\ \A i \in 1..n : u[i] = <<"data", i>>
    <2>1. \A i \in 1..n : <<"data", i>> \in Byte
        BY DEF Byte
    <2> QED BY <1>5, <2>1 DEF Written
<1>7. PICK x : x = s \o more
    OBVIOUS
<1>8. TwoParts(x, s, more)
    BY <1>1, <1>3, <1>7, Joined
<1>9. /\ x \in Seq(Byte) /\ Len(x) = n
      /\ \A i \in 1..w : x[i] = s[i]
      /\ \A i \in 1..t : x[w + i] = more[i]
    BY <1>1, <1>3, <1>4, <1>8 DEF TwoParts
<1>10. ASSUME NEW i \in 1..n PROVE x[i] = u[i]
    <2>1. CASE i <= w
        <3>1. i \in 1..w
            BY <2>1
        <3> QED BY <1>3, <1>6, <1>9, <3>1
    <2>2. CASE i > w
        <3>1. PICK j \in 1..t : i = w + j
            <4>1. i - w \in 1..t /\ i = w + (i - w)
                BY <1>4, <2>2
            <4> QED BY <4>1
        <3> QED BY <1>1, <1>6, <1>9, <3>1
    <2> QED BY <2>1, <2>2
<1>11. x = u
    BY <1>6, <1>9, <1>10, SeqEqual
<1> QED BY <1>2, <1>4, <1>5, <1>7, <1>11 DEF Then

\* poll_write takes the bytes that come next.
LEMMA PollWriteConserves ==
    ASSUME IInv, IInv', HeaderBlank, BytesConserved, PollWrite
    PROVE  BytesConserved'
<1>0. WriterSide
    BY DEF IInv
<1>1. PICK spare : spare = MAX_CHUNK_SIZE - Len(bytes)
    OBVIOUS
<1>2. PICK taken : taken = Min(offered, spare - CIPHERTEXT_OVERHEAD)
    OBVIOUS
<1>3. call = "write" /\ ~flushing
    BY DEF PollWrite
<1>4. taken \in Nat /\ ~closed /\ written \in Nat
    BY <1>0, <1>1, <1>2, <1>3, TakenFits DEF WriterSide
<1>5. PICK more : more = [i \in 1..taken |-> <<"data", written + i>>]
    OBVIOUS
<1>6. PICK full \in BOOLEAN :
        /\ bytes' = IF full THEN Chunk(Unsent \o more)
                    ELSE Header(0) \o (Unsent \o more)
        /\ written' = written + taken /\ wire' = wire /\ closed' = closed
        /\ UNCHANGED readerVars
    <2>1. PICK full \in BOOLEAN : full = (spare - taken = CIPHERTEXT_OVERHEAD)
        OBVIOUS
    <2>2. Take(taken, full)
        BY <1>1, <1>2, <2>1 DEF PollWrite
    <2> QED BY <1>5, <2>2 DEF Take
<1>7. /\ Unsent \in Seq(Byte) /\ Payload(bytes) = Unsent
      /\ \E a \in Nat : DataFrom(Unsent, a) /\ a + Len(Unsent) = written
    BY <1>3, <1>4, PayloadOfWriter
<1>8. PICK a \in Nat : DataFrom(Unsent, a) /\ a + Len(Unsent) = written
    BY <1>7
<1>9. more \in Seq(Byte) /\ DataFrom(more, written)
    <2>1. \A i \in 1..taken : <<"data", written + i>> \in Byte
        BY <1>4 DEF Byte
    <2>2. /\ \A i \in 1..taken : more[i] = <<"data", written + i>>
          /\ more = [i \in 1..taken |-> more[i]]
        BY <1>5
    <2>3. more \in Seq(Byte) /\ Len(more) = taken
        <3>1. \A i \in 1..taken : more[i] \in Byte
            BY <2>1, <2>2
        <3>2. taken \in Nat /\ more = [i \in 1..taken |-> more[i]]
            BY <1>4, <2>2
        <3> QED BY <3>1, <3>2, MakesSeq
    <2> QED BY <2>2, <2>3 DEF DataFrom
<1>10. PICK msg \in Seq(Byte) : msg = Unsent \o more
    BY <1>7, <1>9, ConcatProperties
<1>11. DataFrom(msg, a)
    <2>1. DataFrom(more, a + Len(Unsent))
        BY <1>8, <1>9
    <2> QED BY <1>7, <1>8, <1>9, <1>10, <2>1, DataJoined
<1>12. Payload(bytes') = msg
    BY <1>6, <1>10, <1>11, PayloadOfChunk
<1>13. Payload(bytes') = Then(Payload(bytes), more)
    BY <1>7, <1>10, <1>12 DEF Then
<1>14. Whole' = Then(Whole, more)
    BY <1>6, <1>9, <1>13, WriterConserves
<1>15. Whole = Written(written)
    BY <1>4 DEF BytesConserved, Whole, Written
<1>16. Then(Written(written), more) = Written(written + taken)
    BY <1>4, <1>5, WrittenMore
<1>17. Whole' = Written(written')
    BY <1>6, <1>14, <1>15, <1>16
<1> QED BY <1>17 DEF BytesConserved, Whole, Written

LEMMA ConservedNext ==
    ASSUME IInv, IInv', HeaderBlank, BytesConserved, [Next]_vars
    PROVE  BytesConserved'
<1>0. WriterSide /\ ReaderSide
    BY DEF IInv
<1>1. ASSUME UNCHANGED writerVars, wire' = wire, closed' = closed, out' = out,
             cleartext' = cleartext, ciphertext'.data = ciphertext.data
      PROVE  BytesConserved'
    BY <1>1 DEF BytesConserved, writerVars
<1>2. ASSUME NEW n \in 1..MaxWritten, CallWrite(n) PROVE BytesConserved'
    BY <1>2 DEF CallWrite, BytesConserved, readerVars
<1>3. CASE CallFlush
    <2>1. /\ UNCHANGED readerVars /\ wire' = wire /\ closed' = closed
          /\ written' = written
          /\ bytes' = IF flushing THEN bytes ELSE Chunk(Unsent)
        BY <1>3 DEF CallFlush
    <2>2. ~closed
        BY <1>0, <1>3 DEF CallFlush, WriterSide
    <2>3. Payload(bytes') = Payload(bytes)
        <3>1. CASE flushing
            BY <2>1, <3>1
        <3>2. CASE ~flushing
            <4>1. /\ Unsent \in Seq(Byte) /\ Payload(bytes) = Unsent
                  /\ \E a \in Nat : DataFrom(Unsent, a)
                BY <2>2, <3>2, PayloadOfWriter
            <4>2. Payload(Chunk(Unsent)) = Unsent
                BY <4>1, PayloadOfChunk
            <4> QED BY <2>1, <3>2, <4>1, <4>2
        <3> QED BY <3>1, <3>2
    <2> QED BY <2>1, <2>3, WriterKeeps
<1>4. CASE Die
    BY <1>4 DEF Die, BytesConserved
<1>5. CASE PollWrite
    BY <1>5, PollWriteConserves
<1>6. CASE FlushSome
    BY <1>6, FlushSomeConserves
<1>7. CASE FlushDone
    <2>1. /\ UNCHANGED readerVars /\ wire' = wire /\ written' = written
          /\ bytes = <<>> /\ bytes' = Header(0)
          /\ call # "gone"
        BY <1>7 DEF FlushDone
    <2>2. ~closed /\ closed = FALSE
        BY <1>0, <2>1 DEF WriterSide
    <2>3. ~closed' => closed' = closed
        BY <1>7, <2>2 DEF FlushDone
    <2>4. Payload(bytes') = <<>>
        <3>1. <<>> \in Seq(Byte) /\ DataFrom(<<>>, 0)
            BY EmptySeq DEF DataFrom
        <3> QED BY <2>1, <3>1, PayloadOfChunk
    <2> QED BY <2>1, <2>3, <2>4, PayloadEmpty, WriterKeeps
<1>8. ASSUME NEW n \in 0..MaxWritten, CallRead(n) PROVE BytesConserved'
    BY <1>1, <1>8 DEF CallRead
<1>9. CASE DecryptChunk
    BY <1>9, DecryptConserves
<1>10. CASE Decrypted
    <2>1. ciphertext'.data = ciphertext.data
        BY <1>0, <1>10, Wrapped DEF Decrypted, LeaveDecrypt, ReaderSide
    <2> QED BY <1>1, <1>10, <2>1 DEF Decrypted, LeaveDecrypt
<1>11. CASE LoopEnds \/ InnerPending \/ InnerEof \/ Wake
    BY <1>1, <1>11 DEF LoopEnds, InnerPending, InnerEof, Wake, Goto
<1>12. CASE InnerRead
    BY <1>12, InnerReadConserves
<1>13. CASE Return
    BY <1>13, ReturnConserves
<1>14. CASE UNCHANGED vars
    BY <1>1, <1>14 DEF vars, readerVars
<1> QED BY <1>2, <1>3, <1>4, <1>5, <1>6, <1>7, <1>8, <1>9, <1>10, <1>11, <1>12,
           <1>13, <1>14 DEF Next, WriterRuns, Reads, ReaderRuns

\* Nothing is lost, repeated or reordered between poll_write and poll_read, and
\* nothing of the framing (the length in front of a chunk, the tag behind it)
\* is mistaken for data: as long as the writer lives, what was returned and
\* what the buffers and the wire hold are the bytes written, whatever the
\* sizes of a chunk, its header, its tag and the buffers.
THEOREM NothingLost == Spec => []BytesConserved
<1>1. Init => HeaderBlank /\ BytesConserved
    <2> SUFFICES ASSUME Init PROVE BytesConserved
        BY HeaderBlankInit
    <2>1. PICK s : s = <<>>
        OBVIOUS
    <2>2. /\ out = s /\ cleartext.data = s /\ ciphertext.data = s /\ wire = s
          /\ bytes = s /\ written = 0
        BY <2>1 DEF Init, EmptyBuf
    <2>3. s \in Seq(Byte) /\ s \o s = s /\ Payload(s) = s
        BY <2>1, EmptySeq, ConcatEmptySeq, PayloadEmpty
    <2>4. Whole = s
        BY <2>2, <2>3 DEF Whole
    <2>5. Written(0) = s
        <3>1. Written(0) \in Seq(Byte) /\ Len(Written(0)) = 0
            BY DEF Written
        <3> QED BY <2>1, <3>1, EmptySeq
    <2> QED BY <2>2, <2>4, <2>5 DEF BytesConserved, Whole, Written
<1>2. IInv /\ IInv' /\ HeaderBlank /\ BytesConserved /\ [Next]_vars
        => HeaderBlank' /\ BytesConserved'
    BY HeaderBlankNext, ConservedNext
<1> QED BY <1>1, <1>2, Invariant, PTL DEF Spec
============================================================================
