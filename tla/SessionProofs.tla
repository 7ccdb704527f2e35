--------------------------- MODULE SessionProofs ---------------------------
(***************************************************************************)
(* What holds of Session for every offer, every folder, files of any size, *)
(* chunks and pipes of any size and any number of lines.                   *)
(*                                                                         *)
(* Nothing in the stream says where a file ends. The argument is that both *)
(* sides count in the same stream: FileEnds has the places where the       *)
(* accepted files end in it, every byte under way stands at its place      *)
(* (InPlace), and the places where the joiner reads and the creator writes *)
(* are as far apart as the pipe is long (Stream).                          *)
(***************************************************************************)
EXTENDS Session, DataInduction, FiniteSetTheorems, SequenceTheorems, TLAPS

\* What the streams and files are made of.
AnyByte == {"old", "file", "line", "offer", "accept"} \X Nat \X Nat

\* The files the two sides agreed on, by their place in the offer.
Taken == IF offer = None THEN <<>> ELSE Accepted(offer, chosen)

\* The place in the stream where each of the files of a list ends.
FileEnds(files, list) ==
    LET end[k \in 0..Len(list)] ==
            IF k = 0 THEN 0 ELSE end[k - 1] + files[list[k]].size
    IN  end

Ends == FileEnds(offer, Taken)

----------------------------------------------------------------------------
\* The variables are what TypeOK says, and more.
Types ==
    /\ offer \in Offers /\ before \in Befores
    /\ offer # None => disk \in [DOMAIN offer -> 0..MaxSize]
    /\ offer = None => disk = <<>>
    /\ changed \in BOOLEAN
    /\ saved \in [Paths -> Seq(AnyByte) \cup {Absent}]
    /\ \A p \in Paths : saved[p] = Absent \/ Len(saved[p]) <= MaxSize
    /\ pc \in [Peers -> PCs]
    /\ option \in 0..3
    /\ DOMAIN chosen \subseteq Nat
    /\ \A i \in DOMAIN chosen : chosen[i] \in BOOLEAN
    /\ offer # None => DOMAIN chosen \subseteq DOMAIN offer
    /\ sendQ \in Seq(Nat) /\ recvQ \in Seq(Nat)
    /\ sentN \in 0..MaxSize
    /\ created \in BOOLEAN
    /\ pipe \in [Peers -> Seq(AnyByte)]
    /\ \A p \in Peers : Len(pipe[p]) <= PipeCap
    /\ held \in 0..ChunkSize /\ held <= Len(pipe["joiner"])
    /\ said \in [Peers -> 0..MaxLines]
    /\ heard \in [Peers -> Seq(AnyByte)]

\* The lists are made of places in the offer; the file at hand is created and
\* not longer than it should be.
Lists ==
    /\ \A k \in DOMAIN sendQ : offer # None /\ sendQ[k] \in DOMAIN offer
    /\ \A k \in DOMAIN recvQ : offer # None /\ recvQ[k] \in DOMAIN offer
    /\ created => /\ recvQ # <<>>
                  /\ saved[Receiving.path] \in Seq(AnyByte)
                  /\ Len(saved[Receiving.path]) <= Receiving.size

\* What can be the case together on the two sides.
Phases ==
    /\ pc["creator"] \notin {"dialog", "receive"}
    /\ pc["joiner"] \notin {"reply", "send"}
    /\ pc["creator"] = "stuck" => Gone("joiner")
    /\ pc["joiner"] = "stuck" => Gone("creator")
    /\ pc["creator"] # "send" => held = 0
    /\ pc["creator"] \in {"offer", "reply", "send"} => said["creator"] = 0
    /\ pc["creator"] \in {"offer", "reply", "chat", "ended"} =>
            sendQ = <<>> /\ sentN = 0
    /\ pc["creator"] = "send" /\ sendQ = <<>> => sentN = 0
    /\ pc["creator"] = "offer" => pc["joiner"] \in {"offer", "aborted"}
    /\ pc["creator"] \in {"reply", "send"} => offer # None
    /\ pc["creator"] \in {"send", "chat", "ended"} /\ offer # None =>
            pc["joiner"] \notin {"offer", "dialog"}
    /\ pc["joiner"] \in {"dialog", "receive"} => offer # None
    /\ pc["joiner"] \in {"offer", "dialog", "chat"} =>
            recvQ = <<>> /\ ~created
    /\ pc["joiner"] \in {"offer", "dialog"} => saved = before
    /\ pc["joiner"] \in {"offer", "dialog", "receive"} =>
            said["joiner"] = 0 /\ heard["joiner"] = <<>>

\* s is a message and then the lines from the first one on.
MessageAndLines(s, message) ==
    s[1] = message /\ \A k \in 2..Len(s) : s[k] = Line(k - 1)

\* What is under way to the joiner until it has read the offer.
OfferUnderWay ==
    /\ pc["joiner"] = "offer" =>
        \/ pipe["joiner"] = <<>> /\ pc["creator"] \in {"offer", "aborted"}
        \/ /\ pipe["joiner"] # <<>> /\ pc["creator"] # "offer"
           /\ MessageAndLines(pipe["joiner"], FileOffer)
           /\ offer # None => Len(pipe["joiner"]) = 1
           /\ Len(pipe["joiner"]) <= 1 + said["creator"]
           /\ pc["creator"] \in {"chat", "ended"} =>
                Len(pipe["joiner"]) = 1 + said["creator"]
    /\ pc["joiner"] = "dialog" => pipe["joiner"] = <<>>

\* What is under way to the creator: the answer, and the lines it has not
\* heard yet.
Inbox ==
    /\ pc["joiner"] \in {"offer", "dialog"} => pipe["creator"] = <<>>
    /\ pc["creator"] = "offer" =>
            pipe["creator"] = <<>> /\ said["joiner"] = 0
    /\ pc["creator"] \in {"offer", "reply"} =>
        /\ heard["creator"] = <<>>
        /\ pipe["creator"] # <<>> =>
            /\ MessageAndLines(pipe["creator"], FileAccept)
            /\ Len(pipe["creator"]) = 1 + said["joiner"]
    /\ pc["creator"] = "reply" /\ pc["joiner"] \in {"receive", "chat"} =>
            pipe["creator"] # <<>>
    /\ pc["creator"] \in {"send", "chat"} =>
        /\ \A k \in DOMAIN pipe["creator"] :
            pipe["creator"][k] = Line(Len(heard["creator"]) + k)
        /\ Len(heard["creator"]) + Len(pipe["creator"]) = said["joiner"]

\* p has heard lines, in order and not more than were typed.
HeardLines(p) ==
    /\ Len(heard[p]) <= said[Other(p)]
    /\ \A n \in DOMAIN heard[p] : heard[p][n] = Line(n)

Base == Types /\ Lists /\ Phases /\ OfferUnderWay /\ Inbox
            /\ HeardLines("creator")

----------------------------------------------------------------------------
\* The rest is about sessions in which no file changes.

\* q is the end of the list.
Suffix(q, list) ==
    /\ Len(q) <= Len(list)
    /\ \A k \in 1..Len(q) : q[k] = list[Len(list) - Len(q) + k]

\* b is the byte at place m of the stream.
InPlace(list, ends, b, m) ==
    \/ \E k \in 1..Len(list) :
        /\ ends[k - 1] < m /\ m <= ends[k]
        /\ b = Byte(list[k], m - ends[k - 1])
    \/ m > ends[Len(list)] /\ b = Line(m - ends[Len(list)])

\* How much of the file at hand the joiner has.
Got == IF created THEN Len(saved[Receiving.path]) ELSE 0

\* How far the joiner has read, and the creator written.
ReadTo(list, ends) ==
    ends[Len(list) - Len(recvQ)] + Got + Len(heard["joiner"])

WrittenTo(list, ends) ==
    IF pc["creator"] = "reply" THEN 0
    ELSE ends[Len(list) - Len(sendQ)] + sentN + said["creator"]

SendSide(list) ==
    /\ offer # None => \A i \in DOMAIN offer : disk[i] = offer[i].size
    /\ pc["creator"] = "send" =>
        /\ Suffix(sendQ, list)
        /\ sendQ # <<>> => sentN <= offer[Head(sendQ)].size

ReceiveSide(list) ==
    pc["joiner"] = "receive" =>
        /\ Suffix(recvQ, list)
        /\ created => \A n \in 1..Got :
                        saved[Receiving.path][n] = Byte(Head(recvQ), n)

\* s is what stands after place r of the stream, up to place top.
InStream(list, ends, s, r, top) ==
    \A k \in DOMAIN s : InPlace(list, ends, s[k], r + k) /\ r + k <= top

Stream(list, ends) ==
    pc["joiner"] \in {"receive", "chat"} =>
        /\ InStream(list, ends, pipe["joiner"], ReadTo(list, ends),
                    ends[Len(list)] + said["creator"])
        /\ pc["creator"] \in {"reply", "send", "chat", "ended"} =>
            ReadTo(list, ends) + Len(pipe["joiner"]) = WrittenTo(list, ends)

\* s is the beginning of file i.
Begins(s, i) ==
    /\ s \in Seq(AnyByte)
    /\ offer[i].size \in Nat /\ Len(s) <= offer[i].size
    /\ \A n \in 1..Len(s) : s[n] = Byte(i, n)

\* SavedIsPrefix in other words.
Prefixes ==
    \A p \in Paths :
        saved[p] = before[p] \/ \E i \in AcceptedFor(p) : Begins(saved[p], i)

PathOf(list, k) == offer[list[k]].path

\* Path p after the first n files of the list.
Final(list, n, p) ==
    /\ (\A k \in 1..n : PathOf(list, k) # p) => saved[p] = before[p]
    /\ \A k \in 1..n :
        PathOf(list, k) = p /\ (\A l \in (k + 1)..n : PathOf(list, l) # p) =>
            Begins(saved[p], list[k]) /\ Len(saved[p]) = offer[list[k]].size

\* Unless the creator was cut off, what the joiner has finished is whole.
Complete(list) ==
    /\ pc["joiner"] \in {"receive", "chat"} /\ offer # None
    /\ pc["creator"] # "aborted"
    => \A p \in Paths :
        ~(created /\ p = Receiving.path) =>
            Final(list, Len(list) - Len(recvQ), p)

Honest(list, ends) ==
    /\ SendSide(list) /\ ReceiveSide(list) /\ Stream(list, ends)
    /\ Prefixes /\ Complete(list) /\ HeardLines("joiner")

IInv ==
    /\ Base
    /\ ~changed => \E list \in {Taken}, ends \in {Ends} : Honest(list, ends)

----------------------------------------------------------------------------
\* What the recursive functions compute.

\* list has the elements of S, in ascending order.
Listing(list, S) ==
    /\ list \in Seq(S)
    /\ \A i \in S : \E k \in 1..Len(list) : list[k] = i
    /\ \A k, l \in 1..Len(list) : k < l => list[k] < list[l]

\* The answer is yes to file n.
Yes(answer, n) == n \in DOMAIN answer /\ answer[n]

LeftStep(answer, f, n) ==
    IF n = 0 THEN <<>>
    ELSE IF n \in DOMAIN answer /\ answer[n] THEN Append(f[n - 1], n)
         ELSE f[n - 1]

IsLeft(answer, f, m) == f = [n \in 0..m |-> LeftStep(answer, f, n)]

\* The recursion of Accepted has a solution.
LEMMA LeftExists ==
    ASSUME NEW answer
    PROVE  \A m \in Nat : \E f : IsLeft(answer, f, m)
<1> DEFINE S == {m \in Nat : \E f : IsLeft(answer, f, m)}
<1>1. 0 \in S
  <2> DEFINE f == [n \in 0..0 |-> <<>>]
  <2>1. IsLeft(answer, f, 0)
    BY DEF IsLeft, LeftStep
  <2> QED
    BY <2>1
<1>2. ASSUME NEW m \in Nat, m \in S
      PROVE  m + 1 \in S
  <2>1. PICK f : IsLeft(answer, f, m)
    BY <1>2
  <2> DEFINE g == [n \in 0..(m + 1) |->
                    IF n <= m THEN f[n] ELSE LeftStep(answer, f, m + 1)]
  <2>2. \A n \in 0..m : g[n] = f[n] /\ f[n] = LeftStep(answer, f, n)
    BY <2>1 DEF IsLeft
  <2>3. g[m + 1] = LeftStep(answer, f, m + 1)
    OBVIOUS
  <2>4. \A n \in 0..(m + 1) : LeftStep(answer, g, n) = LeftStep(answer, f, n)
    <3> SUFFICES ASSUME NEW n \in 0..(m + 1)
                 PROVE  LeftStep(answer, g, n) = LeftStep(answer, f, n)
      OBVIOUS
    <3>1. n = 0 \/ g[n - 1] = f[n - 1]
      BY <2>2
    <3> HIDE DEF g
    <3> QED
      BY <3>1 DEF LeftStep
  <2>5. \A n \in 0..(m + 1) : g[n] = LeftStep(answer, g, n)
    <3> SUFFICES ASSUME NEW n \in 0..(m + 1)
                 PROVE  g[n] = LeftStep(answer, g, n)
      OBVIOUS
    <3>1. n \in 0..m \/ n = m + 1
      OBVIOUS
    <3> HIDE DEF g
    <3> QED
      BY <3>1, <2>2, <2>3, <2>4
  <2>6. g = [n \in 0..(m + 1) |-> g[n]]
    OBVIOUS
  <2>7. IsLeft(answer, g, m + 1)
    <3> HIDE DEF g
    <3> QED
      BY <2>5, <2>6 DEF IsLeft
  <2> QED
    BY <2>7
<1> HIDE DEF S
<1>3. \A m \in Nat : m \in S
  BY <1>1, <1>2, SetInduction
<1> QED
  BY <1>3 DEF S

\* What the recursion of Accepted has found after n files: those of them that
\* the answer says yes to.
LEMMA LeftLists ==
    ASSUME NEW answer, NEW m \in Nat, NEW f, IsLeft(answer, f, m)
    PROVE  \A n \in 0..m : Listing(f[n], {i \in 1..n : Yes(answer, i)})
<1> DEFINE Y(n) == {i \in 1..n : Yes(answer, i)}
           S == {n \in Nat : n <= m => Listing(f[n], Y(n))}
<1>1. \A n \in 0..m : f[n] = LeftStep(answer, f, n)
  BY DEF IsLeft
<1>2. 0 \in S
  <2>1. f[0] = <<>>
    BY <1>1 DEF LeftStep
  <2>2. Y(0) = {}
    OBVIOUS
  <2>3. <<>> \in Seq({}) /\ Len(<<>>) = 0 /\ 1..0 = {}
    OBVIOUS
  <2>4. Listing(<<>>, {})
    BY <2>3 DEF Listing
  <2> QED
    BY <2>1, <2>2, <2>4
<1>3. ASSUME NEW n \in Nat, n \in S
      PROVE  n + 1 \in S
  <2> SUFFICES ASSUME n + 1 <= m
               PROVE  Listing(f[n + 1], Y(n + 1))
    OBVIOUS
  <2>1. Listing(f[n], Y(n))
    BY <1>3
  <2>2. f[n + 1] = IF Yes(answer, n + 1) THEN Append(f[n], n + 1) ELSE f[n]
    <3>1. f[n + 1] = LeftStep(answer, f, n + 1)
      BY <1>1
    <3>2. n + 1 # 0 /\ (n + 1) - 1 = n
      OBVIOUS
    <3> QED
      BY <3>1, <3>2 DEF LeftStep, Yes
  <2>3. CASE Yes(answer, n + 1)
    <3> DEFINE s == f[n]
               t == f[n + 1]
    <3>1. Y(n + 1) = Y(n) \cup {n + 1}
      BY <2>3
    <3>2. /\ s \in Seq(Y(n)) /\ \A i \in Y(n) : \E k \in 1..Len(s) : s[k] = i
          /\ \A k, l \in 1..Len(s) : k < l => s[k] < s[l]
          /\ Y(n) \subseteq 1..n
      BY <2>1 DEF Listing
    <3>3. t = Append(s, n + 1)
      BY <2>2, <2>3
    <3> HIDE DEF s, t, Y
    <3>4. /\ s \in Seq(Y(n + 1))
          /\ t \in Seq(Y(n + 1)) /\ Len(t) = Len(s) + 1 /\ t[Len(s) + 1] = n + 1
          /\ \A k \in 1..Len(s) : t[k] = s[k] /\ s[k] \in 1..n
          /\ Len(s) \in Nat
      BY <3>1, <3>2, <3>3
    <3>5. \A i \in Y(n + 1) : \E k \in 1..Len(t) : t[k] = i
      <4> SUFFICES ASSUME NEW i \in Y(n + 1)
                   PROVE  \E k \in 1..Len(t) : t[k] = i
        OBVIOUS
      <4>1. CASE i \in Y(n)
        <5>1. PICK k \in 1..Len(s) : s[k] = i
          BY <3>2, <4>1
        <5>2. k \in 1..Len(t) /\ t[k] = i
          BY <3>4, <5>1
        <5> QED
          BY <5>2
      <4>2. CASE i = n + 1
        <5>1. Len(s) + 1 \in 1..Len(t)
          BY <3>4
        <5> QED
          BY <3>4, <4>2, <5>1
      <4> QED
        BY <3>1, <4>1, <4>2
    <3>6. \A k, l \in 1..Len(t) : k < l => t[k] < t[l]
      <4> SUFFICES ASSUME NEW k \in 1..Len(t), NEW l \in 1..Len(t), k < l
                   PROVE  t[k] < t[l]
        OBVIOUS
      <4> DEFINE ls == Len(s)
      <4>1. ls \in Nat /\ Len(t) = ls + 1
        BY <3>4
      <4> HIDE DEF ls
      <4>2. k \in 1..ls /\ (l \in 1..ls \/ l = ls + 1)
        BY <4>1
      <4>3. t[k] = s[k] /\ s[k] \in 1..n
        BY <3>4, <4>2 DEF ls
      <4>4. CASE l = ls + 1
        <5>1. t[l] = n + 1
          BY <3>4, <4>4 DEF ls
        <5> QED
          BY <4>3, <5>1
      <4>5. CASE l \in 1..ls
        <5>1. t[l] = s[l]
          BY <3>4, <4>5 DEF ls
        <5>2. s[k] < s[l]
          BY <3>2, <4>2, <4>5 DEF ls
        <5> QED
          BY <4>3, <5>1, <5>2
      <4> QED
        BY <4>2, <4>4, <4>5
    <3>7. Listing(t, Y(n + 1))
      BY <3>4, <3>5, <3>6 DEF Listing
    <3> QED
      BY <3>7 DEF t
  <2>4. CASE ~Yes(answer, n + 1)
    <3>1. Y(n + 1) = Y(n)
      BY <2>4
    <3> QED
      BY <2>1, <2>2, <2>4, <3>1
  <2> QED
    BY <2>3, <2>4
<1> HIDE DEF S
<1>4. \A n \in Nat : n \in S
  BY <1>2, <1>3, SetInduction
<1> QED
  BY <1>4 DEF S

\* zip and filter leave the files that the answer says yes to, in the order of
\* the offer.
LEMMA AcceptedLists ==
    ASSUME NEW files, Len(files) \in Nat, NEW answer
    PROVE  Listing(Accepted(files, answer),
                   {i \in 1..Len(files) : Yes(answer, i)})
<1> DEFINE m == Len(files)
           f == CHOOSE left : IsLeft(answer, left, m)
<1>1. IsLeft(answer, f, m)
  BY LeftExists
<1>2. Accepted(files, answer) = f[m]
  BY DEF Accepted, IsLeft, LeftStep
<1>3. m \in Nat /\ m \in 0..m
  OBVIOUS
<1> HIDE DEF f, m
<1>4. \A n \in 0..m : Listing(f[n], {i \in 1..n : Yes(answer, i)})
  BY <1>1, <1>3, LeftLists
<1> QED
  BY <1>2, <1>3, <1>4 DEF m

EndStep(files, list, f, k) ==
    IF k = 0 THEN 0 ELSE f[k - 1] + files[list[k]].size

IsEnd(files, list, f, m) == f = [k \in 0..m |-> EndStep(files, list, f, k)]

\* The recursion of FileEnds has a solution.
LEMMA EndExists ==
    ASSUME NEW files, NEW list
    PROVE  \A m \in Nat : \E f : IsEnd(files, list, f, m)
<1> DEFINE S == {m \in Nat : \E f : IsEnd(files, list, f, m)}
<1>1. 0 \in S
  <2> DEFINE f == [k \in 0..0 |-> 0]
  <2>1. IsEnd(files, list, f, 0)
    BY DEF IsEnd, EndStep
  <2> QED
    BY <2>1
<1>2. ASSUME NEW m \in Nat, m \in S
      PROVE  m + 1 \in S
  <2>1. PICK f : IsEnd(files, list, f, m)
    BY <1>2
  <2> DEFINE g == [k \in 0..(m + 1) |->
                    IF k <= m THEN f[k] ELSE EndStep(files, list, f, m + 1)]
  <2>2. \A k \in 0..m : g[k] = f[k] /\ f[k] = EndStep(files, list, f, k)
    BY <2>1 DEF IsEnd
  <2>3. g[m + 1] = EndStep(files, list, f, m + 1)
    OBVIOUS
  <2>4. \A k \in 0..(m + 1) :
            EndStep(files, list, g, k) = EndStep(files, list, f, k)
    <3> SUFFICES ASSUME NEW k \in 0..(m + 1)
                 PROVE  EndStep(files, list, g, k) = EndStep(files, list, f, k)
      OBVIOUS
    <3>1. k = 0 \/ g[k - 1] = f[k - 1]
      BY <2>2
    <3> HIDE DEF g
    <3> QED
      BY <3>1 DEF EndStep
  <2>5. \A k \in 0..(m + 1) : g[k] = EndStep(files, list, g, k)
    <3> SUFFICES ASSUME NEW k \in 0..(m + 1)
                 PROVE  g[k] = EndStep(files, list, g, k)
      OBVIOUS
    <3>1. k \in 0..m \/ k = m + 1
      OBVIOUS
    <3> HIDE DEF g
    <3> QED
      BY <3>1, <2>2, <2>3, <2>4
  <2>6. g = [k \in 0..(m + 1) |-> g[k]]
    OBVIOUS
  <2>7. IsEnd(files, list, g, m + 1)
    <3> HIDE DEF g
    <3> QED
      BY <2>5, <2>6 DEF IsEnd
  <2> QED
    BY <2>7
<1> HIDE DEF S
<1>3. \A m \in Nat : m \in S
  BY <1>1, <1>2, SetInduction
<1> QED
  BY <1>3 DEF S

\* Each file of the list ends its own size after the one before it.
AreEnds(files, list, ends) ==
    /\ \A k \in 0..Len(list) : ends[k] \in Nat
    /\ ends[0] = 0
    /\ \A k \in 1..Len(list) : ends[k] = ends[k - 1] + files[list[k]].size
    /\ \A j, k \in 0..Len(list) : j <= k => ends[j] <= ends[k]

\* If each value is a number and not less than the one before it, none is
\* less than an earlier one.
LEMMA Ascending ==
    ASSUME NEW m \in Nat, NEW f,
           \A k \in 0..m : f[k] \in Nat,
           \A k \in 1..m : f[k - 1] <= f[k]
    PROVE  \A j, k \in 0..m : j <= k => f[j] <= f[k]
<1> DEFINE S == {n \in Nat : n <= m => \A j \in 0..n : f[j] <= f[n]}
<1>1. 0 \in S
  OBVIOUS
<1>2. ASSUME NEW n \in Nat, n \in S
      PROVE  n + 1 \in S
  <2> SUFFICES ASSUME n + 1 <= m, NEW j \in 0..(n + 1)
               PROVE  f[j] <= f[n + 1]
    OBVIOUS
  <2>1. n \in 0..m /\ n + 1 \in 1..m /\ n + 1 \in 0..m /\ (n + 1) - 1 = n
    OBVIOUS
  <2>2. f[n] <= f[n + 1]
    BY <2>1
  <2>3. f[n] \in Nat /\ f[n + 1] \in Nat
    BY <2>1
  <2>4. CASE j \in 0..n
    <3>1. f[j] <= f[n]
      BY <1>2, <2>1, <2>4
    <3>2. f[j] \in Nat
      BY <2>1, <2>4
    <3> QED
      BY <2>2, <2>3, <3>1, <3>2
  <2>5. CASE j = n + 1
    BY <2>3, <2>5
  <2> QED
    BY <2>4, <2>5
<1> HIDE DEF S
<1>3. \A n \in Nat : n \in S
  BY <1>1, <1>2, SetInduction
<1> QED
  BY <1>3 DEF S

\* FileEnds computes the ends.
LEMMA EndsAreEnds ==
    ASSUME NEW files, NEW list, Len(list) \in Nat,
           \A k \in 1..Len(list) : files[list[k]].size \in Nat
    PROVE  AreEnds(files, list, FileEnds(files, list))
<1> DEFINE m == Len(list)
           f == CHOOSE end : IsEnd(files, list, end, m)
           size(k) == files[list[k]].size
<1>1. IsEnd(files, list, f, m)
  BY EndExists
<1>2. FileEnds(files, list) = f
  BY DEF FileEnds, IsEnd, EndStep
<1>3. m \in Nat /\ \A k \in 1..m : size(k) \in Nat
  OBVIOUS
<1> HIDE DEF f, m
<1>4. f[0] = 0 /\ \A k \in 1..m : f[k] = f[k - 1] + size(k)
  <2>1. \A k \in 0..m : f[k] = EndStep(files, list, f, k)
    BY <1>1 DEF IsEnd
  <2>2. f[0] = 0
    BY <1>3, <2>1 DEF EndStep
  <2>3. \A k \in 1..m : f[k] = f[k - 1] + size(k)
    BY <1>3, <2>1 DEF EndStep
  <2> QED
    BY <2>2, <2>3
<1> HIDE DEF size
<1>5. \A k \in 0..m : f[k] \in Nat
  <2> DEFINE S == {k \in Nat : k <= m => f[k] \in Nat}
  <2>1. 0 \in S
    BY <1>4
  <2>2. ASSUME NEW k \in Nat, k \in S
        PROVE  k + 1 \in S
    <3> SUFFICES ASSUME k + 1 <= m
                 PROVE  f[k + 1] \in Nat
      OBVIOUS
    <3>1. k + 1 \in 1..m /\ (k + 1) - 1 = k /\ f[k] \in Nat
      BY <1>3, <2>2
    <3>2. f[k + 1] = f[k] + size(k + 1) /\ size(k + 1) \in Nat
      BY <1>3, <1>4, <3>1
    <3> QED
      BY <3>1, <3>2
  <2> HIDE DEF S
  <2>3. \A k \in Nat : k \in S
    BY <2>1, <2>2, SetInduction
  <2> QED
    BY <1>3, <2>3 DEF S
<1>6. \A k \in 1..m : f[k - 1] <= f[k]
  <2> SUFFICES ASSUME NEW k \in 1..m
               PROVE  f[k - 1] <= f[k]
    OBVIOUS
  <2>1. k - 1 \in 0..m /\ f[k - 1] \in Nat /\ size(k) \in Nat
    BY <1>3, <1>5
  <2> QED
    BY <1>4, <2>1
<1>7. \A j, k \in 0..m : j <= k => f[j] <= f[k]
  BY <1>3, <1>5, <1>6, Ascending
<1> QED
  BY <1>2, <1>4, <1>5, <1>7 DEF AreEnds, m, size

----------------------------------------------------------------------------
\* What reading and writing do to the pipes.

LEMMA OtherPeer == Other("creator") = "joiner" /\ Other("joiner") = "creator"
BY DEF Other, Peers

LEMMA Sizes ==
    /\ MaxSize \in Nat /\ MaxLines \in Nat /\ PipeCap \in Nat
    /\ ChunkSize \in Nat /\ 0 < ChunkSize /\ ChunkSize < PipeCap
BY SessionAssumption

Longer(t, s, byte) ==
    /\ t \in Seq(AnyByte) /\ Len(s) \in Nat /\ Len(t) = Len(s) + 1
    /\ t[Len(s) + 1] = byte
    /\ \A k \in 1..Len(s) : t[k] = s[k]

Shorter(t, s) ==
    /\ t \in Seq(AnyByte) /\ Len(s) \in Nat /\ Len(s) > 0
    /\ Len(t) = Len(s) - 1
    /\ \A k \in 1..Len(t) : t[k] = s[k + 1]

\* What appending to a stream and taking its head do, byte by byte.
LEMMA AppendIsLonger ==
    ASSUME NEW s \in Seq(AnyByte), NEW byte \in AnyByte
    PROVE  Longer(Append(s, byte), s, byte)
BY DEF Longer

LEMMA TailIsShorter ==
    ASSUME NEW s \in Seq(AnyByte), s # <<>>
    PROVE  Shorter(Tail(s), s) /\ Head(s) = s[1] /\ s[1] \in AnyByte
BY DEF Shorter

\* One byte more is under way to p, and nothing else changes.
LEMMA Writing ==
    ASSUME Types, NEW p \in Peers, NEW byte \in AnyByte,
           pipe' = [pipe EXCEPT ![p] = Append(@, byte)]
    PROVE  /\ pipe' \in [Peers -> Seq(AnyByte)]
           /\ Longer(pipe'[p], pipe[p], byte)
           /\ \A q \in Peers : q # p => pipe'[q] = pipe[q]
<1>1. pipe \in [Peers -> Seq(AnyByte)]
  BY DEF Types
<1>2. pipe[p] \in Seq(AnyByte) /\ Append(pipe[p], byte) \in Seq(AnyByte)
  BY <1>1
<1>3. Longer(Append(pipe[p], byte), pipe[p], byte)
  BY <1>2, AppendIsLonger
<1> QED
  BY <1>1, <1>2, <1>3

\* One byte less is under way to p, and what is held back was not touched.
LEMMA Reading ==
    ASSUME Types, NEW p \in Peers, Read(p)
    PROVE  /\ pipe' \in [Peers -> Seq(AnyByte)]
           /\ Shorter(pipe'[p], pipe[p])
           /\ Head(pipe[p]) = pipe[p][1] /\ pipe[p][1] \in AnyByte
           /\ \A q \in Peers : q # p => pipe'[q] = pipe[q]
           /\ held' = held
           /\ p = "joiner" => Len(pipe[p]) > held
<1>1. /\ pipe \in [Peers -> Seq(AnyByte)] /\ held \in Nat
      /\ pipe' = [pipe EXCEPT ![p] = Tail(@)] /\ held' = held
  BY Sizes DEF Types, Read
<1>2. pipe[p] \in Seq(AnyByte) /\ Len(pipe[p]) \in Nat
  BY <1>1
<1>3. Len(pipe[p]) > 0 /\ (p = "joiner" => Len(pipe[p]) > held)
  BY <1>1, <1>2 DEF Read, Arrived
<1>4. pipe[p] # <<>> /\ Tail(pipe[p]) \in Seq(AnyByte)
  BY <1>2, <1>3
<1>5. Shorter(Tail(pipe[p]), pipe[p]) /\ Head(pipe[p]) = pipe[p][1]
        /\ pipe[p][1] \in AnyByte
  BY <1>2, <1>4, TailIsShorter
<1> QED
  BY <1>1, <1>2, <1>3, <1>4, <1>5

\* The bytes the two sides write.
LEMMA Bytes ==
    /\ FileOffer \in AnyByte /\ FileAccept \in AnyByte
    /\ \A n \in Nat : Line(n) \in AnyByte
    /\ \A i, n \in Nat : Byte(i, n) \in AnyByte
BY DEF FileOffer, FileAccept, Line, Byte, AnyByte

----------------------------------------------------------------------------
\* Base, action by action.

LEMMA OfferFilesBase ==
    ASSUME Base, OfferFiles
    PROVE  Base'
<1>1. Types /\ Lists /\ Phases /\ OfferUnderWay /\ Inbox /\ HeardLines("creator")
  BY DEF Base
<1>2. /\ pc["creator"] = "offer" /\ Len(pipe["joiner"]) < PipeCap
      /\ pipe' = [pipe EXCEPT !["joiner"] = Append(@, FileOffer)] /\ held' = 0
      /\ pc' = [pc EXCEPT !["creator"] =
                    IF offer = None THEN "chat" ELSE "reply"]
      /\ UNCHANGED <<envVars, recvVars, sendVars, chatVars>>
  BY OtherPeer DEF OfferFiles, WriteFlushed, Goto
<1>3. /\ pipe' \in [Peers -> Seq(AnyByte)]
      /\ Longer(pipe'["joiner"], pipe["joiner"], FileOffer)
      /\ pipe'["creator"] = pipe["creator"]
  BY <1>1, <1>2, Bytes, Writing DEF Peers
<1>4. /\ pc["joiner"] \in {"offer", "aborted"} /\ pc'["joiner"] = pc["joiner"]
      /\ pc'["creator"] = IF offer = None THEN "chat" ELSE "reply"
      /\ pc' \in [Peers -> PCs]
  BY <1>1, <1>2 DEF Types, Phases, Peers, PCs
<1>5. Types'
  <2>1. \A p \in Peers : Len(pipe'[p]) <= PipeCap
    BY <1>1, <1>2, <1>3, Sizes DEF Types, Longer, Peers
  <2>2. Len(pipe'["joiner"]) \in Nat
    BY <1>3 DEF Longer
  <2>3. held' \in 0..ChunkSize /\ held' <= Len(pipe'["joiner"])
    BY <1>2, <2>2, Sizes
  <2> QED
    BY <1>1, <1>2, <1>3, <1>4, <2>1, <2>3
       DEF Types, envVars, recvVars, sendVars, chatVars
<1>6. Lists'
  BY <1>1, <1>2 DEF Lists, Receiving, envVars, recvVars, sendVars
<1>7. Phases'
  BY <1>1, <1>2, <1>4 DEF Phases, Gone, envVars, recvVars, sendVars, chatVars
<1>8. OfferUnderWay'
  <2>1. said' = said /\ said["creator"] = 0
    BY <1>1, <1>2 DEF Phases, chatVars
  <2>2. pc["joiner"] = "offer" => Len(pipe["joiner"]) = 0
    BY <1>1, <1>2 DEF OfferUnderWay
  <2>3. pc["joiner"] = "offer" =>
            Len(pipe'["joiner"]) = 1 /\ MessageAndLines(pipe'["joiner"], FileOffer)
    BY <1>3, <2>2 DEF MessageAndLines, Longer
  <2>4. pc["joiner"] = "offer" => pipe'["joiner"] # <<>>
    BY <2>3
  <2>5. pc["joiner"] = "offer" =>
            /\ Len(pipe'["joiner"]) = 1 + said'["creator"]
            /\ Len(pipe'["joiner"]) <= 1 + said'["creator"]
    <3>1. said'["creator"] = 0
      BY <2>1
    <3>2. pc["joiner"] = "offer" => Len(pipe'["joiner"]) = 1
      BY <2>3
    <3>3. 1 + 0 = 1 /\ 1 <= 1
      OBVIOUS
    <3> QED
      BY <3>1, <3>2, <3>3
  <2>6. pc'["creator"] # "offer" /\ pc'["joiner"] # "dialog"
    BY <1>4
  <2> QED
    BY <1>4, <2>3, <2>4, <2>5, <2>6 DEF OfferUnderWay
<1>9. Inbox'
  BY <1>1, <1>2, <1>3, <1>4 DEF Inbox, chatVars
<1>10. HeardLines("creator")'
  BY <1>1, <1>2 DEF HeardLines, chatVars
<1> QED
  BY <1>5, <1>6, <1>7, <1>8, <1>9, <1>10 DEF Base

LEMMA ReadOfferBase ==
    ASSUME Base, ReadOffer
    PROVE  Base'
<1>1. Types /\ Lists /\ Phases /\ OfferUnderWay /\ Inbox /\ HeardLines("creator")
  BY DEF Base
<1>2. /\ pc["joiner"] = "offer" /\ Read("joiner")
      /\ pc' = [pc EXCEPT !["joiner"] =
                    IF offer = None THEN "chat" ELSE "dialog"]
      /\ UNCHANGED <<envVars, recvVars, sendVars, chatVars>>
  BY DEF ReadOffer, Goto
<1>3. /\ pipe' \in [Peers -> Seq(AnyByte)]
      /\ Shorter(pipe'["joiner"], pipe["joiner"])
      /\ pipe'["creator"] = pipe["creator"]
      /\ held' = held /\ Len(pipe["joiner"]) > held
  BY <1>1, <1>2, Reading DEF Peers
<1>4. /\ pc'["creator"] = pc["creator"]
      /\ pc'["joiner"] = IF offer = None THEN "chat" ELSE "dialog"
      /\ pc' \in [Peers -> PCs]
  BY <1>1, <1>2 DEF Types, Peers, PCs
<1>5. pipe["joiner"] # <<>> /\ pc["creator"] # "offer"
        /\ (offer # None => Len(pipe["joiner"]) = 1)
  BY <1>1, <1>2, <1>3 DEF OfferUnderWay, Shorter
<1>6. Types'
  <2>1. Len(pipe'["joiner"]) \in Nat /\ Len(pipe["joiner"]) \in Nat
          /\ Len(pipe'["joiner"]) = Len(pipe["joiner"]) - 1
    BY <1>3 DEF Shorter
  <2>2. \A p \in Peers : Len(pipe'[p]) <= PipeCap
    BY <1>1, <1>3, <2>1, Sizes DEF Types, Peers
  <2>3. held \in 0..ChunkSize
    BY <1>1 DEF Types
  <2>4. held' \in 0..ChunkSize /\ held' <= Len(pipe'["joiner"])
    BY <1>3, <2>1, <2>3, Sizes
  <2> QED
    BY <1>1, <1>2, <1>3, <1>4, <2>2, <2>4
       DEF Types, envVars, recvVars, sendVars, chatVars
<1>7. Lists'
  BY <1>1, <1>2 DEF Lists, Receiving, envVars, recvVars, sendVars
<1>8. Phases'
  BY <1>1, <1>2, <1>3, <1>4, <1>5
     DEF Phases, Gone, envVars, recvVars, sendVars, chatVars
<1>9. OfferUnderWay'
  <2>1. pc'["joiner"] = "dialog" => Len(pipe'["joiner"]) = 0
    BY <1>3, <1>4, <1>5 DEF Shorter
  <2>2. pc'["joiner"] = "dialog" => pipe'["joiner"] = <<>>
    BY <1>3, <2>1 DEF Shorter
  <2> QED
    BY <1>4, <2>2 DEF OfferUnderWay
<1>10. Inbox'
  <2>1. /\ pipe'["creator"] = pipe["creator"] /\ pipe["creator"] = <<>>
        /\ said' = said /\ heard' = heard /\ pc'["creator"] = pc["creator"]
    BY <1>1, <1>2, <1>3, <1>4 DEF Inbox, chatVars
  <2>2. pc["creator"] = "reply" => pc'["joiner"] = "dialog"
    BY <1>1, <1>4 DEF Phases
  <2> QED
    BY <1>1, <1>5, <2>1, <2>2 DEF Inbox
<1>11. HeardLines("creator")'
  BY <1>1, <1>2 DEF HeardLines, chatVars
<1> QED
  BY <1>6, <1>7, <1>8, <1>9, <1>10, <1>11 DEF Base

\* An offer is a list of FileMeta.
LEMMA OfferIsList ==
    ASSUME Types, offer # None
    PROVE  /\ offer \in Seq(FileMeta) /\ Len(offer) \in Nat
           /\ DOMAIN offer = 1..Len(offer)
           /\ \A i \in DOMAIN offer :
                offer[i].size \in 0..MaxSize /\ offer[i].path \in Paths
<1>1. offer \in Seq(FileMeta)
  BY SessionAssumption DEF Types
<1>2. Len(offer) \in Nat /\ DOMAIN offer = 1..Len(offer)
        /\ \A i \in DOMAIN offer : offer[i] \in FileMeta
  BY <1>1
<1> QED
  BY <1>1, <1>2 DEF FileMeta

\* The answer has at most as many entries as the offer.
LEMMA ChoiceFits ==
    ASSUME Types, offer # None, NEW n \in 1..3
    PROVE  /\ DOMAIN Choice(n) \subseteq DOMAIN offer
           /\ DOMAIN Choice(n) \subseteq Nat
           /\ \A i \in DOMAIN Choice(n) : Choice(n)[i] \in BOOLEAN
<1>1. Len(offer) \in Nat /\ DOMAIN offer = 1..Len(offer)
  BY OfferIsList
<1>2. CASE n = 2
  <2> DEFINE new == {i \in DOMAIN offer : ~FileExists(saved, offer[i])}
             c == Cardinality(new)
  <2>1. IsFiniteSet(1..Len(offer)) /\ Cardinality(1..Len(offer)) = Len(offer)
    <3>1. 1 \in Int /\ Len(offer) \in Int
      BY <1>1
    <3>2. Cardinality(1..Len(offer)) = IF 1 > Len(offer) THEN 0
                                       ELSE Len(offer) - 1 + 1
      BY <3>1, FS_Interval
    <3>3. IsFiniteSet(1..Len(offer))
      BY <3>1, FS_Interval
    <3>4. PICK l : l = Len(offer)
      OBVIOUS
    <3>5. l \in Nat /\ (IF 1 > l THEN 0 ELSE l - 1 + 1) = l
      BY <1>1, <3>4
    <3> QED
      BY <3>2, <3>3, <3>4, <3>5
  <2>2. c \in Nat /\ c <= Len(offer)
    <3>1. new \subseteq 1..Len(offer)
      BY <1>1
    <3>2. IsFiniteSet(new) /\ c <= Cardinality(1..Len(offer))
      BY <2>1, <3>1, FS_Subset
    <3>3. c \in Nat
      BY <3>2, FS_CardinalityType
    <3> QED
      BY <2>1, <3>2, <3>3
  <2>3. Choice(n) = [i \in 1..c |-> TRUE]
    BY <1>2 DEF Choice, NewFiles
  <2> HIDE DEF c
  <2> QED
    BY <1>1, <2>2, <2>3
<1>3. CASE n # 2
  <2> DEFINE all(b) == [i \in DOMAIN offer |-> b]
  <2>1. Choice(n) = all(TRUE) \/ Choice(n) = all(FALSE)
    BY <1>3 DEF Choice
  <2>2. DOMAIN all(TRUE) = DOMAIN offer /\ DOMAIN all(FALSE) = DOMAIN offer
    OBVIOUS
  <2>3. \A i \in DOMAIN offer : all(TRUE)[i] = TRUE /\ all(FALSE)[i] = FALSE
    OBVIOUS
  <2> HIDE DEF all
  <2>4. DOMAIN Choice(n) = DOMAIN offer
    BY <2>1, <2>2
  <2>5. \A i \in DOMAIN Choice(n) : Choice(n)[i] \in BOOLEAN
    BY <2>1, <2>3, <2>4
  <2> QED
    BY <1>1, <2>4, <2>5
<1> QED
  BY <1>2, <1>3

LEMMA ConfirmReceiveBase ==
    ASSUME Base, NEW n \in 1..3, ConfirmReceive(n)
    PROVE  Base'
<1>1. Types /\ Lists /\ Phases /\ OfferUnderWay /\ Inbox /\ HeardLines("creator")
  BY DEF Base
<1>2. /\ pc["joiner"] = "dialog" /\ Len(pipe["creator"]) < PipeCap
      /\ pipe' = [pipe EXCEPT !["creator"] = Append(@, FileAccept)]
      /\ held' = held
      /\ pc' = [pc EXCEPT !["joiner"] = "receive"]
      /\ option' = n /\ chosen' = Choice(n)
      /\ recvQ' = Accepted(offer, Choice(n))
      /\ UNCHANGED <<envVars, saved, created, sendVars, chatVars>>
  BY OtherPeer DEF ConfirmReceive, WriteFlushed, Goto
<1>3. /\ pipe' \in [Peers -> Seq(AnyByte)]
      /\ Longer(pipe'["creator"], pipe["creator"], FileAccept)
      /\ pipe'["joiner"] = pipe["joiner"]
  BY <1>1, <1>2, Bytes, Writing DEF Peers
<1>4. /\ pc'["creator"] = pc["creator"] /\ pc'["joiner"] = "receive"
      /\ pc' \in [Peers -> PCs]
  BY <1>1, <1>2 DEF Types, Peers, PCs
<1>5. /\ offer # None /\ pipe["creator"] = <<>> /\ said["joiner"] = 0
      /\ ~created /\ pc["creator"] \in {"reply", "aborted"}
  BY <1>1, <1>2 DEF Phases, Inbox, Types, PCs, Gone, Peers
<1>6. /\ recvQ' \in Seq(Nat)
      /\ \A k \in DOMAIN recvQ' : recvQ'[k] \in DOMAIN offer
  <2> DEFINE S == {i \in 1..Len(offer) : Yes(Choice(n), i)}
  <2>1. Len(offer) \in Nat /\ DOMAIN offer = 1..Len(offer)
    BY <1>1, <1>5, OfferIsList
  <2>2. Listing(recvQ', S)
    BY <1>2, <2>1, AcceptedLists
  <2>3. recvQ' \in Seq(S) /\ S \subseteq DOMAIN offer /\ S \subseteq Nat
    BY <2>1, <2>2 DEF Listing
  <2> HIDE DEF S
  <2> QED
    BY <2>3
<1>7. Types'
  <2>1. \A p \in Peers : Len(pipe'[p]) <= PipeCap
    BY <1>1, <1>2, <1>3, Sizes DEF Types, Longer, Peers
  <2>2. /\ DOMAIN chosen' \subseteq DOMAIN offer /\ DOMAIN chosen' \subseteq Nat
        /\ \A i \in DOMAIN chosen' : chosen'[i] \in BOOLEAN
    BY <1>1, <1>2, <1>5, ChoiceFits
  <2>3. option' \in 0..3
    BY <1>2
  <2> QED
    BY <1>1, <1>2, <1>3, <1>4, <1>6, <2>1, <2>2, <2>3
       DEF Types, envVars, sendVars, chatVars
<1>8. Lists'
  BY <1>1, <1>2, <1>5, <1>6 DEF Lists, envVars, sendVars
<1>9. Phases'
  BY <1>1, <1>2, <1>4, <1>5 DEF Phases, Gone, envVars, sendVars, chatVars
<1>10. OfferUnderWay'
  BY <1>4 DEF OfferUnderWay
<1>11. Inbox'
  <2>1. Len(pipe["creator"]) = 0
    BY <1>5
  <2>2. /\ Len(pipe'["creator"]) = 1 /\ pipe'["creator"][1] = FileAccept
        /\ 2..1 = {} /\ 1 = 1 + 0
    BY <1>3, <2>1 DEF Longer
  <2>3. MessageAndLines(pipe'["creator"], FileAccept)
    BY <2>2 DEF MessageAndLines
  <2>4. pipe'["creator"] # <<>>
    BY <2>2
  <2>5. said'["joiner"] = 0 /\ heard' = heard
    BY <1>2, <1>5 DEF chatVars
  <2> QED
    BY <1>1, <1>4, <1>5, <2>2, <2>3, <2>4, <2>5 DEF Inbox
<1>12. HeardLines("creator")'
  BY <1>1, <1>2 DEF HeardLines, chatVars
<1> QED
  BY <1>7, <1>8, <1>9, <1>10, <1>11, <1>12 DEF Base

LEMMA ReadAcceptBase ==
    ASSUME Base, ReadAccept
    PROVE  Base'
<1>1. Types /\ Lists /\ Phases /\ OfferUnderWay /\ Inbox /\ HeardLines("creator")
  BY DEF Base
<1>2. /\ pc["creator"] = "reply" /\ Read("creator")
      /\ sendQ' = Accepted(offer, chosen) /\ sentN' = sentN
      /\ pc' = [pc EXCEPT !["creator"] = "send"]
      /\ UNCHANGED <<envVars, recvVars, chatVars>>
  BY DEF ReadAccept, Goto
<1>3. /\ pipe' \in [Peers -> Seq(AnyByte)]
      /\ Shorter(pipe'["creator"], pipe["creator"])
      /\ pipe'["joiner"] = pipe["joiner"]
      /\ held' = held
  BY <1>1, <1>2, Reading DEF Peers
<1>4. /\ pc'["joiner"] = pc["joiner"] /\ pc'["creator"] = "send"
      /\ pc' \in [Peers -> PCs]
  BY <1>1, <1>2 DEF Types, Peers, PCs
<1>5. /\ offer # None /\ pipe["creator"] # <<>>
      /\ pc["joiner"] \notin {"offer", "dialog"}
  BY <1>1, <1>2, <1>3 DEF Phases, Inbox, Shorter
<1>6. /\ sendQ' \in Seq(Nat)
      /\ \A k \in DOMAIN sendQ' : sendQ'[k] \in DOMAIN offer
  <2> DEFINE S == {i \in 1..Len(offer) : Yes(chosen, i)}
  <2>1. Len(offer) \in Nat /\ DOMAIN offer = 1..Len(offer)
    BY <1>1, <1>5, OfferIsList
  <2>2. Listing(sendQ', S)
    BY <1>2, <2>1, AcceptedLists
  <2>3. sendQ' \in Seq(S) /\ S \subseteq DOMAIN offer /\ S \subseteq Nat
    BY <2>1, <2>2 DEF Listing
  <2> HIDE DEF S
  <2> QED
    BY <2>3
<1>7. Types'
  <2>1. \A p \in Peers : Len(pipe'[p]) <= PipeCap
    BY <1>1, <1>3, Sizes DEF Types, Shorter, Peers
  <2> QED
    BY <1>1, <1>2, <1>3, <1>4, <1>6, <2>1
       DEF Types, envVars, recvVars, chatVars
<1>8. Lists'
  BY <1>1, <1>2, <1>5, <1>6 DEF Lists, Receiving, envVars, recvVars
<1>9. Phases'
  BY <1>1, <1>2, <1>3, <1>4, <1>5 DEF Phases, Gone, envVars, recvVars, chatVars
<1>10. OfferUnderWay'
  BY <1>4, <1>5 DEF OfferUnderWay
<1>11. Inbox'
  <2>1. /\ heard["creator"] = <<>> /\ MessageAndLines(pipe["creator"], FileAccept)
        /\ Len(pipe["creator"]) = 1 + said["joiner"] /\ said["joiner"] \in Nat
    BY <1>1, <1>2, <1>5, Sizes DEF Inbox, Types, Peers
  <2>2. \A k \in DOMAIN pipe'["creator"] : pipe'["creator"][k] = Line(k)
    <3> DEFINE s == pipe["creator"]
               t == pipe'["creator"]
    <3>1. /\ t \in Seq(AnyByte) /\ Len(s) \in Nat /\ Len(t) = Len(s) - 1
          /\ \A k \in 1..Len(t) : t[k] = s[k + 1]
          /\ \A k \in 2..Len(s) : s[k] = Line(k - 1)
      BY <1>3, <2>1 DEF Shorter, MessageAndLines
    <3> HIDE DEF s, t
    <3>2. ASSUME NEW k \in DOMAIN t
          PROVE  t[k] = Line(k)
      <4>1. k \in 1..Len(t) /\ k + 1 \in 2..Len(s) /\ (k + 1) - 1 = k
        BY <3>1
      <4> QED
        BY <3>1, <4>1
    <3> QED
      BY <3>2 DEF t
  <2>3. Len(pipe'["creator"]) = said["joiner"]
    BY <1>3, <2>1 DEF Shorter
  <2>4. /\ Len(heard'["creator"]) = 0 /\ said' = said
        /\ \A k \in Nat : 0 + k = k
    BY <1>2, <2>1 DEF chatVars
  <2>5. DOMAIN pipe'["creator"] \subseteq Nat /\ Len(pipe'["creator"]) \in Nat
    BY <1>3 DEF Shorter
  <2>6. \A k \in DOMAIN pipe'["creator"] :
            pipe'["creator"][k] = Line(Len(heard'["creator"]) + k)
    BY <2>2, <2>4, <2>5
  <2>7. Len(heard'["creator"]) + Len(pipe'["creator"]) = said'["joiner"]
    BY <2>3, <2>4, <2>5
  <2> QED
    BY <1>4, <1>5, <2>6, <2>7 DEF Inbox
<1>12. HeardLines("creator")'
  BY <1>1, <1>2 DEF HeardLines, chatVars
<1> QED
  BY <1>7, <1>8, <1>9, <1>10, <1>11, <1>12 DEF Base

\* A step that concerns nothing but what the creator has sent.
LEMMA SendingBase ==
    ASSUME Base, pc["creator"] = "send", pc'["creator"] \in {"send", "chat"},
           pc' \in [Peers -> PCs], pc'["joiner"] = pc["joiner"],
           UNCHANGED <<offer, before, recvVars, chatVars>>,
           disk' \in [DOMAIN offer -> 0..MaxSize], changed' \in BOOLEAN,
           sendQ' \in Seq(Nat),
           \A k \in DOMAIN sendQ' : sendQ'[k] \in DOMAIN offer,
           sentN' \in 0..MaxSize,
           sendQ' = <<>> => sentN' = 0,
           pc'["creator"] = "chat" => sendQ' = <<>> /\ held' = 0,
           pipe' \in [Peers -> Seq(AnyByte)],
           pipe'["creator"] = pipe["creator"],
           Len(pipe'["joiner"]) <= PipeCap,
           held' \in 0..ChunkSize, held' <= Len(pipe'["joiner"])
    PROVE  Base'
<1>1. Types /\ Lists /\ Phases /\ OfferUnderWay /\ Inbox /\ HeardLines("creator")
  BY DEF Base
<1>2. offer # None /\ pc["joiner"] \notin {"offer", "dialog"}
  BY <1>1 DEF Phases
<1>3. Types'
  BY <1>1, <1>2 DEF Types, recvVars, chatVars, Peers
<1>4. Lists'
  BY <1>1, <1>2 DEF Lists, Receiving, recvVars
<1>5. Phases'
  BY <1>1, <1>2 DEF Phases, Gone, recvVars, chatVars
<1>6. OfferUnderWay'
  BY <1>2 DEF OfferUnderWay
<1>7. Inbox'
  BY <1>1, <1>2 DEF Inbox, chatVars
<1>8. HeardLines("creator")'
  BY <1>1 DEF HeardLines, chatVars
<1> QED
  BY <1>3, <1>4, <1>5, <1>6, <1>7, <1>8 DEF Base

LEMMA SendByteBase ==
    ASSUME Base, SendByte
    PROVE  Base'
<1>1. Types /\ Lists /\ Phases
  BY DEF Base
<1>2. /\ pc["creator"] = "send" /\ sendQ # <<>> /\ sentN < disk[Head(sendQ)]
      /\ Len(pipe["joiner"]) < PipeCap
      /\ pipe' = [pipe EXCEPT !["joiner"] =
                    Append(@, Byte(Head(sendQ), sentN + 1))]
      /\ held' = IF held = ChunkSize THEN 1 ELSE held + 1
      /\ sentN' = sentN + 1
      /\ UNCHANGED <<envVars, recvVars, pc, sendQ, chatVars>>
  BY DEF SendByte, Write
<1>3. /\ Head(sendQ) \in DOMAIN offer /\ Head(sendQ) \in Nat /\ offer # None
      /\ disk[Head(sendQ)] \in 0..MaxSize
  BY <1>1, <1>2 DEF Types, Lists, Phases
<1>4. Byte(Head(sendQ), sentN + 1) \in AnyByte /\ sentN \in Nat
  BY <1>1, <1>3, Bytes DEF Types
<1>5. /\ pipe' \in [Peers -> Seq(AnyByte)]
      /\ Longer(pipe'["joiner"], pipe["joiner"], Byte(Head(sendQ), sentN + 1))
      /\ pipe'["creator"] = pipe["creator"]
  BY <1>1, <1>2, <1>4, Writing DEF Peers
<1>6. Len(pipe'["joiner"]) <= PipeCap
  BY <1>2, <1>5, Sizes DEF Longer
<1>7. held' \in 0..ChunkSize /\ held' <= Len(pipe'["joiner"])
  <2> DEFINE l == Len(pipe["joiner"])
             m == Len(pipe'["joiner"])
  <2>1. l \in Nat /\ m = l + 1 /\ held \in 0..ChunkSize /\ held <= l
    BY <1>1, <1>5 DEF Types, Longer
  <2> HIDE DEF l, m
  <2>2. held' \in 0..ChunkSize /\ held' <= m
    BY <1>2, <2>1, Sizes
  <2> QED
    BY <2>2 DEF m
<1>8. sentN' \in 0..MaxSize
  BY <1>2, <1>3, <1>4, Sizes
<1>9. /\ disk' \in [DOMAIN offer -> 0..MaxSize] /\ changed' \in BOOLEAN
      /\ sendQ' \in Seq(Nat) /\ \A k \in DOMAIN sendQ' : sendQ'[k] \in DOMAIN offer
      /\ pc' \in [Peers -> PCs] /\ pc' = pc
      /\ UNCHANGED <<offer, before, recvVars, chatVars>>
  BY <1>1, <1>2, <1>3 DEF Types, Lists, envVars
<1> QED
  BY <1>2, <1>5, <1>6, <1>7, <1>8, <1>9, SendingBase

LEMMA CopyFlushesBase ==
    ASSUME Base, CopyFlushes
    PROVE  Base'
<1>1. Types /\ Lists /\ Phases
  BY DEF Base
<1>2. /\ pc["creator"] = "send" /\ held' = 0 /\ offer # None
      /\ UNCHANGED <<offer, before, recvVars, chatVars>>
      /\ pc' = pc /\ sendQ' = sendQ /\ sentN' = sentN /\ pipe' = pipe
      /\ disk' = disk /\ changed' = changed
      /\ sendQ # <<>>
  BY <1>1 DEF CopyFlushes, envVars, sendVars, Phases
<1>3. /\ disk' \in [DOMAIN offer -> 0..MaxSize] /\ changed' \in BOOLEAN
      /\ sendQ' \in Seq(Nat) /\ \A k \in DOMAIN sendQ' : sendQ'[k] \in DOMAIN offer
      /\ pc' \in [Peers -> PCs] /\ sentN' \in 0..MaxSize
      /\ pipe' \in [Peers -> Seq(AnyByte)] /\ Len(pipe'["joiner"]) <= PipeCap
  BY <1>1, <1>2 DEF Types, Lists, Peers
<1>4. held' \in 0..ChunkSize /\ held' <= Len(pipe'["joiner"])
  <2>1. Len(pipe'["joiner"]) \in Nat
    BY <1>3 DEF Peers
  <2> QED
    BY <1>2, <2>1, Sizes
<1> QED
  BY <1>2, <1>3, <1>4, SendingBase

LEMMA SendNextBase ==
    ASSUME Base, SendNext
    PROVE  Base'
<1>1. Types /\ Lists /\ Phases
  BY DEF Base
<1>2. /\ pc["creator"] = "send" /\ held' = 0 /\ offer # None
      /\ UNCHANGED <<offer, before, recvVars, chatVars>>
      /\ sendQ # <<>> /\ pc' = pc /\ sendQ' = Tail(sendQ) /\ sentN' = 0
      /\ pipe' = pipe /\ disk' = disk /\ changed' = changed
  BY <1>1 DEF SendNext, envVars, Phases
<1>3. /\ disk' \in [DOMAIN offer -> 0..MaxSize] /\ changed' \in BOOLEAN
      /\ pc' \in [Peers -> PCs] /\ sentN' \in 0..MaxSize
      /\ pipe' \in [Peers -> Seq(AnyByte)] /\ Len(pipe'["joiner"]) <= PipeCap
  BY <1>1, <1>2, Sizes DEF Types, Peers
<1>4. sendQ' \in Seq(Nat) /\ \A k \in DOMAIN sendQ' : sendQ'[k] \in DOMAIN offer
  <2>1. sendQ \in Seq(Nat) /\ \A k \in DOMAIN sendQ : sendQ[k] \in DOMAIN offer
    BY <1>1 DEF Types, Lists
  <2>2. PICK q : q = sendQ
    OBVIOUS
  <2>3. q \in Seq(Nat) /\ q # <<>> /\ \A k \in DOMAIN q : q[k] \in DOMAIN offer
    BY <1>2, <2>1, <2>2
  <2>4. Tail(q) \in Seq(Nat) /\ \A k \in DOMAIN Tail(q) : Tail(q)[k] \in DOMAIN offer
    BY <2>3
  <2> QED
    BY <1>2, <2>2, <2>4
<1>5. held' \in 0..ChunkSize /\ held' <= Len(pipe'["joiner"])
  <2>1. Len(pipe'["joiner"]) \in Nat
    BY <1>3 DEF Peers
  <2> QED
    BY <1>2, <2>1, Sizes
<1> QED
  BY <1>2, <1>3, <1>4, <1>5, SendingBase

LEMMA SendDoneBase ==
    ASSUME Base, SendDone
    PROVE  Base'
<1>1. Types /\ Lists /\ Phases
  BY DEF Base
<1>2. /\ pc["creator"] = "send" /\ held' = 0 /\ offer # None
      /\ UNCHANGED <<offer, before, recvVars, chatVars>>
      /\ sendQ = <<>> /\ sendQ' = sendQ /\ sentN' = sentN /\ sentN = 0
      /\ pc' = [pc EXCEPT !["creator"] = "chat"]
      /\ pipe' = pipe /\ disk' = disk /\ changed' = changed
  BY <1>1 DEF SendDone, Goto, envVars, sendVars, Phases
<1>3. /\ disk' \in [DOMAIN offer -> 0..MaxSize] /\ changed' \in BOOLEAN
      /\ sendQ' \in Seq(Nat) /\ \A k \in DOMAIN sendQ' : sendQ'[k] \in DOMAIN offer
      /\ sentN' \in 0..MaxSize
      /\ pipe' \in [Peers -> Seq(AnyByte)] /\ Len(pipe'["joiner"]) <= PipeCap
  BY <1>1, <1>2, Sizes DEF Types, Peers
<1>4. /\ pc' \in [Peers -> PCs] /\ pc'["creator"] = "chat"
      /\ pc'["joiner"] = pc["joiner"]
  BY <1>1, <1>2 DEF Types, Peers, PCs
<1>5. held' \in 0..ChunkSize /\ held' <= Len(pipe'["joiner"])
  <2>1. Len(pipe'["joiner"]) \in Nat
    BY <1>3 DEF Peers
  <2> QED
    BY <1>2, <2>1, Sizes
<1> QED
  BY <1>2, <1>3, <1>4, <1>5, SendingBase

\* A step that concerns nothing but what the joiner receives.
LEMMA ReceivingBase ==
    ASSUME Base, pc["joiner"] = "receive", pc'["joiner"] \in {"receive", "chat"},
           pc' \in [Peers -> PCs], pc'["creator"] = pc["creator"],
           UNCHANGED <<envVars, option, chosen, sendVars, held, chatVars>>,
           saved' \in [Paths -> Seq(AnyByte) \cup {Absent}],
           \A p \in Paths : saved'[p] = Absent \/ Len(saved'[p]) <= MaxSize,
           recvQ' \in Seq(Nat),
           \A k \in DOMAIN recvQ' : recvQ'[k] \in DOMAIN offer,
           created' \in BOOLEAN,
           created' => /\ recvQ' # <<>>
                       /\ saved'[Receiving'.path] \in Seq(AnyByte)
                       /\ Len(saved'[Receiving'.path]) <= Receiving'.size,
           pc'["joiner"] = "chat" => recvQ' = <<>> /\ ~created',
           pipe' \in [Peers -> Seq(AnyByte)],
           pipe'["creator"] = pipe["creator"],
           Len(pipe'["joiner"]) <= PipeCap, held <= Len(pipe'["joiner"])
    PROVE  Base'
<1>1. Types /\ Lists /\ Phases /\ OfferUnderWay /\ Inbox /\ HeardLines("creator")
  BY DEF Base
<1>2. offer # None
  BY <1>1 DEF Phases
<1>3. Types'
  BY <1>1, <1>2 DEF Types, envVars, sendVars, chatVars, Peers
<1>4. Lists'
  BY <1>1, <1>2 DEF Lists, envVars, sendVars
<1>5. Phases'
  BY <1>1, <1>2 DEF Phases, Gone, envVars, sendVars, chatVars
<1>6. OfferUnderWay'
  BY DEF OfferUnderWay
<1>7. Inbox'
  BY <1>1 DEF Inbox, chatVars
<1>8. HeardLines("creator")'
  BY <1>1 DEF HeardLines, chatVars
<1> QED
  BY <1>3, <1>4, <1>5, <1>6, <1>7, <1>8 DEF Base

\* The file at hand is one of the offer.
LEMMA FileAtHand ==
    ASSUME Base, recvQ # <<>>
    PROVE  /\ offer # None /\ Head(recvQ) = recvQ[1] /\ Head(recvQ) \in DOMAIN offer
           /\ Receiving.path \in Paths /\ Receiving.size \in 0..MaxSize
           /\ Tail(recvQ) \in Seq(Nat)
           /\ \A k \in DOMAIN Tail(recvQ) : Tail(recvQ)[k] \in DOMAIN offer
<1>1. Types /\ Lists
  BY DEF Base
<1>2. recvQ \in Seq(Nat) /\ \A k \in DOMAIN recvQ : offer # None /\ recvQ[k] \in DOMAIN offer
  BY <1>1 DEF Types, Lists
<1>3. 1 \in DOMAIN recvQ /\ Head(recvQ) = recvQ[1] /\ Tail(recvQ) \in Seq(Nat)
  BY <1>2
<1>4. \A k \in DOMAIN Tail(recvQ) : k + 1 \in DOMAIN recvQ /\ Tail(recvQ)[k] = recvQ[k + 1]
  BY <1>2
<1> QED
  BY <1>1, <1>2, <1>3, <1>4, OfferIsList DEF Receiving

LEMMA CreateFileBase ==
    ASSUME Base, CreateFile
    PROVE  Base'
<1>1. Types /\ Lists
  BY DEF Base
<1>2. /\ pc["joiner"] = "receive" /\ recvQ # <<>>
      /\ saved' = [saved EXCEPT ![Receiving.path] = <<>>]
      /\ created' = TRUE /\ recvQ' = recvQ /\ pc' = pc /\ pipe' = pipe
      /\ UNCHANGED <<envVars, option, chosen, sendVars, held, chatVars>>
  BY DEF CreateFile, Receiving
<1>3. Receiving' = Receiving
  BY <1>2 DEF Receiving, envVars
<1>4. Receiving.path \in Paths /\ Receiving.size \in 0..MaxSize
  BY <1>2, FileAtHand
<1>5. <<>> \in Seq(AnyByte) /\ Len(<<>>) = 0
  OBVIOUS
<1>6. /\ saved' \in [Paths -> Seq(AnyByte) \cup {Absent}]
      /\ saved'[Receiving.path] = <<>>
      /\ \A p \in Paths : p # Receiving.path => saved'[p] = saved[p]
  BY <1>1, <1>2, <1>4, <1>5 DEF Types
<1>7. \A p \in Paths : saved'[p] = Absent \/ Len(saved'[p]) <= MaxSize
  <2>1. Len(saved'[Receiving.path]) <= MaxSize
    BY <1>5, <1>6, Sizes
  <2> QED
    BY <1>1, <1>6, <2>1 DEF Types
<1>8. created' => /\ recvQ' # <<>>
                  /\ saved'[Receiving'.path] \in Seq(AnyByte)
                  /\ Len(saved'[Receiving'.path]) <= Receiving'.size
  BY <1>2, <1>3, <1>4, <1>5, <1>6
<1>9. /\ pc' \in [Peers -> PCs] /\ recvQ' \in Seq(Nat)
      /\ \A k \in DOMAIN recvQ' : recvQ'[k] \in DOMAIN offer
      /\ created' \in BOOLEAN
      /\ pipe' \in [Peers -> Seq(AnyByte)]
      /\ Len(pipe'["joiner"]) <= PipeCap /\ held <= Len(pipe'["joiner"])
  BY <1>1, <1>2 DEF Types, Lists, Peers
<1> QED
  BY <1>2, <1>6, <1>7, <1>8, <1>9, ReceivingBase

LEMMA ReceiveByteBase ==
    ASSUME Base, ReceiveByte
    PROVE  Base'
<1>1. Types /\ Lists
  BY DEF Base
<1>2. /\ pc["joiner"] = "receive" /\ created /\ ~AllTaken /\ Read("joiner")
      /\ saved' = [saved EXCEPT ![Receiving.path] =
                        Append(@, Head(pipe["joiner"]))]
      /\ created' = created /\ recvQ' = recvQ /\ pc' = pc
      /\ UNCHANGED <<envVars, option, chosen, sendVars, held, chatVars>>
  BY DEF ReceiveByte, Read
<1>3. Receiving' = Receiving
  BY <1>2 DEF Receiving, envVars
<1>4. /\ recvQ # <<>> /\ saved[Receiving.path] \in Seq(AnyByte)
      /\ Len(saved[Receiving.path]) <= Receiving.size
  BY <1>1, <1>2 DEF Lists
<1>5. Receiving.path \in Paths /\ Receiving.size \in 0..MaxSize
  BY <1>4, FileAtHand
<1>6. /\ pipe' \in [Peers -> Seq(AnyByte)]
      /\ Shorter(pipe'["joiner"], pipe["joiner"])
      /\ Head(pipe["joiner"]) = pipe["joiner"][1]
      /\ pipe["joiner"][1] \in AnyByte
      /\ pipe'["creator"] = pipe["creator"]
      /\ Len(pipe["joiner"]) > held
  BY <1>1, <1>2, Reading DEF Peers
<1>7. PICK old : old = saved[Receiving.path]
  OBVIOUS
<1>8. PICK new : new = Append(old, pipe["joiner"][1])
  OBVIOUS
<1>9. /\ old \in Seq(AnyByte) /\ new \in Seq(AnyByte) /\ Len(new) = Len(old) + 1
      /\ Len(old) \in Nat /\ Len(old) <= Receiving.size
      /\ Len(old) # Receiving.size
  BY <1>2, <1>4, <1>6, <1>7, <1>8 DEF AllTaken
<1>10. Len(new) <= Receiving.size /\ Len(new) <= MaxSize
  BY <1>5, <1>9, Sizes
<1>11. /\ saved' \in [Paths -> Seq(AnyByte) \cup {Absent}]
       /\ saved'[Receiving.path] = new
       /\ \A p \in Paths : p # Receiving.path => saved'[p] = saved[p]
  BY <1>1, <1>2, <1>5, <1>6, <1>7, <1>8, <1>9 DEF Types
<1>12. \A p \in Paths : saved'[p] = Absent \/ Len(saved'[p]) <= MaxSize
  BY <1>1, <1>10, <1>11 DEF Types
<1>13. created' => /\ recvQ' # <<>>
                   /\ saved'[Receiving'.path] \in Seq(AnyByte)
                   /\ Len(saved'[Receiving'.path]) <= Receiving'.size
  BY <1>2, <1>3, <1>4, <1>9, <1>10, <1>11
<1>14. /\ pc' \in [Peers -> PCs] /\ recvQ' \in Seq(Nat)
       /\ \A k \in DOMAIN recvQ' : recvQ'[k] \in DOMAIN offer
       /\ created' \in BOOLEAN
  BY <1>1, <1>2 DEF Types, Lists
<1>15. Len(pipe'["joiner"]) <= PipeCap /\ held <= Len(pipe'["joiner"])
  <2> DEFINE l == Len(pipe["joiner"])
             m == Len(pipe'["joiner"])
  <2>1. l \in Nat /\ m = l - 1 /\ held \in 0..ChunkSize /\ l > held /\ l <= PipeCap
    BY <1>1, <1>6 DEF Types, Shorter, Peers
  <2> HIDE DEF l, m
  <2>2. m <= PipeCap /\ held <= m
    BY <2>1, Sizes
  <2> QED
    BY <2>2 DEF m
<1> QED
  BY <1>2, <1>6, <1>11, <1>12, <1>13, <1>14, <1>15, ReceivingBase

LEMMA ReceiveNextBase ==
    ASSUME Base, ReceiveNext
    PROVE  Base'
<1>1. Types /\ Lists
  BY DEF Base
<1>2. /\ pc["joiner"] = "receive" /\ created
      /\ recvQ' = Tail(recvQ) /\ created' = FALSE /\ pc' = pc /\ pipe' = pipe
      /\ saved' = saved
      /\ UNCHANGED <<envVars, option, chosen, sendVars, held, chatVars>>
  BY DEF ReceiveNext
<1>3. recvQ # <<>>
  BY <1>1, <1>2 DEF Lists
<1>4. recvQ' \in Seq(Nat) /\ \A k \in DOMAIN recvQ' : recvQ'[k] \in DOMAIN offer
  BY <1>2, <1>3, FileAtHand
<1>5. /\ pc' \in [Peers -> PCs] /\ created' \in BOOLEAN
      /\ saved' \in [Paths -> Seq(AnyByte) \cup {Absent}]
      /\ \A p \in Paths : saved'[p] = Absent \/ Len(saved'[p]) <= MaxSize
      /\ pipe' \in [Peers -> Seq(AnyByte)]
      /\ Len(pipe'["joiner"]) <= PipeCap /\ held <= Len(pipe'["joiner"])
  BY <1>1, <1>2 DEF Types, Peers
<1> QED
  BY <1>2, <1>4, <1>5, ReceivingBase

LEMMA ReceiveDoneBase ==
    ASSUME Base, ReceiveDone
    PROVE  Base'
<1>1. Types /\ Lists
  BY DEF Base
<1>2. /\ pc["joiner"] = "receive" /\ recvQ = <<>>
      /\ recvQ' = recvQ /\ created' = created /\ pipe' = pipe /\ saved' = saved
      /\ pc' = [pc EXCEPT !["joiner"] = "chat"]
      /\ UNCHANGED <<envVars, option, chosen, sendVars, held, chatVars>>
  BY DEF ReceiveDone, Goto, recvVars
<1>3. ~created
  BY <1>1, <1>2 DEF Lists
<1>4. /\ pc' \in [Peers -> PCs] /\ pc'["joiner"] = "chat"
      /\ pc'["creator"] = pc["creator"]
  BY <1>1, <1>2 DEF Types, Peers, PCs
<1>5. /\ created' \in BOOLEAN /\ ~created' /\ recvQ' \in Seq(Nat)
      /\ \A k \in DOMAIN recvQ' : recvQ'[k] \in DOMAIN offer
      /\ saved' \in [Paths -> Seq(AnyByte) \cup {Absent}]
      /\ \A p \in Paths : saved'[p] = Absent \/ Len(saved'[p]) <= MaxSize
      /\ pipe' \in [Peers -> Seq(AnyByte)]
      /\ Len(pipe'["joiner"]) <= PipeCap /\ held <= Len(pipe'["joiner"])
  BY <1>1, <1>2, <1>3 DEF Types, Peers
<1> QED
  BY <1>2, <1>4, <1>5, ReceivingBase

LEMMA FileChangesBase ==
    ASSUME Base, FileChanges
    PROVE  Base'
<1>1. Types /\ Lists /\ Phases /\ OfferUnderWay /\ Inbox /\ HeardLines("creator")
  BY DEF Base
<1>2. /\ offer # None /\ changed' = TRUE
      /\ disk' \in [DOMAIN offer -> 0..MaxSize]
      /\ UNCHANGED <<offer, before, recvVars, sendVars, pc, pipe, held, chatVars>>
  BY <1>1 DEF FileChanges, Types
<1>3. Types'
  BY <1>1, <1>2 DEF Types, recvVars, sendVars, chatVars
<1>4. Lists'
  BY <1>1, <1>2 DEF Lists, Receiving, recvVars, sendVars
<1>5. Phases'
  BY <1>1, <1>2 DEF Phases, Gone, recvVars, sendVars, chatVars
<1>6. OfferUnderWay'
  BY <1>1, <1>2 DEF OfferUnderWay, chatVars
<1>7. Inbox'
  BY <1>1, <1>2 DEF Inbox, chatVars
<1>8. HeardLines("creator")'
  BY <1>1, <1>2 DEF HeardLines, chatVars
<1> QED
  BY <1>3, <1>4, <1>5, <1>6, <1>7, <1>8 DEF Base

LEMMA CreatorTalksBase ==
    ASSUME Base, Talk("creator")
    PROVE  Base'
<1>1. Types /\ Lists /\ Phases /\ OfferUnderWay /\ Inbox /\ HeardLines("creator")
  BY DEF Base
<1>2. /\ pc["creator"] = "chat" /\ said["creator"] < MaxLines
      /\ said' = [said EXCEPT !["creator"] = @ + 1]
      /\ Len(pipe["joiner"]) < PipeCap
      /\ pipe' = [pipe EXCEPT !["joiner"] = Append(@, Line(said["creator"] + 1))]
      /\ held' = 0
      /\ UNCHANGED <<envVars, recvVars, sendVars, pc, heard>>
  BY OtherPeer DEF Talk, WriteFlushed
<1>3. PICK n \in Nat : n = said["creator"]
  BY <1>1, Sizes DEF Types, Peers
<1>4. /\ said' \in [Peers -> 0..MaxLines] /\ said'["creator"] = n + 1
      /\ said'["joiner"] = said["joiner"]
  <2>1. said \in [Peers -> 0..MaxLines] /\ "creator" \in Peers /\ "joiner" \in Peers
    BY <1>1 DEF Types, Peers
  <2>2. n + 1 \in 0..MaxLines
    BY <1>2, <1>3, Sizes
  <2>3. said' = [said EXCEPT !["creator"] = n + 1]
    BY <1>2, <1>3
  <2> QED
    BY <2>1, <2>2, <2>3
<1>5. /\ pipe' \in [Peers -> Seq(AnyByte)]
      /\ Longer(pipe'["joiner"], pipe["joiner"], Line(n + 1))
      /\ pipe'["creator"] = pipe["creator"]
  <2>1. Line(n + 1) \in AnyByte
    BY Bytes
  <2> QED
    BY <1>1, <1>2, <1>3, <2>1, Writing DEF Peers
<1>6. Types'
  <2>1. \A p \in Peers : Len(pipe'[p]) <= PipeCap
    BY <1>1, <1>2, <1>5, Sizes DEF Types, Longer, Peers
  <2>2. Len(pipe'["joiner"]) \in Nat
    BY <1>5 DEF Longer
  <2>3. held' \in 0..ChunkSize /\ held' <= Len(pipe'["joiner"])
    BY <1>2, <2>2, Sizes
  <2> QED
    BY <1>1, <1>2, <1>4, <1>5, <2>1, <2>3
       DEF Types, envVars, recvVars, sendVars
<1>7. Lists'
  BY <1>1, <1>2 DEF Lists, Receiving, envVars, recvVars, sendVars
<1>8. Phases'
  BY <1>1, <1>2, <1>4 DEF Phases, Gone, envVars, recvVars, sendVars
<1>9. OfferUnderWay'
  <2> SUFFICES ASSUME pc'["joiner"] = "offer"
               PROVE  /\ pipe'["joiner"] # <<>> /\ offer' = None
                      /\ MessageAndLines(pipe'["joiner"], FileOffer)
                      /\ Len(pipe'["joiner"]) = 1 + said'["creator"]
                      /\ Len(pipe'["joiner"]) <= 1 + said'["creator"]
    <3>1. pc'["joiner"] = pc["joiner"] /\ pc["joiner"] # "dialog"
            /\ pc'["creator"] = "chat"
      BY <1>1, <1>2 DEF Phases, envVars
    <3> QED
      BY <3>1 DEF OfferUnderWay
  <2>1. /\ pc["joiner"] = "offer" /\ offer' = offer /\ offer = None
    BY <1>1, <1>2 DEF Phases, envVars
  <2> DEFINE s == pipe["joiner"]
             t == pipe'["joiner"]
  <2>2. /\ s # <<>> /\ MessageAndLines(s, FileOffer) /\ Len(s) = 1 + n
    BY <1>1, <1>2, <1>3, <2>1 DEF OfferUnderWay
  <2>3. Longer(t, s, Line(n + 1))
    BY <1>5
  <2> HIDE DEF s, t
  <2>4. /\ Len(t) = 1 + (n + 1) /\ t[n + 2] = Line(n + 1) /\ t[1] = s[1]
        /\ \A k \in 2..(n + 1) : t[k] = s[k]
    BY <2>2, <2>3 DEF Longer
  <2>5. \A k \in 2..Len(t) : t[k] = Line(k - 1)
    <3> SUFFICES ASSUME NEW k \in 2..Len(t)
                 PROVE  t[k] = Line(k - 1)
      OBVIOUS
    <3>1. CASE k = n + 2
      BY <2>4, <3>1
    <3>2. CASE k \in 2..(n + 1)
      BY <2>2, <2>4, <3>2 DEF MessageAndLines
    <3> QED
      BY <2>4, <3>1, <3>2
  <2>6. MessageAndLines(t, FileOffer)
    BY <2>2, <2>4, <2>5 DEF MessageAndLines
  <2>7. t # <<>> /\ Len(t) = 1 + said'["creator"] /\ Len(t) <= 1 + said'["creator"]
    BY <1>4, <2>4
  <2> QED
    BY <2>1, <2>6, <2>7 DEF t
<1>10. Inbox'
  BY <1>1, <1>2, <1>4, <1>5 DEF Inbox
<1>11. HeardLines("creator")'
  BY <1>1, <1>2, <1>4, OtherPeer DEF HeardLines
<1> QED
  BY <1>6, <1>7, <1>8, <1>9, <1>10, <1>11 DEF Base

LEMMA JoinerTalksBase ==
    ASSUME Base, Talk("joiner")
    PROVE  Base'
<1>1. Types /\ Lists /\ Phases /\ OfferUnderWay /\ Inbox /\ HeardLines("creator")
  BY DEF Base
<1>2. /\ pc["joiner"] = "chat" /\ said["joiner"] < MaxLines
      /\ said' = [said EXCEPT !["joiner"] = @ + 1]
      /\ Len(pipe["creator"]) < PipeCap
      /\ pipe' = [pipe EXCEPT !["creator"] = Append(@, Line(said["joiner"] + 1))]
      /\ held' = held
      /\ UNCHANGED <<envVars, recvVars, sendVars, pc, heard>>
  BY OtherPeer DEF Talk, WriteFlushed
<1>3. PICK n \in Nat : n = said["joiner"]
  BY <1>1, Sizes DEF Types, Peers
<1>4. /\ said' \in [Peers -> 0..MaxLines] /\ said'["joiner"] = n + 1
      /\ said'["creator"] = said["creator"]
  <2>1. said \in [Peers -> 0..MaxLines] /\ "creator" \in Peers /\ "joiner" \in Peers
    BY <1>1 DEF Types, Peers
  <2>2. n + 1 \in 0..MaxLines
    BY <1>2, <1>3, Sizes
  <2>3. said' = [said EXCEPT !["joiner"] = n + 1]
    BY <1>2, <1>3
  <2> QED
    BY <2>1, <2>2, <2>3
<1>5. /\ pipe' \in [Peers -> Seq(AnyByte)]
      /\ Longer(pipe'["creator"], pipe["creator"], Line(n + 1))
      /\ pipe'["joiner"] = pipe["joiner"]
  <2>1. Line(n + 1) \in AnyByte
    BY Bytes
  <2> QED
    BY <1>1, <1>2, <1>3, <2>1, Writing DEF Peers
<1>6. Types'
  <2>1. \A p \in Peers : Len(pipe'[p]) <= PipeCap
    BY <1>1, <1>2, <1>5, Sizes DEF Types, Longer, Peers
  <2> QED
    BY <1>1, <1>2, <1>4, <1>5, <2>1
       DEF Types, envVars, recvVars, sendVars
<1>7. Lists'
  BY <1>1, <1>2 DEF Lists, Receiving, envVars, recvVars, sendVars
<1>8. Phases'
  BY <1>1, <1>2, <1>4 DEF Phases, Gone, envVars, recvVars, sendVars
<1>9. OfferUnderWay'
  BY <1>2 DEF OfferUnderWay
<1>10. Inbox'
  <2> DEFINE s == pipe["creator"]
             t == pipe'["creator"]
  <2>1. Longer(t, s, Line(n + 1)) /\ pc' = pc /\ heard' = heard
          /\ pc["creator"] # "offer"
    BY <1>1, <1>2, <1>5 DEF Phases
  <2>2. Len(t) > 0 /\ t \in Seq(AnyByte)
    BY <2>1 DEF Longer
  <2>3. ASSUME pc["creator"] = "reply"
        PROVE  /\ heard["creator"] = <<>> /\ MessageAndLines(t, FileAccept)
               /\ Len(t) = 1 + said'["joiner"]
    <3>1. /\ heard["creator"] = <<>> /\ MessageAndLines(s, FileAccept)
          /\ Len(s) = 1 + n
      BY <1>1, <1>2, <1>3, <2>3 DEF Inbox
    <3> HIDE DEF s, t
    <3>2. /\ Len(t) = 1 + (n + 1) /\ t[n + 2] = Line(n + 1) /\ t[1] = s[1]
          /\ \A k \in 2..(n + 1) : t[k] = s[k]
      BY <2>1, <3>1 DEF Longer
    <3>3. \A k \in 2..Len(t) : t[k] = Line(k - 1)
      <4> SUFFICES ASSUME NEW k \in 2..Len(t)
                   PROVE  t[k] = Line(k - 1)
        OBVIOUS
      <4>1. CASE k = n + 2
        BY <3>2, <4>1
      <4>2. CASE k \in 2..(n + 1)
        BY <3>1, <3>2, <4>2 DEF MessageAndLines
      <4> QED
        BY <3>2, <4>1, <4>2
    <3> QED
      BY <1>4, <3>1, <3>2, <3>3 DEF MessageAndLines
  <2>4. ASSUME pc["creator"] \in {"send", "chat"}
        PROVE  /\ \A k \in DOMAIN t : t[k] = Line(Len(heard["creator"]) + k)
               /\ Len(heard["creator"]) + Len(t) = said'["joiner"]
    <3> DEFINE h == Len(heard["creator"])
    <3>1. /\ h \in Nat /\ h + Len(s) = n
          /\ \A k \in DOMAIN s : s[k] = Line(h + k)
      BY <1>1, <1>3, <2>4 DEF Inbox, Types, Peers
    <3>2. DOMAIN t = 1..Len(t) /\ s \in Seq(AnyByte) /\ DOMAIN s = 1..Len(s)
      BY <1>1, <2>2 DEF Types, Peers
    <3> HIDE DEF s, t, h
    <3>3. ASSUME NEW k \in DOMAIN t
          PROVE  t[k] = Line(h + k)
      <4>1. CASE k \in 1..Len(s)
        BY <2>1, <3>1, <3>2, <4>1 DEF Longer
      <4>2. CASE k = Len(s) + 1
        <5>1. h + k = n + 1
          BY <2>1, <3>1, <4>2 DEF Longer
        <5> QED
          BY <2>1, <4>2, <5>1 DEF Longer
      <4> QED
        BY <2>1, <3>2, <4>1, <4>2 DEF Longer
    <3>4. h + Len(t) = n + 1
      <4> DEFINE ls == Len(s)
                 lt == Len(t)
      <4>1. ls \in Nat /\ lt = ls + 1 /\ h \in Nat /\ h + ls = n
        BY <2>1, <3>1 DEF Longer
      <4> HIDE DEF ls, lt
      <4>2. h + lt = n + 1
        BY <4>1
      <4> QED
        BY <4>2 DEF lt
    <3> QED
      BY <1>4, <3>3, <3>4 DEF h
  <2> HIDE DEF t
  <2>5. t # <<>>
    BY <2>2
  <2> QED
    BY <1>2, <2>1, <2>3, <2>4, <2>5 DEF Inbox, t
<1>11. HeardLines("creator")'
  <2>1. Len(heard["creator"]) <= n /\ Len(heard["creator"]) \in Nat
    BY <1>1, <1>3, OtherPeer DEF HeardLines, Types, Peers
  <2>2. Len(heard["creator"]) <= said'["joiner"]
    BY <1>4, <2>1
  <2> QED
    BY <1>1, <1>2, <2>2, OtherPeer DEF HeardLines
<1> QED
  BY <1>6, <1>7, <1>8, <1>9, <1>10, <1>11 DEF Base

LEMMA CreatorListensBase ==
    ASSUME Base, Listen("creator")
    PROVE  Base'
<1>1. Types /\ Lists /\ Phases /\ OfferUnderWay /\ Inbox /\ HeardLines("creator")
  BY DEF Base
<1>2. /\ pc["creator"] = "chat" /\ Read("creator")
      /\ heard' = [heard EXCEPT !["creator"] = Append(@, Head(pipe["creator"]))]
      /\ UNCHANGED <<envVars, recvVars, sendVars, pc, said>>
  BY DEF Listen
<1>3. /\ pipe' \in [Peers -> Seq(AnyByte)]
      /\ Shorter(pipe'["creator"], pipe["creator"])
      /\ Head(pipe["creator"]) = pipe["creator"][1]
      /\ pipe["creator"][1] \in AnyByte
      /\ pipe'["joiner"] = pipe["joiner"]
      /\ held' = held
  BY <1>1, <1>2, Reading DEF Peers
<1>4. PICK h : h = Len(heard["creator"])
  OBVIOUS
<1>5. /\ h \in Nat /\ h + Len(pipe["creator"]) = said["joiner"]
      /\ \A k \in DOMAIN pipe["creator"] : pipe["creator"][k] = Line(h + k)
      /\ \A k \in 1..h : heard["creator"][k] = Line(k)
      /\ said["joiner"] \in Nat
  <2>1. heard["creator"] \in Seq(AnyByte) /\ said["joiner"] \in 0..MaxLines
    BY <1>1 DEF Types, Peers
  <2>2. h \in Nat /\ said["joiner"] \in Nat /\ DOMAIN heard["creator"] = 1..h
    BY <1>4, <2>1, Sizes
  <2>3. /\ h + Len(pipe["creator"]) = said["joiner"]
        /\ \A k \in DOMAIN pipe["creator"] : pipe["creator"][k] = Line(h + k)
    BY <1>1, <1>2, <1>4 DEF Inbox
  <2>4. \A k \in 1..h : heard["creator"][k] = Line(k)
    BY <1>1, <2>2 DEF HeardLines
  <2> QED
    BY <2>2, <2>3, <2>4
<1>6. /\ heard' \in [Peers -> Seq(AnyByte)] /\ heard'["joiner"] = heard["joiner"]
      /\ Longer(heard'["creator"], heard["creator"], pipe["creator"][1])
  <2>1. heard \in [Peers -> Seq(AnyByte)] /\ heard["creator"] \in Seq(AnyByte)
    BY <1>1 DEF Types, Peers
  <2>2. Longer(Append(heard["creator"], pipe["creator"][1]),
               heard["creator"], pipe["creator"][1])
    BY <1>3, <2>1, AppendIsLonger
  <2>3. Append(heard["creator"], pipe["creator"][1]) \in Seq(AnyByte)
    BY <2>2 DEF Longer
  <2> QED
    BY <1>2, <1>3, <2>1, <2>2, <2>3 DEF Peers
<1>7. pipe["creator"][1] = Line(h + 1)
  <2>1. 1 \in DOMAIN pipe["creator"]
    BY <1>1, <1>3 DEF Shorter, Types, Peers
  <2> QED
    BY <1>5, <2>1
<1>8. Len(heard'["creator"]) = h + 1
  BY <1>4, <1>6 DEF Longer
<1>9. Types'
  <2>1. \A p \in Peers : Len(pipe'[p]) <= PipeCap
    BY <1>1, <1>3, Sizes DEF Types, Shorter, Peers
  <2> QED
    BY <1>1, <1>2, <1>3, <1>6, <2>1
       DEF Types, envVars, recvVars, sendVars
<1>10. Lists'
  BY <1>1, <1>2 DEF Lists, Receiving, envVars, recvVars, sendVars
<1>11. Phases'
  BY <1>1, <1>2, <1>3, <1>6 DEF Phases, Gone, envVars, recvVars, sendVars
<1>12. OfferUnderWay'
  BY <1>1, <1>2, <1>3 DEF OfferUnderWay, envVars
<1>13. Inbox'
  <2> DEFINE s == pipe["creator"]
             t == pipe'["creator"]
             ls == Len(s)
             lt == Len(t)
  <2>1. pc["joiner"] \notin {"offer", "dialog"}
    BY <1>1, <1>3 DEF Inbox, Shorter
  <2>2. /\ t \in Seq(AnyByte) /\ ls \in Nat /\ lt = ls - 1 /\ ls > 0
        /\ \A k \in 1..lt : t[k] = s[k + 1]
        /\ DOMAIN t = 1..lt /\ DOMAIN s = 1..ls
    BY <1>1, <1>3 DEF Shorter, Types, Peers
  <2>3. h + ls = said["joiner"] /\ \A k \in DOMAIN s : s[k] = Line(h + k)
    BY <1>5
  <2> HIDE DEF s, t, ls, lt
  <2>4. ASSUME NEW k \in DOMAIN t
        PROVE  t[k] = Line((h + 1) + k)
    <3>1. h \in Nat /\ ls \in Nat /\ lt = ls - 1 /\ k \in 1..lt
      BY <1>5, <2>2
    <3>2. k + 1 \in 1..ls /\ h + (k + 1) = (h + 1) + k
      BY <3>1
    <3> QED
      BY <2>2, <2>3, <3>1, <3>2
  <2>5. (h + 1) + lt = said["joiner"]
    BY <1>5, <2>2, <2>3
  <2>6. pc'["creator"] = "chat" /\ pc'["joiner"] = pc["joiner"] /\ said' = said
    BY <1>2
  <2> QED
    BY <1>8, <2>1, <2>4, <2>5, <2>6 DEF Inbox, t, lt
<1>14. HeardLines("creator")'
  <2>1. h + 1 <= said["joiner"]
    <3> DEFINE ls == Len(pipe["creator"])
    <3>1. ls \in Nat /\ ls > 0 /\ h + ls = said["joiner"]
      BY <1>3, <1>5 DEF Shorter
    <3> HIDE DEF ls
    <3> QED
      BY <1>5, <3>1
  <2>2. \A k \in 1..(h + 1) : heard'["creator"][k] = Line(k)
    <3> SUFFICES ASSUME NEW k \in 1..(h + 1)
                 PROVE  heard'["creator"][k] = Line(k)
      OBVIOUS
    <3>1. CASE k = h + 1
      BY <1>4, <1>6, <1>7, <3>1 DEF Longer
    <3>2. CASE k \in 1..h
      BY <1>4, <1>5, <1>6, <3>2 DEF Longer
    <3> QED
      BY <1>5, <3>1, <3>2
  <2>3. DOMAIN heard'["creator"] = 1..(h + 1)
    BY <1>6, <1>8 DEF Peers
  <2> QED
    BY <1>2, <1>8, <2>1, <2>2, <2>3, OtherPeer DEF HeardLines
<1> QED
  BY <1>9, <1>10, <1>11, <1>12, <1>13, <1>14 DEF Base

LEMMA JoinerListensBase ==
    ASSUME Base, Listen("joiner")
    PROVE  Base'
<1>1. Types /\ Lists /\ Phases /\ OfferUnderWay /\ Inbox /\ HeardLines("creator")
  BY DEF Base
<1>2. /\ pc["joiner"] = "chat" /\ Read("joiner")
      /\ heard' = [heard EXCEPT !["joiner"] = Append(@, Head(pipe["joiner"]))]
      /\ UNCHANGED <<envVars, recvVars, sendVars, pc, said>>
  BY DEF Listen
<1>3. /\ pipe' \in [Peers -> Seq(AnyByte)]
      /\ Shorter(pipe'["joiner"], pipe["joiner"])
      /\ Head(pipe["joiner"]) = pipe["joiner"][1]
      /\ pipe["joiner"][1] \in AnyByte
      /\ pipe'["creator"] = pipe["creator"]
      /\ held' = held /\ Len(pipe["joiner"]) > held
  BY <1>1, <1>2, Reading DEF Peers
<1>4. heard' \in [Peers -> Seq(AnyByte)] /\ heard'["creator"] = heard["creator"]
  <2>1. heard \in [Peers -> Seq(AnyByte)]
          /\ Append(heard["joiner"], pipe["joiner"][1]) \in Seq(AnyByte)
    BY <1>1, <1>3 DEF Types, Peers
  <2> QED
    BY <1>2, <1>3, <2>1 DEF Peers
<1>5. Types'
  <2> DEFINE l == Len(pipe["joiner"])
             m == Len(pipe'["joiner"])
  <2>1. l \in Nat /\ m = l - 1 /\ held \in 0..ChunkSize /\ l > held /\ l <= PipeCap
    BY <1>1, <1>3 DEF Types, Shorter, Peers
  <2> HIDE DEF l, m
  <2>2. m <= PipeCap /\ held' <= m
    BY <1>3, <2>1, Sizes
  <2> QED
    BY <1>1, <1>2, <1>3, <1>4, <2>2
       DEF Types, envVars, recvVars, sendVars, m, Peers
<1>6. Lists'
  BY <1>1, <1>2 DEF Lists, Receiving, envVars, recvVars, sendVars
<1>7. Phases'
  BY <1>1, <1>2, <1>3, <1>4 DEF Phases, Gone, envVars, recvVars, sendVars
<1>8. OfferUnderWay'
  BY <1>2 DEF OfferUnderWay
<1>9. Inbox'
  BY <1>1, <1>2, <1>3, <1>4 DEF Inbox
<1>10. HeardLines("creator")'
  BY <1>1, <1>2, <1>4 DEF HeardLines
<1> QED
  BY <1>5, <1>6, <1>7, <1>8, <1>9, <1>10 DEF Base

LEMMA SpinBase ==
    ASSUME Base, NEW p \in Peers, Spin(p)
    PROVE  Base'
<1>1. Types /\ Lists /\ Phases /\ OfferUnderWay /\ Inbox /\ HeardLines("creator")
  BY DEF Base
<1>2. /\ pc' = [pc EXCEPT ![p] = "stuck"] /\ Gone(Other(p)) /\ pc[p] # "send"
      /\ Communicating(p)
      /\ UNCHANGED <<envVars, recvVars, sendVars, pipe, held, chatVars>>
  BY DEF Spin, Goto
<1>3. /\ pc' \in [Peers -> PCs] /\ pc'[p] = "stuck"
      /\ \A q \in Peers : q # p => pc'[q] = pc[q]
  BY <1>1, <1>2 DEF Types, PCs
<1>4. \/ /\ p = "creator" /\ Gone("joiner") /\ pc'["joiner"] = pc["joiner"]
         /\ pc'["creator"] = "stuck"
      \/ /\ p = "joiner" /\ Gone("creator") /\ pc'["creator"] = pc["creator"]
         /\ pc'["joiner"] = "stuck"
  BY <1>2, <1>3, OtherPeer DEF Peers
<1>5. Types'
  BY <1>1, <1>2, <1>3 DEF Types, envVars, recvVars, sendVars, chatVars
<1>6. Lists'
  BY <1>1, <1>2 DEF Lists, Receiving, envVars, recvVars, sendVars
<1>7. Phases'
  BY <1>1, <1>2, <1>4
     DEF Phases, Gone, envVars, recvVars, sendVars, chatVars
<1>8. OfferUnderWay'
  BY <1>1, <1>2, <1>4 DEF OfferUnderWay, Gone
<1>9. Inbox'
  BY <1>1, <1>2, <1>4 DEF Inbox, Gone
<1>10. HeardLines("creator")'
  BY <1>1, <1>2 DEF HeardLines, chatVars
<1> QED
  BY <1>5, <1>6, <1>7, <1>8, <1>9, <1>10 DEF Base

\* All the ways to leave.
Leaves(p) ==
    /\ p \in Peers /\ ~Gone(p) /\ Leave(p)
    /\ UNCHANGED <<envVars, recvVars, sendVars, chatVars>>

LEMMA WhoLeaves ==
    ASSUME NEW p \in Peers, NotUtf8(p) \/ PeerIsGone(p) \/ Quit(p)
    PROVE  Leaves(p)
BY DEF NotUtf8, PeerIsGone, Quit, Leaves, Communicating, Gone

\* A creator that leaves takes with it what it held back, which is something
\* only if it was sending.
LEMMA LeaveEffect ==
    ASSUME Types, Phases, NEW p \in Peers, Leaves(p)
    PROVE  /\ pc' \in [Peers -> PCs]
           /\ pc'[p] = IF pc[p] = "chat" THEN "ended" ELSE "aborted"
           /\ \A q \in Peers : q # p => pc'[q] = pc[q]
           /\ pipe' \in [Peers -> Seq(AnyByte)]
           /\ pipe'["creator"] = pipe["creator"]
           /\ Len(pipe'["joiner"]) <= Len(pipe["joiner"])
           /\ \A k \in 1..Len(pipe'["joiner"]) :
                pipe'["joiner"][k] = pipe["joiner"][k]
           /\ p = "joiner" => pipe' = pipe /\ held' = held
           /\ p = "creator" => held' = 0
           /\ pc["creator"] # "send" => pipe' = pipe
<1>1. /\ pc' \in [Peers -> PCs]
      /\ pc'[p] = IF pc[p] = "chat" THEN "ended" ELSE "aborted"
      /\ \A q \in Peers : q # p => pc'[q] = pc[q]
  BY DEF Leaves, Leave, Goto, Types, PCs
<1>2. pipe \in [Peers -> Seq(AnyByte)] /\ pipe["joiner"] \in Seq(AnyByte)
        /\ Len(pipe["joiner"]) \in Nat
  BY DEF Types, Peers
<1>3. CASE p = "joiner"
  <2>1. pipe' = pipe /\ held' = held
    BY <1>3 DEF Leaves, Leave
  <2> QED
    BY <1>1, <1>2, <1>3, <2>1
<1>4. CASE p = "creator"
  <2>1. /\ pipe' = [pipe EXCEPT !["joiner"] =
                        SubSeq(@, 1, Len(@) - held)]
        /\ held' = 0
    BY <1>4 DEF Leaves, Leave
  <2> DEFINE s == pipe["joiner"]
             m == Len(s) - held
             t == SubSeq(s, 1, m)
  <2>2. m \in 0..Len(s) /\ s \in Seq(AnyByte) /\ Len(s) \in Nat
    BY <1>2, Sizes DEF Types
  <2> HIDE DEF s, m
  <2>3. t \in Seq(AnyByte) /\ Len(t) = m /\ \A k \in 1..m : t[k] = s[k]
    BY <2>2
  <2>4. m = Len(s) => t = s
    BY <2>2, <2>3
  <2> HIDE DEF t
  <2>5. pc["creator"] # "send" => t = s
    <3>1. pc["creator"] # "send" => held = 0
      BY DEF Phases
    <3> QED
      BY <2>2, <2>4, <3>1 DEF m
  <2>6. /\ pipe' \in [Peers -> Seq(AnyByte)] /\ pipe'["joiner"] = t
        /\ pipe'["creator"] = pipe["creator"]
    BY <1>2, <2>1, <2>3 DEF s, t, m, Peers
  <2>7. pc["creator"] # "send" => pipe' = pipe
    BY <1>2, <2>5, <2>6 DEF s, Peers
  <2>8. Len(t) <= Len(s) /\ \A k \in 1..Len(t) : t[k] = s[k]
    BY <2>2, <2>3
  <2> QED
    BY <1>1, <1>4, <2>1, <2>6, <2>7, <2>8 DEF s
<1> QED
  BY <1>3, <1>4 DEF Peers

\* Who leaves keeps Base.
LEMMA LeaveBase ==
    ASSUME Base, NEW p \in Peers, Leaves(p)
    PROVE  Base'
<1>1. Types /\ Lists /\ Phases /\ OfferUnderWay /\ Inbox /\ HeardLines("creator")
  BY DEF Base
<1>2. ~Gone(p) /\ UNCHANGED <<envVars, recvVars, sendVars, chatVars>>
  BY DEF Leaves
<1>3. /\ pc' \in [Peers -> PCs]
      /\ pc'[p] = IF pc[p] = "chat" THEN "ended" ELSE "aborted"
      /\ \A q \in Peers : q # p => pc'[q] = pc[q]
      /\ pipe' \in [Peers -> Seq(AnyByte)]
      /\ pipe'["creator"] = pipe["creator"]
      /\ Len(pipe'["joiner"]) <= Len(pipe["joiner"])
      /\ p = "joiner" => pipe' = pipe /\ held' = held
      /\ p = "creator" => held' = 0
      /\ pc["creator"] # "send" => pipe' = pipe
  BY <1>1, LeaveEffect
<1>4. \/ /\ p = "creator" /\ pc'["joiner"] = pc["joiner"] /\ held' = 0
         /\ pc'["creator"] = IF pc["creator"] = "chat" THEN "ended" ELSE "aborted"
      \/ /\ p = "joiner" /\ pc'["creator"] = pc["creator"]
         /\ pc'["joiner"] = IF pc["joiner"] = "chat" THEN "ended" ELSE "aborted"
         /\ pipe' = pipe /\ held' = held
  BY <1>3 DEF Peers
<1>5. Types'
  <2> DEFINE l == Len(pipe["joiner"])
             m == Len(pipe'["joiner"])
  <2>1. l \in Nat /\ m \in Nat /\ m <= l /\ l <= PipeCap
    BY <1>1, <1>3 DEF Types, Peers
  <2>2. held' \in 0..ChunkSize /\ held' <= m
    BY <1>1, <1>4, <2>1, Sizes DEF Types
  <2> HIDE DEF l, m
  <2>3. m <= PipeCap
    BY <2>1, Sizes
  <2>4. \A q \in Peers : Len(pipe'[q]) <= PipeCap
    BY <1>1, <1>3, <2>3 DEF m, Types, Peers
  <2> QED
    BY <1>1, <1>2, <1>3, <2>2, <2>4
       DEF Types, envVars, recvVars, sendVars, chatVars, m
<1>6. Lists'
  BY <1>1, <1>2 DEF Lists, Receiving, envVars, recvVars, sendVars
<1>7. Phases'
  BY <1>1, <1>2, <1>4
     DEF Phases, Gone, envVars, recvVars, sendVars, chatVars
<1>8. OfferUnderWay'
  BY <1>1, <1>2, <1>3, <1>4
     DEF OfferUnderWay, Phases, Gone, envVars, chatVars
<1>9. Inbox'
  BY <1>1, <1>2, <1>3, <1>4 DEF Inbox, Gone, chatVars
<1>10. HeardLines("creator")'
  BY <1>1, <1>2 DEF HeardLines, chatVars
<1> QED
  BY <1>5, <1>6, <1>7, <1>8, <1>9, <1>10 DEF Base

LEMMA InitBase ==
    ASSUME Init
    PROVE  Base
<1>1. Types
  <2>1. offer # None => disk \in [DOMAIN offer -> 0..MaxSize]
    <3> SUFFICES ASSUME offer # None
                 PROVE  disk \in [DOMAIN offer -> 0..MaxSize]
      OBVIOUS
    <3>1. offer \in Seq(FileMeta)
      BY SessionAssumption DEF Init
    <3>2. \A i \in DOMAIN offer : offer[i] \in FileMeta
      BY <3>1
    <3>3. \A i \in DOMAIN offer : offer[i].size \in 0..MaxSize
      BY <3>2 DEF FileMeta
    <3> QED
      BY <3>3 DEF Init
  <2>2. before \in [Paths -> Content \cup {Absent}] /\ saved = before
    BY SessionAssumption DEF Init
  <2>3. \A c \in Content : c \in Seq(AnyByte) /\ Len(c) <= MaxSize
    <3> SUFFICES ASSUME NEW m \in 0..MaxSize
                 PROVE  /\ [n \in 1..m |-> Old(n)] \in Seq(AnyByte)
                        /\ Len([n \in 1..m |-> Old(n)]) <= MaxSize
      BY DEF Content
    <3>1. \A n \in 1..m : Old(n) \in AnyByte
      BY DEF Old, AnyByte
    <3>2. [n \in 1..m |-> Old(n)] \in Seq(AnyByte)
      BY <3>1, Sizes
    <3>3. Len([n \in 1..m |-> Old(n)]) = m
      BY Sizes
    <3> QED
      BY <3>2, <3>3, Sizes
  <2>4. /\ saved \in [Paths -> Seq(AnyByte) \cup {Absent}]
        /\ \A p \in Paths : saved[p] = Absent \/ Len(saved[p]) <= MaxSize
    BY <2>2, <2>3
  <2>5. <<>> \in Seq(AnyByte) /\ <<>> \in Seq(Nat) /\ Len(<<>>) = 0 /\ DOMAIN <<>> = {}
    OBVIOUS
  <2>6. /\ pipe \in [Peers -> Seq(AnyByte)] /\ heard \in [Peers -> Seq(AnyByte)]
        /\ \A p \in Peers : Len(pipe[p]) = 0
        /\ said \in [Peers -> 0..MaxLines] /\ pc \in [Peers -> PCs]
    BY <2>5, Sizes DEF Init, PCs
  <2>7. \A p \in Peers : Len(pipe[p]) <= PipeCap
    BY <2>6, Sizes
  <2>8. /\ held \in 0..ChunkSize /\ held <= Len(pipe["joiner"])
        /\ sentN \in 0..MaxSize /\ option \in 0..3
    BY <2>6, Sizes DEF Init, Peers
  <2> QED
    BY <2>1, <2>4, <2>5, <2>6, <2>7, <2>8 DEF Init, Types
<1>2. Lists
  BY DEF Lists, Init
<1>3. Phases
  BY DEF Phases, Init, Gone, Peers
<1>4. OfferUnderWay
  BY DEF OfferUnderWay, Init, Peers
<1>5. Inbox
  BY DEF Inbox, Init, Peers
<1>6. HeardLines("creator")
  <2>1. heard["creator"] = <<>> /\ said["joiner"] = 0
    BY DEF Init, Peers
  <2> QED
    BY <2>1, OtherPeer DEF HeardLines
<1> QED
  BY <1>1, <1>2, <1>3, <1>4, <1>5, <1>6 DEF Base

LEMMA BaseStutter ==
    ASSUME Base, UNCHANGED vars
    PROVE  Base'
<1>1. Types /\ Lists /\ Phases /\ OfferUnderWay /\ Inbox /\ HeardLines("creator")
  BY DEF Base
<1>2. Types'
  BY <1>1 DEF vars, Types
<1>3. Lists'
  BY <1>1 DEF vars, Lists, Receiving
<1>4. Phases'
  BY <1>1 DEF vars, Phases, Gone
<1>5. OfferUnderWay'
  BY <1>1 DEF vars, OfferUnderWay
<1>6. Inbox'
  BY <1>1 DEF vars, Inbox
<1>7. HeardLines("creator")'
  BY <1>1 DEF vars, HeardLines
<1> QED
  BY <1>2, <1>3, <1>4, <1>5, <1>6, <1>7 DEF Base

LEMMA BaseStep ==
    ASSUME Base, [Next]_vars
    PROVE  Base'
<1>1. CASE CreatorSteps \/ CopyFlushes
  BY <1>1, OfferFilesBase, ReadAcceptBase, SendByteBase, SendNextBase,
     SendDoneBase, CopyFlushesBase DEF CreatorSteps
<1>2. CASE JoinerSteps
  BY <1>2, ReadOfferBase, CreateFileBase, ReceiveByteBase, ReceiveNextBase,
     ReceiveDoneBase DEF JoinerSteps
<1>3. CASE \E n \in 1..3 : ConfirmReceive(n)
  BY <1>3, ConfirmReceiveBase
<1>4. CASE \E p \in Peers : ListenSteps(p) \/ Talk(p) \/ Quit(p)
  <2>1. PICK p \in Peers : ListenSteps(p) \/ Talk(p) \/ Quit(p)
    BY <1>4
  <2>2. CASE Listen(p)
    BY <2>2, CreatorListensBase, JoinerListensBase DEF Peers
  <2>3. CASE Talk(p)
    BY <2>3, CreatorTalksBase, JoinerTalksBase DEF Peers
  <2>4. CASE NotUtf8(p) \/ PeerIsGone(p) \/ Quit(p)
    BY <2>4, WhoLeaves, LeaveBase
  <2>5. CASE Spin(p)
    BY <2>5, SpinBase
  <2> QED
    BY <2>1, <2>2, <2>3, <2>4, <2>5 DEF ListenSteps
<1>5. CASE FileChanges
  BY <1>5, FileChangesBase
<1>6. CASE UNCHANGED vars
  BY <1>6, BaseStutter
<1> QED
  BY <1>1, <1>2, <1>3, <1>4, <1>5, <1>6 DEF Next

\* Base says at least what TypeOK says.
LEMMA BaseTypes ==
    ASSUME Base
    PROVE  TypeOK
<1>1. Types /\ (created => recvQ # <<>>)
  BY DEF Base, Lists
<1>2. disk \in [IF offer = None THEN {} ELSE DOMAIN offer -> 0..MaxSize]
  <2>1. CASE offer = None
    <3>1. disk = <<>> /\ <<>> = [i \in {} |-> 0]
      BY <1>1, <2>1 DEF Types
    <3>2. [i \in {} |-> 0] \in [{} -> 0..MaxSize]
      OBVIOUS
    <3> QED
      BY <2>1, <3>1, <3>2
  <2>2. CASE offer # None
    BY <1>1, <2>2 DEF Types
  <2> QED
    BY <2>1, <2>2
<1> QED
  BY <1>1, <1>2 DEF TypeOK, Types

LEMMA BaseAlways == Spec => []Base
<1>1. Base /\ [Next]_vars => Base'
  BY BaseStep
<1> QED
  BY <1>1, InitBase, PTL DEF Spec

\* Every variable of the session keeps its type: no pipe holds more than it
\* may, no file is longer than the longest file offered or found, and what the
\* writer holds back is at the end of what is under way.
THEOREM TypeCorrect == Spec => []TypeOK
<1>1. Base => TypeOK
  BY BaseTypes
<1> QED
  BY <1>1, BaseAlways, PTL

----------------------------------------------------------------------------
\* The stream, as long as no file changes.

\* What the list of the accepted files and the places where they end have to
\* do with the offer and the answer.
Plan(list, ends) ==
    /\ list \in Seq(Nat)
    /\ offer = None => list = <<>>
    /\ \A k \in 1..Len(list) :
        offer # None /\ list[k] \in DOMAIN offer /\ Yes(chosen, list[k])
    /\ AreEnds(offer, list, ends)

\* The files that Accepted leaves are such a list.
LEMMA TakenIsPlan ==
    ASSUME Types
    PROVE  Plan(Taken, Ends)
<1>1. CASE offer = None
  <2>1. Taken = <<>> /\ Len(<<>>) = 0 /\ <<>> \in Seq(Nat) /\ 1..0 = {}
    BY <1>1 DEF Taken
  <2>2. AreEnds(offer, Taken, Ends)
    BY <2>1, EndsAreEnds DEF Ends
  <2> QED
    BY <1>1, <2>1, <2>2 DEF Plan
<1>2. CASE offer # None
  <2>1. offer \in Seq(FileMeta) /\ Len(offer) \in Nat /\ DOMAIN offer = 1..Len(offer)
    BY <1>2, SessionAssumption DEF Types
  <2> DEFINE S == {i \in 1..Len(offer) : Yes(chosen, i)}
  <2>2. Taken = Accepted(offer, chosen) /\ Listing(Taken, S)
    BY <1>2, <2>1, AcceptedLists DEF Taken
  <2>3. Taken \in Seq(S) /\ S \subseteq Nat
    BY <2>1, <2>2 DEF Listing
  <2>4. \A k \in 1..Len(Taken) : Taken[k] \in S
    BY <2>3
  <2>5. Taken \in Seq(Nat) /\ Len(Taken) \in Nat
    BY <2>3
  <2>6. \A i \in DOMAIN offer : offer[i] \in FileMeta
    BY <2>1
  <2>7. \A k \in 1..Len(Taken) : offer[Taken[k]].size \in Nat
    BY <2>1, <2>4, <2>6, Sizes DEF FileMeta
  <2>8. AreEnds(offer, Taken, Ends)
    BY <2>5, <2>7, EndsAreEnds DEF Ends
  <2> QED
    BY <1>2, <2>1, <2>4, <2>5, <2>8 DEF Plan
<1> QED
  BY <1>1, <1>2

\* As long as neither changes the plan stays.
LEMMA PlanStays ==
    ASSUME NEW list, NEW ends, Plan(list, ends), UNCHANGED <<offer, chosen>>
    PROVE  Plan(list, ends)' /\ Taken' = Taken /\ Ends' = Ends
BY DEF Plan, Taken, Ends

\* Between the ends of two files there is nothing but the second one.
LEMMA InFile ==
    ASSUME NEW files, NEW list, NEW ends, AreEnds(files, list, ends),
           Len(list) \in Nat, NEW k \in 1..Len(list), NEW b, NEW m \in Nat,
           InPlace(list, ends, b, m), ends[k - 1] < m, m <= ends[k]
    PROVE  b = Byte(list[k], m - ends[k - 1])
<1> DEFINE L == Len(list)
<1>1. /\ \A j \in 0..L : ends[j] \in Nat
      /\ \A i, j \in 0..L : i <= j => ends[i] <= ends[j]
      /\ L \in Nat /\ k \in 1..L
  BY DEF AreEnds
<1>2. \/ \E j \in 1..L : /\ ends[j - 1] < m /\ m <= ends[j]
                         /\ b = Byte(list[j], m - ends[j - 1])
      \/ m > ends[L] /\ b = Line(m - ends[L])
  BY DEF InPlace
<1> HIDE DEF L
<1>3. CASE m > ends[L]
  <2>1. k \in 0..L /\ L \in 0..L /\ k <= L
    BY <1>1
  <2>2. ends[k] <= ends[L] /\ ends[k] \in Nat /\ ends[L] \in Nat
    BY <1>1, <2>1
  <2> QED
    BY <1>3, <2>2
<1>4. ASSUME NEW j \in 1..L, ends[j - 1] < m, m <= ends[j],
             b = Byte(list[j], m - ends[j - 1])
      PROVE  b = Byte(list[k], m - ends[k - 1])
  <2>1. j \in 0..L /\ j - 1 \in 0..L /\ k \in 0..L /\ k - 1 \in 0..L
    BY <1>1
  <2>2. ends[j] \in Nat /\ ends[j - 1] \in Nat /\ ends[k] \in Nat
          /\ ends[k - 1] \in Nat
    BY <1>1, <2>1
  <2>3. ~(j <= k - 1)
    <3>1. j <= k - 1 => ends[j] <= ends[k - 1]
      BY <1>1, <2>1
    <3> QED
      BY <1>4, <2>2, <3>1
  <2>4. ~(k <= j - 1)
    <3>1. k <= j - 1 => ends[k] <= ends[j - 1]
      BY <1>1, <2>1
    <3> QED
      BY <1>4, <2>2, <3>1
  <2>5. j = k
    BY <1>1, <2>3, <2>4
  <2> QED
    BY <1>4, <2>5
<1> QED
  BY <1>2, <1>3, <1>4

\* After the files there is nothing but the lines.
LEMMA AfterFiles ==
    ASSUME NEW files, NEW list, NEW ends, AreEnds(files, list, ends),
           Len(list) \in Nat, NEW b, NEW m \in Nat,
           InPlace(list, ends, b, m), m > ends[Len(list)]
    PROVE  b = Line(m - ends[Len(list)])
<1> DEFINE L == Len(list)
<1>1. /\ \A j \in 0..L : ends[j] \in Nat
      /\ \A i, j \in 0..L : i <= j => ends[i] <= ends[j]
      /\ L \in Nat /\ L \in 0..L /\ m > ends[L]
  BY DEF AreEnds
<1>2. \/ \E j \in 1..L : m <= ends[j]
      \/ b = Line(m - ends[L])
  BY DEF InPlace
<1> HIDE DEF L
<1>3. ASSUME NEW j \in 1..L, m <= ends[j]
      PROVE  FALSE
  <2>1. j \in 0..L /\ j <= L
    BY <1>1
  <2>2. ends[j] <= ends[L] /\ ends[j] \in Nat /\ ends[L] \in Nat
    BY <1>1, <2>1
  <2> QED
    BY <1>1, <1>3, <2>2
<1>4. b = Line(m - ends[L])
  BY <1>2, <1>3
<1> QED
  BY <1>4 DEF L

\* Who reads has the byte at its place, and what is left stands after it.
LEMMA InStreamRead ==
    ASSUME NEW list, NEW ends, NEW s \in Seq(AnyByte), NEW t, Shorter(t, s),
           NEW r \in Nat, NEW top \in Nat, InStream(list, ends, s, r, top)
    PROVE  /\ InPlace(list, ends, s[1], r + 1) /\ r + 1 <= top
           /\ InStream(list, ends, t, r + 1, top)
<1>1. /\ Len(s) \in Nat /\ Len(s) > 0 /\ Len(t) = Len(s) - 1
      /\ DOMAIN s = 1..Len(s) /\ DOMAIN t = 1..Len(t)
      /\ \A k \in 1..Len(t) : t[k] = s[k + 1]
  BY DEF Shorter
<1>2. \A k \in 1..Len(s) : InPlace(list, ends, s[k], r + k) /\ r + k <= top
  BY <1>1 DEF InStream
<1>3. \A k \in 1..Len(t) : k + 1 \in 1..Len(s) /\ r + (k + 1) = (r + 1) + k
  BY <1>1
<1>4. \A k \in 1..Len(t) :
        InPlace(list, ends, t[k], (r + 1) + k) /\ (r + 1) + k <= top
  BY <1>1, <1>2, <1>3
<1>5. 1 \in 1..Len(s)
  BY <1>1
<1> QED
  BY <1>1, <1>2, <1>4, <1>5 DEF InStream

\* A byte written at the next place leaves the stream in place.
LEMMA InStreamWrite ==
    ASSUME NEW list, NEW ends, NEW s \in Seq(AnyByte), NEW t, NEW b,
           Longer(t, s, b), NEW r \in Nat, NEW top \in Nat, NEW top2 \in Nat,
           InStream(list, ends, s, r, top), top <= top2,
           InPlace(list, ends, b, r + Len(s) + 1), r + Len(s) + 1 <= top2
    PROVE  InStream(list, ends, t, r, top2)
<1>1. /\ Len(s) \in Nat /\ Len(t) = Len(s) + 1
      /\ DOMAIN s = 1..Len(s) /\ DOMAIN t = 1..Len(t)
      /\ t[Len(s) + 1] = b /\ \A k \in 1..Len(s) : t[k] = s[k]
  BY DEF Longer
<1>2. \A k \in 1..Len(s) : InPlace(list, ends, s[k], r + k) /\ r + k <= top
  BY <1>1 DEF InStream
<1> DEFINE l == Len(s)
<1>3. l \in Nat /\ r + l + 1 = r + (l + 1)
  BY <1>1
<1>4. \A k \in 1..(l + 1) : InPlace(list, ends, t[k], r + k) /\ r + k <= top2
  <2> SUFFICES ASSUME NEW k \in 1..(l + 1)
               PROVE  InPlace(list, ends, t[k], r + k) /\ r + k <= top2
    OBVIOUS
  <2>1. CASE k = l + 1
    <3>1. t[k] = b /\ InPlace(list, ends, b, r + (l + 1)) /\ r + (l + 1) <= top2
      BY <1>1, <1>3, <2>1
    <3> QED
      BY <2>1, <3>1
  <2>2. CASE k \in 1..l
    <3>1. t[k] = s[k] /\ InPlace(list, ends, s[k], r + k) /\ r + k <= top
      BY <1>1, <1>2, <2>2
    <3>2. r + k \in Nat
      BY <2>2
    <3> HIDE DEF l
    <3> QED
      BY <3>1, <3>2
  <2> HIDE DEF l
  <2> QED
    BY <1>3, <2>1, <2>2
<1> QED
  BY <1>1, <1>4 DEF InStream

\* So does the loss of the last bytes.
LEMMA InStreamCut ==
    ASSUME NEW list, NEW ends, NEW s \in Seq(AnyByte), NEW t \in Seq(AnyByte),
           Len(t) <= Len(s), \A k \in 1..Len(t) : t[k] = s[k],
           NEW r, NEW top, InStream(list, ends, s, r, top)
    PROVE  InStream(list, ends, t, r, top)
<1>1. DOMAIN t = 1..Len(t) /\ DOMAIN s = 1..Len(s) /\ Len(s) \in Nat /\ Len(t) \in Nat
  OBVIOUS
<1>2. \A k \in 1..Len(t) : k \in 1..Len(s)
  BY <1>1
<1> QED
  BY <1>1, <1>2 DEF InStream

\* q is what is left of the list from its k-th file on.
AtFile(list, ends, q, k) ==
    /\ k \in 1..Len(list) /\ Len(list) \in Nat
    /\ Len(list) - Len(q) = k - 1 /\ Len(list) - Len(Tail(q)) = k
    /\ Head(q) = list[k] /\ Suffix(Tail(q), list)
    /\ offer # None /\ list[k] \in DOMAIN offer /\ Yes(chosen, list[k])
    /\ list[k] \in Nat
    /\ offer[list[k]].size \in Nat /\ offer[list[k]].path \in Paths
    /\ ends[k - 1] \in Nat /\ ends[k] \in Nat /\ ends[Len(list)] \in Nat
    /\ ends[k] = ends[k - 1] + offer[list[k]].size
    /\ ends[k] <= ends[Len(list)]

\* What is left of a list begins at one of its places.
LEMMA SuffixIsAt ==
    ASSUME NEW list \in Seq(Nat), NEW q \in Seq(Nat), q # <<>>, Suffix(q, list)
    PROVE  \E k \in 1..Len(list) :
            /\ Len(list) - Len(q) = k - 1 /\ Len(list) - Len(Tail(q)) = k
            /\ Head(q) = list[k] /\ Suffix(Tail(q), list)
<1> DEFINE L == Len(list)
           n == Len(q)
           t == Tail(q)
<1>1. L \in Nat /\ n \in Nat /\ n > 0
  OBVIOUS
<1>2. Len(t) = n - 1 /\ \A j \in 1..(n - 1) : t[j] = q[j + 1]
  OBVIOUS
<1>3. Head(q) = q[1]
  OBVIOUS
<1>4. n <= L /\ \A j \in 1..n : q[j] = list[L - n + j]
  BY DEF Suffix
<1> HIDE DEF L, n, t
<1>5. (L - n) + 1 \in 1..L /\ L - (n - 1) = (L - n) + 1 /\ 1 \in 1..n
        /\ ((L - n) + 1) - 1 = L - n
  BY <1>1, <1>4
<1>6. Head(q) = list[(L - n) + 1]
  BY <1>3, <1>4, <1>5
<1>7. n - 1 <= L /\ n - 1 \in Nat
  BY <1>1, <1>4
<1>8. \A j \in 1..(n - 1) : j + 1 \in 1..n /\ L - n + (j + 1) = L - (n - 1) + j
  BY <1>1
<1>9. \A j \in 1..(n - 1) : t[j] = list[L - (n - 1) + j]
  BY <1>2, <1>4, <1>8
<1>10. Suffix(t, list)
  BY <1>2, <1>7, <1>9 DEF Suffix, L
<1>11. L - Len(t) = (L - n) + 1
  BY <1>2, <1>5
<1>12. PICK k : k = (L - n) + 1
  OBVIOUS
<1>13. /\ k \in 1..L /\ L - n = k - 1 /\ L - Len(t) = k
       /\ Head(q) = list[k] /\ Suffix(t, list)
  BY <1>5, <1>6, <1>10, <1>11, <1>12
<1> QED
  BY <1>13 DEF L, n, t

\* The head of sendQ or recvQ is a file of the list, at its place in the stream.
LEMMA FileOfQueue ==
    ASSUME Types, NEW list, NEW ends, Plan(list, ends),
           NEW q \in Seq(Nat), q # <<>>, Suffix(q, list)
    PROVE  \E k : AtFile(list, ends, q, k)
<1>1. list \in Seq(Nat) /\ Len(list) \in Nat
  BY DEF Plan
<1>2. PICK k \in 1..Len(list) :
            /\ Len(list) - Len(q) = k - 1 /\ Len(list) - Len(Tail(q)) = k
            /\ Head(q) = list[k] /\ Suffix(Tail(q), list)
  BY <1>1, SuffixIsAt
<1>3. /\ offer # None /\ list[k] \in DOMAIN offer /\ Yes(chosen, list[k])
      /\ list[k] \in Nat
  BY <1>1, <1>2 DEF Plan
<1>4. offer[list[k]] \in FileMeta
  <2>1. offer \in Seq(FileMeta)
    BY <1>3, SessionAssumption DEF Types
  <2> QED
    BY <1>3, <2>1
<1>5. offer[list[k]].size \in Nat /\ offer[list[k]].path \in Paths
  BY <1>4, Sizes DEF FileMeta
<1>6. /\ k \in 0..Len(list) /\ k - 1 \in 0..Len(list)
      /\ Len(list) \in 0..Len(list) /\ k <= Len(list)
  BY <1>1, <1>2
<1>7. /\ ends[k - 1] \in Nat /\ ends[k] \in Nat /\ ends[Len(list)] \in Nat
      /\ ends[k] = ends[k - 1] + offer[list[k]].size
      /\ ends[k] <= ends[Len(list)]
  BY <1>2, <1>6 DEF Plan, AreEnds
<1>8. AtFile(list, ends, q, k)
  BY <1>1, <1>2, <1>3, <1>5, <1>7 DEF AtFile
<1> QED
  BY <1>8

\* The numbers that the stream is counted with.
LEMMA Counts ==
    ASSUME Base, NEW list, NEW ends, Plan(list, ends), ReceiveSide(list),
           pc["joiner"] \in {"receive", "chat"}
    PROVE  /\ Len(list) \in Nat /\ ends[Len(list)] \in Nat
           /\ Got \in Nat /\ Len(heard["joiner"]) \in Nat
           /\ said["creator"] \in Nat /\ Len(pipe["joiner"]) \in Nat
           /\ pipe["joiner"] \in Seq(AnyByte)
           /\ Len(list) - Len(recvQ) \in 0..Len(list)
           /\ ends[Len(list) - Len(recvQ)] \in Nat
           /\ ReadTo(list, ends) \in Nat
           /\ ends[Len(list)] + said["creator"] \in Nat
<1>1. Types /\ Lists /\ Phases
  BY DEF Base
<1>2. Len(list) \in Nat /\ (\A k \in 0..Len(list) : ends[k] \in Nat)
  BY DEF Plan, AreEnds
<1>3. /\ pipe["joiner"] \in Seq(AnyByte) /\ heard["joiner"] \in Seq(AnyByte)
      /\ said["creator"] \in 0..MaxLines
  BY <1>1 DEF Types, Peers
<1>4. /\ Len(heard["joiner"]) \in Nat /\ said["creator"] \in Nat
      /\ Len(pipe["joiner"]) \in Nat
  BY <1>3, Sizes
<1>5. Got \in Nat
  <2>1. created => saved[Receiving.path] \in Seq(AnyByte)
    BY <1>1 DEF Lists
  <2> QED
    BY <2>1 DEF Got
<1>6. Len(recvQ) \in Nat /\ Len(recvQ) <= Len(list)
  <2>1. recvQ \in Seq(Nat)
    BY <1>1 DEF Types
  <2>2. CASE pc["joiner"] = "receive"
    BY <2>1, <2>2 DEF ReceiveSide, Suffix
  <2>3. CASE pc["joiner"] = "chat"
    <3>1. recvQ = <<>>
      BY <1>1, <2>3 DEF Phases
    <3> QED
      BY <1>2, <3>1
  <2> QED
    BY <2>2, <2>3
<1>7. Len(list) - Len(recvQ) \in 0..Len(list) /\ Len(list) \in 0..Len(list)
  BY <1>2, <1>6
<1>8. ends[Len(list) - Len(recvQ)] \in Nat /\ ends[Len(list)] \in Nat
  BY <1>2, <1>7
<1>9. ReadTo(list, ends) \in Nat
  BY <1>4, <1>5, <1>8 DEF ReadTo
<1>10. ends[Len(list)] + said["creator"] \in Nat
  BY <1>4, <1>8
<1> QED
  BY <1>2, <1>3, <1>4, <1>5, <1>7, <1>8, <1>9, <1>10

----------------------------------------------------------------------------
\* Honest, action by action.

\* What stays when neither the list nor the files nor the stream to the joiner
\* change.
LEMMA HonestKept ==
    ASSUME NEW list, NEW ends, Honest(list, ends),
           UNCHANGED <<offer, disk, before, chosen, saved, recvQ, created,
                       sendQ, sentN>>,
           pipe'["joiner"] = pipe["joiner"],
           heard'["joiner"] = heard["joiner"],
           said'["creator"] = said["creator"],
           pc'["creator"] = "send" => pc["creator"] = "send",
           pc'["joiner"] = "receive" => pc["joiner"] = "receive",
           pc'["joiner"] \in {"receive", "chat"} =>
                /\ pc["joiner"] \in {"receive", "chat"}
                /\ pc["creator"] = "aborted" => pc'["creator"] = "aborted"
                /\ pc'["creator"] \in {"reply", "send", "chat", "ended"} =>
                    /\ pc["creator"] \in {"reply", "send", "chat", "ended"}
                    /\ pc["creator"] = "reply" <=> pc'["creator"] = "reply"
    PROVE  Honest(list, ends)'
<1>1. /\ SendSide(list) /\ ReceiveSide(list) /\ Stream(list, ends)
      /\ Prefixes /\ Complete(list) /\ HeardLines("joiner")
  BY DEF Honest
<1>2. SendSide(list)'
  BY <1>1 DEF SendSide, Suffix
<1>3. Receiving' = Receiving /\ Got' = Got /\ ReadTo(list, ends)' = ReadTo(list, ends)
  BY DEF Receiving, Got, ReadTo
<1>4. ReceiveSide(list)'
  BY <1>1, <1>3 DEF ReceiveSide, Suffix
<1>5. Stream(list, ends)'
  BY <1>1, <1>3 DEF Stream, InStream, InPlace, WrittenTo
<1>6. Prefixes'
  BY <1>1 DEF Prefixes, AcceptedFor, Begins
<1>7. Complete(list)'
  BY <1>1, <1>3 DEF Complete, Final, PathOf, Begins
<1>8. HeardLines("joiner")'
  BY <1>1, OtherPeer DEF HeardLines
<1> QED
  BY <1>2, <1>4, <1>5, <1>6, <1>7, <1>8 DEF Honest

\* Before the joiner has answered, and after it has left, there is less to
\* keep.
LEMMA HonestIdle ==
    ASSUME NEW list, NEW ends, Honest(list, ends),
           UNCHANGED <<offer, disk, before, chosen, saved, sendQ, sentN>>,
           heard'["joiner"] = heard["joiner"],
           said'["creator"] = said["creator"],
           pc'["creator"] = "send" => pc["creator"] = "send",
           pc'["joiner"] \notin {"receive", "chat"}
    PROVE  Honest(list, ends)'
<1>1. SendSide(list) /\ Prefixes /\ HeardLines("joiner")
  BY DEF Honest
<1>2. SendSide(list)'
  BY <1>1 DEF SendSide, Suffix
<1>3. ReceiveSide(list)' /\ Stream(list, ends)' /\ Complete(list)'
  BY DEF ReceiveSide, Stream, Complete
<1>4. Prefixes'
  BY <1>1 DEF Prefixes, AcceptedFor, Begins
<1>5. HeardLines("joiner")'
  BY <1>1, OtherPeer DEF HeardLines
<1> QED
  BY <1>2, <1>3, <1>4, <1>5 DEF Honest

\* The steps that change nothing of what Honest speaks of, or only while the
\* joiner has nothing to receive.
LEMMA QuietHonest ==
    ASSUME Base, NEW list, NEW ends, Honest(list, ends),
           \/ OfferFiles \/ CopyFlushes \/ SendDone \/ ReceiveDone
           \/ Talk("joiner") \/ Listen("creator") \/ UNCHANGED vars
           \/ \E p \in Peers : Spin(p)
    PROVE  Honest(list, ends)'
<1>1. Types /\ Phases
  BY DEF Base
<1>2. pc \in [Peers -> PCs] /\ pipe \in [Peers -> Seq(AnyByte)]
        /\ heard \in [Peers -> Seq(AnyByte)] /\ said \in [Peers -> 0..MaxLines]
        /\ "creator" \in Peers /\ "joiner" \in Peers
  BY <1>1 DEF Types, Peers
<1>3. CASE OfferFiles
  <2>1. /\ UNCHANGED <<envVars, recvVars, sendVars, chatVars>>
        /\ pc'["joiner"] = pc["joiner"] /\ pc["joiner"] \in {"offer", "aborted"}
        /\ pc'["creator"] # "send"
    BY <1>1, <1>2, <1>3 DEF OfferFiles, Goto, Phases
  <2> QED
    BY <2>1, HonestIdle DEF envVars, recvVars, sendVars, chatVars
<1>4. CASE CopyFlushes
  BY <1>4, HonestKept DEF CopyFlushes, envVars, recvVars, sendVars, chatVars
<1>5. CASE SendDone
  <2>1. /\ UNCHANGED <<envVars, recvVars, sendVars, pipe, chatVars>>
        /\ pc'["joiner"] = pc["joiner"] /\ pc["creator"] = "send"
        /\ pc'["creator"] = "chat"
    BY <1>1, <1>2, <1>5 DEF SendDone, Goto
  <2> QED
    BY <2>1, HonestKept DEF envVars, recvVars, sendVars, chatVars
<1>6. CASE ReceiveDone
  <2>1. /\ UNCHANGED <<envVars, recvVars, sendVars, pipe, chatVars>>
        /\ pc'["creator"] = pc["creator"] /\ pc["joiner"] = "receive"
        /\ pc'["joiner"] = "chat"
    BY <1>1, <1>2, <1>6 DEF ReceiveDone, Goto
  <2> QED
    BY <2>1, HonestKept DEF envVars, recvVars, sendVars, chatVars
<1>7. CASE Talk("joiner")
  <2>1. /\ UNCHANGED <<envVars, recvVars, sendVars, pc, heard>>
        /\ pipe' = [pipe EXCEPT !["creator"] = Append(@, Line(said["joiner"] + 1))]
        /\ said' = [said EXCEPT !["joiner"] = @ + 1]
    BY <1>7, OtherPeer DEF Talk, WriteFlushed
  <2>2. pipe'["joiner"] = pipe["joiner"] /\ said'["creator"] = said["creator"]
    BY <1>2, <2>1
  <2> QED
    BY <2>1, <2>2, HonestKept DEF envVars, recvVars, sendVars
<1>8. CASE Listen("creator")
  <2>1. /\ UNCHANGED <<envVars, recvVars, sendVars, pc, said>>
        /\ pipe' = [pipe EXCEPT !["creator"] = Tail(@)]
        /\ heard' = [heard EXCEPT !["creator"] =
                            Append(@, Head(pipe["creator"]))]
    BY <1>8 DEF Listen, Read
  <2>2. pipe'["joiner"] = pipe["joiner"] /\ heard'["joiner"] = heard["joiner"]
    BY <1>2, <2>1
  <2> QED
    BY <2>1, <2>2, HonestKept DEF envVars, recvVars, sendVars
<1>9. CASE UNCHANGED vars
  BY <1>9, HonestKept DEF vars
<1>10. ASSUME NEW p \in Peers, Spin(p)
       PROVE  Honest(list, ends)'
  <2>1. /\ UNCHANGED <<envVars, recvVars, sendVars, pipe, held, chatVars>>
        /\ pc' = [pc EXCEPT ![p] = "stuck"] /\ Gone(Other(p))
    BY <1>10 DEF Spin, Goto
  <2>2. pc'["joiner"] \notin {"receive", "chat"} /\ (pc'["creator"] = "send" => pc["creator"] = "send")
    BY <1>2, <2>1, OtherPeer DEF Gone, Peers
  <2> QED
    BY <2>1, <2>2, HonestIdle DEF envVars, recvVars, sendVars, chatVars
<1> QED
  BY <1>3, <1>4, <1>5, <1>6, <1>7, <1>8, <1>9, <1>10

\* A chat without files: what is under way behind the offer is lines.
LEMMA ReadOfferHonest ==
    ASSUME Base, NEW list, NEW ends, Plan(list, ends), Honest(list, ends),
           ReadOffer
    PROVE  Honest(list, ends)'
<1>1. Types /\ Phases /\ OfferUnderWay
  BY DEF Base
<1>2. /\ pc["joiner"] = "offer" /\ Read("joiner")
      /\ pc' = [pc EXCEPT !["joiner"] =
                    IF offer = None THEN "chat" ELSE "dialog"]
      /\ UNCHANGED <<envVars, recvVars, sendVars, chatVars>>
  BY DEF ReadOffer, Goto
<1>3. /\ pc'["joiner"] = IF offer = None THEN "chat" ELSE "dialog"
      /\ pc'["creator"] = pc["creator"]
  BY <1>1, <1>2 DEF Types, Peers
<1>4. CASE offer # None
  BY <1>2, <1>3, <1>4, HonestIdle DEF envVars, recvVars, sendVars, chatVars
<1>5. CASE offer = None
  <2>1. /\ SendSide(list) /\ ReceiveSide(list)
        /\ Prefixes /\ HeardLines("joiner")
    BY DEF Honest
  <2>2. SendSide(list)'
    BY <1>2, <1>3, <2>1 DEF SendSide, Suffix, envVars, sendVars
  <2>3. ReceiveSide(list)'
    BY <1>3, <1>5 DEF ReceiveSide
  <2>4. Prefixes'
    BY <1>2, <2>1 DEF Prefixes, AcceptedFor, Begins, envVars, recvVars
  <2>5. Complete(list)'
    BY <1>2, <1>5 DEF Complete, envVars
  <2>6. HeardLines("joiner")'
    BY <1>2, <2>1, OtherPeer DEF HeardLines, chatVars
  <2>7. Stream(list, ends)'
    <3> DEFINE s == pipe["joiner"]
               t == pipe'["joiner"]
               n == said["creator"]
    <3>1. list = <<>> /\ Len(list) = 0 /\ ends[0] = 0
      BY <1>5 DEF Plan, AreEnds
    <3>2. recvQ' = <<>> /\ created' = FALSE /\ heard'["joiner"] = <<>>
            /\ Len(recvQ') = 0 /\ Len(heard'["joiner"]) = 0 /\ said' = said
      BY <1>1, <1>2 DEF Phases, Types, recvVars, chatVars
    <3>3. ReadTo(list, ends)' = 0
      BY <3>1, <3>2 DEF ReadTo, Got
    <3>4. Shorter(t, s) /\ s \in Seq(AnyByte) /\ n \in Nat
      BY <1>1, <1>2, Reading, Sizes DEF Types, Peers
    <3>5. s # <<>> /\ MessageAndLines(s, FileOffer) /\ Len(s) <= 1 + n
            /\ (pc["creator"] \in {"chat", "ended"} => Len(s) = 1 + n)
      BY <1>1, <1>2, <3>4 DEF OfferUnderWay, Shorter
    <3> HIDE DEF s, t, n
    <3>6. /\ Len(t) = Len(s) - 1 /\ Len(s) \in Nat /\ Len(s) > 0
          /\ DOMAIN t = 1..Len(t) /\ Len(t) \in Nat
          /\ \A k \in 1..Len(t) : t[k] = s[k + 1]
      BY <3>4 DEF Shorter
    <3>7. \A k \in 1..Len(t) : t[k] = Line(k)
      <4> SUFFICES ASSUME NEW k \in 1..Len(t)
                   PROVE  t[k] = Line(k)
        OBVIOUS
      <4>1. k + 1 \in 2..Len(s) /\ (k + 1) - 1 = k
        BY <3>6
      <4>2. s[k + 1] = Line((k + 1) - 1)
        BY <3>5, <4>1 DEF MessageAndLines
      <4> QED
        BY <3>6, <4>1, <4>2
    <3>8. Len(t) <= n /\ (pc["creator"] \in {"chat", "ended"} => Len(t) = n)
      <4>1. Len(s) <= 1 + n /\ (pc["creator"] \in {"chat", "ended"} => Len(s) = 1 + n)
        BY <3>5
      <4> QED
        BY <3>4, <3>6, <4>1
    <3>9. InStream(list, ends, t, 0, 0 + n)
      <4> SUFFICES ASSUME NEW k \in 1..Len(t)
                   PROVE  InPlace(list, ends, t[k], 0 + k) /\ 0 + k <= 0 + n
        BY <3>6 DEF InStream
      <4>1. 0 + k = k /\ k > 0 /\ k <= n /\ k - 0 = k /\ 0 + n = n
        BY <3>4, <3>6, <3>8
      <4>2. t[k] = Line(k)
        BY <3>7
      <4>3. InPlace(list, ends, t[k], k)
        BY <3>1, <4>1, <4>2 DEF InPlace
      <4> QED
        BY <4>1, <4>3
    <3>10. pc'["creator"] \in {"reply", "send", "chat", "ended"} =>
                pc["creator"] \in {"chat", "ended"}
      BY <1>1, <1>3, <1>5 DEF Phases
    <3>11. pc["creator"] \in {"chat", "ended"} => WrittenTo(list, ends)' = n
      <4>1. pc["creator"] \in {"chat", "ended"} =>
                /\ Len(sendQ') = 0 /\ sentN' = 0 /\ pc'["creator"] # "reply"
        BY <1>1, <1>2, <1>3 DEF Phases, sendVars
      <4>2. said'["creator"] = n
        BY <3>2 DEF n
      <4> QED
        BY <3>1, <3>4, <4>1, <4>2 DEF WrittenTo
    <3>12. ends[Len(list)] + said'["creator"] = 0 + n
      BY <3>1, <3>2 DEF n
    <3>13. pc["creator"] \in {"chat", "ended"} =>
                0 + Len(t) = WrittenTo(list, ends)'
      BY <3>4, <3>6, <3>8, <3>11
    <3> QED
      BY <3>3, <3>9, <3>10, <3>12, <3>13 DEF Stream, t
  <2> QED
    BY <2>2, <2>3, <2>4, <2>5, <2>6, <2>7 DEF Honest
<1> QED
  BY <1>4, <1>5

\* With the answer the two sides agree on the list; nothing is under way yet.
LEMMA ConfirmReceiveHonest ==
    ASSUME Base, NEW first, SendSide(first), NEW n \in 1..3, ConfirmReceive(n),
           NEW list, NEW ends, Plan(list, ends)', list = Taken'
    PROVE  Honest(list, ends)'
<1>1. Types /\ Phases /\ OfferUnderWay
  BY DEF Base
<1>2. /\ pc["joiner"] = "dialog" /\ chosen' = Choice(n)
      /\ recvQ' = Accepted(offer, Choice(n))
      /\ pipe' = [pipe EXCEPT !["creator"] = Append(@, FileAccept)]
      /\ pc' = [pc EXCEPT !["joiner"] = "receive"]
      /\ UNCHANGED <<envVars, saved, created, sendVars, chatVars>>
  BY OtherPeer DEF ConfirmReceive, WriteFlushed, Goto
<1>3. /\ pc'["joiner"] = "receive" /\ pc'["creator"] = pc["creator"]
      /\ pipe'["joiner"] = <<>> /\ offer # None
      /\ created' = FALSE /\ saved' = before' /\ heard'["joiner"] = <<>>
      /\ said'["creator"] \in Nat
  BY <1>1, <1>2, Sizes
     DEF Types, Peers, Phases, OfferUnderWay, envVars, chatVars
<1>4. recvQ' = list /\ Len(list) \in Nat /\ ends[0] = 0
  BY <1>2, <1>3 DEF Taken, Plan, AreEnds, envVars
<1>5. pc["creator"] \notin {"offer", "send", "chat", "ended", "stuck"}
  BY <1>1, <1>2, <1>3 DEF Phases, Gone
<1>6. SendSide(list)'
  <2>1. \A i \in DOMAIN offer' : disk'[i] = offer'[i].size
    BY <1>2, <1>3 DEF SendSide, envVars
  <2> QED
    BY <1>3, <1>5, <2>1 DEF SendSide
<1>7. ReceiveSide(list)'
  <2>1. Suffix(list, list)
    BY <1>4 DEF Suffix
  <2> QED
    BY <1>3, <1>4, <2>1 DEF ReceiveSide
<1>8. ReadTo(list, ends)' = 0
  <2>1. Len(list) - Len(list) = 0 /\ Len(<<>>) = 0 /\ 0 + 0 + 0 = 0
    BY <1>4
  <2>2. Got' = 0
    BY <1>3 DEF Got
  <2> QED
    BY <1>3, <1>4, <2>1, <2>2 DEF ReadTo
<1>9. Stream(list, ends)'
  <2>1. DOMAIN pipe'["joiner"] = {} /\ Len(pipe'["joiner"]) = 0 /\ 0 + 0 = 0
    BY <1>3
  <2>2. InStream(list, ends, pipe'["joiner"], ReadTo(list, ends)',
                 ends[Len(list)] + said'["creator"])
    BY <2>1 DEF InStream
  <2>3. pc'["creator"] \in {"reply", "send", "chat", "ended"} =>
            WrittenTo(list, ends)' = 0
    BY <1>3, <1>5 DEF WrittenTo
  <2> QED
    BY <1>8, <2>1, <2>2, <2>3 DEF Stream
<1>10. Prefixes'
  BY <1>3 DEF Prefixes
<1>11. Complete(list)'
  <2>1. Len(list) - Len(recvQ') = 0 /\ 1..0 = {}
    BY <1>4
  <2>2. \A p \in Paths : Final(list, 0, p)'
    BY <1>3, <2>1 DEF Final
  <2> QED
    BY <2>1, <2>2 DEF Complete
<1>12. HeardLines("joiner")'
  <2>1. Len(heard'["joiner"]) = 0 /\ DOMAIN heard'["joiner"] = {}
    BY <1>3
  <2> QED
    BY <1>3, <2>1, OtherPeer DEF HeardLines
<1> QED
  BY <1>6, <1>7, <1>9, <1>10, <1>11, <1>12 DEF Honest

\* The parts of Honest that the creator's steps leave alone.
LEMMA CreatorLeaves ==
    ASSUME NEW list, NEW ends, Honest(list, ends),
           UNCHANGED <<offer, disk, before, chosen, saved, recvQ, created>>,
           heard'["joiner"] = heard["joiner"],
           pc'["joiner"] = pc["joiner"],
           pc["creator"] = "aborted" => pc'["creator"] = "aborted"
    PROVE  /\ ReceiveSide(list)' /\ Prefixes' /\ Complete(list)'
           /\ ReadTo(list, ends)' = ReadTo(list, ends)
<1>1. ReceiveSide(list) /\ Prefixes /\ Complete(list)
  BY DEF Honest
<1>2. Receiving' = Receiving /\ Got' = Got /\ ReadTo(list, ends)' = ReadTo(list, ends)
  BY DEF Receiving, Got, ReadTo
<1>3. ReceiveSide(list)'
  BY <1>1, <1>2 DEF ReceiveSide, Suffix
<1>4. Prefixes'
  BY <1>1 DEF Prefixes, AcceptedFor, Begins
<1>5. Complete(list)'
  BY <1>1, <1>2 DEF Complete, Final, PathOf, Begins
<1> QED
  BY <1>2, <1>3, <1>4, <1>5

\* The creator comes to the same list as the joiner.
LEMMA ReadAcceptHonest ==
    ASSUME Base, NEW list, NEW ends, Plan(list, ends), Honest(list, ends),
           list = Taken, ReadAccept
    PROVE  Honest(list, ends)'
<1>1. Types /\ Phases
  BY DEF Base
<1>2. /\ pc["creator"] = "reply" /\ sendQ' = Accepted(offer, chosen)
      /\ pipe' = [pipe EXCEPT !["creator"] = Tail(@)]
      /\ pc' = [pc EXCEPT !["creator"] = "send"]
      /\ UNCHANGED <<envVars, recvVars, sentN, chatVars>>
  BY DEF ReadAccept, Read, Goto
<1>3. /\ pc'["creator"] = "send" /\ pc'["joiner"] = pc["joiner"]
      /\ pipe'["joiner"] = pipe["joiner"] /\ offer # None
      /\ sentN' = 0 /\ said' = said /\ said["creator"] = 0
  BY <1>1, <1>2 DEF Types, Phases, Peers, chatVars
<1>4. sendQ' = list /\ Len(list) \in Nat /\ list \in Seq(Nat) /\ ends[0] = 0
  BY <1>2, <1>3 DEF Taken, Plan, AreEnds
<1>5. /\ ReceiveSide(list)' /\ Prefixes' /\ Complete(list)'
      /\ ReadTo(list, ends)' = ReadTo(list, ends)
  BY <1>2, <1>3, CreatorLeaves DEF envVars, recvVars, chatVars
<1>6. SendSide(list)'
  <2>1. Suffix(list, list)
    BY <1>4 DEF Suffix
  <2>2. list # <<>> => sentN' <= offer'[Head(list)].size
    <3> SUFFICES ASSUME list # <<>>
                 PROVE  0 <= offer[Head(list)].size
      BY <1>2, <1>3 DEF envVars
    <3>1. PICK k : AtFile(list, ends, list, k)
      BY <1>1, <1>4, <2>1, FileOfQueue
    <3>2. offer[Head(list)].size \in Nat
      BY <3>1 DEF AtFile
    <3> QED
      BY <3>2
  <2>3. \A i \in DOMAIN offer' : disk'[i] = offer'[i].size
    BY <1>2, <1>3 DEF Honest, SendSide, envVars
  <2> QED
    BY <1>3, <1>4, <2>1, <2>2, <2>3 DEF SendSide
<1>7. Stream(list, ends)'
  <2>1. WrittenTo(list, ends) = 0
    BY <1>2 DEF WrittenTo
  <2>2. WrittenTo(list, ends)' = 0
    <3>1. Len(list) - Len(list) = 0 /\ 0 + 0 + 0 = 0
      BY <1>4
    <3>2. said'["creator"] = 0
      BY <1>3
    <3> QED
      BY <1>3, <1>4, <3>1, <3>2 DEF WrittenTo
  <2>3. Stream(list, ends)
    BY DEF Honest
  <2> QED
    BY <1>2, <1>3, <1>5, <2>1, <2>2, <2>3 DEF Stream
<1>8. HeardLines("joiner")'
  <2>1. HeardLines("joiner") /\ heard' = heard
    BY <1>2 DEF Honest, chatVars
  <2> QED
    BY <1>3, <2>1 DEF HeardLines
<1> QED
  BY <1>5, <1>6, <1>7, <1>8 DEF Honest

\* A byte of the file at hand stands at its place in the stream.
LEMMA SendByteHonest ==
    ASSUME Base, NEW list, NEW ends, Plan(list, ends), Honest(list, ends),
           SendByte
    PROVE  Honest(list, ends)'
<1>1. Types /\ Phases
  BY DEF Base
<1>2. /\ pc["creator"] = "send" /\ sendQ # <<>> /\ sentN < disk[Head(sendQ)]
      /\ pipe' = [pipe EXCEPT !["joiner"] =
                        Append(@, Byte(Head(sendQ), sentN + 1))]
      /\ sentN' = sentN + 1
      /\ UNCHANGED <<envVars, recvVars, pc, sendQ, chatVars>>
  BY DEF SendByte, Write
<1>3. SendSide(list) /\ Stream(list, ends) /\ HeardLines("joiner") /\ ReceiveSide(list)
  BY DEF Honest
<1>4. Suffix(sendQ, list) /\ sendQ \in Seq(Nat) /\ sentN \in Nat
  BY <1>1, <1>2, <1>3, Sizes DEF SendSide, Types
<1>5. PICK k : AtFile(list, ends, sendQ, k)
  BY <1>1, <1>2, <1>4, FileOfQueue
<1> DEFINE size == offer[list[k]].size
           b == Byte(list[k], sentN + 1)
<1>6. disk[Head(sendQ)] = size /\ Head(sendQ) = list[k] /\ size \in Nat
  BY <1>3, <1>5 DEF AtFile, SendSide
<1>7. sentN < size /\ sentN + 1 <= size
  BY <1>2, <1>4, <1>6
<1>8. /\ ReceiveSide(list)' /\ Prefixes' /\ Complete(list)'
      /\ ReadTo(list, ends)' = ReadTo(list, ends)
  BY <1>2, CreatorLeaves DEF envVars, recvVars, chatVars
<1>9. SendSide(list)'
  <2>1. sentN' <= offer'[Head(sendQ')].size
    BY <1>2, <1>6, <1>7 DEF envVars
  <2> QED
    BY <1>2, <1>3, <2>1 DEF SendSide, Suffix, envVars
<1>10. HeardLines("joiner")'
  BY <1>2, <1>3 DEF HeardLines, chatVars
<1>11. Stream(list, ends)'
  <2> SUFFICES ASSUME pc["joiner"] \in {"receive", "chat"}
               PROVE  /\ InStream(list, ends, pipe'["joiner"],
                                  ReadTo(list, ends),
                                  ends[Len(list)] + said["creator"])
                      /\ ReadTo(list, ends) + Len(pipe'["joiner"]) =
                            WrittenTo(list, ends)'
    BY <1>2, <1>8 DEF Stream, chatVars
  <2>1. PICK s : s = pipe["joiner"]
    OBVIOUS
  <2>2. PICK t : t = pipe'["joiner"]
    OBVIOUS
  <2>3. PICK r : r = ReadTo(list, ends)
    OBVIOUS
  <2>4. PICK w : w = WrittenTo(list, ends)
    OBVIOUS
  <2>5. PICK e : e = ends[k - 1]
    OBVIOUS
  <2>6. PICK top : top = ends[Len(list)] + said["creator"]
    OBVIOUS
  <2>7. r \in Nat /\ s \in Seq(AnyByte) /\ Len(s) \in Nat /\ top \in Nat
    BY <1>3, <2>1, <2>3, <2>6, Counts
  <2>8. InStream(list, ends, s, r, top) /\ r + Len(s) = w
    BY <1>2, <1>3, <2>1, <2>3, <2>4, <2>6 DEF Stream
  <2>9. b \in AnyByte
    BY <1>4, <1>5, Bytes DEF AtFile
  <2>10. Longer(t, s, b)
    BY <1>1, <1>2, <1>6, <2>1, <2>2, <2>9, Writing DEF Peers
  <2>11. said["creator"] = 0
    BY <1>1, <1>2 DEF Phases
  <2>12. e \in Nat /\ Len(list) - Len(sendQ) = k - 1 /\ ends[k] = e + size
            /\ ends[k] <= ends[Len(list)] /\ ends[Len(list)] \in Nat
    BY <1>5, <2>5 DEF AtFile
  <2>13. w = e + sentN
    <3>1. w = e + sentN + 0
      BY <1>2, <2>4, <2>5, <2>11, <2>12 DEF WrittenTo
    <3> QED
      BY <1>4, <2>12, <3>1
  <2>14. WrittenTo(list, ends)' = e + sentN + 1
    <3>1. said'["creator"] = 0 /\ pc'["creator"] # "reply" /\ sendQ' = sendQ
      BY <1>2, <2>11 DEF chatVars
    <3>2. WrittenTo(list, ends)' = e + (sentN + 1) + 0
      BY <1>2, <2>5, <2>12, <3>1 DEF WrittenTo
    <3> QED
      BY <1>4, <2>12, <3>2
  <2> HIDE DEF b, size
  <2>15. InPlace(list, ends, b, w + 1)
    <3>1. k \in 1..Len(list)
      BY <1>5 DEF AtFile
    <3>2. e < w + 1 /\ w + 1 <= e + size /\ (w + 1) - e = sentN + 1
      BY <1>4, <1>6, <1>7, <2>12, <2>13
    <3>3. b = Byte(list[k], (w + 1) - e)
      BY <3>2 DEF b
    <3> QED
      BY <2>5, <2>12, <3>1, <3>2, <3>3 DEF InPlace
  <2>16. w + 1 <= top /\ w \in Nat
    <3>1. top = ends[Len(list)]
      BY <2>6, <2>11, <2>12
    <3> QED
      BY <1>4, <1>6, <1>7, <2>12, <2>13, <3>1
  <2>17. InStream(list, ends, t, r, top)
    <3>1. r + Len(s) + 1 = w + 1 /\ top <= top
      BY <2>7, <2>8
    <3> QED
      BY <2>7, <2>8, <2>10, <2>15, <2>16, <3>1, InStreamWrite
  <2>18. r + Len(t) = e + sentN + 1
    <3>1. Len(t) = Len(s) + 1
      BY <2>10 DEF Longer
    <3>2. PICK l : l = Len(s)
      OBVIOUS
    <3>3. r + l = e + sentN /\ Len(t) = l + 1 /\ l \in Nat
      BY <2>7, <2>8, <2>13, <3>1, <3>2
    <3>4. r + (l + 1) = e + sentN + 1
      BY <1>4, <2>7, <2>12, <3>3
    <3> QED
      BY <3>3, <3>4
  <2> QED
    BY <2>2, <2>3, <2>6, <2>14, <2>17, <2>18
<1> QED
  BY <1>8, <1>9, <1>10, <1>11 DEF Honest

\* At the end of a file the next one begins at the same place.
LEMMA SendNextHonest ==
    ASSUME Base, NEW list, NEW ends, Plan(list, ends), Honest(list, ends),
           SendNext
    PROVE  Honest(list, ends)'
<1>1. Types /\ Phases
  BY DEF Base
<1>2. /\ pc["creator"] = "send" /\ sendQ # <<>> /\ sentN >= disk[Head(sendQ)]
      /\ sendQ' = Tail(sendQ) /\ sentN' = 0
      /\ UNCHANGED <<envVars, recvVars, pc, pipe, chatVars>>
  BY DEF SendNext
<1>3. SendSide(list) /\ Stream(list, ends) /\ HeardLines("joiner")
  BY DEF Honest
<1>4. Suffix(sendQ, list) /\ sendQ \in Seq(Nat) /\ sentN \in Nat
        /\ sentN <= offer[Head(sendQ)].size
  BY <1>1, <1>2, <1>3, Sizes DEF SendSide, Types
<1>5. PICK k : AtFile(list, ends, sendQ, k)
  BY <1>1, <1>2, <1>4, FileOfQueue
<1> DEFINE size == offer[list[k]].size
<1>6. disk[Head(sendQ)] = size /\ Head(sendQ) = list[k] /\ size \in Nat
  BY <1>3, <1>5 DEF AtFile, SendSide
<1>7. sentN = size
  BY <1>2, <1>4, <1>6
<1>8. /\ ReceiveSide(list)' /\ Prefixes' /\ Complete(list)'
      /\ ReadTo(list, ends)' = ReadTo(list, ends)
  BY <1>2, CreatorLeaves DEF envVars, recvVars, chatVars
<1>9. SendSide(list)'
  <2>1. Suffix(Tail(sendQ), list)
    BY <1>5 DEF AtFile
  <2>2. Tail(sendQ) # <<>> => 0 <= offer[Head(Tail(sendQ))].size
    <3> SUFFICES ASSUME Tail(sendQ) # <<>>
                 PROVE  0 <= offer[Head(Tail(sendQ))].size
      OBVIOUS
    <3>1. Tail(sendQ) \in Seq(Nat)
      BY <1>2, <1>4
    <3>2. PICK l : AtFile(list, ends, Tail(sendQ), l)
      BY <1>1, <2>1, <3>1, FileOfQueue
    <3>3. offer[Head(Tail(sendQ))].size \in Nat
      BY <3>2 DEF AtFile
    <3> QED
      BY <3>3
  <2>3. sendQ' # <<>> => sentN' <= offer'[Head(sendQ')].size
    BY <1>2, <2>2 DEF envVars
  <2>4. Suffix(sendQ', list)
    BY <1>2, <2>1
  <2>5. offer' # None => \A i \in DOMAIN offer' : disk'[i] = offer'[i].size
    BY <1>2, <1>3 DEF SendSide, envVars
  <2> QED
    BY <2>3, <2>4, <2>5 DEF SendSide
<1>10. HeardLines("joiner")'
  BY <1>2, <1>3 DEF HeardLines, chatVars
<1>11. WrittenTo(list, ends)' = WrittenTo(list, ends)
  <2>1. /\ ends[k - 1] \in Nat /\ ends[k] = ends[k - 1] + size
        /\ Len(list) - Len(sendQ) = k - 1 /\ Len(list) - Len(Tail(sendQ)) = k
    BY <1>5 DEF AtFile
  <2>2. said["creator"] = 0 /\ said' = said /\ pc' = pc
    BY <1>1, <1>2 DEF Phases, chatVars
  <2>3. said'["creator"] = 0 /\ pc'["creator"] # "reply"
    BY <1>2, <2>2
  <2>4. WrittenTo(list, ends) = ends[k - 1] + sentN + 0
    BY <1>2, <2>1, <2>2 DEF WrittenTo
  <2>5. WrittenTo(list, ends)' = ends[k] + 0 + 0
    BY <1>2, <2>1, <2>3 DEF WrittenTo
  <2> HIDE DEF size
  <2> QED
    BY <1>6, <1>7, <2>1, <2>4, <2>5
<1>12. Stream(list, ends)'
  BY <1>2, <1>3, <1>8, <1>11 DEF Stream, chatVars
<1> QED
  BY <1>8, <1>9, <1>10, <1>12 DEF Honest

\* The parts of Honest that the joiner's steps leave alone.
LEMMA JoinerLeaves ==
    ASSUME NEW list, NEW ends, Honest(list, ends),
           UNCHANGED <<offer, disk, sendQ, sentN>>,
           pc'["creator"] = pc["creator"], said'["creator"] = said["creator"]
    PROVE  SendSide(list)' /\ WrittenTo(list, ends)' = WrittenTo(list, ends)
<1>1. SendSide(list)
  BY DEF Honest
<1> QED
  BY <1>1 DEF SendSide, Suffix, WrittenTo

\* The steps of receive_files touch only the path of the file at hand.
LEMMA FinalKept ==
    ASSUME NEW list, NEW n, NEW p, Final(list, n, p),
           UNCHANGED <<offer, before>>, saved'[p] = saved[p]
    PROVE  Final(list, n, p)'
BY DEF Final, PathOf, Begins

\* The file at hand was accepted, under its path.
LEMMA BeginsAccepted ==
    ASSUME NEW list, NEW ends, NEW k, AtFile(list, ends, recvQ, k)
    PROVE  list[k] \in AcceptedFor(Receiving.path) /\ Receiving = offer[list[k]]
BY DEF AtFile, AcceptedFor, Yes, Receiving

\* Prefixes needs a look only at the path that is written.
LEMMA PrefixesKept ==
    ASSUME Prefixes, NEW q, UNCHANGED <<offer, before, chosen>>,
           \A p \in Paths : p # q => saved'[p] = saved[p],
           \E i \in AcceptedFor(q) : Begins(saved'[q], i)
    PROVE  Prefixes'
<1> SUFFICES ASSUME NEW p \in Paths
             PROVE  \/ saved'[p] = before[p]
                    \/ \E i \in AcceptedFor(p) : Begins(saved'[p], i)
  BY DEF Prefixes, AcceptedFor, Begins
<1>1. CASE p = q
  BY <1>1
<1>2. CASE p # q
  <2>1. saved'[p] = saved[p]
    BY <1>2
  <2> QED
    BY <2>1 DEF Prefixes
<1> QED
  BY <1>1, <1>2

\* An empty file is the beginning of the file at hand.
LEMMA CreateFileHonest ==
    ASSUME Base, NEW list, NEW ends, Plan(list, ends), Honest(list, ends),
           CreateFile
    PROVE  Honest(list, ends)'
<1>1. Types /\ Lists /\ Phases
  BY DEF Base
<1>2. /\ pc["joiner"] = "receive" /\ recvQ # <<>> /\ ~created /\ created' = TRUE
      /\ saved' = [saved EXCEPT ![Receiving.path] = <<>>]
      /\ UNCHANGED <<envVars, pc, option, chosen, recvQ, sendVars, pipe, held,
                     chatVars>>
  BY DEF CreateFile, Receiving
<1>3. /\ ReceiveSide(list) /\ Stream(list, ends) /\ Prefixes
      /\ Complete(list) /\ HeardLines("joiner")
  BY DEF Honest
<1>4. PICK k : AtFile(list, ends, recvQ, k)
  BY <1>1, <1>2, <1>3, FileOfQueue DEF ReceiveSide, Types
<1>5. SendSide(list)' /\ WrittenTo(list, ends)' = WrittenTo(list, ends)
  BY <1>2, JoinerLeaves DEF envVars, sendVars, chatVars
<1>6. HeardLines("joiner")'
  BY <1>2, <1>3 DEF HeardLines, chatVars
<1>7. /\ Receiving.path \in Paths /\ Receiving' = Receiving
      /\ list[k] \in AcceptedFor(Receiving.path) /\ Receiving = offer[list[k]]
      /\ Receiving.size \in Nat
  BY <1>2, <1>4, BeginsAccepted DEF Receiving, AtFile, envVars
<1>8. /\ saved'[Receiving.path] = <<>>
      /\ \A p \in Paths : p # Receiving.path => saved'[p] = saved[p]
  BY <1>1, <1>2, <1>7 DEF Types
<1>9. Got = 0 /\ Got' = 0
  BY <1>2, <1>7, <1>8 DEF Got
<1>10. ReadTo(list, ends)' = ReadTo(list, ends)
  BY <1>2, <1>9 DEF ReadTo, chatVars
<1>11. ReceiveSide(list)'
  <2>1. Suffix(recvQ', list)
    BY <1>2, <1>3 DEF ReceiveSide
  <2>2. 1..0 = {}
    OBVIOUS
  <2> QED
    BY <1>9, <2>1, <2>2 DEF ReceiveSide
<1>12. Stream(list, ends)'
  BY <1>2, <1>3, <1>5, <1>10 DEF Stream, chatVars
<1>13. Prefixes'
  <2>1. Begins(<<>>, list[k])
    BY <1>7 DEF Begins
  <2> QED
    BY <1>2, <1>3, <1>7, <1>8, <2>1, PrefixesKept DEF envVars
<1>14. Complete(list)'
  <2> SUFFICES ASSUME pc'["creator"] # "aborted", NEW p \in Paths,
                      p # Receiving.path
               PROVE  Final(list, Len(list) - Len(recvQ), p)'
    BY <1>2, <1>7 DEF Complete
  <2>1. Final(list, Len(list) - Len(recvQ), p)
    BY <1>2, <1>3, <1>4 DEF Complete, AtFile
  <2>2. saved'[p] = saved[p] /\ UNCHANGED <<offer, before, recvQ>>
    BY <1>2, <1>8 DEF envVars
  <2>3. PICK n : n = Len(list) - Len(recvQ)
    OBVIOUS
  <2>4. n = Len(list) - Len(recvQ')
    BY <2>2, <2>3
  <2>5. Final(list, n, p)'
    BY <2>1, <2>2, <2>3, FinalKept
  <2> QED
    BY <2>4, <2>5
<1> QED
  BY <1>5, <1>6, <1>11, <1>12, <1>13, <1>14 DEF Honest

\* The byte that is read is the next one of the file at hand.
LEMMA ReceiveByteHonest ==
    ASSUME Base, NEW list, NEW ends, Plan(list, ends), Honest(list, ends),
           ReceiveByte
    PROVE  Honest(list, ends)'
<1>1. Types /\ Lists /\ Phases
  BY DEF Base
<1>2. /\ pc["joiner"] = "receive" /\ created /\ ~AllTaken /\ Read("joiner")
      /\ saved' = [saved EXCEPT ![Receiving.path] =
                        Append(@, Head(pipe["joiner"]))]
      /\ UNCHANGED <<envVars, pc, option, chosen, recvQ, created, sendVars,
                     chatVars>>
  BY DEF ReceiveByte
<1>3. /\ ReceiveSide(list) /\ Stream(list, ends) /\ Prefixes
      /\ Complete(list) /\ HeardLines("joiner")
  BY DEF Honest
<1>4. recvQ # <<>> /\ recvQ \in Seq(Nat) /\ heard["joiner"] = <<>>
  BY <1>1, <1>2 DEF Lists, Types, Phases
<1>5. PICK k : AtFile(list, ends, recvQ, k)
  BY <1>1, <1>2, <1>3, <1>4, FileOfQueue DEF ReceiveSide
<1>6. SendSide(list)' /\ WrittenTo(list, ends)' = WrittenTo(list, ends)
  BY <1>2, JoinerLeaves DEF envVars, sendVars, chatVars
<1>7. HeardLines("joiner")'
  BY <1>2, <1>3 DEF HeardLines, chatVars
<1>8. /\ Receiving.path \in Paths /\ Receiving' = Receiving
      /\ list[k] \in AcceptedFor(Receiving.path) /\ Receiving = offer[list[k]]
      /\ Receiving.size \in Nat /\ Head(recvQ) = list[k]
  BY <1>2, <1>5, BeginsAccepted DEF Receiving, AtFile, envVars
<1>9. PICK s : s = pipe["joiner"]
  OBVIOUS
<1>10. PICK t : t = pipe'["joiner"]
  OBVIOUS
<1>11. PICK f : f = saved[Receiving.path]
  OBVIOUS
<1>12. PICK g : g = saved'[Receiving.path]
  OBVIOUS
<1>13. PICK r : r = ReadTo(list, ends)
  OBVIOUS
<1>14. PICK top : top = ends[Len(list)] + said["creator"]
  OBVIOUS
<1>15. PICK size : size = Receiving.size
  OBVIOUS
<1>16. PICK e : e = ends[k - 1]
  OBVIOUS
<1>17. /\ f \in Seq(AnyByte) /\ Len(f) \in Nat /\ Len(f) <= size
       /\ Len(f) # size /\ size \in Nat
  BY <1>1, <1>2, <1>8, <1>11, <1>15 DEF Lists, AllTaken
<1>18. /\ Shorter(t, s) /\ s[1] \in AnyByte /\ Head(pipe["joiner"]) = s[1]
       /\ s \in Seq(AnyByte)
  BY <1>1, <1>2, <1>9, <1>10, Reading DEF Peers, Types
<1>19. /\ g = Append(f, s[1])
       /\ \A p \in Paths : p # Receiving.path => saved'[p] = saved[p]
  BY <1>1, <1>2, <1>8, <1>11, <1>12, <1>18 DEF Types
<1>20. Longer(g, f, s[1])
  BY <1>17, <1>18, <1>19, AppendIsLonger
<1>21. r \in Nat /\ top \in Nat
  BY <1>2, <1>3, <1>13, <1>14, Counts
<1>22. InStream(list, ends, s, r, top)
  BY <1>2, <1>3, <1>9, <1>13, <1>14 DEF Stream
<1>23. /\ InPlace(list, ends, s[1], r + 1) /\ r + 1 <= top
       /\ InStream(list, ends, t, r + 1, top)
  BY <1>18, <1>21, <1>22, InStreamRead
<1>24. /\ e \in Nat /\ ends[k] = e + size /\ k \in 1..Len(list)
       /\ Len(list) - Len(recvQ) = k - 1 /\ Len(list) \in Nat
  BY <1>5, <1>8, <1>15, <1>16 DEF AtFile
<1>25. Got = Len(f) /\ Got' = Len(f) + 1 /\ created'
  <2>1. Len(g) = Len(f) + 1
    BY <1>20 DEF Longer
  <2> QED
    BY <1>2, <1>8, <1>11, <1>12, <2>1 DEF Got
<1>26. r = e + Len(f)
  <2>1. r = e + Len(f) + 0
    BY <1>4, <1>13, <1>16, <1>24, <1>25 DEF ReadTo
  <2> QED
    BY <1>17, <1>24, <2>1
<1>27. ReadTo(list, ends)' = r + 1
  <2>1. Len(heard'["joiner"]) = 0 /\ recvQ' = recvQ
    BY <1>2, <1>4 DEF chatVars
  <2>2. ReadTo(list, ends)' = e + (Len(f) + 1) + 0
    BY <1>16, <1>24, <1>25, <2>1 DEF ReadTo
  <2> QED
    BY <1>17, <1>24, <1>26, <2>2
<1>28. s[1] = Byte(list[k], Len(f) + 1)
  <2>1. ends[k - 1] < r + 1 /\ r + 1 <= ends[k] /\ (r + 1) - ends[k - 1] = Len(f) + 1
    <3>1. PICK l : l = Len(f)
      OBVIOUS
    <3>2. l \in Nat /\ size \in Nat /\ l < size /\ r = e + l /\ e \in Nat
      BY <1>17, <1>24, <1>26, <3>1
    <3>3. e < r + 1 /\ r + 1 <= e + size /\ (r + 1) - e = l + 1
      BY <3>2
    <3>4. ends[k - 1] = e /\ ends[k] = e + size
      BY <1>16, <1>24
    <3> QED
      BY <3>1, <3>3, <3>4
  <2>2. r + 1 \in Nat /\ AreEnds(offer, list, ends)
    BY <1>21 DEF Plan
  <2>3. s[1] = Byte(list[k], (r + 1) - ends[k - 1])
    BY <1>23, <1>24, <2>1, <2>2, InFile
  <2> QED
    BY <2>1, <2>3
<1>29. Begins(g, list[k])
  <2>1. /\ g \in Seq(AnyByte) /\ Len(g) = Len(f) + 1 /\ g[Len(f) + 1] = s[1]
        /\ \A n \in 1..Len(f) : g[n] = f[n]
    BY <1>20 DEF Longer
  <2>2. \A n \in 1..Len(f) : f[n] = Byte(list[k], n)
    BY <1>2, <1>3, <1>8, <1>11, <1>25 DEF ReceiveSide
  <2>3. Len(f) + 1 <= size
    BY <1>17
  <2>4. \A n \in 1..(Len(f) + 1) : n \in 1..Len(f) \/ n = Len(f) + 1
    BY <1>17
  <2>5. \A n \in 1..(Len(f) + 1) : g[n] = Byte(list[k], n)
    BY <1>28, <2>1, <2>2, <2>4
  <2> QED
    BY <1>8, <1>15, <2>1, <2>3, <2>5 DEF Begins
<1>30. ReceiveSide(list)'
  <2>1. Suffix(recvQ', list) /\ Head(recvQ') = list[k]
    BY <1>2, <1>3, <1>8 DEF ReceiveSide
  <2>2. Len(g) = Len(f) + 1
    BY <1>20 DEF Longer
  <2>3. \A n \in 1..Got' : saved'[Receiving'.path][n] = Byte(Head(recvQ'), n)
    BY <1>8, <1>12, <1>25, <1>29, <2>1, <2>2 DEF Begins
  <2> QED
    BY <2>1, <2>3 DEF ReceiveSide
<1>31. Stream(list, ends)'
  <2> SUFFICES ASSUME TRUE
               PROVE  /\ InStream(list, ends, t, r + 1, top)
                      /\ pc["creator"] \in {"reply", "send", "chat", "ended"} =>
                            (r + 1) + Len(t) = WrittenTo(list, ends)
    BY <1>2, <1>6, <1>10, <1>14, <1>27 DEF Stream, chatVars
  <2>1. pc["creator"] \in {"reply", "send", "chat", "ended"} =>
            r + Len(s) = WrittenTo(list, ends)
    BY <1>2, <1>3, <1>9, <1>13 DEF Stream
  <2>2. Len(t) = Len(s) - 1 /\ Len(s) \in Nat
    BY <1>18 DEF Shorter
  <2>3. (r + 1) + Len(t) = r + Len(s)
    BY <1>21, <2>2
  <2> QED
    BY <1>23, <2>1, <2>3
<1>32. Prefixes'
  BY <1>2, <1>3, <1>8, <1>12, <1>19, <1>29, PrefixesKept DEF envVars
<1>33. Complete(list)'
  <2> SUFFICES ASSUME pc'["creator"] # "aborted", NEW p \in Paths,
                      p # Receiving.path
               PROVE  Final(list, Len(list) - Len(recvQ), p)'
    BY <1>2, <1>8 DEF Complete
  <2>1. Final(list, Len(list) - Len(recvQ), p)
    BY <1>2, <1>3, <1>5 DEF Complete, AtFile
  <2>2. saved'[p] = saved[p] /\ UNCHANGED <<offer, before, recvQ>>
    BY <1>2, <1>19 DEF envVars
  <2>3. PICK n : n = Len(list) - Len(recvQ)
    OBVIOUS
  <2>4. n = Len(list) - Len(recvQ')
    BY <2>2, <2>3
  <2>5. Final(list, n, p)'
    BY <2>1, <2>2, <2>3, FinalKept
  <2> QED
    BY <2>4, <2>5
<1> QED
  BY <1>6, <1>7, <1>30, <1>31, <1>32, <1>33 DEF Honest

\* One file more does not matter to another path.
LEMMA FinalNext ==
    ASSUME NEW list, NEW k \in Nat \ {0}, NEW p, Final(list, k - 1, p),
           PathOf(list, k) # p
    PROVE  Final(list, k, p)
<1>1. ASSUME \A j \in 1..k : PathOf(list, j) # p
      PROVE  saved[p] = before[p]
  <2>1. \A j \in 1..(k - 1) : PathOf(list, j) # p
    BY <1>1
  <2> QED
    BY <2>1 DEF Final
<1>2. ASSUME NEW j \in 1..k, PathOf(list, j) = p,
             \A l \in (j + 1)..k : PathOf(list, l) # p
      PROVE  Begins(saved[p], list[j]) /\ Len(saved[p]) = offer[list[j]].size
  <2>1. j # k
    BY <1>2
  <2>2. j \in 1..(k - 1)
    BY <2>1
  <2>3. \A l \in (j + 1)..(k - 1) : PathOf(list, l) # p
    BY <1>2
  <2> QED
    BY <1>2, <2>2, <2>3 DEF Final
<1> QED
  BY <1>1, <1>2 DEF Final

\* The last file of a path decides.
LEMMA FinalHere ==
    ASSUME NEW list, NEW k \in Nat \ {0}, NEW p, PathOf(list, k) = p,
           Begins(saved[p], list[k]), Len(saved[p]) = offer[list[k]].size
    PROVE  Final(list, k, p)
<1>1. k \in 1..k
  OBVIOUS
<1>2. ASSUME NEW j \in 1..k, \A l \in (j + 1)..k : PathOf(list, l) # p
      PROVE  j = k
  <2>1. k \notin (j + 1)..k
    BY <1>2
  <2> QED
    BY <2>1
<1> QED
  BY <1>1, <1>2 DEF Final

\* copy_buf returns before the file is whole only if the creator was cut off:
\* the stream of a creator that has come to its chat has all the bytes.
LEMMA ReceiveNextHonest ==
    ASSUME Base, NEW list, NEW ends, Plan(list, ends), Honest(list, ends),
           ReceiveNext
    PROVE  Honest(list, ends)'
<1>1. Types /\ Lists /\ Phases
  BY DEF Base
<1>2. /\ pc["joiner"] = "receive" /\ created
      /\ AllTaken \/ AtEof("joiner")
      /\ recvQ' = Tail(recvQ) /\ created' = FALSE
      /\ UNCHANGED <<envVars, pc, saved, option, chosen, sendVars, pipe, held,
                     chatVars>>
  BY DEF ReceiveNext
<1>3. /\ ReceiveSide(list) /\ Stream(list, ends) /\ Prefixes
      /\ Complete(list) /\ HeardLines("joiner")
  BY DEF Honest
<1>4. recvQ # <<>> /\ recvQ \in Seq(Nat) /\ heard["joiner"] = <<>>
  BY <1>1, <1>2 DEF Lists, Types, Phases
<1>5. PICK k : AtFile(list, ends, recvQ, k)
  BY <1>1, <1>2, <1>3, <1>4, FileOfQueue DEF ReceiveSide
<1>6. SendSide(list)' /\ WrittenTo(list, ends)' = WrittenTo(list, ends)
  BY <1>2, JoinerLeaves DEF envVars, sendVars, chatVars
<1>7. HeardLines("joiner")'
  BY <1>2, <1>3 DEF HeardLines, chatVars
<1>8. /\ Receiving = offer[list[k]] /\ Receiving.size \in Nat
      /\ Head(recvQ) = list[k] /\ Receiving.path \in Paths
  BY <1>5, BeginsAccepted DEF AtFile
<1>9. PICK f : f = saved[Receiving.path]
  OBVIOUS
<1>10. PICK size : size = Receiving.size
  OBVIOUS
<1>11. PICK e : e = ends[k - 1]
  OBVIOUS
<1>12. /\ f \in Seq(AnyByte) /\ Len(f) \in Nat /\ Len(f) <= size /\ size \in Nat
       /\ AllTaken <=> Len(f) = size
  BY <1>1, <1>2, <1>8, <1>9, <1>10 DEF Lists, AllTaken
<1>13. /\ e \in Nat /\ ends[k] = e + size /\ k \in 1..Len(list)
       /\ Len(list) - Len(recvQ) = k - 1 /\ Len(list) - Len(recvQ') = k
       /\ ends[k] <= ends[Len(list)] /\ ends[k] \in Nat
       /\ ends[Len(list)] \in Nat /\ Suffix(recvQ', list) /\ Len(list) \in Nat
  BY <1>2, <1>5, <1>8, <1>10, <1>11 DEF AtFile
<1>14. ReadTo(list, ends) = e + Len(f)
  <2>1. Got = Len(f)
    BY <1>2, <1>9 DEF Got
  <2>2. ReadTo(list, ends) = e + Len(f) + 0
    BY <1>4, <1>11, <1>13, <2>1 DEF ReadTo
  <2> QED
    BY <1>12, <1>13, <2>2
<1>15. ReadTo(list, ends)' = e + size
  <2>1. Got' = 0 /\ Len(heard'["joiner"]) = 0
    BY <1>2, <1>4 DEF Got, chatVars
  <2>2. ReadTo(list, ends)' = ends[k] + 0 + 0
    BY <1>13, <2>1 DEF ReadTo
  <2> QED
    BY <1>13, <2>2
<1>16. ASSUME ~AllTaken
       PROVE  pipe["joiner"] = <<>> /\ pc["creator"] = "aborted"
  <2>1. Gone("creator") /\ ~(Len(pipe["joiner"]) > held)
    BY <1>2, <1>16, OtherPeer DEF AtEof, Arrived
  <2>2. held = 0
    BY <1>1, <2>1 DEF Phases, Gone
  <2>3. pipe["joiner"] \in Seq(AnyByte) /\ Len(pipe["joiner"]) \in Nat
    BY <1>1 DEF Types, Peers
  <2>4. Len(pipe["joiner"]) = 0
    BY <2>1, <2>2, <2>3
  <2>5. pipe["joiner"] = <<>>
    BY <2>3, <2>4
  <2>6. ASSUME pc["creator"] = "ended"
        PROVE  FALSE
    <3>1. e + Len(f) + 0 = WrittenTo(list, ends)
      BY <1>2, <1>3, <1>14, <2>4, <2>6 DEF Stream
    <3>2. Len(sendQ) = 0 /\ sentN = 0
      BY <1>1, <2>6 DEF Phases
    <3>3. Len(list) - 0 = Len(list)
      BY <1>13
    <3>4. WrittenTo(list, ends) = ends[Len(list)] + 0 + said["creator"]
      BY <2>6, <3>2, <3>3 DEF WrittenTo
    <3>5. said["creator"] \in Nat
      BY <1>1, Sizes DEF Types, Peers
    <3>6. Len(f) < size
      BY <1>12, <1>16
    <3> QED
      BY <1>12, <1>13, <3>1, <3>4, <3>5, <3>6
  <2> QED
    BY <2>1, <2>5, <2>6 DEF Gone
<1>17. ReceiveSide(list)'
  BY <1>2, <1>13 DEF ReceiveSide
<1>18. Stream(list, ends)'
  <2>1. CASE AllTaken
    <3>1. ReadTo(list, ends)' = ReadTo(list, ends)
      BY <1>12, <1>14, <1>15, <2>1
    <3> QED
      BY <1>2, <1>3, <1>6, <3>1 DEF Stream, chatVars
  <2>2. CASE ~AllTaken
    <3>1. DOMAIN pipe'["joiner"] = {} /\ pc'["creator"] = "aborted"
      BY <1>2, <1>16, <2>2
    <3> QED
      BY <3>1 DEF Stream, InStream
  <2> QED
    BY <2>1, <2>2
<1>19. Prefixes'
  BY <1>2, <1>3 DEF Prefixes, AcceptedFor, Begins, envVars
<1>20. Complete(list)'
  <2> SUFFICES ASSUME pc["creator"] # "aborted", NEW p \in Paths
               PROVE  Final(list, k, p)'
    BY <1>2, <1>13 DEF Complete
  <2>1. AllTaken
    BY <1>16
  <2>2. k \in Nat \ {0} /\ PathOf(list, k) = Receiving.path
    BY <1>8, <1>13 DEF PathOf
  <2>3. Final(list, k, p)
    <3>1. CASE p = Receiving.path
      <4>1. \A n \in 1..Len(f) : f[n] = Byte(list[k], n)
        BY <1>2, <1>3, <1>8, <1>9 DEF ReceiveSide, Got
      <4>2. Begins(f, list[k])
        BY <1>8, <1>10, <1>12, <4>1 DEF Begins
      <4>3. Len(f) = offer[list[k]].size
        BY <1>8, <1>10, <1>12, <2>1
      <4> QED
        BY <1>9, <2>2, <3>1, <4>2, <4>3, FinalHere
    <3>2. CASE p # Receiving.path
      <4>1. Final(list, k - 1, p)
        BY <1>2, <1>3, <1>5, <1>13, <3>2 DEF Complete, AtFile
      <4> QED
        BY <2>2, <3>2, <4>1, FinalNext
    <3> QED
      BY <3>1, <3>2
  <2> QED
    BY <1>2, <2>3, FinalKept DEF envVars
<1> QED
  BY <1>6, <1>7, <1>17, <1>18, <1>19, <1>20 DEF Honest

\* A line of the creator comes after all files and earlier lines.
LEMMA CreatorTalksHonest ==
    ASSUME Base, NEW list, NEW ends, Plan(list, ends), Honest(list, ends),
           Talk("creator")
    PROVE  Honest(list, ends)'
<1>1. Types /\ Phases
  BY DEF Base
<1>2. /\ pc["creator"] = "chat"
      /\ said' = [said EXCEPT !["creator"] = @ + 1]
      /\ pipe' = [pipe EXCEPT !["joiner"] = Append(@, Line(said["creator"] + 1))]
      /\ UNCHANGED <<envVars, recvVars, sendVars, pc, heard>>
  BY OtherPeer DEF Talk, WriteFlushed
<1>3. SendSide(list) /\ Stream(list, ends) /\ HeardLines("joiner") /\ ReceiveSide(list)
  BY DEF Honest
<1>4. PICK n : n = said["creator"]
  OBVIOUS
<1>5. n \in Nat /\ said'["creator"] = n + 1
  BY <1>1, <1>2, <1>4, Sizes DEF Types, Peers
<1>6. /\ ReceiveSide(list)' /\ Prefixes' /\ Complete(list)'
      /\ ReadTo(list, ends)' = ReadTo(list, ends)
  BY <1>2, CreatorLeaves DEF envVars, recvVars
<1>7. SendSide(list)'
  BY <1>2, <1>3 DEF SendSide, Suffix, envVars, sendVars
<1>8. HeardLines("joiner")'
  <2>1. Len(heard["joiner"]) <= n /\ \A j \in DOMAIN heard["joiner"] : heard["joiner"][j] = Line(j)
    BY <1>3, <1>4, OtherPeer DEF HeardLines
  <2>2. heard["joiner"] \in Seq(AnyByte)
    BY <1>1 DEF Types, Peers
  <2>3. Len(heard["joiner"]) \in Nat
    BY <2>2
  <2>4. Len(heard["joiner"]) <= n + 1
    BY <1>5, <2>1, <2>3
  <2> QED
    BY <1>2, <1>5, <2>1, <2>4, OtherPeer DEF HeardLines
<1>9. Stream(list, ends)'
  <2> SUFFICES ASSUME pc["joiner"] \in {"receive", "chat"}
               PROVE  /\ InStream(list, ends, pipe'["joiner"],
                                  ReadTo(list, ends),
                                  ends[Len(list)] + said'["creator"])
                      /\ ReadTo(list, ends) + Len(pipe'["joiner"]) =
                            WrittenTo(list, ends)'
    BY <1>2, <1>6 DEF Stream
  <2>1. PICK s : s = pipe["joiner"]
    OBVIOUS
  <2>2. PICK t : t = pipe'["joiner"]
    OBVIOUS
  <2>3. PICK r : r = ReadTo(list, ends)
    OBVIOUS
  <2>4. PICK e : e = ends[Len(list)]
    OBVIOUS
  <2>5. /\ r \in Nat /\ s \in Seq(AnyByte) /\ Len(s) \in Nat /\ e \in Nat
        /\ Len(list) \in Nat
    BY <1>3, <2>1, <2>3, <2>4, Counts
  <2>6. Line(n + 1) \in AnyByte
    BY <1>5, Bytes
  <2>7. Longer(t, s, Line(n + 1))
    BY <1>1, <1>2, <1>4, <2>1, <2>2, <2>6, Writing DEF Peers
  <2>8. Len(sendQ) = 0 /\ sentN = 0 /\ Len(sendQ') = 0 /\ sentN' = 0
          /\ pc'["creator"] = "chat" /\ Len(list) - 0 = Len(list)
    BY <1>1, <1>2, <2>5 DEF Phases, sendVars
  <2>9. WrittenTo(list, ends) = e + 0 + n
    BY <1>2, <1>4, <2>4, <2>8 DEF WrittenTo
  <2>10. WrittenTo(list, ends)' = e + 0 + (n + 1)
    BY <1>5, <2>4, <2>8 DEF WrittenTo
  <2>11. InStream(list, ends, s, r, e + n) /\ r + Len(s) = e + 0 + n
    BY <1>2, <1>3, <1>4, <2>1, <2>3, <2>4, <2>9 DEF Stream
  <2>12. InPlace(list, ends, Line(n + 1), e + n + 1)
    <3>1. e + n + 1 > e /\ (e + n + 1) - e = n + 1
      BY <1>5, <2>5
    <3> QED
      BY <2>4, <3>1 DEF InPlace
  <2>13. /\ r + Len(s) + 1 = e + n + 1 /\ e + n <= e + (n + 1)
         /\ e + n + 1 <= e + (n + 1) /\ e + n \in Nat /\ e + (n + 1) \in Nat
    <3>1. r + Len(s) = e + 0 + n
      BY <2>11
    <3> QED
      BY <1>5, <2>5, <3>1
  <2>14. InStream(list, ends, t, r, e + (n + 1))
    BY <2>5, <2>7, <2>11, <2>12, <2>13, InStreamWrite
  <2>15. r + Len(t) = e + 0 + (n + 1)
    <3>1. Len(t) = Len(s) + 1
      BY <2>7 DEF Longer
    <3>2. r + Len(s) = e + 0 + n
      BY <2>11
    <3> QED
      BY <1>5, <2>5, <3>1, <3>2
  <2> QED
    BY <1>5, <2>2, <2>3, <2>4, <2>10, <2>14, <2>15
<1> QED
  BY <1>6, <1>7, <1>8, <1>9 DEF Honest

\* The joiner reads behind all files: what it shows is the next line.
LEMMA JoinerListensHonest ==
    ASSUME Base, NEW list, NEW ends, Plan(list, ends), Honest(list, ends),
           Listen("joiner")
    PROVE  Honest(list, ends)'
<1>1. Types /\ Phases
  BY DEF Base
<1>2. /\ pc["joiner"] = "chat" /\ Read("joiner")
      /\ heard' = [heard EXCEPT !["joiner"] = Append(@, Head(pipe["joiner"]))]
      /\ UNCHANGED <<envVars, recvVars, sendVars, pc, said>>
  BY DEF Listen
<1>3. /\ ReceiveSide(list) /\ Stream(list, ends) /\ Prefixes
      /\ Complete(list) /\ HeardLines("joiner")
  BY DEF Honest
<1>4. recvQ = <<>> /\ ~created /\ Len(recvQ) = 0
  BY <1>1, <1>2 DEF Phases
<1>5. SendSide(list)' /\ WrittenTo(list, ends)' = WrittenTo(list, ends)
  BY <1>2, JoinerLeaves DEF envVars, sendVars
<1>6. ReceiveSide(list)' /\ Prefixes'
  BY <1>2, <1>3 DEF ReceiveSide, Prefixes, AcceptedFor, Begins, envVars, recvVars
<1>7. Complete(list)'
  <2> SUFFICES ASSUME offer # None, pc["creator"] # "aborted",
                      NEW p \in Paths
               PROVE  Final(list, Len(list) - Len(recvQ), p)'
    BY <1>2 DEF Complete, envVars
  <2>1. Final(list, Len(list) - Len(recvQ), p)
    BY <1>2, <1>3, <1>4 DEF Complete
  <2>2. PICK n : n = Len(list) - Len(recvQ)
    OBVIOUS
  <2>3. n = Len(list) - Len(recvQ') /\ saved'[p] = saved[p]
    BY <1>2, <2>2 DEF recvVars
  <2>4. Final(list, n, p)'
    BY <1>2, <2>1, <2>2, <2>3, FinalKept DEF envVars
  <2> QED
    BY <2>3, <2>4
<1>8. PICK s : s = pipe["joiner"]
  OBVIOUS
<1>9. PICK t : t = pipe'["joiner"]
  OBVIOUS
<1>10. PICK h : h = heard["joiner"]
  OBVIOUS
<1>11. PICK r : r = ReadTo(list, ends)
  OBVIOUS
<1>12. PICK e : e = ends[Len(list)]
  OBVIOUS
<1>13. PICK n : n = said["creator"]
  OBVIOUS
<1>14. /\ r \in Nat /\ e \in Nat /\ n \in Nat /\ e + n \in Nat
       /\ Len(list) \in Nat /\ Len(list) - 0 = Len(list)
  BY <1>2, <1>3, <1>11, <1>12, <1>13, Counts
<1>15. /\ Shorter(t, s) /\ s[1] \in AnyByte /\ Head(pipe["joiner"]) = s[1]
       /\ s \in Seq(AnyByte) /\ h \in Seq(AnyByte) /\ Len(h) \in Nat
  BY <1>1, <1>2, <1>8, <1>9, <1>10, Reading DEF Peers, Types
<1>16. heard'["joiner"] = Append(h, s[1])
  BY <1>1, <1>2, <1>10, <1>15 DEF Types, Peers
<1>17. PICK g : g = heard'["joiner"]
  OBVIOUS
<1>18. Longer(g, h, s[1])
  BY <1>15, <1>16, <1>17, AppendIsLonger
<1>19. Got = 0 /\ Got' = 0
  BY <1>2, <1>4 DEF Got, recvVars
<1>20. r = e + Len(h)
  <2>1. r = e + 0 + Len(h)
    BY <1>4, <1>10, <1>11, <1>12, <1>14, <1>19 DEF ReadTo
  <2> QED
    BY <1>14, <1>15, <2>1
<1>21. ReadTo(list, ends)' = r + 1
  <2>1. Len(g) = Len(h) + 1
    BY <1>18 DEF Longer
  <2>2. Len(recvQ') = 0
    BY <1>2, <1>4 DEF recvVars
  <2>3. ReadTo(list, ends)' = e + 0 + Len(g)
    BY <1>12, <1>14, <1>17, <1>19, <2>2 DEF ReadTo
  <2> QED
    BY <1>14, <1>15, <1>20, <2>1, <2>3
<1>22. InStream(list, ends, s, r, e + n)
  BY <1>2, <1>3, <1>8, <1>11, <1>12, <1>13 DEF Stream
<1>23. /\ InPlace(list, ends, s[1], r + 1) /\ r + 1 <= e + n
       /\ InStream(list, ends, t, r + 1, e + n)
  BY <1>14, <1>15, <1>22, InStreamRead
<1>24. s[1] = Line(Len(h) + 1)
  <2>1. r + 1 > e /\ (r + 1) - e = Len(h) + 1 /\ r + 1 \in Nat
    BY <1>14, <1>15, <1>20
  <2>2. AreEnds(offer, list, ends)
    BY DEF Plan
  <2>3. s[1] = Line((r + 1) - e)
    BY <1>12, <1>14, <1>23, <2>1, <2>2, AfterFiles
  <2> QED
    BY <2>1, <2>3
<1>25. HeardLines("joiner")'
  <2>1. /\ Len(g) = Len(h) + 1 /\ g[Len(h) + 1] = s[1] /\ DOMAIN g = 1..Len(g)
        /\ \A j \in 1..Len(h) : g[j] = h[j]
    BY <1>18 DEF Longer
  <2>2. \A j \in 1..Len(h) : h[j] = Line(j)
    BY <1>3, <1>10, <1>15 DEF HeardLines
  <2>3. Len(h) + 1 <= n
    BY <1>14, <1>15, <1>20, <1>23
  <2>4. \A j \in 1..(Len(h) + 1) : j \in 1..Len(h) \/ j = Len(h) + 1
    BY <1>15
  <2>5. \A j \in 1..(Len(h) + 1) : g[j] = Line(j)
    BY <1>24, <2>1, <2>2, <2>4
  <2>6. said'["creator"] = n
    BY <1>2, <1>13
  <2> QED
    BY <1>17, <2>1, <2>3, <2>5, <2>6, OtherPeer DEF HeardLines
<1>26. Stream(list, ends)'
  <2> SUFFICES ASSUME TRUE
               PROVE  /\ InStream(list, ends, t, r + 1, e + n)
                      /\ pc["creator"] \in {"reply", "send", "chat", "ended"} =>
                            (r + 1) + Len(t) = WrittenTo(list, ends)
    BY <1>2, <1>5, <1>9, <1>12, <1>13, <1>21 DEF Stream
  <2>1. pc["creator"] \in {"reply", "send", "chat", "ended"} =>
            r + Len(s) = WrittenTo(list, ends)
    BY <1>2, <1>3, <1>8, <1>11 DEF Stream
  <2>2. Len(t) = Len(s) - 1 /\ Len(s) \in Nat
    BY <1>15 DEF Shorter
  <2>3. (r + 1) + Len(t) = r + Len(s)
    BY <1>14, <2>2
  <2> QED
    BY <1>23, <2>1, <2>3
<1> QED
  BY <1>5, <1>6, <1>7, <1>25, <1>26 DEF Honest

\* A creator that leaves the chat has sent everything; one that leaves before
\* cuts the stream short, and what is left of it is still in place.
LEMMA LeaveHonest ==
    ASSUME Base, NEW list, NEW ends, Honest(list, ends),
           NEW p \in Peers, Leaves(p)
    PROVE  Honest(list, ends)'
<1>1. Types /\ Phases
  BY DEF Base
<1>2. UNCHANGED <<envVars, recvVars, sendVars, chatVars>>
  BY DEF Leaves
<1>3. /\ pc'[p] = IF pc[p] = "chat" THEN "ended" ELSE "aborted"
      /\ \A q \in Peers : q # p => pc'[q] = pc[q]
      /\ pipe' \in [Peers -> Seq(AnyByte)]
      /\ Len(pipe'["joiner"]) <= Len(pipe["joiner"])
      /\ \A k \in 1..Len(pipe'["joiner"]) :
            pipe'["joiner"][k] = pipe["joiner"][k]
      /\ pc["creator"] # "send" => pipe' = pipe
  BY <1>1, LeaveEffect
<1>4. CASE p = "joiner"
  <2>1. pc'["joiner"] \in {"ended", "aborted"} /\ pc'["creator"] = pc["creator"]
    BY <1>3, <1>4 DEF Peers
  <2> QED
    BY <1>2, <2>1, HonestIdle DEF envVars, recvVars, sendVars, chatVars
<1>5. CASE p = "creator" /\ pc["creator"] = "chat"
  <2>1. /\ pc'["creator"] = "ended" /\ pc'["joiner"] = pc["joiner"]
        /\ pipe' = pipe
    BY <1>3, <1>5 DEF Peers
  <2> QED
    BY <1>2, <1>5, <2>1, HonestKept DEF envVars, recvVars, sendVars, chatVars
<1>6. CASE p = "creator" /\ pc["creator"] # "chat"
  <2>1. pc'["creator"] = "aborted" /\ pc'["joiner"] = pc["joiner"]
    BY <1>3, <1>6 DEF Peers
  <2>2. /\ ReceiveSide(list)' /\ Prefixes' /\ Complete(list)'
        /\ ReadTo(list, ends)' = ReadTo(list, ends)
    BY <1>2, <2>1, CreatorLeaves DEF envVars, recvVars, chatVars
  <2>3. SendSide(list) /\ Stream(list, ends) /\ HeardLines("joiner")
    BY DEF Honest
  <2>4. SendSide(list)'
    BY <1>2, <2>1, <2>3 DEF SendSide, envVars
  <2>5. HeardLines("joiner")'
    BY <1>2, <2>3 DEF HeardLines, chatVars
  <2>6. pipe["joiner"] \in Seq(AnyByte) /\ pipe'["joiner"] \in Seq(AnyByte)
    BY <1>1, <1>3 DEF Types, Peers
  <2>7. PICK top : top = ends[Len(list)] + said["creator"]
    OBVIOUS
  <2>8. ASSUME pc["joiner"] \in {"receive", "chat"}
        PROVE  InStream(list, ends, pipe'["joiner"], ReadTo(list, ends), top)
    <3>1. InStream(list, ends, pipe["joiner"], ReadTo(list, ends), top)
      BY <2>3, <2>7, <2>8 DEF Stream
    <3> QED
      BY <1>3, <2>6, <3>1, InStreamCut
  <2>9. Stream(list, ends)'
    BY <1>2, <2>1, <2>2, <2>7, <2>8 DEF Stream, chatVars
  <2> QED
    BY <2>2, <2>4, <2>5, <2>9 DEF Honest
<1> QED
  BY <1>4, <1>5, <1>6 DEF Peers

LEMMA InitHonest ==
    ASSUME Init, NEW list, NEW ends
    PROVE  Honest(list, ends)
<1>1. pc["joiner"] = "offer" /\ pc["creator"] = "offer"
  BY DEF Init, Peers
<1>2. SendSide(list)
  BY <1>1 DEF SendSide, Init
<1>3. ReceiveSide(list) /\ Stream(list, ends) /\ Complete(list)
  BY <1>1 DEF ReceiveSide, Stream, Complete
<1>4. Prefixes
  BY DEF Prefixes, Init
<1>5. HeardLines("joiner")
  <2>1. heard["joiner"] = <<>> /\ said["creator"] = 0
    BY DEF Init, Peers
  <2> QED
    BY <2>1, OtherPeer DEF HeardLines
<1> QED
  BY <1>2, <1>3, <1>4, <1>5 DEF Honest

\* Every step but the answer, and a file that changes.
LEMMA PlannedStep ==
    ASSUME Base, NEW list, NEW ends, Plan(list, ends), Honest(list, ends),
           list = Taken,
           \/ CreatorSteps \/ CopyFlushes \/ JoinerSteps
           \/ \E p \in Peers : ListenSteps(p) \/ Talk(p) \/ Quit(p)
           \/ UNCHANGED vars
    PROVE  Honest(list, ends)' /\ UNCHANGED <<offer, chosen, changed>>
<1>1. CASE CreatorSteps \/ CopyFlushes
  <2>1. Honest(list, ends)'
    BY <1>1, QuietHonest, ReadAcceptHonest, SendByteHonest, SendNextHonest
       DEF CreatorSteps
  <2>2. UNCHANGED <<offer, chosen, changed>>
    BY <1>1 DEF CreatorSteps, CopyFlushes, OfferFiles, ReadAccept, SendByte,
                SendNext, SendDone, envVars, recvVars
  <2> QED
    BY <2>1, <2>2
<1>2. CASE JoinerSteps
  <2>1. Honest(list, ends)'
    BY <1>2, QuietHonest, ReadOfferHonest, CreateFileHonest, ReceiveByteHonest,
       ReceiveNextHonest DEF JoinerSteps
  <2>2. UNCHANGED <<offer, chosen, changed>>
    BY <1>2 DEF JoinerSteps, ReadOffer, CreateFile, ReceiveByte, ReceiveNext,
                ReceiveDone, envVars, recvVars
  <2> QED
    BY <2>1, <2>2
<1>3. ASSUME NEW p \in Peers, ListenSteps(p) \/ Talk(p) \/ Quit(p)
      PROVE  Honest(list, ends)' /\ UNCHANGED <<offer, chosen, changed>>
  <2>1. UNCHANGED <<offer, chosen, changed>>
    BY <1>3 DEF ListenSteps, Listen, NotUtf8, PeerIsGone, Spin, Talk, Quit,
                envVars, recvVars
  <2>2. CASE Listen(p)
    BY <2>1, <2>2, QuietHonest, JoinerListensHonest DEF Peers
  <2>3. CASE Talk(p)
    BY <2>1, <2>3, QuietHonest, CreatorTalksHonest DEF Peers
  <2>4. CASE NotUtf8(p) \/ PeerIsGone(p) \/ Quit(p)
    BY <2>1, <2>4, WhoLeaves, LeaveHonest
  <2>5. CASE Spin(p)
    BY <2>1, <2>5, QuietHonest
  <2> QED
    BY <1>3, <2>2, <2>3, <2>4, <2>5 DEF ListenSteps
<1>4. CASE UNCHANGED vars
  BY <1>4, QuietHonest DEF vars
<1> QED
  BY <1>1, <1>2, <1>3, <1>4

LEMMA IInvStep ==
    ASSUME IInv, [Next]_vars
    PROVE  IInv'
<1>1. Base /\ Base'
  BY BaseStep DEF IInv
<1>2. CASE FileChanges
  <2>1. changed' = TRUE
    BY <1>2 DEF FileChanges
  <2> QED
    BY <1>1, <2>1 DEF IInv
<1>3. ASSUME NEW n \in 1..3, ConfirmReceive(n)
      PROVE  IInv'
  <2> SUFFICES ASSUME ~changed'
               PROVE  \E list \in {Taken'}, ends \in {Ends'} :
                            Honest(list, ends)'
    BY <1>1 DEF IInv
  <2>1. ~changed
    BY <1>3 DEF ConfirmReceive, envVars
  <2>2. PICK first : SendSide(first)
    BY <2>1 DEF IInv, Honest
  <2>3. PICK list : list = Taken'
    OBVIOUS
  <2>4. PICK ends : ends = Ends'
    OBVIOUS
  <2>5. Types => Plan(Taken, Ends)
    BY TakenIsPlan
  <2>6. Types' => Plan(Taken, Ends)'
    BY TakenIsPlan, PTL
  <2>7. Plan(list, ends)'
    BY <1>1, <2>3, <2>4, <2>6 DEF Base, Plan
  <2>8. Honest(list, ends)'
    BY <1>1, <1>3, <2>2, <2>3, <2>7, ConfirmReceiveHonest
  <2> QED
    BY <2>3, <2>4, <2>8
<1>4. ASSUME \/ CreatorSteps \/ CopyFlushes \/ JoinerSteps
             \/ \E p \in Peers : ListenSteps(p) \/ Talk(p) \/ Quit(p)
             \/ UNCHANGED vars
      PROVE  IInv'
  <2>1. PICK list : list = Taken
    OBVIOUS
  <2>2. PICK ends : ends = Ends
    OBVIOUS
  <2>3. Plan(list, ends)
    BY <1>1, <2>1, <2>2, TakenIsPlan DEF Base
  <2>4. CASE changed
    <3>1. changed' = changed
      BY <1>4 DEF CreatorSteps, CopyFlushes, OfferFiles, ReadAccept, SendByte,
                SendNext, SendDone, JoinerSteps, ReadOffer, CreateFile,
                ReceiveByte, ReceiveNext, ReceiveDone, ListenSteps, Listen,
                NotUtf8, PeerIsGone, Spin, Talk, Quit, vars, envVars
    <3> QED
      BY <1>1, <2>4, <3>1 DEF IInv
  <2>5. CASE ~changed
    <3>1. Honest(list, ends)
      BY <2>1, <2>2, <2>5 DEF IInv
    <3>2. Honest(list, ends)' /\ UNCHANGED <<offer, chosen, changed>>
      BY <1>1, <1>4, <2>1, <2>3, <3>1, PlannedStep
    <3>3. Taken' = list /\ Ends' = ends
      BY <2>1, <2>2, <2>3, <3>2, PlanStays
    <3> QED
      BY <1>1, <3>2, <3>3 DEF IInv
  <2> QED
    BY <2>4, <2>5
<1> QED
  BY <1>2, <1>3, <1>4 DEF Next

LEMMA IInvAlways == Spec => []IInv
<1>1. Init => IInv
  BY InitBase, InitHonest DEF IInv
<1>2. IInv /\ [Next]_vars => IInv'
  BY IInvStep
<1> QED
  BY <1>1, <1>2, PTL DEF Spec

----------------------------------------------------------------------------
\* The properties.

\* The beginning of a file, in the words of SavedIsPrefix and of Expected.
LEMMA BeginsIsPrefix ==
    ASSUME NEW s, NEW i, Begins(s, i)
    PROVE  /\ IsPrefixOf(s, Whole(i))
           /\ Len(s) = offer[i].size => s = Whole(i)
<1>1. PICK m : m = offer[i].size
  OBVIOUS
<1>2. PICK w : w = Whole(i)
  OBVIOUS
<1>3. /\ s \in Seq(AnyByte) /\ m \in Nat /\ Len(s) \in Nat /\ Len(s) <= m
      /\ \A n \in 1..Len(s) : s[n] = Byte(i, n)
  BY <1>1 DEF Begins
<1>4. w = [n \in 1..m |-> Byte(i, n)]
  BY <1>1, <1>2 DEF Whole
<1>5. Len(w) = m /\ DOMAIN w = 1..m /\ \A n \in 1..m : w[n] = Byte(i, n)
  BY <1>3, <1>4
<1>6. s = [n \in 1..Len(s) |-> s[n]]
  BY <1>3
<1>7. SubSeq(w, 1, Len(s)) = [n \in 1..Len(s) |-> w[n]]
  BY <1>3, <1>4, <1>5
<1>8. \A n \in 1..Len(s) : n \in 1..m
  BY <1>3
<1>9. s = SubSeq(w, 1, Len(s))
  BY <1>3, <1>5, <1>6, <1>7, <1>8
<1>10. Len(s) = m => s = w
  BY <1>3, <1>4, <1>6
<1> QED
  BY <1>1, <1>2, <1>3, <1>5, <1>9, <1>10 DEF IsPrefixOf

\* If no file has changed since it was offered, then whatever was offered and
\* accepted, however the two sides are interleaved and whenever one of them
\* leaves, a path of the joiner's folder holds what it held before or the
\* beginning of one accepted file of that path.
THEOREM NoMixing == Spec => []SavedIsPrefix
<1>1. IInv => SavedIsPrefix
  <2> SUFFICES ASSUME IInv, ~changed, NEW p \in Paths
               PROVE  \/ saved[p] = before[p]
                      \/ \E i \in AcceptedFor(p) : IsPrefixOf(saved[p], Whole(i))
    BY DEF SavedIsPrefix
  <2>1. Prefixes
    BY DEF IInv, Honest
  <2> QED
    BY <2>1, BeginsIsPrefix DEF Prefixes
<1> QED
  BY <1>1, IInvAlways, PTL

\* The lines a side shows are those the other side typed, in order, with none
\* left out: on the creator's side always, on the joiner's side if no file
\* has changed since it was offered.
THEOREM LinesInOrder == Spec => []ChatFaithful
<1>1. IInv => ChatFaithful
  <2> SUFFICES ASSUME IInv, NEW p \in Peers, p = "creator" \/ ~changed
               PROVE  /\ Len(heard[p]) <= said[Other(p)]
                      /\ heard[p] = [n \in DOMAIN heard[p] |-> Line(n)]
    BY DEF ChatFaithful
  <2>1. HeardLines(p)
    <3>1. CASE p = "creator"
      BY <3>1 DEF IInv, Base
    <3>2. CASE p = "joiner"
      BY <3>2 DEF IInv, Honest
    <3> QED
      BY <3>1, <3>2 DEF Peers
  <2>2. heard[p] \in Seq(AnyByte)
    BY DEF IInv, Base, Types
  <2>3. heard[p] = [n \in DOMAIN heard[p] |-> heard[p][n]]
    BY <2>2
  <2> QED
    BY <2>1, <2>3 DEF HeardLines
<1> QED
  BY <1>1, IInvAlways, PTL

\* Once the joiner chats, each accepted file is whole, the last one offered
\* under its path, and the other paths are untouched: unless a file has changed
\* since it was offered or the creator ended before all was sent.
THEOREM ReceivedWhole == Spec => []FilesIntact
<1>1. IInv => FilesIntact
  <2> SUFFICES ASSUME IInv, pc["joiner"] = "chat", offer # None, ~changed,
                      pc["creator"] # "aborted"
               PROVE  saved = Expected
    BY DEF FilesIntact
  <2>1. Types /\ recvQ = <<>> /\ ~created /\ Len(recvQ) = 0
    BY DEF IInv, Base, Phases
  <2>2. PICK list : list = Taken
    OBVIOUS
  <2>3. Complete(list)
    BY <2>2 DEF IInv, Honest
  <2>4. offer \in Seq(FileMeta) /\ Len(offer) \in Nat /\ DOMAIN offer = 1..Len(offer)
    BY <2>1, SessionAssumption DEF Types
  <2> DEFINE S == {i \in 1..Len(offer) : Yes(chosen, i)}
  <2>5. Listing(list, S)
    BY <2>2, <2>4, AcceptedLists DEF Taken
  <2>6. /\ list \in Seq(S) /\ Len(list) \in Nat /\ S \subseteq Nat
        /\ \A k \in 1..Len(list) : list[k] \in S
        /\ \A i \in S : \E k \in 1..Len(list) : list[k] = i
        /\ \A k, l \in 1..Len(list) : k < l => list[k] < list[l]
    BY <2>4, <2>5 DEF Listing
  <2>7. \A p \in Paths : Final(list, Len(list), p)
    <3>1. Len(list) - 0 = Len(list)
      BY <2>6
    <3> QED
      BY <2>1, <2>3, <3>1 DEF Complete
  <2>8. \A p \in Paths, i \in S : offer[i].path = p <=> i \in AcceptedFor(p)
    BY DEF AcceptedFor, Yes
  <2>9. \A p \in Paths : AcceptedFor(p) \subseteq S
    BY <2>1, <2>4 DEF AcceptedFor, Yes, Types
  <2>10. S \subseteq 0..Len(offer)
    BY <2>4
  <2> HIDE DEF S
  <2>11. ASSUME NEW p \in Paths
         PROVE  saved[p] = Expected[p]
    <3> DEFINE A == AcceptedFor(p)
               last == CHOOSE i \in A : \A j \in A : j <= i
    <3>1. Expected[p] = IF A = {} THEN before[p] ELSE Whole(last)
      BY DEF Expected
    <3>2. CASE A = {}
      <4>1. \A k \in 1..Len(list) : PathOf(list, k) # p
        BY <2>6, <2>8, <3>2 DEF PathOf
      <4> QED
        BY <2>7, <3>1, <3>2, <4>1 DEF Final
    <3>3. CASE A # {}
      <4>1. A \subseteq S /\ A \subseteq 0..Len(offer)
        BY <2>9, <2>10
      <4> HIDE DEF A
      <4>2. \E i \in A : \A j \in A : j <= i
        BY <2>4, <3>3, <4>1, GreatestElement
      <4>3. last \in A /\ \A j \in A : j <= last
        BY <4>2
      <4> HIDE DEF last
      <4>4. PICK k \in 1..Len(list) : list[k] = last
        BY <2>6, <4>1, <4>3
      <4>5. PathOf(list, k) = p
        BY <2>8, <4>1, <4>3, <4>4 DEF PathOf, A
      <4>6. ASSUME NEW l \in (k + 1)..Len(list), PathOf(list, l) = p
            PROVE  FALSE
        <5>1. l \in 1..Len(list) /\ k < l
          BY <2>6
        <5>2. list[l] \in A
          BY <2>6, <2>8, <4>6, <5>1 DEF PathOf, A
        <5>3. list[k] < list[l] /\ list[l] <= list[k]
          BY <2>6, <4>3, <4>4, <5>1, <5>2
        <5>4. list[k] \in Nat /\ list[l] \in Nat
          BY <2>6, <5>1
        <5> QED
          BY <5>3, <5>4
      <4>7. Begins(saved[p], last) /\ Len(saved[p]) = offer[last].size
        BY <2>7, <4>4, <4>5, <4>6 DEF Final
      <4>8. saved[p] = Whole(last)
        BY <4>7, BeginsIsPrefix
      <4> QED
        BY <3>1, <3>3, <4>8
    <3> QED
      BY <3>2, <3>3
  <2>12. saved \in [Paths -> Seq(AnyByte) \cup {Absent}]
    BY <2>1 DEF Types
  <2>13. Expected = [p \in Paths |-> Expected[p]]
    BY DEF Expected
  <2> QED
    BY <2>11, <2>12, <2>13
<1> QED
  BY <1>1, IInvAlways, PTL
============================================================================
