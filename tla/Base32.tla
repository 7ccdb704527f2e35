------------------------------- MODULE Base32 -------------------------------
(***************************************************************************)
(* The code that a user reads out to the peer: gday/src/base32.rs. Base    *)
(* and Width are 32 and 32 in the program; all that matters of them is     *)
(* that Width is no multiple of the bits of a digit.                       *)
(***************************************************************************)
EXTENDS Integers, Sequences

CONSTANTS
    Base,   \* letters in ALPHABET
    Width   \* bits of an u32

ASSUME Base32Assumption ==
    /\ Base \in Nat /\ Base > 1
    /\ Width \in Nat \ {0}

Power(b, n) ==
    LET pow[i \in Nat] == IF i = 0 THEN 1 ELSE b * pow[i - 1]
    IN  pow[n]

\* The numbers from 0 to u32::MAX, and how many they are.
Size == Power(2, Width)
U32 == 0..(Size - 1)

\* What is typed for a digit: the letter of its place in ALPHABET; -1 for I or
\* L, which is read as 1; -2 for what is no digit. Case is not told apart.
One == -1
Bad == -2
Letters == (0..Base - 1) \cup {One, Bad}

Digit(c) == IF c = One THEN 1 ELSE c

\* What str_to_u32 comes to other than a number: None, or a panic.
Invalid == -1
Overflow == -2

\* 32_u32.pow(i). A build with overflow checks panics; without, it wraps.
Pow(i, checked) ==
    IF Power(Base, i) \in U32 THEN Power(Base, i)
    ELSE IF checked THEN Overflow ELSE Power(Base, i) % Size

\* Bug: the sum wraps.
AddDigitWrapping(num, c, i, checked) ==
    LET place == Pow(i, checked)
    IN  IF num < 0 THEN num
        ELSE IF Digit(c) = Bad THEN Invalid
        ELSE IF place = Overflow THEN Overflow
        ELSE (num + Digit(c) * place) % Size

\* Bug: the sum is not checked.
AddDigitUnchecked(num, c, i, checked) ==
    LET place == Pow(i, checked)
    IN  IF num < 0 THEN num
        ELSE IF Digit(c) = Bad THEN Invalid
        ELSE IF place = Overflow THEN Overflow
        ELSE num + Digit(c) * place

\* One turn of the loop of str_to_u32, at place i, after the turns before it
\* have come to num.
AddDigit(num, c, i, checked) ==
    LET place == Pow(i, checked)
        new   == num + Digit(c) * place
    IN  IF num < 0 THEN num
        ELSE IF Digit(c) = Bad THEN Invalid
        ELSE IF place = Overflow THEN Overflow
        ELSE IF new \notin U32 THEN Invalid
        ELSE new

StrToU32(s, checked) ==
    LET loop[i \in 0..Len(s)] ==
            IF i = 0 THEN 0
            ELSE AddDigit(loop[i - 1], s[Len(s) + 1 - i], i - 1, checked)
    IN  loop[Len(s)]

\* Bug: the digits are not reversed.
U32ToStrBackwards(num) ==
    LET str[n \in Nat] ==
            IF n = 0 THEN <<>> ELSE <<n % Base>> \o str[n \div Base]
    IN  IF num = 0 THEN <<0>> ELSE str[num]

U32ToStr(num) ==
    LET str[n \in Nat] ==
            IF n = 0 THEN <<>> ELSE Append(str[n \div Base], n % Base)
    IN  IF num = 0 THEN <<0>> ELSE str[num]

\* A code is the sequence of the parts between the dots.
ToString(vals) == [i \in DOMAIN vals |-> U32ToStr(vals[i])]

FromString(parts, checked) ==
    [i \in DOMAIN parts |-> StrToU32(parts[i], checked)]

----------------------------------------------------------------------------
\* The number that a part stands for.
ValueOf(s) ==
    LET val[i \in 0..Len(s)] ==
            IF i = 0 THEN 0 ELSE val[i - 1] * Base + Digit(s[i])
    IN  val[Len(s)]

\* The number of digits whose place value is an u32.
Places == CHOOSE n \in 1..Width :
            Power(Base, n) \notin U32 /\ Power(Base, n - 1) \in U32
=============================================================================
