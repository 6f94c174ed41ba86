------------------------------- MODULE Base64 -------------------------------
(***************************************************************************)
(* leakage_test/base64.c (the mutator has the same file): a code is a      *)
(* sequence of characters, each given by its value 0..63, or 64 for any    *)
(* other, such as "=" and the terminating NUL.                             *)
(***************************************************************************)
EXTENDS Integers, Sequences, SequencesExt

Other == 64

Char == 0..Other

Octet == 0..255

(* two, three and four characters from one, two and three bytes *)
First(a) == a \div 4

Second(a, b) == (a % 4) * 16 + b \div 16

Third(b, c) == (b % 16) * 4 + c \div 64

Whole(a, b, c) == <<First(a), Second(a, b), Third(b, c), c % 64>>

(* the characters for the bytes behind the last three *)
Padded(s) ==
    CASE Len(s) = 0 -> <<>>
      [] Len(s) = 1 -> <<First(s[1]), Second(s[1], 0), Other, Other>>
      [] Len(s) = 2 -> <<First(s[1]), Second(s[1], s[2]), Third(s[2], 0), Other>>

Base64encode(s) ==
    LET groups == Len(s) \div 3
    IN  FlattenSeq([g \in 1..groups |->
                        Whole(s[3 * g - 2], s[3 * g - 1], s[3 * g])])
        \o Padded(SubSeq(s, 3 * groups + 1, Len(s)))
        \o <<Other>>

(* mutant: characters that are padding count too *)
PrintedAll(code) == Len(code)

(* the number of characters before the first other one: nprbytes *)
Printed(code) ==
    CHOOSE n \in 0..Len(code) :
        /\ \A i \in 1..n : code[i] # Other
        /\ n = Len(code) \/ code[n + 1] = Other

(* ((nprbytes + 3) / 4) * 3 *)
Bytes(n) == ((n + 3) \div 4) * 3

Base64decode_len(code) == Bytes(Printed(code)) + 1

(* the three bytes of the four characters at offset o; the last ones are   *)
(* made of as many characters as there are                                 *)
Group(code, o, n) ==
    LET c(i) == code[o + i]
    IN  (IF n > 1 THEN <<(c(1) * 4 + c(2) \div 16) % 256>> ELSE <<>>)
        \o (IF n > 2 THEN <<(c(2) * 16 + c(3) \div 4) % 256>> ELSE <<>>)
        \o (IF n > 3 THEN <<(c(3) * 64 + c(4)) % 256>> ELSE <<>>)

(* turns of the loop, which leaves up to four characters *)
Loops(n) == IF n = 0 THEN 0 ELSE (n - 1) \div 4

(* what Base64decode() writes before the final NUL *)
Base64decode(code) ==
    LET n == Printed(code)
        k == Loops(n)
    IN  FlattenSeq([g \in 1..k |-> Group(code, 4 * (g - 1), 4)])
        \o Group(code, 4 * k, n - 4 * k)

(* mutant: the unused bytes of the last group are counted *)
DecodedUncut(code) == Bytes(Printed(code))

(* what it returns: nbytesdecoded - ((4 - nprbytes) & 3) *)
Decoded(code) ==
    LET n == Printed(code)
    IN  Bytes(n) - ((4 - (n - 4 * Loops(n))) % 4)
=============================================================================
