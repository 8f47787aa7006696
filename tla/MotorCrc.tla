------------------------------ MODULE MotorCrc ------------------------------
(***************************************************************************)
(* crc32_core of src/motor_crc.cpp, one bit at a time, and its use by      *)
(* Go2DdsBridge::onTimer: low_cmd_ is a member that is filled, sealed with *)
(* the checksum of all its words but the last, and written, again and      *)
(* again, so that the last word still holds the previous checksum.         *)
(*                                                                         *)
(* A word is the set of its bits that are 1, 0 the lowest; a polynomial    *)
(* over the integers mod 2 is the set of its exponents.                    *)
(***************************************************************************)
EXTENDS Integers, Sequences, FiniteSets

CONSTANTS
    Width,         \* 32
    dwPolynomial,  \* 0x04c11db7
    WordCount      \* sizeof(LowCmd) >> 2

Word == SUBSET (0 .. Width - 1)

ASSUME CrcAssumption ==
    /\ Width \in Nat \ {0}
    /\ dwPolynomial \in Word
    /\ WordCount \in Nat \ {0}

VARIABLES
    low_cmd,   \* the words of low_cmd_, the last one its checksum
    crc,       \* CRC32
    i, bits,   \* the word and the bit that come next
    pc         \* "summing", "written"

crcVars == <<low_cmd, crc, i, bits, pc>>

Xor(a, b) == (a \ b) \cup (b \ a)

ShiftLeft(word) == {b + 1 : b \in word} \ {Width}

AllOnes == 0 .. Width - 1

LenWhole == WordCount

\* The checksum does not cover itself.
LenSummed == WordCount - 1

-----------------------------------------------------------------------------
Init ==
    /\ low_cmd = [w \in 1 .. WordCount |-> {}]
    /\ crc = {}
    /\ i = 0
    /\ bits = 0
    /\ pc = "written"

\* onTimer fills every field but the checksum, and calls crc32_core.
Fill(payload) ==
    /\ pc = "written"
    /\ low_cmd' = Append(payload, low_cmd[WordCount])
    /\ crc' = AllOnes
    /\ i' = 1
    /\ bits' = 0
    /\ pc' = "summing"

Shifted ==
    IF Width - 1 \in crc THEN Xor(ShiftLeft(crc), dwPolynomial) ELSE ShiftLeft(crc)

\* The bits of a word come from the highest to the lowest.
DataBit == Width - 1 - bits \in low_cmd[i]

SummedOnce == IF DataBit /\ Width - 1 \notin crc THEN Xor(Shifted, dwPolynomial) ELSE Shifted

Summed == IF DataBit THEN Xor(Shifted, dwPolynomial) ELSE Shifted

SumBit ==
    /\ pc = "summing"
    /\ i <= LenSummed
    /\ crc' = Summed
    /\ bits' = (bits + 1) % Width
    /\ i' = IF bits = Width - 1 THEN i + 1 ELSE i
    /\ UNCHANGED <<low_cmd, pc>>

Write ==
    /\ pc = "summing"
    /\ i > LenSummed
    /\ low_cmd' = [low_cmd EXCEPT ![WordCount] = crc]
    /\ pc' = "written"
    /\ UNCHANGED <<crc, i, bits>>

Next ==
    \/ \E payload \in [1 .. WordCount - 1 -> Word] : Fill(payload)
    \/ SumBit
    \/ Write

Spec == Init /\ [][Next]_crcVars

-----------------------------------------------------------------------------
(* The checksum, defined by division of polynomials *)

PayloadBits == (WordCount - 1) * Width

\* The words but the last, the first word holding the highest exponents.
Payload ==
    {e \in 0 .. PayloadBits - 1 :
        e % Width \in low_cmd[WordCount - 1 - e \div Width]}

Up(p, n) == {e + n : e \in p}

\* What is left of p without its n lowest exponents.
Down(p, n) == {e - n : e \in {f \in p : f >= n}}

Times(p, q) ==
    {e \in {a + b : a \in p, b \in q} :
        Cardinality({a \in p : e - a \in q}) % 2 = 1}

Generator == dwPolynomial \cup {Width}

\* r is a word and the remainder, modulo the generator, of a message of n bits that
\* starts from a register of ones.
IsRemainder(r, message, n) ==
    /\ r \in Word
    /\ \E quotient \in SUBSET (0 .. n - 1) :
           Xor(Up(message, Width), Up(AllOnes, n)) = Xor(Times(quotient, Generator), r)

-----------------------------------------------------------------------------
\* After every bit the register is the remainder of what was read so far: the
\* data bit that is added after the shift, and not into the top bit before it,
\* makes no difference (motor_crc.cpp:13-21).
RegisterIsRemainder ==
    pc = "summing" /\ i <= WordCount =>
        LET n == (i - 1) * Width + bits
        IN  IsRemainder(crc, Down(Payload, PayloadBits - n), n)

\* What is written is sealed with the checksum of its own payload; the one
\* that the last word still held has no part in it (motor_crc.h:6-7).
WrittenIsSealed ==
    pc = "written" /\ i > 0 =>
        IsRemainder(low_cmd[WordCount], Payload, PayloadBits)
=============================================================================
