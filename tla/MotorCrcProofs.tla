--------------------------- MODULE MotorCrcProofs ---------------------------
(***************************************************************************)
(* The register of crc32_core is the remainder of what was read, for every *)
(* width, polynomial and number of words: one more bit of the message is   *)
(* one more bit of the quotient.                                           *)
(***************************************************************************)
EXTENDS MotorCrc, FunctionTheorems, FiniteSetTheorems, SequenceTheorems,
        WellFoundedInduction, TLAPS

\* Any bit of a word, any word of the command; there is no half-read word
\* behind the last one that is summed.
TypeOK ==
    /\ low_cmd \in [1 .. WordCount -> Word]
    /\ crc \in Word
    /\ i \in 0 .. WordCount
    /\ bits \in 0 .. Width - 1
    /\ pc \in {"summing", "written"}
    /\ pc = "summing" => i > 0
    /\ i > LenSummed => bits = 0

CrcInv == TypeOK /\ RegisterIsRemainder /\ WrittenIsSealed

\* The bits of the payload that the register has seen.
BitsRead == (i - 1) * Width + bits

-----------------------------------------------------------------------------
(* Polynomials, exponent by exponent *)

LEMMA XorMember ==
    ASSUME NEW a, NEW b, NEW e
    PROVE  e \in Xor(a, b) <=> ~(e \in a <=> e \in b)
BY DEF Xor

LEMMA UpMember ==
    ASSUME NEW p \in SUBSET Int, NEW n \in Int, NEW e \in Int
    PROVE  e \in Up(p, n) <=> e - n \in p
<1>1. ASSUME e \in Up(p, n) PROVE e - n \in p
  <2>1. PICK x \in p : e = x + n
    BY <1>1 DEF Up
  <2>2. x \in Int /\ e - n = x
    BY <2>1
  <2> QED
    BY <2>2
<1>2. ASSUME e - n \in p PROVE e \in Up(p, n)
  <2>1. e = (e - n) + n
    OBVIOUS
  <2> QED
    BY <1>2, <2>1 DEF Up
<1> QED
  BY <1>1, <1>2

LEMMA DownMember ==
    ASSUME NEW p \in SUBSET Int, NEW n \in Int, NEW e \in Int
    PROVE  e \in Down(p, n) <=> e >= 0 /\ e + n \in p
<1>1. ASSUME e \in Down(p, n) PROVE e >= 0 /\ e + n \in p
  <2>1. PICK x \in p : x >= n /\ e = x - n
    BY <1>1 DEF Down
  <2>2. x \in Int /\ e + n = x
    BY <2>1
  <2> QED
    BY <2>1, <2>2
<1>2. ASSUME e >= 0, e + n \in p PROVE e \in Down(p, n)
  <2>1. e = (e + n) - n /\ e + n >= n
    BY <1>2
  <2> QED
    BY <1>2, <2>1 DEF Down
<1> QED
  BY <1>1, <1>2

LEMMA UpType ==
    ASSUME NEW p \in SUBSET Int, NEW n \in Int PROVE Up(p, n) \in SUBSET Int
BY DEF Up

LEMMA DownType ==
    ASSUME NEW p \in SUBSET Int, NEW n \in Int PROVE Down(p, n) \in SUBSET Int
BY DEF Down

\* The pairs that a coefficient of a product adds up.
Pairs(p, q, e) == {a \in p : e - a \in q}

\* The set that Times selects from loses no exponent whose coefficient is odd.
LEMMA TimesMember ==
    ASSUME NEW p \in SUBSET Int, NEW q \in SUBSET Int, NEW e \in Int
    PROVE  e \in Times(p, q) <=> Cardinality(Pairs(p, q, e)) % 2 = 1
<1>1. ASSUME Cardinality(Pairs(p, q, e)) % 2 = 1
      PROVE  e \in {a + b : a \in p, b \in q}
  <2>1. Pairs(p, q, e) # {}
    <3>1. SUFFICES ASSUME Pairs(p, q, e) = {} PROVE FALSE
      OBVIOUS
    <3>2. Cardinality(Pairs(p, q, e)) = 0
      BY <3>1, FS_EmptySet
    <3>3. 0 % 2 = 0
      OBVIOUS
    <3> QED
      BY <1>1, <3>2, <3>3
  <2>2. PICK a \in p : e - a \in q
    BY <2>1 DEF Pairs
  <2>3. e = a + (e - a)
    BY <2>2
  <2> QED
    BY <2>2, <2>3
<1> QED
  BY <1>1 DEF Times, Pairs

\* A set keeps its size when it is moved up by one.
LEMMA UpCardinality ==
    ASSUME NEW p \in SUBSET Int, IsFiniteSet(p)
    PROVE  IsFiniteSet(Up(p, 1)) /\ Cardinality(Up(p, 1)) = Cardinality(p)
<1> DEFINE f == [x \in p |-> x + 1]
<1>1. f \in [p -> Up(p, 1)]
  BY DEF Up
<1>2. \A x, y \in p : f[x] = f[y] => x = y
  OBVIOUS
<1>3. \A y \in Up(p, 1) : \E x \in p : f[x] = y
  BY DEF Up
<1>4. f \in Bijection(p, Up(p, 1))
  BY <1>1, <1>2, <1>3 DEF Bijection, Injection, IsInjective, Surjection
<1>5. ExistsBijection(p, Up(p, 1))
  BY <1>4 DEF ExistsBijection
<1> QED
  BY <1>5, FS_Bijection

\* The quotient grows by a bit at its low end: the product moves up, and the
\* other factor is added to it where that bit is 1.
LEMMA TimesUp ==
    ASSUME NEW n \in Nat, NEW p \in SUBSET (0 .. n - 1), NEW q \in SUBSET Int,
           NEW one \in SUBSET {0}, NEW e \in Int
    PROVE  e \in Times(Up(p, 1) \cup one, q)
             <=> ~(e - 1 \in Times(p, q) <=> (one # {} /\ e \in q))
<1> DEFINE old == Pairs(p, q, e - 1)
           new == Pairs(Up(p, 1) \cup one, q, e)
<1>1. p \in SUBSET Int /\ Up(p, 1) \cup one \in SUBSET Int /\ Up(p, 1) \in SUBSET Int
  <2>1. p \in SUBSET Int /\ one \in SUBSET Int
    OBVIOUS
  <2>2. Up(p, 1) \in SUBSET Int
    BY <2>1, UpType
  <2> QED
    BY <2>1, <2>2
<1>2. IsFiniteSet(p)
  <2>1. IsFiniteSet(0 .. n - 1)
    BY FS_Interval
  <2> QED
    BY <2>1, FS_Subset
<1>3. old \in SUBSET Int /\ IsFiniteSet(old)
  <2>1. old \in SUBSET p
    BY DEF Pairs
  <2> QED
    BY <1>1, <1>2, <2>1, FS_Subset
<1>4. Cardinality(old) \in Nat
  BY ONLY <1>3, FS_CardinalityType
<1>5. IsFiniteSet(Up(old, 1)) /\ Cardinality(Up(old, 1)) = Cardinality(old)
  BY <1>3, UpCardinality
<1>6. 0 \notin Up(old, 1)
  BY <1>3, UpMember DEF Pairs
<1>7. new = Up(old, 1) \cup (IF one # {} /\ e \in q THEN {0} ELSE {})
  <2>1. ASSUME NEW a \in Int PROVE a \in Up(old, 1) <=> a \in Up(p, 1) /\ e - a \in q
    <3>1. a - 1 \in Int /\ (e - 1) - (a - 1) = e - a
      OBVIOUS
    <3>2. a \in Up(old, 1) <=> a - 1 \in p /\ (e - 1) - (a - 1) \in q
      BY <1>3, UpMember DEF Pairs
    <3> QED
      BY <3>1, <3>2, <1>1, UpMember
  <2>2. ASSUME NEW a \in Int
        PROVE  a \in one /\ e - a \in q <=> a = 0 /\ one # {} /\ e \in q
    <3>1. e - 0 = e
      OBVIOUS
    <3>2. a \in one <=> a = 0 /\ one # {}
      OBVIOUS
    <3> QED
      BY ONLY <3>1, <3>2
  <2>3. new \subseteq Int /\ Up(old, 1) \subseteq Int
    BY <1>1, <1>3, UpType DEF Pairs
  <2> QED
    BY <2>1, <2>2, <2>3 DEF Pairs
<1> HIDE DEF old, new
<1>8. Cardinality(new) =
          Cardinality(old) + (IF one # {} /\ e \in q THEN 1 ELSE 0)
  <2>1. Cardinality(Up(old, 1) \cup {0}) = Cardinality(old) + 1
    BY ONLY <1>5, <1>6, FS_AddElement
  <2>2. Up(old, 1) \cup {} = Up(old, 1)
    OBVIOUS
  <2>3. CASE one # {} /\ e \in q
    BY ONLY <1>4, <1>7, <2>1, <2>3
  <2>4. CASE ~(one # {} /\ e \in q)
    <3>1. new = Up(old, 1)
      BY ONLY <1>7, <2>2, <2>4
    <3>2. Cardinality(old) + 0 = Cardinality(old)
      BY ONLY <1>4
    <3> QED
      BY ONLY <1>5, <2>4, <3>1, <3>2
  <2> QED
    BY ONLY <2>3, <2>4
<1>9. e \in Times(Up(p, 1) \cup one, q) <=> Cardinality(new) % 2 = 1
  BY <1>1, TimesMember DEF new
<1>10. e - 1 \in Times(p, q) <=> Cardinality(old) % 2 = 1
  BY <1>1, TimesMember DEF old
<1>11. (Cardinality(old) + 1) % 2 = 1 <=> ~(Cardinality(old) % 2 = 1)
  BY <1>4
<1>12. CASE one # {} /\ e \in q
  BY <1>4, <1>8, <1>9, <1>10, <1>11, <1>12
<1>13. CASE ~(one # {} /\ e \in q)
  BY <1>4, <1>8, <1>9, <1>10, <1>13
<1> QED
  BY <1>12, <1>13

-----------------------------------------------------------------------------
(* The bits of the payload *)

LEMMA DivMod ==
    ASSUME NEW a \in Nat, NEW b \in 0 .. Width - 1
    PROVE  (a * Width + b) % Width = b /\ (a * Width + b) \div Width = a
<1> DEFINE s == a * Width + b
           d == s \div Width
           m == s % Width
<1>1. Width \in Nat /\ Width > 0
  BY CrcAssumption
<1>2. a * Width \in Nat /\ s \in Nat
  BY <1>1
<1>3. d \in Int /\ m \in 0 .. Width - 1 /\ s = Width * d + m
  BY <1>1, <1>2
<1>4. d = a
  <2>1. (d - a) * Width = b - m
    BY <1>1, <1>2, <1>3
  <2>2. d - a >= 1 => (d - a) * Width >= Width
    BY <1>1, <1>3
  <2>3. d - a <= -1 => (d - a) * Width <= -Width
    BY <1>1, <1>3
  <2> QED
    BY <1>1, <1>3, <2>1, <2>2, <2>3
<1> QED
  BY <1>1, <1>2, <1>3, <1>4

LEMMA PayloadBitsType ==
    /\ Width \in Nat /\ Width > 0 /\ WordCount \in Nat /\ WordCount > 0
    /\ LenSummed \in Nat /\ PayloadBits \in Nat
<1>1. Width \in Nat /\ Width > 0 /\ WordCount \in Nat /\ WordCount > 0
  BY CrcAssumption
<1>2. WordCount - 1 \in Nat
  BY <1>1
<1>3. (WordCount - 1) * Width \in Nat
  BY <1>1, <1>2
<1> QED
  BY <1>1, <1>2, <1>3 DEF LenSummed, PayloadBits

\* A position in the message, and the next one.
LEMMA BitsReadSteps ==
    ASSUME TypeOK, i \in 1 .. LenSummed
    PROVE  /\ BitsRead \in Nat
           /\ PayloadBits - BitsRead - 1 = (LenSummed - i) * Width + (Width - 1 - bits)
           /\ PayloadBits - BitsRead - 1 \in 0 .. PayloadBits - 1
           /\ bits < Width - 1 => (i - 1) * Width + (bits + 1) = BitsRead + 1
           /\ bits = Width - 1 => i * Width = BitsRead + 1
<1>1. i \in Int /\ bits \in 0 .. Width - 1 /\ LenSummed - i \in Nat /\ i - 1 \in Nat
  BY PayloadBitsType DEF TypeOK
<1>2. (i - 1) * Width \in Nat /\ (LenSummed - i) * Width \in Nat
  BY <1>1, PayloadBitsType
<1>3. /\ PayloadBits = (i - 1) * Width + (LenSummed - i) * Width + Width
      /\ i * Width = (i - 1) * Width + Width
  BY <1>1, PayloadBitsType DEF PayloadBits, LenSummed
<1> QED
  BY <1>1, <1>2, <1>3, PayloadBitsType DEF BitsRead

\* The bit of the payload that is next in the division is the data bit of the loop.
LEMMA NextBit ==
    ASSUME TypeOK, i \in 1 .. LenSummed
    PROVE  PayloadBits - BitsRead - 1 \in Payload <=> DataBit
<1> DEFINE e == PayloadBits - BitsRead - 1
<1>1. LenSummed - i \in Nat /\ Width - 1 - bits \in 0 .. Width - 1
  BY PayloadBitsType DEF TypeOK
<1>2. e = (LenSummed - i) * Width + (Width - 1 - bits) /\ e \in 0 .. PayloadBits - 1
  BY BitsReadSteps
<1>3. e % Width = Width - 1 - bits /\ e \div Width = LenSummed - i
  BY <1>1, <1>2, DivMod
<1>4. WordCount - 1 - e \div Width = i
  BY <1>3, PayloadBitsType DEF TypeOK, LenSummed
<1> SUFFICES e \in Payload <=> DataBit
  OBVIOUS
<1> HIDE DEF e
<1>5. e \in Payload <=> e % Width \in low_cmd[WordCount - 1 - e \div Width]
  BY <1>2 DEF Payload
<1> QED
  BY <1>3, <1>4, <1>5 DEF DataBit

-----------------------------------------------------------------------------
(* One bit of the message *)

\* A register with its top bit set is reduced, and so is a data bit that is 1:
\* both at once leave the shifted register as it is.
LEMMA SummedBits ==
    ASSUME TypeOK, NEW e \in Int
    PROVE  e \in Summed <=>
               ~(/\ e - 1 \in crc /\ e # Width
                 <=> /\ DataBit <=> Width - 1 \notin crc
                     /\ e \in dwPolynomial)
<1>1. e \in ShiftLeft(crc) <=> e - 1 \in crc /\ e # Width
  <2>1. crc \in SUBSET Int
    BY PayloadBitsType DEF TypeOK, Word
  <2>2. ShiftLeft(crc) = Up(crc, 1) \ {Width}
    BY DEF ShiftLeft, Up
  <2> QED
    BY <2>1, <2>2, UpMember
<1>2. e \in Shifted <=> ~(e \in ShiftLeft(crc) <=> (Width - 1 \in crc /\ e \in dwPolynomial))
  BY XorMember DEF Shifted
<1>3. e \in Summed <=> ~(e \in Shifted <=> (DataBit /\ e \in dwPolynomial))
  BY XorMember DEF Summed
<1> QED
  BY <1>1, <1>2, <1>3

LEMMA SummedType == ASSUME TypeOK PROVE Summed \in Word
<1>1. crc \in SUBSET (0 .. Width - 1) /\ dwPolynomial \in SUBSET (0 .. Width - 1)
  BY CrcAssumption DEF TypeOK, Word
<1>2. ShiftLeft(crc) \subseteq 0 .. Width - 1
  BY <1>1, PayloadBitsType DEF ShiftLeft
<1>3. Shifted \subseteq 0 .. Width - 1
  BY <1>1, <1>2 DEF Shifted, Xor
<1> QED
  BY <1>1, <1>3 DEF Summed, Xor, Word

\* If the register is the remainder of what was read, it is the remainder of
\* that and one bit more after the loop's body.
LEMMA OneBit ==
    ASSUME TypeOK, i \in 1 .. LenSummed,
           IsRemainder(crc, Down(Payload, PayloadBits - BitsRead), BitsRead)
    PROVE  IsRemainder(Summed, Down(Payload, PayloadBits - (BitsRead + 1)), BitsRead + 1)
<1> DEFINE N == PayloadBits
           n == BitsRead
           M == Down(Payload, N - n)
           MM == Down(Payload, N - (n + 1))
           top == Width - 1 \in crc
           one == IF DataBit <=> top THEN {} ELSE {0}
<1>1. n \in Nat /\ N \in Nat /\ n + 1 \in Nat /\ N - n \in Int /\ N - (n + 1) \in Int
  BY BitsReadSteps, PayloadBitsType
<1>2. PICK quotient \in SUBSET (0 .. n - 1) :
          Xor(Up(M, Width), Up(AllOnes, n)) = Xor(Times(quotient, Generator), crc)
  BY DEF IsRemainder
<1> DEFINE next == Up(quotient, 1) \cup one
<1>3. Payload \in SUBSET Int
  BY DEF Payload
<1>4. /\ M \in SUBSET Int /\ MM \in SUBSET Int /\ AllOnes \in SUBSET Int
      /\ Generator \in SUBSET Int /\ quotient \in SUBSET Int
      /\ crc \in SUBSET Int /\ Summed \in SUBSET Int
  BY <1>1, <1>3, DownType, SummedType, PayloadBitsType, CrcAssumption
     DEF AllOnes, Generator, TypeOK, Word
<1>5. next \in SUBSET (0 .. (n + 1) - 1)
  <2>1. \A x \in quotient : x + 1 \in 0 .. (n + 1) - 1
    BY <1>1
  <2> QED
    BY <1>1, <2>1 DEF Up
<1>6. ASSUME NEW e \in Int
      PROVE  e \in Xor(Up(MM, Width), Up(AllOnes, n + 1))
               <=> e \in Xor(Times(next, Generator), Summed)
  <2>1. e \in Up(MM, Width) <=> ~(e - 1 \in Up(M, Width) <=> (e = Width /\ DataBit))
    <3>1. e \in Up(MM, Width) <=> e - Width >= 0 /\ e - Width + (N - (n + 1)) \in Payload
      BY <1>1, <1>3, <1>4, UpMember, DownMember, PayloadBitsType
    <3>2. e - 1 \in Up(M, Width)
            <=> e - 1 - Width >= 0 /\ e - 1 - Width + (N - n) \in Payload
      BY <1>1, <1>3, <1>4, UpMember, DownMember, PayloadBitsType
    <3>3. e - Width + (N - (n + 1)) = e - 1 - Width + (N - n)
      BY <1>1, PayloadBitsType
    <3>4. CASE e = Width
      <4>1. e - Width + (N - (n + 1)) = N - n - 1
        BY <1>1, <3>4, PayloadBitsType
      <4>2. ~(e - 1 - Width >= 0) /\ e - Width >= 0
        BY <3>4, PayloadBitsType
      <4> QED
        BY <3>1, <3>2, <3>4, <4>1, <4>2, NextBit
    <3>5. CASE e # Width
      <4>1. e - 1 - Width >= 0 <=> e - Width >= 0
        BY <3>5, PayloadBitsType
      <4> QED
        BY <3>1, <3>2, <3>3, <3>5, <4>1
    <3> QED
      BY <3>4, <3>5
  <2>2. e \in Up(AllOnes, n + 1) <=> e - 1 \in Up(AllOnes, n)
    <3>1. e - (n + 1) = (e - 1) - n
      BY <1>1
    <3> QED
      BY <1>1, <1>4, <3>1, UpMember
  <2>3. e \in Times(next, Generator)
          <=> ~(e - 1 \in Times(quotient, Generator) <=> (one # {} /\ e \in Generator))
    <3>1. one \in SUBSET {0}
      OBVIOUS
    <3> HIDE DEF one
    <3> QED
      BY <1>1, <1>4, <3>1, TimesUp
  <2>4. e \in Generator <=> ~(e \in dwPolynomial <=> e = Width)
    BY CrcAssumption, PayloadBitsType DEF Generator, Word
  <2>5. e = Width => (e - 1 \in crc <=> top)
    OBVIOUS
  <2>6. one # {} <=> ~(DataBit <=> top)
    OBVIOUS
  <2>7. ~(e - 1 \in Up(M, Width) <=> e - 1 \in Up(AllOnes, n))
          <=> ~(e - 1 \in Times(quotient, Generator) <=> e - 1 \in crc)
    <3>1. e - 1 \in Xor(Up(M, Width), Up(AllOnes, n))
            <=> ~(e - 1 \in Up(M, Width) <=> e - 1 \in Up(AllOnes, n))
      BY XorMember
    <3>2. e - 1 \in Xor(Times(quotient, Generator), crc)
            <=> ~(e - 1 \in Times(quotient, Generator) <=> e - 1 \in crc)
      BY XorMember
    <3> HIDE DEF M
    <3> QED
      BY ONLY <1>2, <3>1, <3>2
  <2>8. e \in Summed <=>
            ~(/\ e - 1 \in crc /\ e # Width
              <=> /\ DataBit <=> ~top
                  /\ e \in dwPolynomial)
    BY SummedBits
  <2>9. e \in Xor(Up(MM, Width), Up(AllOnes, n + 1))
          <=> ~(e \in Up(MM, Width) <=> e \in Up(AllOnes, n + 1))
    BY XorMember
  <2>10. e \in Xor(Times(next, Generator), Summed)
           <=> ~(e \in Times(next, Generator) <=> e \in Summed)
    BY XorMember
  <2> HIDE DEF one, top, M, MM, next
  <2>11. CASE e = Width
    BY ONLY <2>1, <2>2, <2>3, <2>4, <2>5, <2>6, <2>7, <2>8, <2>9, <2>10, <2>11
  <2>12. CASE e # Width
    BY ONLY <2>1, <2>2, <2>3, <2>4, <2>6, <2>7, <2>8, <2>9, <2>10, <2>12
  <2> QED
    BY ONLY <2>11, <2>12
<1>7. /\ Xor(Up(MM, Width), Up(AllOnes, n + 1)) \subseteq Int
      /\ Xor(Times(next, Generator), Summed) \subseteq Int
  <2>1. Up(MM, Width) \in SUBSET Int /\ Up(AllOnes, n + 1) \in SUBSET Int
    BY <1>1, <1>4, UpType, PayloadBitsType
  <2>2. next \in SUBSET Int
    BY <1>5
  <2>3. Times(next, Generator) \subseteq Int
    BY <1>4, <2>2 DEF Times
  <2> QED
    BY <1>4, <2>1, <2>3 DEF Xor
<1>8. Xor(Up(MM, Width), Up(AllOnes, n + 1)) = Xor(Times(next, Generator), Summed)
  BY ONLY <1>6, <1>7
<1> QED
  BY <1>5, <1>8, SummedType DEF IsRemainder

-----------------------------------------------------------------------------
(* The invariant *)

LEMMA CrcInit == Init => CrcInv
<1> SUFFICES ASSUME Init PROVE CrcInv
  OBVIOUS
<1>1. TypeOK
  BY PayloadBitsType DEF Init, TypeOK, Word
<1> QED
  BY <1>1 DEF Init, CrcInv, RegisterIsRemainder, WrittenIsSealed

\* Nothing is read yet: a register of ones, and a quotient of no bits.
LEMMA NothingRead ==
    ASSUME NEW p \in SUBSET (0 .. PayloadBits - 1)
    PROVE  IsRemainder(AllOnes, Down(p, PayloadBits - 0), 0)
<1>1. Down(p, PayloadBits - 0) = {}
  <2>1. \A f \in p : ~(f >= PayloadBits - 0)
    BY PayloadBitsType
  <2> QED
    BY <2>1 DEF Down
<1>2. Up({}, Width) = {} /\ Up(AllOnes, 0) = AllOnes
  BY PayloadBitsType DEF Up, AllOnes
<1>3. Times({}, Generator) = {}
  BY DEF Times
<1>4. Xor(Up({}, Width), Up(AllOnes, 0)) = Xor(Times({}, Generator), AllOnes)
  BY <1>2, <1>3
<1>5. AllOnes \in Word /\ {} \in SUBSET (0 .. 0 - 1)
  BY DEF AllOnes, Word
<1> QED
  BY ONLY <1>1, <1>4, <1>5 DEF IsRemainder

LEMMA PayloadType == Payload \in SUBSET (0 .. PayloadBits - 1)
BY DEF Payload

LEMMA FillPreserves ==
    ASSUME CrcInv, NEW payload \in [1 .. WordCount - 1 -> Word], Fill(payload)
    PROVE  CrcInv'
<1>1. TypeOK'
  <2>1. WordCount \in 1 .. WordCount /\ low_cmd[WordCount] \in Word
    BY PayloadBitsType DEF CrcInv, TypeOK
  <2>2. payload \in Seq(Word) /\ Len(payload) = WordCount - 1
    BY PayloadBitsType
  <2>3. low_cmd' = Append(payload, low_cmd[WordCount])
    BY DEF Fill
  <2>4. low_cmd' \in [1 .. WordCount -> Word]
    <3>1. low_cmd' \in Seq(Word) /\ Len(low_cmd') = WordCount
      BY <2>1, <2>2, <2>3, AppendProperties, PayloadBitsType
    <3> QED
      BY <3>1, LenProperties
  <2>5. AllOnes \in Word
    BY DEF AllOnes, Word
  <2> QED
    BY <2>4, <2>5, PayloadBitsType DEF Fill, TypeOK, CrcInv, LenSummed
<1>2. RegisterIsRemainder'
  <2>1. crc' = AllOnes /\ i' = 1 /\ bits' = 0
    BY DEF Fill
  <2>2. (i' - 1) * Width + bits' = 0
    BY <2>1, PayloadBitsType
  <2>3. Payload' \in SUBSET (0 .. PayloadBits - 1)
    BY DEF Payload, PayloadBits
  <2>4. IsRemainder(crc', Down(Payload', PayloadBits - 0), 0)
    BY <2>1, <2>3, NothingRead
  <2> QED
    BY <2>2, <2>4 DEF RegisterIsRemainder, PayloadBits
<1>3. WrittenIsSealed'
  BY DEF Fill, WrittenIsSealed
<1> QED
  BY <1>1, <1>2, <1>3 DEF CrcInv

LEMMA SumBitPreserves == ASSUME CrcInv, SumBit PROVE CrcInv'
<1>1. TypeOK /\ i \in 1 .. LenSummed /\ pc' = pc /\ low_cmd' = low_cmd
  BY PayloadBitsType DEF SumBit, CrcInv, TypeOK, LenSummed
<1>2. \/ bits < Width - 1 /\ bits' = bits + 1 /\ i' = i
      \/ bits = Width - 1 /\ bits' = 0 /\ i' = i + 1
  <2>1. bits \in 0 .. Width - 1
    BY <1>1 DEF TypeOK
  <2>2. bits < Width - 1 => (bits + 1) % Width = bits + 1
    BY <2>1, PayloadBitsType
  <2>3. bits = Width - 1 => (bits + 1) % Width = 0
    <3>1. Width % Width = 0
      BY PayloadBitsType
    <3> QED
      BY <3>1, PayloadBitsType
  <2> QED
    BY <2>1, <2>2, <2>3, PayloadBitsType DEF SumBit
<1>3. TypeOK'
  <2>1. crc' \in Word
    BY <1>1, SummedType DEF SumBit
  <2> QED
    BY <1>1, <1>2, <2>1, PayloadBitsType DEF TypeOK, LenSummed
<1>4. (i' - 1) * Width + bits' = BitsRead + 1
  BY <1>1, <1>2, BitsReadSteps DEF TypeOK
<1>5. RegisterIsRemainder'
  <2>1. IsRemainder(crc, Down(Payload, PayloadBits - BitsRead), BitsRead)
    BY <1>1, PayloadBitsType DEF CrcInv, RegisterIsRemainder, SumBit, BitsRead, LenSummed
  <2>2. IsRemainder(crc', Down(Payload, PayloadBits - (BitsRead + 1)), BitsRead + 1)
    BY <1>1, <2>1, OneBit DEF SumBit
  <2>3. Payload' = Payload /\ PayloadBits' = PayloadBits
    BY <1>1 DEF Payload, PayloadBits
  <2> QED
    BY <1>4, <2>2, <2>3 DEF RegisterIsRemainder
<1>6. WrittenIsSealed'
  BY <1>1 DEF SumBit, WrittenIsSealed
<1> QED
  BY <1>3, <1>5, <1>6 DEF CrcInv

\* Every bit is read, and the word written is not one of those that were summed.
LEMMA WritePreserves == ASSUME CrcInv, Write PROVE CrcInv'
<1>1. TypeOK /\ i = WordCount /\ bits = 0
  BY PayloadBitsType DEF Write, CrcInv, TypeOK, LenSummed
<1>2. WordCount \in 1 .. WordCount
  BY PayloadBitsType
<1>3. /\ low_cmd' \in [1 .. WordCount -> Word] /\ low_cmd'[WordCount] = crc
      /\ \A w \in 1 .. WordCount - 1 : low_cmd'[w] = low_cmd[w]
  BY <1>1, <1>2, PayloadBitsType DEF Write, TypeOK
<1>4. TypeOK'
  BY <1>1, <1>3 DEF Write, TypeOK
<1>5. Payload' = Payload
  <2>1. ASSUME NEW e \in 0 .. PayloadBits - 1
        PROVE  low_cmd'[WordCount - 1 - e \div Width] = low_cmd[WordCount - 1 - e \div Width]
    <3> DEFINE d == e \div Width
    <3>1. e \in Nat /\ e < (WordCount - 1) * Width
      BY PayloadBitsType DEF PayloadBits
    <3>2. d \in Int /\ e % Width \in 0 .. Width - 1 /\ e = Width * d + (e % Width)
      BY <3>1, PayloadBitsType
    <3>3. d >= 0
      <4>1. d <= -1 => Width * d <= -Width
        BY <3>2, PayloadBitsType
      <4> QED
        BY <3>1, <3>2, <4>1, PayloadBitsType
    <3>4. d < WordCount - 1
      <4>1. d >= WordCount - 1 => Width * d >= (WordCount - 1) * Width
        BY <3>2, PayloadBitsType
      <4> QED
        BY <3>1, <3>2, <4>1, PayloadBitsType
    <3> HIDE DEF d
    <3>5. WordCount - 1 - d \in 1 .. WordCount - 1
      BY <3>2, <3>3, <3>4, PayloadBitsType
    <3> QED
      BY <1>3, <3>5 DEF d
  <2> QED
    BY <2>1 DEF Payload, PayloadBits
<1>6. IsRemainder(crc, Payload, PayloadBits)
  <2>1. (i - 1) * Width + bits = PayloadBits
    BY <1>1, PayloadBitsType DEF PayloadBits
  <2>2. IsRemainder(crc, Down(Payload, PayloadBits - PayloadBits), PayloadBits)
    BY <1>1, <2>1, PayloadBitsType DEF CrcInv, RegisterIsRemainder, Write
  <2>3. Down(Payload, PayloadBits - PayloadBits) = Payload
    <3>1. \A e \in Int : e \in Down(Payload, 0) <=> e \in Payload
      <4>1. Payload \in SUBSET Int /\ \A e \in Payload : e >= 0
        BY DEF Payload
      <4> QED
        BY <4>1, DownMember
    <3>2. Down(Payload, 0) \in SUBSET Int /\ Payload \in SUBSET Int
      BY DownType, PayloadType
    <3>3. PayloadBits - PayloadBits = 0
      BY PayloadBitsType
    <3> QED
      BY <3>1, <3>2, <3>3
  <2> QED
    BY <2>2, <2>3
<1>7. WrittenIsSealed'
  BY <1>3, <1>5, <1>6 DEF WrittenIsSealed, PayloadBits
<1>8. RegisterIsRemainder'
  BY DEF Write, RegisterIsRemainder
<1> QED
  BY <1>4, <1>7, <1>8 DEF CrcInv

LEMMA CrcNext == CrcInv /\ [Next]_crcVars => CrcInv'
<1> SUFFICES ASSUME CrcInv, [Next]_crcVars PROVE CrcInv'
  OBVIOUS
<1>1. ASSUME NEW payload \in [1 .. WordCount - 1 -> Word], Fill(payload) PROVE CrcInv'
  BY <1>1, FillPreserves
<1>2. CASE SumBit
  BY <1>2, SumBitPreserves
<1>3. CASE Write
  BY <1>3, WritePreserves
<1>4. CASE UNCHANGED crcVars
  BY <1>4 DEF crcVars, CrcInv, TypeOK, RegisterIsRemainder, WrittenIsSealed,
              Payload, PayloadBits, LenSummed
<1> QED
  BY <1>1, <1>2, <1>3, <1>4 DEF Next

\* The invariant holds of every command, bit by bit.
THEOREM CrcInvariance == Spec => []CrcInv
BY CrcInit, CrcNext, PTL DEF Spec

\* At every bit of every command, crc32_core's register is the remainder of the
\* message so far, for every word width, polynomial and size of the command.
THEOREM RegisterRemainder == Spec => []RegisterIsRemainder
<1>1. CrcInv => RegisterIsRemainder
  BY DEF CrcInv
<1> QED
  BY <1>1, CrcInvariance, PTL

\* Every command that onTimer writes carries the checksum of its own payload.
THEOREM CommandIsSealed == Spec => []WrittenIsSealed
<1>1. CrcInv => WrittenIsSealed
  BY DEF CrcInv
<1> QED
  BY <1>1, CrcInvariance, PTL

-----------------------------------------------------------------------------
(* There is one checksum, and what it catches *)

LEMMA LowestExists ==
    ASSUME NEW S \in SUBSET Nat, S # {} PROVE \E k \in S : \A e \in S : k <= e
<1>1. PICK k \in S : \A e \in S : ~(<<e, k>> \in OpToRel(<, Nat))
  BY NatLessThanWellFounded, WFMin
<1>2. \A e \in S : ~(e < k)
  BY <1>1 DEF OpToRel
<1>3. \A e \in S : k <= e
  BY <1>2
<1> QED
  BY <1>3

LEMMA HighestExists ==
    ASSUME NEW n \in Nat, NEW S \in SUBSET (0 .. n), S # {}
    PROVE  \E d \in S : \A e \in S : e <= d
<1> DEFINE T == {k \in 0 .. n : n - k \in S}
<1>1. T \in SUBSET Nat /\ T # {} /\ \A e \in S : n - e \in T
  <2>1. \A e \in S : n - e \in 0 .. n /\ n - (n - e) = e
    OBVIOUS
  <2>2. \A e \in S : n - e \in T
    BY <2>1
  <2>3. T \in SUBSET Nat
    OBVIOUS
  <2> HIDE DEF T
  <2> QED
    BY <2>2, <2>3
<1>2. PICK k \in T : \A e \in T : k <= e
  BY <1>1, LowestExists
<1>3. n - k \in S /\ \A e \in S : e <= n - k
  BY <1>1, <1>2
<1> QED
  BY <1>3

\* Two quotients of which one has the exponent m have products that differ at
\* m + g, if the quotients do not differ at any other exponent that adds to it.
LEMMA ProductsDifferAt ==
    ASSUME NEW n \in Nat, NEW p \in SUBSET (0 .. n - 1), NEW q \in SUBSET (0 .. n - 1),
           NEW m \in p, m \notin q, NEW g \in Generator,
           \A a \in 0 .. n - 1 : a # m /\ m + g - a \in Generator => (a \in p <=> a \in q)
    PROVE  m + g \in Times(p, Generator) <=> ~(m + g \in Times(q, Generator))
<1> DEFINE e == m + g
           others == Pairs(q, Generator, e)
<1>1. /\ Generator \in SUBSET Int /\ p \in SUBSET Int /\ q \in SUBSET Int /\ e \in Int
      /\ e - m = g
  BY CrcAssumption, PayloadBitsType DEF Generator, Word
<1>2. Pairs(p, Generator, e) = others \cup {m}
  <2>1. ASSUME NEW a \in 0 .. n - 1
        PROVE  a \in p /\ e - a \in Generator
                 <=> (a \in q /\ e - a \in Generator) \/ a = m
    BY <1>1
  <2> HIDE DEF e
  <2> QED
    BY <2>1 DEF Pairs
<1>3. m \notin others
  BY DEF Pairs
<1>4. IsFiniteSet(others)
  <2>1. IsFiniteSet(0 .. n - 1)
    BY FS_Interval
  <2>2. others \in SUBSET (0 .. n - 1)
    BY DEF Pairs
  <2> QED
    BY <2>1, <2>2, FS_Subset
<1>5. Cardinality(others) \in Nat
  BY ONLY <1>4, FS_CardinalityType
<1>6. Cardinality(Pairs(p, Generator, e)) = Cardinality(others) + 1
  BY ONLY <1>2, <1>3, <1>4, FS_AddElement
<1>7. (Cardinality(others) + 1) % 2 = 1 <=> ~(Cardinality(others) % 2 = 1)
  BY <1>5
<1>8. /\ e \in Times(p, Generator) <=> Cardinality(Pairs(p, Generator, e)) % 2 = 1
      /\ e \in Times(q, Generator) <=> Cardinality(others) % 2 = 1
  BY <1>1, TimesMember
<1> QED
  BY <1>6, <1>7, <1>8

\* The generator's highest exponent is Width: two products differ there above
\* the highest exponent at which the quotients do.
LEMMA ProductsDifferHigh ==
    ASSUME NEW n \in Nat, NEW p \in SUBSET (0 .. n - 1), NEW q \in SUBSET (0 .. n - 1),
           p # q
    PROVE  \E m \in Xor(p, q) :
               /\ \A a \in Xor(p, q) : a <= m
               /\ m + Width \in Times(p, Generator)
                    <=> ~(m + Width \in Times(q, Generator))
<1>1. Xor(p, q) \in SUBSET (0 .. n) /\ Xor(p, q) # {}
  BY DEF Xor
<1>2. PICK m \in Xor(p, q) : \A a \in Xor(p, q) : a <= m
  BY <1>1, HighestExists
<1>3. Width \in Generator /\ m \in 0 .. n
  BY <1>1 DEF Generator
<1>4. \A a \in 0 .. n - 1 : a # m /\ m + Width - a \in Generator => a > m
  <2>1. Generator \in SUBSET (0 .. Width)
    BY CrcAssumption, PayloadBitsType DEF Generator, Word
  <2> QED
    BY <1>3, <2>1, PayloadBitsType
<1>5. \A a \in 0 .. n - 1 : a > m => (a \in p <=> a \in q)
  <2>1. \A a \in 0 .. n - 1 : a > m => a \notin Xor(p, q)
    BY <1>2, <1>3
  <2> QED
    BY <2>1 DEF Xor
<1>6. m + Width \in Times(p, Generator) <=> ~(m + Width \in Times(q, Generator))
  <2>1. CASE m \in p /\ m \notin q
    BY <1>3, <1>4, <1>5, <2>1, ProductsDifferAt
  <2>2. CASE m \in q /\ m \notin p
    BY <1>3, <1>4, <1>5, <2>2, ProductsDifferAt
  <2> QED
    BY <2>1, <2>2 DEF Xor
<1> QED
  BY <1>2, <1>6

\* An odd polynomial has the exponent 0: two products differ at the lowest
\* exponent at which the quotients do.
LEMMA ProductsDifferLow ==
    ASSUME NEW n \in Nat, NEW p \in SUBSET (0 .. n - 1), NEW q \in SUBSET (0 .. n - 1),
           p # q, 0 \in dwPolynomial
    PROVE  \E m \in Xor(p, q) :
               /\ \A a \in Xor(p, q) : m <= a
               /\ m \in Times(p, Generator) <=> ~(m \in Times(q, Generator))
<1>1. Xor(p, q) \in SUBSET (0 .. n - 1) /\ Xor(p, q) \in SUBSET Nat /\ Xor(p, q) # {}
  BY DEF Xor
<1>2. PICK m \in Xor(p, q) : \A a \in Xor(p, q) : m <= a
  BY <1>1, LowestExists
<1>3. 0 \in Generator /\ m \in 0 .. n - 1 /\ m + 0 = m
  BY <1>1 DEF Generator
<1>4. \A a \in 0 .. n - 1 : a # m /\ m + 0 - a \in Generator => a < m
  <2>1. Generator \in SUBSET (0 .. Width)
    BY CrcAssumption, PayloadBitsType DEF Generator, Word
  <2> QED
    BY <1>3, <2>1, PayloadBitsType
<1>5. \A a \in 0 .. n - 1 : a < m => (a \in p <=> a \in q)
  <2>1. \A a \in 0 .. n - 1 : a < m => a \notin Xor(p, q)
    BY <1>2, <1>3
  <2> QED
    BY <2>1 DEF Xor
<1>6. m + 0 \in Times(p, Generator) <=> ~(m + 0 \in Times(q, Generator))
  <2>1. CASE m \in p /\ m \notin q
    BY <1>3, <1>4, <1>5, <2>1, ProductsDifferAt
  <2>2. CASE m \in q /\ m \notin p
    BY <1>3, <1>4, <1>5, <2>2, ProductsDifferAt
  <2> QED
    BY <2>1, <2>2 DEF Xor
<1> QED
  BY <1>2, <1>3, <1>6

\* A message has one remainder: what the register holds, and what is written,
\* is determined by the bits of the payload alone.
THEOREM RemainderIsUnique ==
    ASSUME NEW message, NEW n \in Nat, NEW r, NEW s,
           IsRemainder(r, message, n), IsRemainder(s, message, n)
    PROVE  r = s
<1>1. r \in Word /\ s \in Word
  BY DEF IsRemainder
<1>2. PICK p \in SUBSET (0 .. n - 1) :
          Xor(Up(message, Width), Up(AllOnes, n)) = Xor(Times(p, Generator), r)
  BY DEF IsRemainder
<1>3. PICK q \in SUBSET (0 .. n - 1) :
          Xor(Up(message, Width), Up(AllOnes, n)) = Xor(Times(q, Generator), s)
  BY DEF IsRemainder
<1>4. \A e : ~(e \in Times(p, Generator) <=> e \in r)
               <=> ~(e \in Times(q, Generator) <=> e \in s)
  <2>1. TAKE e
  <2>2. e \in Xor(Times(p, Generator), r) <=> ~(e \in Times(p, Generator) <=> e \in r)
    BY XorMember
  <2>3. e \in Xor(Times(q, Generator), s) <=> ~(e \in Times(q, Generator) <=> e \in s)
    BY XorMember
  <2>4. Xor(Times(p, Generator), r) = Xor(Times(q, Generator), s)
    BY <1>2, <1>3
  <2> QED
    BY ONLY <2>2, <2>3, <2>4
<1>5. p = q
  <2>1. SUFFICES ASSUME p # q PROVE FALSE
    OBVIOUS
  <2>2. PICK m \in Xor(p, q) : m + Width \in Times(p, Generator)
                                 <=> ~(m + Width \in Times(q, Generator))
    BY <2>1, ProductsDifferHigh
  <2>3. m + Width \notin r /\ m + Width \notin s
    <3>1. m \in 0 .. n - 1
      BY DEF Xor
    <3> QED
      BY <1>1, <3>1, PayloadBitsType DEF Word
  <2> QED
    BY <1>4, <2>2, <2>3
<1>6. \A e : e \in r <=> e \in s
  BY <1>4, <1>5
<1> QED
  BY <1>1, <1>6 DEF Word

\* What is written is the one word that seals the payload, whatever checksum the
\* last word held before.
THEOREM ChecksumIsDetermined ==
    Spec => [](pc = "written" /\ i > 0 =>
                   \A r : IsRemainder(r, Payload, PayloadBits) <=> r = low_cmd[WordCount])
<1>1. CrcInv => (pc = "written" /\ i > 0 =>
                     \A r : IsRemainder(r, Payload, PayloadBits)
                              <=> r = low_cmd[WordCount])
  BY RemainderIsUnique, PayloadBitsType DEF CrcInv, WrittenIsSealed
<1> QED
  BY <1>1, CrcInvariance, PTL

\* What a checksum is for: two messages whose differing bits lie within one word's
\* length have different checksums, when the polynomial is odd, as 0x04c11db7 is.
THEOREM BurstsAreCaught ==
    ASSUME 0 \in dwPolynomial,
           NEW n \in Nat, NEW sent \in SUBSET Nat, NEW received \in SUBSET Nat,
           sent # received,
           \A a, b \in Xor(sent, received) : a - b < Width,
           NEW r, NEW s, IsRemainder(r, sent, n), IsRemainder(s, received, n)
    PROVE  r # s
<1> SUFFICES ASSUME r = s PROVE FALSE
  OBVIOUS
<1>1. PICK p \in SUBSET (0 .. n - 1) :
          Xor(Up(sent, Width), Up(AllOnes, n)) = Xor(Times(p, Generator), r)
  BY DEF IsRemainder
<1>2. PICK q \in SUBSET (0 .. n - 1) :
          Xor(Up(received, Width), Up(AllOnes, n)) = Xor(Times(q, Generator), r)
  BY DEF IsRemainder
\* The products differ where the messages do, Width higher.
<1>3. ASSUME NEW e \in Int
      PROVE  ~(e \in Times(p, Generator) <=> e \in Times(q, Generator))
               <=> e - Width \in Xor(sent, received)
  <2>1. /\ e \in Xor(Up(sent, Width), Up(AllOnes, n))
             <=> ~(e \in Up(sent, Width) <=> e \in Up(AllOnes, n))
        /\ e \in Xor(Up(received, Width), Up(AllOnes, n))
             <=> ~(e \in Up(received, Width) <=> e \in Up(AllOnes, n))
    BY XorMember
  <2>2. /\ e \in Xor(Times(p, Generator), r) <=> ~(e \in Times(p, Generator) <=> e \in r)
        /\ e \in Xor(Times(q, Generator), r) <=> ~(e \in Times(q, Generator) <=> e \in r)
    BY XorMember
  <2>3. /\ e \in Up(sent, Width) <=> e - Width \in sent
        /\ e \in Up(received, Width) <=> e - Width \in received
    <3>1. sent \in SUBSET Int /\ received \in SUBSET Int
      OBVIOUS
    <3> QED
      BY <3>1, UpMember, PayloadBitsType
  <2>4. e - Width \in Xor(sent, received) <=> ~(e - Width \in sent <=> e - Width \in received)
    BY XorMember
  <2> QED
    BY ONLY <1>1, <1>2, <2>1, <2>2, <2>3, <2>4
<1>4. p # q
  <2>1. PICK a \in Xor(sent, received) : a \in Nat
    BY DEF Xor
  <2>2. a + Width \in Int /\ (a + Width) - Width = a
    BY <2>1, PayloadBitsType
  <2>3. ~(a + Width \in Times(p, Generator) <=> a + Width \in Times(q, Generator))
          <=> (a + Width) - Width \in Xor(sent, received)
    BY ONLY <1>3, <2>2
  <2> QED
    BY ONLY <2>2, <2>3
<1>5. PICK high \in Xor(p, q) :
          /\ \A a \in Xor(p, q) : a <= high
          /\ ~(high + Width \in Times(p, Generator) <=> high + Width \in Times(q, Generator))
  BY <1>4, ProductsDifferHigh
<1>6. PICK low \in Xor(p, q) :
          ~(low \in Times(p, Generator) <=> low \in Times(q, Generator))
  BY <1>4, ProductsDifferLow
<1>7. low \in Int /\ high \in Int /\ low <= high
  <2>1. Xor(p, q) \in SUBSET Int
    BY DEF Xor
  <2> QED
    BY <1>5, <2>1
<1>8. high \in Xor(sent, received) /\ low - Width \in Xor(sent, received)
  <2>1. high + Width \in Int /\ (high + Width) - Width = high
    BY <1>7, PayloadBitsType
  <2>2. ~(high + Width \in Times(p, Generator) <=> high + Width \in Times(q, Generator))
          <=> (high + Width) - Width \in Xor(sent, received)
    BY ONLY <1>3, <2>1
  <2>3. low - Width \in Xor(sent, received)
    BY ONLY <1>3, <1>6, <1>7
  <2> QED
    BY ONLY <1>5, <2>1, <2>2, <2>3
<1>9. high - (low - Width) >= Width
  BY <1>7, PayloadBitsType
<1> QED
  BY <1>7, <1>8, <1>9, PayloadBitsType
=============================================================================
