-------------------------- MODULE StreamBufferProofs --------------------------
(***************************************************************************)
(* Proofs about StreamBuffer and Message, for every number of values a     *)
(* byte may have: whatever is written is read back.                        *)
(***************************************************************************)
EXTENDS Message, SequenceTheorems, TLAPS

-----------------------------------------------------------------------------
(* Integers as bytes.                                                      *)

\* The numbers of values of one, two and four bytes.
LEMMA BaseTypes ==
  /\ Base \in Nat /\ Half \in Nat /\ Word \in Nat /\ Base > 1 /\ Half > 1 /\ Word > 1
<1>1. Base \in Nat /\ Base > 1 BY StreamAssumption
<1>2. Half \in Nat /\ Half > 1 BY <1>1 DEF Half
<1>3. Word \in Nat /\ Word > 1 BY <1>2 DEF Word
<1> QED BY <1>1, <1>2, <1>3

\* A number is its lowest byte and the rest.
LEMMA LowAndRest ==
  ASSUME NEW v \in Nat
  PROVE  Low(v) \in Byte /\ Shr(v) \in Nat /\ v = Shr(v) * Base + Low(v)
BY BaseTypes DEF Low, Shr, Byte

\* What is below k * Base is below k without its lowest byte.
LEMMA ShrBound ==
  ASSUME NEW v \in Nat, NEW k \in Nat, v < k * Base
  PROVE  Shr(v) < k
<1>1. ASSUME Shr(v) >= k PROVE FALSE
  <2>1. Shr(v) * Base >= k * Base BY <1>1, LowAndRest, BaseTypes
  <2> QED BY <2>1, LowAndRest, BaseTypes DEF Byte
<1> QED BY <1>1, LowAndRest

\* Numbers below a power of two and their parts: what is above and below two bytes, and
\* above and below four.
Hi(v) == Shr(Shr(v))
Lo2(v) == Unsigned2(Bytes2(v), 1)
Lo4(v) == Unsigned4(Bytes4(v), 1)

\* One sequence of bytes behind another.
LEMMA BytesConcat ==
  ASSUME NEW s \in Seq(Byte), NEW t \in Seq(Byte)
  PROVE  /\ s \o t \in Seq(Byte) /\ Len(s \o t) = Len(s) + Len(t)
         /\ \A i \in 1 .. Len(s) : (s \o t)[i] = s[i]
         /\ \A i \in 1 .. Len(t) : (s \o t)[Len(s) + i] = t[i]
<1>1. Len(s) \in Nat /\ Len(t) \in Nat OBVIOUS
<1>2. /\ s \o t \in Seq(Byte) /\ Len(s \o t) = Len(s) + Len(t)
      /\ \A i \in 1 .. Len(s) + Len(t) : (s \o t)[i] = IF i <= Len(s) THEN s[i] ELSE t[i - Len(s)]
  BY ConcatProperties
<1>3. ASSUME NEW i \in 1 .. Len(s) PROVE (s \o t)[i] = s[i] BY <1>1, <1>2
<1>4. ASSUME NEW i \in 1 .. Len(t) PROVE (s \o t)[Len(s) + i] = t[i]
  <2>1. Len(s) + i \in 1 .. Len(s) + Len(t) /\ ~(Len(s) + i <= Len(s)) /\ Len(s) + i - Len(s) = i
    BY <1>1
  <2> QED BY <1>2, <2>1
<1> QED BY <1>2, <1>3, <1>4

\* Two digits of a number system with m digits.
LEMMA TwoDigits ==
  ASSUME NEW m \in Nat, NEW a \in 0 .. (m - 1), NEW b \in 0 .. (m - 1), NEW h \in Nat
  PROVE  /\ a * m + b \in 0 .. (m * m - 1)
         /\ (h * m + a) * m + b = h * (m * m) + (a * m + b)
<1>1. a * m \in Nat /\ m * m \in Nat /\ h * m \in Nat /\ h * (m * m) \in Nat OBVIOUS
<1>2. a * m <= (m - 1) * m OBVIOUS
<1>3. (m - 1) * m = m * m - m OBVIOUS
<1>4. a * m + b \in 0 .. (m * m - 1) BY <1>1, <1>2, <1>3
<1>5. (h * m + a) * m = (h * m) * m + a * m OBVIOUS
<1>6. (h * m) * m = h * (m * m) OBVIOUS
<1> QED BY <1>1, <1>4, <1>5, <1>6

\* A number that is small enough has nothing above.
LEMMA NothingAbove ==
  ASSUME NEW h \in Nat, NEW m \in Nat, NEW l \in Nat, h * m + l < m
  PROVE  h = 0 /\ h * m + l = l
<1>1. ASSUME h >= 1 PROVE FALSE
  <2>1. h * m >= 1 * m BY <1>1
  <2> QED BY <2>1
<1> QED BY <1>1

LEMMA TwoBytes ==
  ASSUME NEW v \in Nat
  PROVE  /\ Bytes2(v) \in Seq(Byte) /\ Len(Bytes2(v)) = 2
         /\ Hi(v) \in Nat /\ Lo2(v) \in 0 .. (Half - 1) /\ v = Hi(v) * Half + Lo2(v)
<1>1. /\ Shr(v) \in Nat /\ Hi(v) \in Nat /\ Low(v) \in Byte /\ Low(Shr(v)) \in Byte
  BY LowAndRest DEF Hi
<1>2. v = Shr(v) * Base + Low(v) /\ Shr(v) = Hi(v) * Base + Low(Shr(v))
  BY LowAndRest DEF Hi
<1>3. Bytes2(v) \in Seq(Byte) /\ Len(Bytes2(v)) = 2 BY <1>1 DEF Bytes2
<1>4. Lo2(v) = Low(Shr(v)) * Base + Low(v) BY DEF Lo2, Unsigned2, Bytes2
<1>5. /\ Low(Shr(v)) * Base + Low(v) \in 0 .. (Half - 1)
      /\ (Hi(v) * Base + Low(Shr(v))) * Base + Low(v)
            = Hi(v) * Half + (Low(Shr(v)) * Base + Low(v))
  BY <1>1, TwoDigits, BaseTypes DEF Byte, Half
<1> QED BY <1>1, <1>2, <1>3, <1>4, <1>5

LEMMA FourBytes ==
  ASSUME NEW v \in Nat
  PROVE  /\ Bytes4(v) \in Seq(Byte) /\ Len(Bytes4(v)) = 4
         /\ Lo4(v) \in 0 .. (Word - 1) /\ Hi(Hi(v)) \in Nat /\ v = Hi(Hi(v)) * Word + Lo4(v)
<1>1. /\ Hi(v) \in Nat /\ Lo2(v) \in 0 .. (Half - 1)
      /\ Hi(Hi(v)) \in Nat /\ Lo2(Hi(v)) \in 0 .. (Half - 1)
  BY TwoBytes
<1>2. v = Hi(v) * Half + Lo2(v) /\ Hi(v) = Hi(Hi(v)) * Half + Lo2(Hi(v)) BY <1>1, TwoBytes
<1>3. /\ Bytes4(v) \in Seq(Byte) /\ Len(Bytes4(v)) = 4
      /\ Bytes4(v)[1] = Bytes2(Hi(v))[1] /\ Bytes4(v)[2] = Bytes2(Hi(v))[2]
      /\ Bytes4(v)[3] = Bytes2(v)[1] /\ Bytes4(v)[4] = Bytes2(v)[2]
  <2>1. /\ Bytes2(v) \in Seq(Byte) /\ Len(Bytes2(v)) = 2
        /\ Bytes2(Hi(v)) \in Seq(Byte) /\ Len(Bytes2(Hi(v))) = 2
    BY <1>1, TwoBytes
  <2>2. Bytes4(v) = Bytes2(Hi(v)) \o Bytes2(v) BY DEF Bytes4, Hi
  <2>3. /\ Bytes2(Hi(v)) \o Bytes2(v) \in Seq(Byte) /\ Len(Bytes2(Hi(v)) \o Bytes2(v)) = Len(Bytes2(Hi(v))) + Len(Bytes2(v))
        /\ \A i \in 1 .. Len(Bytes2(Hi(v))) : (Bytes2(Hi(v)) \o Bytes2(v))[i] = Bytes2(Hi(v))[i]
        /\ \A i \in 1 .. Len(Bytes2(v)) : (Bytes2(Hi(v)) \o Bytes2(v))[Len(Bytes2(Hi(v))) + i] = Bytes2(v)[i]
    BY <2>1, BytesConcat
  <2>4. /\ Bytes4(v) \in Seq(Byte) /\ Len(Bytes4(v)) = 2 + 2
        /\ \A i \in 1 .. 2 : Bytes4(v)[i] = Bytes2(Hi(v))[i]
        /\ \A i \in 1 .. 2 : Bytes4(v)[2 + i] = Bytes2(v)[i]
    BY <2>1, <2>2, <2>3
  <2> QED BY <2>4
<1>4. Lo4(v) = Lo2(Hi(v)) * Half + Lo2(v)
  BY <1>3 DEF Lo4, Unsigned4, Lo2, Unsigned2
<1>5. /\ Lo2(Hi(v)) * Half + Lo2(v) \in 0 .. (Word - 1)
      /\ (Hi(Hi(v)) * Half + Lo2(Hi(v))) * Half + Lo2(v)
            = Hi(Hi(v)) * Word + (Lo2(Hi(v)) * Half + Lo2(v))
  BY <1>1, TwoDigits, BaseTypes DEF Word
<1> QED BY <1>1, <1>2, <1>3, <1>4, <1>5

LEMMA EightBytes ==
  ASSUME NEW v \in Nat, v < Word * Word
  PROVE  /\ Bytes8(v) \in Seq(Byte) /\ Len(Bytes8(v)) = 8 /\ Unsigned8(Bytes8(v), 1) = v
<1> DEFINE h == Hi(Hi(v))
<1>1. h \in Nat /\ Lo4(v) \in 0 .. (Word - 1) BY FourBytes
<1>2. v = h * Word + Lo4(v) BY FourBytes
<1>3. Bytes8(v) = Bytes4(h) \o Bytes4(v) BY DEF Bytes8, Hi
<1> HIDE DEF h
<1>4. Hi(Hi(h)) \in Nat /\ Lo4(h) \in 0 .. (Word - 1) BY <1>1, FourBytes
<1>5. h = Hi(Hi(h)) * Word + Lo4(h) BY <1>1, FourBytes
<1>6. /\ Bytes8(v) \in Seq(Byte) /\ Len(Bytes8(v)) = 8
      /\ \A i \in 1 .. 4 : Bytes8(v)[i] = Bytes4(h)[i] /\ Bytes8(v)[4 + i] = Bytes4(v)[i]
  <2>1. /\ Bytes4(v) \in Seq(Byte) /\ Len(Bytes4(v)) = 4
        /\ Bytes4(h) \in Seq(Byte) /\ Len(Bytes4(h)) = 4
    BY <1>1, FourBytes
  <2>3. /\ Bytes4(h) \o Bytes4(v) \in Seq(Byte) /\ Len(Bytes4(h) \o Bytes4(v)) = Len(Bytes4(h)) + Len(Bytes4(v))
        /\ \A i \in 1 .. Len(Bytes4(h)) : (Bytes4(h) \o Bytes4(v))[i] = Bytes4(h)[i]
        /\ \A i \in 1 .. Len(Bytes4(v)) : (Bytes4(h) \o Bytes4(v))[Len(Bytes4(h)) + i] = Bytes4(v)[i]
    BY <2>1, BytesConcat
  <2>4. /\ Bytes8(v) \in Seq(Byte) /\ Len(Bytes8(v)) = 4 + 4
        /\ \A i \in 1 .. 4 : Bytes8(v)[i] = Bytes4(h)[i]
        /\ \A i \in 1 .. 4 : Bytes8(v)[4 + i] = Bytes4(v)[i]
    BY <2>1, <1>3, <2>3
  <2> QED BY <2>4
<1>7. Unsigned8(Bytes8(v), 1) = Lo4(h) * Word + Lo4(v)
  BY <1>6 DEF Unsigned8, Unsigned4, Unsigned2, Lo4
<1>8. h < Word
  <2>1. ASSUME h >= Word PROVE FALSE
    <3>1. h * Word >= Word * Word BY <2>1, <1>1, BaseTypes
    <3>2. h * Word \in Nat /\ Word * Word \in Nat BY <1>1, BaseTypes
    <3> QED BY <3>1, <3>2, <1>1, <1>2
  <2> QED BY <2>1, <1>1, BaseTypes
<1>9. Lo4(h) = h BY <1>4, <1>5, <1>8, NothingAbove, BaseTypes
<1> QED BY <1>2, <1>6, <1>7, <1>9

-----------------------------------------------------------------------------
(* Reads of what was written.                                              *)

\* The bytes c lie in the buffer b behind position g.
Lies(c, b, g) == g + Len(c) <= Len(b) /\ \A j \in 1 .. Len(c) : b[g + j] = c[j]

LEMMA ReadBack1 ==
  ASSUME NEW v \in Byte
  PROVE  /\ Bytes1(v) \in Seq(Byte) /\ Len(Bytes1(v)) = 1
         /\ \A b \in Seq(Byte) : \A g \in Nat :
               Lies(Bytes1(v), b, g) => ReadInteger(b, g, 1) = Result(v, g + 1)
<1>1. v \in Nat /\ v < Base BY BaseTypes DEF Byte
<1>2. v = Shr(v) * Base + Low(v) /\ Low(v) \in Byte /\ Shr(v) \in Nat BY <1>1, LowAndRest
<1>3. Low(v) = v BY <1>1, <1>2, NothingAbove, BaseTypes DEF Byte
<1>4. Bytes1(v) = <<v>> BY <1>3 DEF Bytes1
<1>5. ASSUME NEW b \in Seq(Byte), NEW g \in Nat, Lies(Bytes1(v), b, g)
      PROVE  ReadInteger(b, g, 1) = Result(v, g + 1)
  <2>1. g + 1 <= Len(b) /\ b[g + 1] = v /\ Len(b) \in Nat BY <1>4, <1>5 DEF Lies
  <2> QED BY <2>1 DEF ReadInteger, Unsigned1
<1> QED BY <1>4, <1>5

LEMMA ReadBack2 ==
  ASSUME NEW v \in 0 .. (Half - 1)
  PROVE  /\ Bytes2(v) \in Seq(Byte) /\ Len(Bytes2(v)) = 2
         /\ \A b \in Seq(Byte) : \A g \in Nat :
               Lies(Bytes2(v), b, g) => ReadInteger(b, g, 2) = Result(v, g + 2)
<1>1. v \in Nat /\ v < Half BY BaseTypes
<1>2. Bytes2(v) \in Seq(Byte) /\ Len(Bytes2(v)) = 2 BY <1>1, TwoBytes
<1>3. Lo2(v) = v
  <2>1. Hi(v) \in Nat /\ Lo2(v) \in Nat /\ v = Hi(v) * Half + Lo2(v) BY <1>1, TwoBytes, BaseTypes
  <2> QED BY <1>1, <2>1, NothingAbove, BaseTypes
<1>4. ASSUME NEW b \in Seq(Byte), NEW g \in Nat, Lies(Bytes2(v), b, g)
      PROVE  ReadInteger(b, g, 2) = Result(v, g + 2)
  <2>1. g + 2 <= Len(b) /\ b[g + 1] = Bytes2(v)[1] /\ b[g + 2] = Bytes2(v)[2] /\ Len(b) \in Nat
    BY <1>2, <1>4 DEF Lies
  <2>2. Unsigned2(b, g + 1) = v BY <1>3, <2>1 DEF Unsigned2, Lo2
  <2> QED BY <2>1, <2>2 DEF ReadInteger
<1> QED BY <1>2, <1>4

LEMMA ReadBack4 ==
  ASSUME NEW v \in 0 .. (Word - 1)
  PROVE  /\ Bytes4(v) \in Seq(Byte) /\ Len(Bytes4(v)) = 4
         /\ \A b \in Seq(Byte) : \A g \in Nat :
               Lies(Bytes4(v), b, g) =>
                 Unsigned4(b, g + 1) = v /\ ReadInteger(b, g, 4) = Result(v, g + 4)
<1>1. v \in Nat /\ v < Word BY BaseTypes
<1>2. Bytes4(v) \in Seq(Byte) /\ Len(Bytes4(v)) = 4 BY <1>1, FourBytes
<1>3. Lo4(v) = v
  <2>1. Hi(Hi(v)) \in Nat /\ Lo4(v) \in Nat /\ v = Hi(Hi(v)) * Word + Lo4(v)
    BY <1>1, FourBytes, BaseTypes
  <2> QED BY <1>1, <2>1, NothingAbove, BaseTypes
<1>4. ASSUME NEW b \in Seq(Byte), NEW g \in Nat, Lies(Bytes4(v), b, g)
      PROVE  Unsigned4(b, g + 1) = v /\ ReadInteger(b, g, 4) = Result(v, g + 4)
  <2>1. /\ g + 4 <= Len(b) /\ Len(b) \in Nat
        /\ b[g + 1] = Bytes4(v)[1] /\ b[g + 2] = Bytes4(v)[2]
        /\ b[g + 3] = Bytes4(v)[3] /\ b[g + 4] = Bytes4(v)[4]
    BY <1>2, <1>4 DEF Lies
  <2>2. Unsigned4(b, g + 1) = v BY <1>3, <2>1 DEF Unsigned4, Unsigned2, Lo4
  <2> QED BY <2>1, <2>2 DEF ReadInteger
<1> QED BY <1>2, <1>4

LEMMA ReadBack8 ==
  ASSUME NEW v \in 0 .. (Word * Word - 1)
  PROVE  /\ Bytes8(v) \in Seq(Byte) /\ Len(Bytes8(v)) = 8
         /\ \A b \in Seq(Byte) : \A g \in Nat :
               Lies(Bytes8(v), b, g) => ReadInteger(b, g, 8) = Result(v, g + 8)
<1>1. Word * Word \in Nat BY BaseTypes
<1>2. v \in Nat /\ v < Word * Word BY <1>1
<1>3. Bytes8(v) \in Seq(Byte) /\ Len(Bytes8(v)) = 8 /\ Unsigned8(Bytes8(v), 1) = v
  BY <1>2, EightBytes
<1>4. ASSUME NEW b \in Seq(Byte), NEW g \in Nat, Lies(Bytes8(v), b, g)
      PROVE  ReadInteger(b, g, 8) = Result(v, g + 8)
  <2>1. /\ g + 8 <= Len(b) /\ Len(b) \in Nat
        /\ b[g + 1] = Bytes8(v)[1] /\ b[g + 2] = Bytes8(v)[2]
        /\ b[g + 3] = Bytes8(v)[3] /\ b[g + 4] = Bytes8(v)[4]
        /\ b[g + 5] = Bytes8(v)[5] /\ b[g + 6] = Bytes8(v)[6]
        /\ b[g + 7] = Bytes8(v)[7] /\ b[g + 8] = Bytes8(v)[8]
    BY <1>3, <1>4 DEF Lies
  <2>2. Unsigned4(b, g + 1) = Unsigned4(Bytes8(v), 1) BY <2>1 DEF Unsigned4, Unsigned2
  <2>3. Unsigned4(b, (g + 1) + 4) = Unsigned4(Bytes8(v), 1 + 4)
    <3>1. /\ b[(g + 1) + 4] = Bytes8(v)[1 + 4] /\ b[(g + 1) + 4 + 1] = Bytes8(v)[1 + 4 + 1]
          /\ b[(g + 1) + 4 + 2] = Bytes8(v)[1 + 4 + 2]
          /\ b[(g + 1) + 4 + 2 + 1] = Bytes8(v)[1 + 4 + 2 + 1]
      BY <2>1
    <3> QED BY <3>1 DEF Unsigned4, Unsigned2
  <2>4. Unsigned8(b, g + 1) = v BY <1>3, <2>2, <2>3 DEF Unsigned8
  <2> QED BY <2>1, <2>4 DEF ReadInteger
<1> QED BY <1>3, <1>4

LEMMA IntegerBack ==
  ASSUME NEW t \in Signeds \cup Unsigneds, NEW v \in 0 .. (NumValues(t) - 1)
  PROVE  /\ IntegerBytes(t, v) \in Seq(Byte) /\ Len(IntegerBytes(t, v)) = Width(t)
         /\ \A b \in Seq(Byte) : \A g \in Nat :
               Lies(IntegerBytes(t, v), b, g) =>
                 ReadInteger(b, g, Width(t)) = Result(v, g + Width(t))
<1>1. CASE t \in {"bool", "u8", "i8"}
  <2>1. Width(t) = 1 BY <1>1 DEF Width
  <2>2. v \in Byte /\ IntegerBytes(t, v) = Bytes1(v)
    BY <2>1 DEF NumValues, IntegerBytes, Byte
  <2> QED BY <2>1, <2>2, ReadBack1
<1>2. CASE t \in {"u16", "i16"}
  <2>1. Width(t) = 2 BY <1>2 DEF Width
  <2>2. v \in 0 .. (Half - 1) /\ IntegerBytes(t, v) = Bytes2(v)
    BY <2>1 DEF NumValues, IntegerBytes
  <2> QED BY <2>1, <2>2, ReadBack2
<1>3. CASE t \in {"u32", "i32"}
  <2>1. Width(t) = 4 BY <1>3 DEF Width
  <2>2. v \in 0 .. (Word - 1) /\ IntegerBytes(t, v) = Bytes4(v)
    BY <2>1 DEF NumValues, IntegerBytes
  <2> QED BY <2>1, <2>2, ReadBack4
<1>4. CASE t \in {"u64", "i64"}
  <2>1. Width(t) = 8 BY <1>4 DEF Width
  <2>2. v \in 0 .. (Word * Word - 1) /\ IntegerBytes(t, v) = Bytes8(v)
    BY <2>1 DEF NumValues, IntegerBytes
  <2> QED BY <2>1, <2>2, ReadBack8
<1> QED BY <1>1, <1>2, <1>3, <1>4 DEF Signeds, Unsigneds

\* A signed integer survives the cast to unsigned and the way back.
LEMMA SignedBack ==
  ASSUME NEW m \in Nat, m > 1, NEW v \in -(m \div 2) .. (m \div 2 - 1)
  PROVE  AsUnsigned(v, m) \in 0 .. (m - 1) /\ Signed(AsUnsigned(v, m), m) = v
<1>1. m \div 2 \in Nat /\ 2 * (m \div 2) <= m OBVIOUS
<1>2. CASE v >= 0
  <2>1. v < m BY <1>1, <1>2
  <2>2. v % m = v BY <2>1, <1>2
  <2> QED BY <1>1, <1>2, <2>1, <2>2 DEF AsUnsigned, Signed
<1>3. CASE v < 0
  <2>1. v + m \in 0 .. (m - 1) BY <1>1, <1>3
  <2>2. v % m = v + m BY <2>1, <1>3
  <2>3. ~(v + m <= m \div 2 - 1) BY <1>1, <2>1
  <2> QED BY <1>1, <1>3, <2>1, <2>2, <2>3 DEF AsUnsigned, Signed
<1> QED BY <1>1, <1>2, <1>3

LEMMA NumValuesType ==
  ASSUME NEW t \in Signeds \cup Unsigneds
  PROVE  NumValues(t) \in Nat /\ NumValues(t) > 1
<1>1. Word * Word \in Nat /\ Word * Word > 1 BY BaseTypes
<1>2. Width(t) \in {1, 2, 4, 8} BY DEF Width, Signeds, Unsigneds
<1> QED BY <1>1, <1>2, BaseTypes DEF NumValues

\* A part of b that has the bytes of s is s.
LEMMA SubSeqIs ==
  ASSUME NEW b \in Seq(Byte), NEW s \in Seq(Byte), NEW g \in Nat, s # <<>>,
         g + Len(s) <= Len(b), \A i \in 1 .. Len(s) : b[g + i] = s[i]
  PROVE  SubSeq(b, g + 1, g + Len(s)) = s
<1> DEFINE q == SubSeq(b, g + 1, g + Len(s))
<1>1. Len(s) \in Nat /\ Len(s) > 0 /\ Len(b) \in Nat BY EmptySeq
<1>2. \A i \in g + 1 .. g + Len(s) : b[i] \in Byte BY <1>1
<1>3. /\ q \in Seq(Byte)
      /\ Len(q) = IF g + 1 <= g + Len(s) THEN (g + Len(s)) - (g + 1) + 1 ELSE 0
      /\ \A i \in 1 .. (g + Len(s)) - (g + 1) + 1 : q[i] = b[(g + 1) + i - 1]
  <2>1. g + 1 \in Int /\ g + Len(s) \in Int BY <1>1
  <2> QED BY <1>2, <2>1, SubSeqProperties
<1> HIDE DEF q
<1>4. (g + Len(s)) - (g + 1) + 1 = Len(s) /\ g + 1 <= g + Len(s) BY <1>1
<1>5. Len(q) = Len(s) BY <1>3, <1>4
<1>6. ASSUME NEW i \in 1 .. Len(s) PROVE q[i] = s[i]
  <2>1. (g + 1) + i - 1 = g + i BY <1>1
  <2> QED BY <1>3, <1>4, <2>1
<1>7. q = s BY <1>3, <1>5, <1>6, SeqEqual
<1> QED BY <1>7 DEF q

\* What every value must satisfy: it is written as bytes, and reading it where these lie
\* gives it back and moves the cursor behind them.
ReadBack(x) ==
  /\ Encode(x) \in Seq(Byte)
  /\ \A b \in Seq(Byte) : \A g \in Nat :
        Lies(Encode(x), b, g) => Decode(x.type, b, g) = Result(x.value, g + Len(Encode(x)))

LEMMA IntegerReadBack ==
  ASSUME NEW x, x.type \in Signeds \cup Unsigneds, x.value \in Values(x.type)
  PROVE  ReadBack(x)
<1> DEFINE t == x.type
           m == NumValues(t)
<1>1. m \in Nat /\ m > 1 BY NumValuesType
<1>2. CASE t \in Unsigneds
  <2>1. x.value \in 0 .. (m - 1)
    BY <1>1, <1>2 DEF Values, Unsigneds, Signeds, Sized, Floats
  <2>2. Encode(x) = IntegerBytes(t, x.value)
    BY <1>2 DEF Encode, Unsigneds, Signeds, Sized, Floats
  <2>3. \A b, g : Decode(t, b, g) = ReadInteger(b, g, Width(t))
    BY <1>2 DEF Decode, Unsigneds, Signeds, Sized, Floats
  <2>4. /\ IntegerBytes(t, x.value) \in Seq(Byte) /\ Len(IntegerBytes(t, x.value)) = Width(t)
        /\ \A b \in Seq(Byte) : \A g \in Nat :
              Lies(IntegerBytes(t, x.value), b, g) =>
                ReadInteger(b, g, Width(t)) = Result(x.value, g + Width(t))
    BY <1>2, <2>1, IntegerBack
  <2> QED BY <2>2, <2>3, <2>4 DEF ReadBack
<1>3. CASE t \in Signeds
  <2> DEFINE u == AsUnsigned(x.value, m)
  <2>1. x.value \in -(m \div 2) .. (m \div 2 - 1)
    BY <1>1, <1>3 DEF Values, Unsigneds, Signeds, Sized, Floats
  <2>2. Encode(x) = IntegerBytes(t, u)
    BY <1>3 DEF Encode, Unsigneds, Signeds, Sized, Floats
  <2>3. \A b, g : Decode(t, b, g) = ReadSigned(b, g, t)
    BY <1>3 DEF Decode, Unsigneds, Signeds, Sized, Floats
  <2>4. u \in 0 .. (m - 1) /\ Signed(u, m) = x.value BY <1>1, <2>1, SignedBack
  <2>5. t \in Signeds \cup Unsigneds BY <1>3
  <2> HIDE DEF u
  <2>6. /\ IntegerBytes(t, u) \in Seq(Byte) /\ Len(IntegerBytes(t, u)) = Width(t)
        /\ \A b \in Seq(Byte) : \A g \in Nat :
              Lies(IntegerBytes(t, u), b, g) =>
                ReadInteger(b, g, Width(t)) = Result(u, g + Width(t))
    BY <2>4, <2>5, IntegerBack
  <2>7. ASSUME NEW b \in Seq(Byte), NEW g \in Nat, Lies(Encode(x), b, g)
        PROVE  Decode(t, b, g) = Result(x.value, g + Len(Encode(x)))
    <3>1. ReadInteger(b, g, Width(t)) = Result(u, g + Width(t)) BY <2>2, <2>6, <2>7
    <3>2. ReadSigned(b, g, t) = Result(x.value, g + Width(t))
      BY <2>4, <3>1 DEF ReadSigned, Result
    <3> QED BY <2>2, <2>3, <2>6, <3>2
  <2> QED BY <2>2, <2>6, <2>7 DEF ReadBack
<1> QED BY <1>2, <1>3

LEMMA SizedReadBack ==
  ASSUME NEW x, x.type \in Sized, x.value \in Values(x.type)
  PROVE  ReadBack(x)
<1> DEFINE s == x.value
           n == Len(s)
<1>1. s \in Seq(Byte) /\ n \in 0 .. (Word - 1)
  <2>1. s \in {q \in Seq(Byte) : Len(q) < Word}
    BY DEF Values, Unsigneds, Signeds, Sized, Floats
  <2> QED BY <2>1, BaseTypes
<1>2. Encode(x) = Bytes4(n) \o s BY DEF Encode, Unsigneds, Signeds, Sized, Floats
<1> HIDE DEF s, n
<1>3. /\ Bytes4(n) \in Seq(Byte) /\ Len(Bytes4(n)) = 4
      /\ \A b \in Seq(Byte) : \A g \in Nat :
            Lies(Bytes4(n), b, g) => ReadInteger(b, g, 4) = Result(n, g + 4)
  BY <1>1, ReadBack4
<1>4. /\ Encode(x) \in Seq(Byte) /\ Len(Encode(x)) = 4 + n
      /\ \A i \in 1 .. 4 : Encode(x)[i] = Bytes4(n)[i]
      /\ \A i \in 1 .. n : Encode(x)[4 + i] = s[i]
  <2>1. /\ Bytes4(n) \o s \in Seq(Byte) /\ Len(Bytes4(n) \o s) = Len(Bytes4(n)) + Len(s)
        /\ \A i \in 1 .. Len(Bytes4(n)) : (Bytes4(n) \o s)[i] = Bytes4(n)[i]
        /\ \A i \in 1 .. Len(s) : (Bytes4(n) \o s)[Len(Bytes4(n)) + i] = s[i]
    BY <1>1, <1>3, BytesConcat
  <2> QED BY <1>2, <1>3, <2>1 DEF n
<1>5. ASSUME NEW b \in Seq(Byte), NEW g \in Nat, Lies(Encode(x), b, g)
      PROVE  Decode(x.type, b, g) = Result(s, g + Len(Encode(x)))
  <2>1. n \in Nat /\ g + 4 + n <= Len(b) /\ Len(b) \in Nat BY <1>1, <1>4, <1>5 DEF Lies
  <2>2. \A i \in 1 .. 4 : b[g + i] = Bytes4(n)[i] BY <1>4, <1>5, <2>1 DEF Lies
  <2>3. ASSUME NEW i \in 1 .. n PROVE b[g + 4 + i] = s[i]
    <3>1. 4 + i \in 1 .. 4 + n /\ g + (4 + i) = g + 4 + i BY <2>1
    <3> QED BY <1>4, <1>5, <2>1, <3>1 DEF Lies
  <2>4. ReadInteger(b, g, 4) = Result(n, g + 4)
    <3>1. Lies(Bytes4(n), b, g) BY <1>3, <2>1, <2>2 DEF Lies
    <3> QED BY <1>3, <3>1
  <2>5. s \in [1 .. n -> Byte] BY <1>1 DEF n
  <2>6. CASE x.type = "string"
    <3>1. Decode(x.type, b, g) = ReadString(b, g) BY <2>6 DEF Decode, Unsigneds, Signeds, Sized, Floats
    <3>2. CASE n = 0
      <4>1. s = <<>> BY <1>1, <3>2 DEF n
      <4>2. ReadString(b, g) = Result(<<>>, g + 4) BY <2>4, <3>2 DEF ReadString, Result
      <4> QED BY <1>4, <3>1, <3>2, <4>1, <4>2, <2>1
    <3>3. CASE n # 0
      <4>1. n > 0 BY <2>1, <3>3
      <4>2. ReadString(b, g) = Result(SubSeq(b, g + 4 + 1, g + 4 + n), g + 4 + n)
        <5>1. ReadInteger(b, g, 4).value = n /\ ReadInteger(b, g, 4).gpos = g + 4
          BY <2>4 DEF Result
        <5> QED BY <2>1, <4>1, <5>1 DEF ReadString
      <4>3. SubSeq(b, g + 4 + 1, g + 4 + n) = s
        BY <1>1, <2>1, <2>3, <4>1, SubSeqIs DEF n
      <4>4. g + Len(Encode(x)) = g + 4 + n BY <1>4, <2>1
      <4> QED BY <3>1, <4>2, <4>3, <4>4
    <3> QED BY <3>2, <3>3
  <2>7. CASE x.type = "vector"
    <3>1. Decode(x.type, b, g) = ReadBytes(b, g + 4, n)
      <4>1. Decode(x.type, b, g) = ReadVector(b, g)
        BY <2>7 DEF Decode, Unsigneds, Signeds, Sized, Floats
      <4>2. ReadInteger(b, g, 4).value = n /\ ReadInteger(b, g, 4).gpos = g + 4
        BY <2>4 DEF Result
      <4> QED BY <4>1, <4>2 DEF ReadVector
    <3>2. \A i \in 1 .. n : ~(g + 4 + i > Len(b)) /\ b[g + 4 + i] = s[i] BY <2>1, <2>3
    <3>3. [i \in 1 .. n |-> IF g + 4 + i > Len(b) THEN 0 ELSE b[g + 4 + i]] = s
      BY <2>5, <3>2
    <3>4. ~(g + 4 + n > Len(b)) /\ g + 4 + n = g + (4 + n) BY <2>1
    <3> QED BY <1>4, <3>1, <3>3, <3>4 DEF ReadBytes
  <2> QED BY <2>6, <2>7 DEF Sized
<1> QED BY <1>4, <1>5 DEF ReadBack, s

LEMMA ColorReadBack ==
  ASSUME NEW x, x.type = "Color", x.value \in Values(x.type)
  PROVE  ReadBack(x)
<1>1. x.value \in [1 .. 4 -> Byte]
  BY DEF Values, Unsigneds, Signeds, Sized, Floats
<1>2. Encode(x) = x.value BY DEF Encode, Unsigneds, Signeds, Sized, Floats
<1>3. x.value \in Seq(Byte) /\ Len(x.value) = 4
  <2> DEFINE n == 4
  <2>1. n \in Nat /\ x.value \in [1 .. n -> Byte] BY <1>1
  <2> HIDE DEF n
  <2>2. x.value \in Seq(Byte) /\ Len(x.value) = n BY <2>1
  <2> QED BY <2>2 DEF n
<1>4. ASSUME NEW b \in Seq(Byte), NEW g \in Nat, Lies(x.value, b, g)
      PROVE  Decode(x.type, b, g) = Result(x.value, g + 4)
  <2>1. Decode(x.type, b, g) = ReadBytes(b, g, 4)
    BY DEF Decode, Unsigneds, Signeds, Sized, Floats
  <2>2. g + 4 <= Len(b) /\ Len(b) \in Nat BY <1>3, <1>4 DEF Lies
  <2>3. \A i \in 1 .. 4 : ~(g + i > Len(b)) /\ b[g + i] = x.value[i]
    <3> DEFINE s == x.value
    <3>1. Len(s) = 4 /\ Lies(s, b, g) BY <1>3, <1>4
    <3> HIDE DEF s
    <3>2. \A i \in 1 .. 4 : ~(g + i > Len(b)) /\ b[g + i] = s[i] BY <2>2, <3>1 DEF Lies
    <3> QED BY <3>2 DEF s
  <2>4. [i \in 1 .. 4 |-> IF g + i > Len(b) THEN 0 ELSE b[g + i]] = x.value BY <1>1, <2>3
  <2> QED BY <2>1, <2>2, <2>4 DEF ReadBytes
<1> QED BY <1>2, <1>3, <1>4 DEF ReadBack

LEMMA FloatsReadBack ==
  ASSUME NEW x, x.type \in Floats, x.value \in Values(x.type)
  PROVE  ReadBack(x)
<1> DEFINE n == Parts[x.type]
           v == x.value
<1>1. n \in {2, 3, 4} BY DEF Parts, Floats
<1>2. v \in [1 .. n -> 0 .. (Word - 1)]
  BY DEF Values, Unsigneds, Signeds, Sized, Floats
<1>3. Encode(x) = FloatBytes(v, n) BY DEF Encode, Unsigneds, Signeds, Sized, Floats
<1>4. \A b, g : Decode(x.type, b, g) = ReadFloats(b, g, n)
  BY DEF Decode, Unsigneds, Signeds, Sized, Floats
<1> HIDE DEF n, v
<1>5. ASSUME NEW i \in 1 .. 4 * n
      PROVE  /\ 1 + (i - 1) \div 4 \in 1 .. n /\ 1 + ((i - 1) % 4) \in 1 .. 4
             /\ FloatBytes(v, n)[i] = Bytes4(v[1 + (i - 1) \div 4])[1 + ((i - 1) % 4)]
  BY <1>1 DEF FloatBytes
<1>6. FloatBytes(v, n) \in Seq(Byte) /\ Len(FloatBytes(v, n)) = 4 * n
  <2>1. \A k \in 1 .. n : Bytes4(v[k]) \in Seq(Byte) /\ Len(Bytes4(v[k])) = 4
    BY <1>2, ReadBack4
  <2>2. \A k \in 1 .. n : \A j \in 1 .. 4 : Bytes4(v[k])[j] \in Byte BY <2>1, ElementOfSeq
  <2>3. FloatBytes(v, n) \in [1 .. 4 * n -> Byte]
    <3>1. \A i \in 1 .. 4 * n : FloatBytes(v, n)[i] \in Byte BY <1>5, <2>2
    <3> QED BY <3>1 DEF FloatBytes
  <2> QED BY <1>1, <2>3
<1>7. ASSUME NEW b \in Seq(Byte), NEW g \in Nat, Lies(FloatBytes(v, n), b, g)
      PROVE  ReadFloats(b, g, n) = Result(v, g + 4 * n)
  <2>1. g + 4 * n <= Len(b) /\ Len(b) \in Nat BY <1>6, <1>7 DEF Lies
  <2>2. ASSUME NEW k \in 1 .. n
        PROVE  ~(g + 4 * k > Len(b)) /\ Unsigned4(b, g + 4 * k - 3) = v[k]
    <3> DEFINE h == g + 4 * (k - 1)
    <3>1. h \in Nat /\ h + 4 <= Len(b) /\ g + 4 * k - 3 = h + 1 /\ ~(g + 4 * k > Len(b))
      BY <1>1, <2>1
    <3>2. ASSUME NEW j \in 1 .. 4 PROVE b[h + j] = Bytes4(v[k])[j]
      <4> DEFINE i == 4 * (k - 1) + j
      <4>1. i \in 1 .. 4 * n /\ 1 + (i - 1) \div 4 = k /\ 1 + ((i - 1) % 4) = j /\ h + j = g + i
        BY <1>1
      <4> HIDE DEF i, h
      <4>2. b[g + i] = FloatBytes(v, n)[i] BY <1>6, <1>7, <4>1 DEF Lies
      <4> QED BY <1>5, <4>1, <4>2
    <3> HIDE DEF h
    <3>3. v[k] \in 0 .. (Word - 1) BY <1>2
    <3>4. Len(Bytes4(v[k])) = 4 BY <3>3, ReadBack4
    <3>5. Lies(Bytes4(v[k]), b, h) BY <3>1, <3>2, <3>4 DEF Lies
    <3>6. Unsigned4(b, h + 1) = v[k] BY <3>1, <3>3, <3>5, ReadBack4
    <3> QED BY <3>1, <3>6
  <2>3. [k \in 1 .. n |-> IF g + 4 * k > Len(b) THEN 0 ELSE Unsigned4(b, g + 4 * k - 3)] = v
    BY <1>2, <2>2
  <2>4. ~(g + 4 * n > Len(b)) BY <1>1, <2>1
  <2> QED BY <2>3, <2>4 DEF ReadFloats
<1> QED BY <1>3, <1>4, <1>6, <1>7 DEF ReadBack, v

\* Whatever is written is read back.
LEMMA ValueReadBack ==
  ASSUME NEW x, x.type \in Types, x.value \in Values(x.type)
  PROVE  ReadBack(x)
BY IntegerReadBack, SizedReadBack, ColorReadBack, FloatsReadBack DEF Types

\* A read whose first part is not there leaves the cursor where it is.
LEMMA TooMuch ==
  ASSUME NEW t \in Types, NEW b \in Seq(Byte), NEW g \in 0 .. Len(b),
         g + FirstWidth(t) > Len(b)
  PROVE  Decode(t, b, g).gpos = g
<1>1. Len(b) \in Nat /\ g \in Nat OBVIOUS
<1>2. CASE t \in Signeds \cup Unsigneds
  <2>1. FirstWidth(t) = Width(t)
    BY <1>2 DEF FirstWidth, Unsigneds, Signeds, Sized, Floats
  <2>2. ReadInteger(b, g, Width(t)) = Result(0, g) BY <2>1 DEF ReadInteger
  <2>3. Decode(t, b, g) = ReadInteger(b, g, Width(t)) \/ Decode(t, b, g) = ReadSigned(b, g, t)
    BY <1>2 DEF Decode, Unsigneds, Signeds, Sized, Floats
  <2> QED BY <2>2, <2>3 DEF ReadSigned, Result
<1>3. CASE t \in Sized
  <2>1. FirstWidth(t) = 4 BY <1>3 DEF FirstWidth, Sized, Floats
  <2>2. ReadInteger(b, g, 4) = Result(0, g) BY <2>1 DEF ReadInteger
  <2>3. ReadString(b, g) = Result(<<>>, g) BY <2>2 DEF ReadString, Result
  <2>4. ReadVector(b, g).gpos = g
    <3>1. ReadVector(b, g) = ReadBytes(b, g, 0) BY <2>2 DEF ReadVector, Result
    <3> QED BY <3>1, <1>1 DEF ReadBytes, Result
  <2>5. Decode(t, b, g) = ReadString(b, g) \/ Decode(t, b, g) = ReadVector(b, g)
    BY <1>3 DEF Decode, Unsigneds, Signeds, Sized, Floats
  <2> QED BY <2>3, <2>4, <2>5 DEF Result
<1>4. CASE t = "Color"
  <2>1. FirstWidth(t) = 1 BY <1>4 DEF FirstWidth, Sized, Floats
  <2>2. Decode(t, b, g) = ReadBytes(b, g, 4)
    BY <1>4 DEF Decode, Unsigneds, Signeds, Sized, Floats
  <2> QED BY <1>1, <2>1, <2>2 DEF ReadBytes, Result
<1>5. CASE t \in Floats
  <2>1. FirstWidth(t) = 4 BY <1>5 DEF FirstWidth, Sized, Floats
  <2>2. Decode(t, b, g) = ReadFloats(b, g, Parts[t])
    BY <1>5 DEF Decode, Unsigneds, Signeds, Sized, Floats
  <2>3. Parts[t] \in {2, 3, 4} BY <1>5 DEF Parts, Floats
  <2>4. (Len(b) - g) \div 4 = 0 /\ g + 4 * Parts[t] > Len(b) BY <1>1, <2>1, <2>3
  <2> QED BY <1>1, <2>2, <2>4 DEF ReadFloats, Result
<1> QED BY <1>2, <1>3, <1>4, <1>5 DEF Types

\* Whatever is read, the cursor moves on, or stays, and does not leave the buffer; it
\* moves if the first part is there.
LEMMA CursorWithin ==
  ASSUME NEW t \in Types, NEW b \in Seq(Byte), NEW g \in 0 .. Len(b)
  PROVE  /\ Decode(t, b, g).gpos \in g .. Len(b)
         /\ g + FirstWidth(t) <= Len(b) => Decode(t, b, g).gpos >= g + 1
<1> DEFINE n == Len(b)
<1>1. n \in Nat /\ g \in Nat /\ g <= n OBVIOUS
<1>2. \A r, k : Result(r, k).gpos = k BY DEF Result
<1>3. ASSUME NEW h \in g .. n, NEW k \in Nat
      PROVE  /\ ReadBytes(b, h, k).gpos \in h .. n
             /\ h < n /\ k > 0 => ReadBytes(b, h, k).gpos >= h + 1
  BY <1>1, <1>2, <1>3 DEF ReadBytes
<1>4. CASE t \in Signeds \cup Unsigneds
  <2>1. FirstWidth(t) = Width(t) /\ Width(t) \in {1, 2, 4, 8}
    BY <1>4 DEF FirstWidth, Width, Unsigneds, Signeds, Sized, Floats
  <2>2. ReadInteger(b, g, Width(t)).gpos = IF g + Width(t) > n THEN g ELSE g + Width(t)
    BY <1>2 DEF ReadInteger
  <2>3. Decode(t, b, g).gpos = ReadInteger(b, g, Width(t)).gpos
    BY <1>2, <1>4 DEF Decode, ReadSigned, Unsigneds, Signeds, Sized, Floats
  <2> QED BY <1>1, <2>1, <2>2, <2>3
<1>5. CASE t \in Sized
  <2> DEFINE r == ReadInteger(b, g, 4)
  <2>1. FirstWidth(t) = 4 BY <1>5 DEF FirstWidth, Sized, Floats
  <2>2. r = IF g + 4 > n THEN Result(0, g) ELSE Result(Unsigned4(b, g + 1), g + 4)
    BY DEF ReadInteger
  <2>3. r.value \in Nat
    <3>1. CASE g + 4 > n BY <2>2, <3>1 DEF Result
    <3>2. CASE ~(g + 4 > n)
      <4>1. \A i \in 1 .. 4 : b[g + i] \in Nat
        <5>1. \A i \in 1 .. 4 : g + i \in 1 .. n BY <1>1, <3>2
        <5>2. \A j \in 1 .. n : b[j] \in Byte BY ElementOfSeq
        <5>3. Byte \subseteq Nat BY BaseTypes DEF Byte
        <5> QED BY <5>1, <5>2, <5>3
      <4>2. b[g + 1] \in Nat /\ b[g + 2] \in Nat /\ b[g + 3] \in Nat /\ b[g + 4] \in Nat
        BY <4>1
      <4>3. Unsigned2(b, g + 1) \in Nat /\ Unsigned2(b, g + 1 + 2) \in Nat
        <5>1. /\ Unsigned2(b, g + 1) = b[g + 1] * Base + b[g + 2]
              /\ Unsigned2(b, g + 1 + 2) = b[g + 3] * Base + b[g + 4]
          BY <1>1 DEF Unsigned2
        <5>2. \A x, y \in Nat : x * Base + y \in Nat BY BaseTypes
        <5> QED BY <4>2, <5>1, <5>2
      <4>4. Unsigned4(b, g + 1) \in Nat BY <4>3, BaseTypes DEF Unsigned4
      <4> QED BY <2>2, <3>2, <4>4 DEF Result
    <3> QED BY <3>1, <3>2
  <2>4. /\ r.gpos \in g .. n
        /\ g + 4 <= n => r.gpos = g + 4
    BY <1>1, <1>2, <2>2
  <2> HIDE DEF r
  <2>5. ReadString(b, g).gpos \in {r.gpos, r.gpos + r.value} /\ ReadString(b, g).gpos <= n
    BY <1>2, <2>3, <2>4 DEF ReadString, r
  <2>6. ReadVector(b, g).gpos \in r.gpos .. n
    <3>1. ReadVector(b, g) = ReadBytes(b, r.gpos, r.value) BY DEF ReadVector, r
    <3> QED BY <1>3, <2>3, <2>4, <3>1
  <2>7. Decode(t, b, g) = ReadString(b, g) \/ Decode(t, b, g) = ReadVector(b, g)
    BY <1>5 DEF Decode, Unsigneds, Signeds, Sized, Floats
  <2>8. Decode(t, b, g).gpos \in r.gpos .. n BY <1>1, <2>3, <2>4, <2>5, <2>6, <2>7
  <2> QED BY <1>1, <2>1, <2>4, <2>8
<1>6. CASE t = "Color"
  <2>1. FirstWidth(t) = 1 BY <1>6 DEF FirstWidth, Sized, Floats
  <2>2. Decode(t, b, g) = ReadBytes(b, g, 4)
    BY <1>6 DEF Decode, Unsigneds, Signeds, Sized, Floats
  <2> QED BY <1>1, <1>3, <2>1, <2>2
<1>7. CASE t \in Floats
  <2>1. FirstWidth(t) = 4 BY <1>7 DEF FirstWidth, Sized, Floats
  <2>2. Decode(t, b, g) = ReadFloats(b, g, Parts[t])
    BY <1>7 DEF Decode, Unsigneds, Signeds, Sized, Floats
  <2>3. Parts[t] \in {2, 3, 4} BY <1>7 DEF Parts, Floats
  <2>4. Decode(t, b, g).gpos
          = IF g + 4 * Parts[t] > n THEN g + 4 * ((n - g) \div 4) ELSE g + 4 * Parts[t]
    BY <1>2, <2>2 DEF ReadFloats
  <2>5. /\ 4 * ((n - g) \div 4) \in 0 .. (n - g)
        /\ g + 4 <= n => 4 * ((n - g) \div 4) >= 1
    BY <1>1
  <2> QED BY <1>1, <2>1, <2>3, <2>4, <2>5
<1> QED BY <1>4, <1>5, <1>6, <1>7 DEF Types

-----------------------------------------------------------------------------
(* The buffer, its cursor and what was not read.                           *)

\* The values u, which start at positions s of the buffer b, are all that lies behind
\* its cursor g, unless the reader is astray, a.
Placed(b, a, g, u, s) ==
  /\ b \in Seq(Byte) /\ g \in 0 .. Len(b) /\ a \in BOOLEAN
  /\ u \in Seq(Items) /\ s \in Seq(Nat) /\ Len(s) = Len(u)
  /\ IF a THEN g >= 1 ELSE g = IF u = <<>> THEN Len(b) ELSE s[1]
  /\ \A i \in 1 .. Len(u) :
        /\ Lies(Encode(u[i]), b, s[i])
        /\ s[i] + Len(Encode(u[i])) = IF i = Len(u) THEN Len(b) ELSE s[i + 1]

IInv == Placed(buffer, astray, gpos, unread, starts)

LEMMA ItemFacts ==
  ASSUME NEW x \in Items
  PROVE  /\ ReadBack(x) /\ Encode(x) \in Seq(Byte) /\ Len(Encode(x)) \in Nat
         /\ x = [type |-> x.type, value |-> x.value]
BY StreamAssumption, ValueReadBack DEF ReadBack

LEMMA InitPlaced == Init => IInv
<1> SUFFICES ASSUME Init PROVE IInv
  OBVIOUS
<1>1. /\ buffer = <<>> /\ gpos = 0 /\ unread = <<>> /\ starts = <<>> /\ ~astray /\ astray \in BOOLEAN
  BY DEF Init
<1>2. Len(<<>>) = 0 /\ <<>> \in Seq(Byte) /\ <<>> \in Seq(Items) /\ <<>> \in Seq(Nat)
  OBVIOUS
<1> QED BY <1>1, <1>2 DEF IInv, Placed

\* Whatever is appended leaves what was there where it was.
LEMMA WritePlaced ==
  ASSUME NEW x \in Items, IInv, Write(x)
  PROVE  IInv'
<1> DEFINE c == Encode(x)
<1>1. c \in Seq(Byte) /\ Len(c) \in Nat BY ItemFacts
<1>2. /\ buffer \in Seq(Byte) /\ gpos \in 0 .. Len(buffer) /\ Len(buffer) \in Nat
      /\ unread \in Seq(Items) /\ starts \in Seq(Nat) /\ Len(starts) = Len(unread)
      /\ Len(unread) \in Nat
  BY DEF IInv, Placed
<1>3. /\ buffer' = buffer \o c /\ gpos' = gpos /\ astray' = astray
      /\ unread' = Append(unread, x) /\ starts' = Append(starts, Len(buffer))
  BY DEF Write
<1> HIDE DEF c
<1>4. /\ buffer' \in Seq(Byte) /\ Len(buffer') = Len(buffer) + Len(c)
      /\ \A i \in 1 .. Len(buffer) : buffer'[i] = buffer[i]
      /\ \A i \in 1 .. Len(c) : buffer'[Len(buffer) + i] = c[i]
  BY <1>1, <1>2, <1>3, BytesConcat
<1>5. /\ unread' \in Seq(Items) /\ Len(unread') = Len(unread) + 1 /\ unread' # <<>>
      /\ \A i \in 1 .. Len(unread) : unread'[i] = unread[i]
      /\ unread'[Len(unread) + 1] = x
  <2>1. /\ unread' \in Seq(Items) /\ unread' # <<>> /\ Len(unread') = Len(unread) + 1
        /\ unread'[Len(unread) + 1] = x
    BY <1>2, <1>3, AppendProperties
  <2>2. \A i \in 1 .. Len(unread) : unread'[i] = unread[i] BY <1>2, <1>3, AppendProperties
  <2> QED BY <2>1, <2>2
<1>6. /\ starts' \in Seq(Nat) /\ Len(starts') = Len(unread')
      /\ \A i \in 1 .. Len(unread) : starts'[i] = starts[i]
      /\ starts'[Len(unread) + 1] = Len(buffer)
  BY <1>2, <1>3, <1>5
<1>7. (IF astray' THEN gpos' >= 1 ELSE gpos' = starts'[1]) /\ gpos' \in 0 .. Len(buffer')
  <2>1. gpos' \in 0 .. Len(buffer') BY <1>1, <1>2, <1>3, <1>4
  <2>2. CASE ~astray /\ unread = <<>>
    <3>1. gpos = Len(buffer) /\ Len(unread) = 0 BY <2>2 DEF IInv, Placed
    <3> QED BY <1>3, <1>6, <2>1, <2>2, <3>1
  <2>3. CASE ~astray /\ unread # <<>>
    <3>1. gpos = starts[1] /\ 1 \in 1 .. Len(unread) BY <1>2, <2>3 DEF IInv, Placed
    <3> QED BY <1>3, <1>6, <2>1, <2>3, <3>1
  <2>4. CASE astray BY <1>3, <2>1, <2>4 DEF IInv, Placed
  <2> QED BY <2>2, <2>3, <2>4
<1>8. ASSUME NEW i \in 1 .. Len(unread')
      PROVE  /\ Lies(Encode(unread'[i]), buffer', starts'[i])
             /\ starts'[i] + Len(Encode(unread'[i]))
                  = IF i = Len(unread') THEN Len(buffer') ELSE starts'[i + 1]
  <2>1. CASE i \in 1 .. Len(unread)
    <3> DEFINE d == Encode(unread[i])
    <3>1. /\ Lies(d, buffer, starts[i])
          /\ starts[i] + Len(d) = IF i = Len(unread) THEN Len(buffer) ELSE starts[i + 1]
      BY <2>1 DEF IInv, Placed
    <3>2. unread[i] \in Items /\ starts[i] \in Nat BY <1>2, <2>1, ElementOfSeq
    <3>3. Len(d) \in Nat BY <3>2, ItemFacts
    <3>4. unread'[i] = unread[i] /\ starts'[i] = starts[i] /\ i # Len(unread')
      BY <1>2, <1>5, <1>6, <2>1
    <3> HIDE DEF d
    <3>5. Lies(d, buffer', starts[i])
      <4>1. starts[i] + Len(d) <= Len(buffer) BY <3>1 DEF Lies
      <4>2. \A j \in 1 .. Len(d) : starts[i] + j \in 1 .. Len(buffer) BY <3>2, <3>3, <4>1, <1>2
      <4>3. \A j \in 1 .. Len(d) : buffer[starts[i] + j] = d[j] BY <3>1 DEF Lies
      <4>4. \A j \in 1 .. Len(d) : buffer'[starts[i] + j] = d[j] BY <1>4, <4>2, <4>3
      <4>5. starts[i] + Len(d) <= Len(buffer') BY <1>1, <1>2, <1>4, <3>2, <3>3, <4>1
      <4> QED BY <4>4, <4>5 DEF Lies
    <3>6. starts[i] + Len(d) = starts'[i + 1]
      <4>1. CASE i = Len(unread) BY <1>6, <3>1, <4>1
      <4>2. CASE i # Len(unread)
        <5>1. i + 1 \in 1 .. Len(unread) BY <1>2, <2>1, <4>2
        <5> QED BY <1>6, <3>1, <4>2, <5>1
      <4> QED BY <4>1, <4>2
    <3> QED BY <3>4, <3>5, <3>6 DEF d
  <2>2. CASE i = Len(unread) + 1
    <3>1. unread'[i] = x /\ starts'[i] = Len(buffer) /\ i = Len(unread')
      BY <1>5, <1>6, <2>2
    <3>2. Lies(c, buffer', Len(buffer)) BY <1>1, <1>2, <1>4 DEF Lies
    <3> QED BY <1>4, <3>1, <3>2 DEF c
  <2> QED BY <1>2, <1>5, <2>1, <2>2
<1> QED BY <1>3, <1>4, <1>5, <1>6, <1>7, <1>8 DEF IInv, Placed

\* The next value is read whole and right.
LEMMA ReadNextPlaced ==
  ASSUME IInv, ReadNext
  PROVE  IInv' /\ got' = Head(unread)
<1> DEFINE x == Head(unread)
           c == Encode(x)
           r == Decode(x.type, buffer, gpos)
<1>1. /\ buffer \in Seq(Byte) /\ gpos \in 0 .. Len(buffer) /\ Len(buffer) \in Nat
      /\ unread \in Seq(Items) /\ starts \in Seq(Nat) /\ Len(starts) = Len(unread)
      /\ unread # <<>> /\ Len(unread) \in Nat /\ Len(unread) > 0 /\ ~astray
  BY EmptySeq DEF IInv, Placed, ReadNext
<1>2. /\ x = unread[1] /\ x \in Items /\ gpos = starts[1] /\ 1 \in 1 .. Len(unread)
  BY <1>1 DEF IInv, Placed
<1>3. /\ Lies(c, buffer, gpos)
      /\ gpos + Len(c) = IF 1 = Len(unread) THEN Len(buffer) ELSE starts[1 + 1]
  BY <1>2 DEF IInv, Placed
<1>4. r = Result(x.value, gpos + Len(c)) /\ Len(c) \in Nat
  BY <1>1, <1>2, <1>3, ItemFacts DEF ReadBack
<1>5. /\ gpos' = r.gpos /\ got' = [type |-> x.type, value |-> r.value]
      /\ unread' = Tail(unread) /\ starts' = Tail(starts) /\ buffer' = buffer
      /\ astray' = astray
  BY DEF ReadNext
<1>6. got' = x BY <1>2, <1>4, <1>5, ItemFacts DEF Result
<1>7. gpos' = gpos + Len(c) /\ gpos' \in 0 .. Len(buffer')
  BY <1>1, <1>3, <1>4, <1>5 DEF Result, Lies
<1> HIDE DEF x, c, r
<1>8. /\ unread' \in Seq(Items) /\ Len(unread') = Len(unread) - 1
      /\ starts' \in Seq(Nat) /\ Len(starts') = Len(unread')
      /\ \A i \in 1 .. Len(unread') : unread'[i] = unread[i + 1] /\ starts'[i] = starts[i + 1]
  BY <1>1, <1>5, HeadTailProperties, EmptySeq
<1>9. gpos' = IF unread' = <<>> THEN Len(buffer') ELSE starts'[1]
  <2>1. CASE unread' = <<>>
    <3>1. Len(unread) = 1 BY <1>1, <1>8, <2>1
    <3> QED BY <1>3, <1>5, <1>7, <2>1, <3>1
  <2>2. CASE unread' # <<>>
    <3>1. Len(unread') > 0 /\ Len(unread') \in Nat BY <1>8, <2>2, EmptySeq
    <3>2. 1 # Len(unread) /\ 1 \in 1 .. Len(unread') BY <1>1, <1>8, <3>1
    <3> QED BY <1>3, <1>7, <1>8, <2>2, <3>2
  <2> QED BY <2>1, <2>2
<1>10. ASSUME NEW i \in 1 .. Len(unread')
       PROVE  /\ Lies(Encode(unread'[i]), buffer', starts'[i])
              /\ starts'[i] + Len(Encode(unread'[i]))
                   = IF i = Len(unread') THEN Len(buffer') ELSE starts'[i + 1]
  <2>1. i + 1 \in 1 .. Len(unread) /\ i \in Nat BY <1>1, <1>8
  <2>2. /\ Lies(Encode(unread[i + 1]), buffer, starts[i + 1])
        /\ starts[i + 1] + Len(Encode(unread[i + 1]))
             = IF i + 1 = Len(unread) THEN Len(buffer) ELSE starts[i + 1 + 1]
    BY <2>1 DEF IInv, Placed
  <2>3. unread'[i] = unread[i + 1] /\ starts'[i] = starts[i + 1] BY <1>8
  <2>4. (i + 1 = Len(unread)) <=> (i = Len(unread')) BY <1>1, <1>8, <2>1
  <2>5. i # Len(unread') => starts'[i + 1] = starts[i + 1 + 1]
    <3>1. i # Len(unread') => i + 1 \in 1 .. Len(unread') BY <1>1, <1>8, <2>1
    <3> QED BY <1>8, <3>1
  <2> QED BY <1>5, <2>2, <2>3, <2>4, <2>5
<1> QED BY <1>1, <1>5, <1>6, <1>7, <1>8, <1>9, <1>10 DEF IInv, Placed, x

\* Other reads leave what was not read; a miss leaves the cursor, or the reader is astray.
LEMMA ReadOtherPlaced ==
  ASSUME NEW t \in Types, IInv, ReadTooMuch(t) \/ ReadAstray(t)
  PROVE  IInv' /\ UNCHANGED <<buffer, unread, starts, written>> /\ got' = None
<1>1. /\ buffer \in Seq(Byte) /\ gpos \in 0 .. Len(buffer) /\ astray \in BOOLEAN
      /\ Len(buffer) \in Nat
  BY DEF IInv, Placed
<1>2. /\ gpos' = Decode(t, buffer, gpos).gpos /\ got' = None
      /\ UNCHANGED <<buffer, unread, starts, written>>
  BY DEF ReadTooMuch, ReadAstray, ReadOther
<1>3. gpos' \in gpos .. Len(buffer) BY <1>1, <1>2, CursorWithin
<1>4. gpos' \in 0 .. Len(buffer') /\ gpos' >= gpos BY <1>1, <1>2, <1>3
<1>5. FirstWidth(t) \in {1, 2, 4, 8} BY DEF FirstWidth, Width, Types, Unsigneds, Signeds, Sized, Floats
<1>6. CASE astray
  <2>1. astray' = TRUE BY <1>6 DEF ReadTooMuch, ReadAstray
  <2>2. gpos' >= 1 BY <1>1, <1>4, <1>6 DEF IInv, Placed
  <2> QED BY <1>2, <1>4, <2>1, <2>2 DEF IInv, Placed
<1>7. CASE ~astray /\ gpos + FirstWidth(t) <= Len(buffer)
  <2>1. astray' = TRUE BY <1>7 DEF ReadTooMuch, ReadAstray
  <2>2. gpos' >= gpos + 1 BY <1>1, <1>2, <1>7, CursorWithin
  <2>3. gpos' >= 1 BY <1>1, <1>4, <2>2
  <2> QED BY <1>2, <1>4, <2>1, <2>3 DEF IInv, Placed
<1>8. CASE ~astray /\ ~(gpos + FirstWidth(t) <= Len(buffer))
  <2>1. astray' = astray
    <3> DEFINE there == gpos + FirstWidth(t) <= Len(buffer)
    <3>1. astray' = (astray \/ there) BY <1>8 DEF ReadTooMuch, ReadAstray
    <3>2. ~astray /\ ~there BY <1>8
    <3>3. astray = FALSE BY <1>1, <3>2
    <3> HIDE DEF there
    <3> QED BY <3>1, <3>2, <3>3
  <2>2. gpos + FirstWidth(t) > Len(buffer) BY <1>1, <1>5, <1>8
  <2>3. gpos' = gpos BY <1>1, <1>2, <2>2, TooMuch
  <2> QED BY <1>2, <2>1, <2>3 DEF IInv, Placed
<1> QED BY <1>6, <1>7, <1>8

LEMMA StutterPlaced ==
  ASSUME IInv, UNCHANGED vars
  PROVE  IInv'
BY DEF IInv, Placed, vars

LEMMA NextPlaced ==
  ASSUME IInv, [Next]_vars
  PROVE  IInv'
BY WritePlaced, ReadNextPlaced, ReadOtherPlaced, StutterPlaced DEF Next

LEMMA InvariantHolds == Spec => []IInv
BY InitPlaced, NextPlaced, PTL DEF Spec

LEMMA PlacedImplies == IInv => CursorAtNext /\ UnreadInPlace
<1> SUFFICES ASSUME IInv PROVE CursorAtNext /\ UnreadInPlace
  OBVIOUS
<1>1. CursorAtNext
  <2>1. gpos \in 0 .. Len(buffer) /\ Len(buffer) \in Nat BY DEF IInv, Placed
  <2> QED BY <2>1 DEF IInv, Placed, CursorAtNext, End
<1>2. UnreadInPlace BY DEF IInv, Placed, Lies, UnreadInPlace, End, EndOf
<1> QED BY <1>1, <1>2

\* However values are written and read, and asked for too early, the cursor is at the
\* next value: StreamBuffer::read takes what StreamBuffer::write wrote, no byte more.
\* Only a string, a vector or a composite value that is there in part makes the reader
\* lose its place, and even then no read leaves the buffer.
THEOREM CursorCorrect == Spec => []CursorAtNext
BY InvariantHolds, PlacedImplies, PTL

\* And what was written and not read is still in the buffer, byte for byte.
THEOREM UnreadCorrect == Spec => []UnreadInPlace
BY InvariantHolds, PlacedImplies, PTL

\* The buffer holds bytes and the cursor stays within it, also after reads that fail.
THEOREM TypeCorrect == Spec => []TypeOK
<1> DEFINE T == IInv /\ written \in 0 .. MaxItems /\ got \in Items \cup {None}
<1>1. Init => T
  <2>1. 0 \in 0 .. MaxItems BY StreamAssumption
  <2> QED BY <2>1, InitPlaced DEF Init
<1>2. T /\ [Next]_vars => T'
  <2> SUFFICES ASSUME T, [Next]_vars PROVE T' OBVIOUS
  <2>1. IInv' BY NextPlaced
  <2>2. ASSUME NEW x \in Items, Write(x) PROVE T'
    <3>1. written' \in 0 .. MaxItems BY <2>2, StreamAssumption DEF Write
    <3> QED BY <2>1, <2>2, <3>1 DEF Write
  <2>3. ASSUME ReadNext PROVE T'
    <3>1. got' \in Items BY <2>3, ReadNextPlaced, HeadTailProperties DEF IInv, Placed, ReadNext
    <3> QED BY <2>1, <2>3, <3>1 DEF ReadNext
  <2>4. ASSUME NEW t \in Types, ReadTooMuch(t) \/ ReadAstray(t) PROVE T'
    BY <2>1, <2>4, ReadOtherPlaced
  <2>5. CASE UNCHANGED vars BY <2>1, <2>5 DEF vars
  <2> QED BY <2>2, <2>3, <2>4, <2>5 DEF Next
<1>3. T => TypeOK BY DEF TypeOK, IInv, Placed
<1> QED BY <1>1, <1>2, <1>3, PTL DEF Spec

LEMMA StepIsQueueStep ==
  ASSUME IInv, [Next]_vars
  PROVE  [Queue!Next]_<<unread, got>>
<1>1. ASSUME NEW x \in Items, Write(x) PROVE Queue!Next
  BY <1>1 DEF Write, Queue!Next, Queue!Put
<1>2. ASSUME ReadNext PROVE Queue!Next
  BY <1>2, ReadNextPlaced DEF ReadNext, Queue!Next, Queue!Get
<1>3. ASSUME NEW t \in Types, ReadTooMuch(t) \/ ReadAstray(t) PROVE Queue!Next
  BY <1>3, ReadOtherPlaced DEF Queue!Next, Queue!Miss
<1>4. CASE UNCHANGED vars BY <1>4 DEF vars
<1> QED BY <1>1, <1>2, <1>3, <1>4 DEF Next

\* The buffer implements Fifo, whatever the number of values of a byte: what is read, in
\* the order and with the types it was written, is what was written, until a read that
\* runs out of data in the middle of a value has lost the place.
THEOREM BufferIsFifo == Spec => IsFifo
<1>1. Init => Queue!Init BY DEF Init, Queue!Init
<1>2. IInv /\ [Next]_vars => [Queue!Next]_<<unread, got>> BY StepIsQueueStep
<1> QED BY <1>1, <1>2, InvariantHolds, PTL DEF Spec, IsFifo, Queue!Spec, Queue!vars

-----------------------------------------------------------------------------
(* A message: the same buffer behind a header.                             *)

LEMMA HeaderBytes ==
  ASSUME NEW e \in Envelopes
  PROVE  /\ Header(e) \in Seq(Byte) /\ Len(Header(e)) = 9
         /\ \A b \in Seq(Byte) : Lies(Header(e), b, 0) =>
               deserialize(b).envelope = e /\ deserialize(b).gpos = 9
<1> DEFINE c == IntegerBytes("u32", e.id)
           d == IntegerBytes("u32", e.requestId)
           f == IntegerBytes("u8", e.type)
<1>1. /\ e = [id |-> e.id, requestId |-> e.requestId, type |-> e.type]
      /\ e.id \in 0 .. (NumValues("u32") - 1) /\ e.requestId \in 0 .. (NumValues("u32") - 1)
      /\ e.type \in 0 .. (NumValues("u8") - 1)
  <2>1. e \in [id: Values("u32"), requestId: Values("u32"), type: Values("u8")]
    BY MessageAssumption
  <2>2. Values("u32") = 0 .. (NumValues("u32") - 1) /\ Values("u8") = 0 .. (NumValues("u8") - 1)
    BY DEF Values, Unsigneds, Signeds, Sized, Floats
  <2> QED BY <2>1, <2>2
<1>2. Width("u32") = 4 /\ Width("u8") = 1 /\ "u32" \in Unsigneds /\ "u8" \in Unsigneds
  BY DEF Width, Unsigneds
<1>3. /\ c \in Seq(Byte) /\ Len(c) = 4
      /\ \A b \in Seq(Byte) : \A g \in Nat : Lies(c, b, g) => ReadInteger(b, g, 4) = Result(e.id, g + 4)
  BY <1>1, <1>2, IntegerBack
<1>4. /\ d \in Seq(Byte) /\ Len(d) = 4
      /\ \A b \in Seq(Byte) : \A g \in Nat :
            Lies(d, b, g) => ReadInteger(b, g, 4) = Result(e.requestId, g + 4)
  BY <1>1, <1>2, IntegerBack
<1>5. /\ f \in Seq(Byte) /\ Len(f) = 1
      /\ \A b \in Seq(Byte) : \A g \in Nat : Lies(f, b, g) => ReadInteger(b, g, 1) = Result(e.type, g + 1)
  BY <1>1, <1>2, IntegerBack
<1>6. Header(e) = (c \o d) \o f BY DEF Header
<1> HIDE DEF c, d, f
<1>7. /\ c \o d \in Seq(Byte) /\ Len(c \o d) = 8
      /\ \A i \in 1 .. 4 : (c \o d)[i] = c[i]
      /\ \A i \in 1 .. 4 : (c \o d)[4 + i] = d[i]
  <2>1. /\ c \o d \in Seq(Byte) /\ Len(c \o d) = Len(c) + Len(d)
        /\ \A i \in 1 .. Len(c) : (c \o d)[i] = c[i]
        /\ \A i \in 1 .. Len(d) : (c \o d)[Len(c) + i] = d[i]
    BY <1>3, <1>4, BytesConcat
  <2> QED BY <1>3, <1>4, <2>1
<1>8. /\ Header(e) \in Seq(Byte) /\ Len(Header(e)) = 9
      /\ \A i \in 1 .. 8 : Header(e)[i] = (c \o d)[i]
      /\ \A i \in 1 .. 1 : Header(e)[8 + i] = f[i]
  <2> DEFINE k == c \o d
  <2>1. k \in Seq(Byte) /\ Len(k) = 8 BY <1>7
  <2> HIDE DEF k
  <2>2. /\ k \o f \in Seq(Byte) /\ Len(k \o f) = Len(k) + Len(f)
        /\ \A i \in 1 .. Len(k) : (k \o f)[i] = k[i]
        /\ \A i \in 1 .. Len(f) : (k \o f)[Len(k) + i] = f[i]
    BY <1>5, <2>1, BytesConcat
  <2>3. Header(e) = k \o f BY <1>6 DEF k
  <2>4. /\ Header(e) \in Seq(Byte) /\ Len(Header(e)) = 9
        /\ \A i \in 1 .. 8 : Header(e)[i] = k[i]
        /\ \A i \in 1 .. 1 : Header(e)[8 + i] = f[i]
    BY <1>5, <2>1, <2>2, <2>3
  <2> QED BY <2>4 DEF k
<1>9. ASSUME NEW b \in Seq(Byte), Lies(Header(e), b, 0)
      PROVE  deserialize(b).envelope = e /\ deserialize(b).gpos = 9
  <2>1. /\ 9 <= Len(b) /\ Len(b) \in Nat
        /\ \A i \in 1 .. 9 : b[i] = Header(e)[i]
    <3>1. 0 + 9 <= Len(b) /\ \A i \in 1 .. 9 : b[0 + i] = Header(e)[i] BY <1>8, <1>9 DEF Lies
    <3> QED BY <3>1
  <2>2. Lies(c, b, 0)
    <3> DEFINE k == c \o d
    <3>1. ASSUME NEW i \in 1 .. 4 PROVE b[0 + i] = c[i]
      <4>1. 0 + i = i /\ i \in 1 .. 8 /\ i \in 1 .. 9 OBVIOUS
      <4>2. k[i] = c[i] BY <1>7
      <4>3. Header(e)[i] = k[i] BY <1>8, <4>1
      <4> HIDE DEF k
      <4> QED BY <2>1, <4>1, <4>2, <4>3
    <3> QED BY <1>3, <2>1, <3>1 DEF Lies
  <2>3. Lies(d, b, 4)
    <3>1. \A i \in 1 .. 4 : 4 + i \in 1 .. 8 /\ 4 + i \in 1 .. 9 OBVIOUS
    <3>2. \A i \in 1 .. 4 : b[4 + i] = d[i] BY <2>1, <1>7, <1>8, <3>1
    <3> QED BY <1>4, <2>1, <3>2 DEF Lies
  <2>4. Lies(f, b, 8)
    <3>1. \A i \in 1 .. 1 : b[8 + i] = f[i] BY <2>1, <1>8
    <3> QED BY <1>5, <2>1, <3>1 DEF Lies
  <2>5. /\ ReadInteger(b, 0, 4) = Result(e.id, 4)
        /\ ReadInteger(b, 4, 4) = Result(e.requestId, 8)
        /\ ReadInteger(b, 8, 1) = Result(e.type, 9)
    <3>1. ReadInteger(b, 0, 4) = Result(e.id, 0 + 4) BY <1>3, <2>2
    <3>2. ReadInteger(b, 4, 4) = Result(e.requestId, 4 + 4) BY <1>4, <2>3
    <3>3. ReadInteger(b, 8, 1) = Result(e.type, 8 + 1) BY <1>5, <2>4
    <3> QED BY <3>1, <3>2, <3>3
  <2> QED BY <1>1, <2>5 DEF deserialize, Result
<1> QED BY <1>8, <1>9

LEMMA DeliverPlaced ==
  ASSUME NEW e \in Envelopes, IInv, Deliver(e)
  PROVE  IInv' /\ envelope' = sent'
<1> DEFINE h == Header(e)
<1>1. /\ h \in Seq(Byte) /\ Len(h) = 9
      /\ \A b \in Seq(Byte) : Lies(h, b, 0) =>
            deserialize(b).envelope = e /\ deserialize(b).gpos = 9
  BY HeaderBytes
<1>2. /\ buffer \in Seq(Byte) /\ gpos = 0 /\ Len(buffer) \in Nat
      /\ unread \in Seq(Items) /\ starts \in Seq(Nat) /\ Len(starts) = Len(unread)
      /\ Len(unread) \in Nat /\ ~astray /\ astray' = astray
      /\ 0 = IF unread = <<>> THEN Len(buffer) ELSE starts[1]
  BY DEF IInv, Placed, Deliver
<1>3. /\ buffer' = h \o buffer /\ unread' = unread /\ sent' = {e}
      /\ envelope' = {deserialize(buffer').envelope} /\ gpos' = deserialize(buffer').gpos
      /\ starts' = [i \in 1 .. Len(starts) |-> starts[i] + Len(h)]
  BY DEF Deliver, serialize
<1> HIDE DEF h
<1>4. /\ buffer' \in Seq(Byte) /\ Len(buffer') = 9 + Len(buffer)
      /\ \A i \in 1 .. 9 : buffer'[i] = h[i]
      /\ \A i \in 1 .. Len(buffer) : buffer'[9 + i] = buffer[i]
  <2>1. /\ h \o buffer \in Seq(Byte) /\ Len(h \o buffer) = Len(h) + Len(buffer)
        /\ \A i \in 1 .. Len(h) : (h \o buffer)[i] = h[i]
        /\ \A i \in 1 .. Len(buffer) : (h \o buffer)[Len(h) + i] = buffer[i]
    BY <1>1, <1>2, BytesConcat
  <2> QED BY <1>1, <1>3, <2>1
<1>5. Lies(h, buffer', 0)
  <2>1. 0 + Len(h) <= Len(buffer') BY <1>1, <1>2, <1>4
  <2>2. \A i \in 1 .. Len(h) : buffer'[0 + i] = h[i] BY <1>1, <1>4
  <2> QED BY <2>1, <2>2 DEF Lies
<1>6. envelope' = sent' /\ gpos' = 9 BY <1>1, <1>3, <1>4, <1>5
<1>7. /\ starts' \in Seq(Nat) /\ Len(starts') = Len(unread')
      /\ \A i \in 1 .. Len(unread) : starts'[i] = starts[i] + 9
  <2>1. \A i \in 1 .. Len(starts) : starts[i] + 9 \in Nat BY <1>2, ElementOfSeq
  <2>2. starts' = [i \in 1 .. Len(starts) |-> starts[i] + 9] BY <1>1, <1>3
  <2>3. starts' \in [1 .. Len(starts) -> Nat] BY <2>1, <2>2
  <2> QED BY <1>2, <1>3, <2>2, <2>3
<1>8. gpos' = IF unread' = <<>> THEN Len(buffer') ELSE starts'[1]
  <2>1. CASE unread = <<>> BY <1>2, <1>3, <1>4, <1>6, <2>1
  <2>2. CASE unread # <<>>
    <3>1. 1 \in 1 .. Len(unread) BY <1>2, <2>2, EmptySeq
    <3> QED BY <1>2, <1>3, <1>6, <1>7, <2>2, <3>1
  <2> QED BY <2>1, <2>2
<1>9. ASSUME NEW i \in 1 .. Len(unread)
      PROVE  /\ Lies(Encode(unread[i]), buffer', starts'[i])
             /\ starts'[i] + Len(Encode(unread[i]))
                  = IF i = Len(unread) THEN Len(buffer') ELSE starts'[i + 1]
  <2> DEFINE c == Encode(unread[i])
  <2>1. /\ Lies(c, buffer, starts[i])
        /\ starts[i] + Len(c) = IF i = Len(unread) THEN Len(buffer) ELSE starts[i + 1]
    BY DEF IInv, Placed
  <2>2. unread[i] \in Items /\ starts[i] \in Nat BY <1>2, ElementOfSeq
  <2>3. Len(c) \in Nat BY <2>2, ItemFacts
  <2> HIDE DEF c
  <2>4. starts'[i] = starts[i] + 9 BY <1>7
  <2>5. Lies(c, buffer', starts[i] + 9)
    <3>1. starts[i] + Len(c) <= Len(buffer) BY <2>1 DEF Lies
    <3>2. starts[i] + 9 + Len(c) <= Len(buffer')
      <4> DEFINE k == starts[i]
      <4>1. k \in Nat /\ k + Len(c) <= Len(buffer) BY <2>2, <3>1
      <4>2. Len(buffer) \in Nat /\ Len(buffer') = 9 + Len(buffer) BY <1>2, <1>4
      <4> HIDE DEF k
      <4>3. k + 9 + Len(c) <= Len(buffer') BY <2>3, <4>1, <4>2
      <4> QED BY <4>3 DEF k
    <3>3. ASSUME NEW j \in 1 .. Len(c) PROVE buffer'[starts[i] + 9 + j] = c[j]
      <4>1. starts[i] + j \in 1 .. Len(buffer) /\ starts[i] + 9 + j = 9 + (starts[i] + j)
        <5> DEFINE k == starts[i]
        <5>1. k \in Nat /\ k + Len(c) <= Len(buffer) BY <2>2, <3>1
        <5> HIDE DEF k
        <5>2. k + j \in 1 .. Len(buffer) /\ k + 9 + j = 9 + (k + j) BY <1>2, <2>3, <5>1
        <5> QED BY <5>2 DEF k
      <4>2. buffer[starts[i] + j] = c[j] BY <2>1 DEF Lies
      <4> QED BY <1>4, <4>1, <4>2
    <3> QED BY <3>2, <3>3 DEF Lies
  <2>6. starts[i] + 9 + Len(c) = IF i = Len(unread) THEN Len(buffer') ELSE starts'[i + 1]
    <3> DEFINE k == starts[i]
    <3>0. k \in Nat /\ (k + Len(c) = IF i = Len(unread) THEN Len(buffer) ELSE starts[i + 1])
      BY <2>1, <2>2
    <3> HIDE DEF k
    <3>1. CASE i = Len(unread)
      <4>1. k + 9 + Len(c) = Len(buffer') BY <1>2, <1>4, <2>3, <3>0, <3>1
      <4> QED BY <3>1, <4>1 DEF k
    <3>2. CASE i # Len(unread)
      <4>1. i + 1 \in 1 .. Len(unread) BY <1>2, <3>2
      <4>2. starts'[i + 1] = starts[i + 1] + 9 BY <1>7, <4>1
      <4>3. k + 9 + Len(c) = starts'[i + 1] BY <2>3, <3>0, <3>2, <4>2
      <4> QED BY <3>2, <4>3 DEF k
    <3> QED BY <3>1, <3>2
  <2> QED BY <2>4, <2>5, <2>6 DEF c
<1>10. gpos' \in 0 .. Len(buffer') BY <1>2, <1>4, <1>6
<1> QED BY <1>2, <1>3, <1>4, <1>6, <1>7, <1>8, <1>9, <1>10 DEF IInv, Placed

\* The header and the payload survive the packet.
MInv == IInv /\ EnvelopeSurvives

LEMMA MessageStep ==
  ASSUME MInv, [MessageNext]_allVars
  PROVE  MInv' /\ [Queue!Next]_<<unread, got>>
<1>1. ASSUME NEW x \in Items, Write(x), UNCHANGED <<sent, envelope>>
      PROVE  MInv' /\ [Queue!Next]_<<unread, got>>
  <2>1. Next BY <1>1 DEF Next
  <2> QED BY <1>1, <2>1, WritePlaced, StepIsQueueStep DEF MInv, EnvelopeSurvives
<1>2. ASSUME NEW e \in Envelopes, Deliver(e)
      PROVE  MInv' /\ [Queue!Next]_<<unread, got>>
  <2>1. IInv' /\ EnvelopeSurvives' BY <1>2, DeliverPlaced DEF MInv, EnvelopeSurvives
  <2>2. Queue!Miss BY <1>2 DEF Deliver, Queue!Miss
  <2> QED BY <2>1, <2>2 DEF MInv, Queue!Next
<1>3. ASSUME ReadNext, UNCHANGED <<sent, envelope>>
      PROVE  MInv' /\ [Queue!Next]_<<unread, got>>
  <2>1. Next BY <1>3 DEF Next
  <2> QED BY <1>3, <2>1, ReadNextPlaced, StepIsQueueStep DEF MInv, EnvelopeSurvives
<1>4. ASSUME NEW t \in Types, ReadTooMuch(t) \/ ReadAstray(t), UNCHANGED <<sent, envelope>>
      PROVE  MInv' /\ [Queue!Next]_<<unread, got>>
  <2>1. Next BY <1>4 DEF Next
  <2> QED BY <1>4, <2>1, ReadOtherPlaced, StepIsQueueStep DEF MInv, EnvelopeSurvives
<1>5. CASE UNCHANGED allVars
  <2>1. UNCHANGED vars /\ UNCHANGED <<sent, envelope>> BY <1>5 DEF allVars
  <2>2. IInv' BY <2>1, StutterPlaced DEF MInv
  <2>3. UNCHANGED <<unread, got>> BY <2>1 DEF vars
  <2> QED BY <2>1, <2>2, <2>3 DEF MInv, EnvelopeSurvives
<1> QED BY <1>1, <1>2, <1>3, <1>4, <1>5 DEF MessageNext

\* Message::deserialize parses the header that Message::serialize wrote.
THEOREM EnvelopeCorrect == MessageSpec => []EnvelopeSurvives
<1>1. MessageInit => MInv BY InitPlaced DEF MessageInit, MInv, EnvelopeSurvives
<1>2. MInv /\ [MessageNext]_allVars => MInv' BY MessageStep
<1>3. MInv => EnvelopeSurvives BY DEF MInv
<1> QED BY <1>1, <1>2, <1>3, PTL DEF MessageSpec

\* The cursor of a received stream is at its payload, and then at the next value of it; once
\* a read has lost the place, it is still within the stream.
THEOREM MessageCursorCorrect == MessageSpec => []CursorAtNext
<1>1. MessageInit => MInv BY InitPlaced DEF MessageInit, MInv, EnvelopeSurvives
<1>2. MInv /\ [MessageNext]_allVars => MInv' BY MessageStep
<1>3. MInv => CursorAtNext BY PlacedImplies DEF MInv
<1> QED BY <1>1, <1>2, <1>3, PTL DEF MessageSpec

\* And its payload is read as if there were no packet.
THEOREM PayloadCorrect == MessageSpec => IsFifo
<1>1. MessageInit => MInv /\ Queue!Init
  BY InitPlaced DEF MessageInit, MInv, EnvelopeSurvives, Init, Queue!Init
<1>2. MInv /\ [MessageNext]_allVars => MInv' /\ [Queue!Next]_<<unread, got>> BY MessageStep
<1> QED BY <1>1, <1>2, PTL DEF MessageSpec, IsFifo, Queue!Spec, Queue!vars

=============================================================================
