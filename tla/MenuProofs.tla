----------------------------- MODULE MenuProofs -------------------------------
(***************************************************************************)
(* Proofs about the menu: its keyboard, for all fields, sizes and layouts  *)
(* (no key writes past the end of a field, and the bytes behave as a       *)
(* text), and the settings its fields edit, for all values and files.      *)
(***************************************************************************)
EXTENDS Keyboard, Settings, SequenceTheorems, TLAPS

-----------------------------------------------------------------------------
(* Texts in buffers.                                                       *)

Buffer(n) == [0 .. n - 1 -> Chars \cup {Nul}]

\* The bytes with a character put in at cur, and with the one before cur taken out.
Inserted(m, k, cur, c) == [Moved(m, cur + 1, cur, k - cur + 1) EXCEPT ![cur] = c]
Erased(m, k, cur) == Moved(m, cur - 1, cur, k - cur + 1)

\* A text has one end, which strlen finds.
LEMMA StrLenIs ==
  ASSUME NEW n \in Nat, NEW m \in Buffer(n), NEW k \in 0 .. n - 1, EndsAt(m, k)
  PROVE  StrLen(m) = k
<1>1. DOMAIN m = 0 .. n - 1 BY DEF Buffer
<1>2. k \in DOMAIN m BY <1>1
<1>3. StrLen(m) \in DOMAIN m /\ EndsAt(m, StrLen(m)) BY <1>2 DEF StrLen
<1> DEFINE j == StrLen(m)
<1>4. j \in 0 .. n - 1 /\ EndsAt(m, j) BY <1>1, <1>3
<1> HIDE DEF j
<1>5. m[j] = Nul /\ m[k] = Nul /\ (\A i \in 0 .. j - 1 : m[i] # Nul) /\ (\A i \in 0 .. k - 1 : m[i] # Nul)
  BY <1>4 DEF EndsAt
<1>6. ~(k < j)
  <2>1. ASSUME k < j PROVE k \in 0 .. j - 1 BY <2>1, <1>4
  <2> QED BY <2>1, <1>5
<1>7. ~(j < k)
  <2>1. ASSUME j < k PROVE j \in 0 .. k - 1 BY <2>1, <1>4
  <2> QED BY <2>1, <1>5
<1>8. j = k BY <1>4, <1>6, <1>7
<1> QED BY <1>8 DEF j

\* The text of a buffer: a sequence of characters, as long as strlen says.
LEMMA TextIs ==
  ASSUME NEW n \in Nat, NEW m \in Buffer(n), NEW k \in 0 .. n - 1, EndsAt(m, k)
  PROVE  /\ TextOf(m) \in Seq(Chars) /\ Len(TextOf(m)) = k
         /\ \A i \in 1 .. k : TextOf(m)[i] = m[i - 1]
<1>1. StrLen(m) = k BY StrLenIs
<1>2. TextOf(m) = [i \in 1 .. k |-> m[i - 1]] BY <1>1 DEF TextOf
<1>3. ASSUME NEW i \in 1 .. k PROVE m[i - 1] \in Chars
  <2>1. i - 1 \in 0 .. n - 1 /\ i - 1 \in 0 .. k - 1 OBVIOUS
  <2>2. m[i - 1] \in Chars \cup {Nul} BY <2>1 DEF Buffer
  <2>3. m[i - 1] # Nul BY <2>1 DEF EndsAt
  <2> QED BY <2>2, <2>3
<1>4. [i \in 1 .. k |-> m[i - 1]] \in [1 .. k -> Chars] BY <1>3
<1>5. k \in Nat OBVIOUS
<1> QED BY <1>2, <1>4, <1>5

\* A character put into a text that has room: its bytes, and the text they are.
LEMMA InsertedText ==
  ASSUME NEW n \in Nat, NEW m \in Buffer(n), NEW k \in 0 .. n - 2, EndsAt(m, k),
         NEW cur \in 0 .. k, NEW c \in Chars
  PROVE  /\ Inserted(m, k, cur, c) \in Buffer(n) /\ EndsAt(Inserted(m, k, cur, c), k + 1)
         /\ TextOf(Inserted(m, k, cur, c)) = SubSeq(TextOf(m), 1, cur) \o <<c>> \o SubSeq(TextOf(m), cur + 1, k)
<1> DEFINE w == Inserted(m, k, cur, c)
<1>0. k \in Int /\ cur \in Int /\ n \in Int /\ k \in 0 .. n - 1 OBVIOUS
<1> USE DEF Inserted
<1>1. DOMAIN m = 0 .. n - 1 /\ cur \in 0 .. n - 1 BY DEF Buffer
<1>2. ASSUME NEW i \in 0 .. n - 1
      PROVE  w[i] = IF i = cur THEN c ELSE IF i \in cur + 1 .. k + 1 THEN m[i - 1] ELSE m[i]
  <2>1. w[i] = IF i = cur THEN c ELSE Moved(m, cur + 1, cur, k - cur + 1)[i] BY <1>1 DEF Moved
  <2>2. Moved(m, cur + 1, cur, k - cur + 1)[i]
          = IF i \in cur + 1 .. cur + 1 + (k - cur + 1) - 1 THEN m[cur + (i - (cur + 1))] ELSE m[i]
    BY <1>1 DEF Moved
  <2>3. cur + 1 + (k - cur + 1) - 1 = k + 1 /\ cur + (i - (cur + 1)) = i - 1 BY <1>0
  <2> QED BY <2>1, <2>2, <2>3
<1>3. DOMAIN w = 0 .. n - 1 BY <1>1 DEF Moved
<1>4. \A i \in 0 .. k - 1 : m[i] \in Chars /\ m[i] # Nul
  <2>1. SUFFICES ASSUME NEW i \in 0 .. k - 1 PROVE m[i] \in Chars /\ m[i] # Nul OBVIOUS
  <2>2. i \in 0 .. n - 1 OBVIOUS
  <2> QED BY <2>2 DEF Buffer, EndsAt
<1> HIDE DEF w, Inserted
<1>5. w \in Buffer(n)
  <2>1. ASSUME NEW i \in 0 .. n - 1 PROVE w[i] \in Chars \cup {Nul}
    <3>1. CASE i = cur BY <1>2, <3>1
    <3>2. CASE i # cur /\ i \in cur + 1 .. k + 1
      <4>1. i - 1 \in 0 .. n - 1 BY <3>2, <1>0
      <4> QED BY <1>2, <3>2, <4>1 DEF Buffer
    <3>3. CASE i # cur /\ i \notin cur + 1 .. k + 1 BY <1>2, <3>3 DEF Buffer
    <3> QED BY <3>1, <3>2, <3>3
  <2>2. w = [i \in 0 .. n - 1 |-> w[i]] BY <1>3 DEF w, Moved, Inserted
  <2> QED BY <2>1, <2>2 DEF Buffer
<1>6. EndsAt(w, k + 1)
  <2>1. k + 1 \in DOMAIN w /\ k + 1 \in 0 .. n - 1 /\ k + 1 # cur /\ k + 1 \in cur + 1 .. k + 1 /\ k + 1 - 1 = k
    BY <1>0, <1>3
  <2>2. w[k + 1] = Nul BY <1>2, <2>1 DEF EndsAt
  <2>3. ASSUME NEW i \in 0 .. (k + 1) - 1 PROVE w[i] # Nul
    <3>0. i \in 0 .. n - 1 BY <1>0
    <3>1. CASE i = cur BY <1>2, <3>0, <3>1, KeyboardAssumption
    <3>2. CASE i # cur /\ i \in cur + 1 .. k + 1
      <4>1. i - 1 \in 0 .. k - 1 BY <3>2, <1>0
      <4> QED BY <1>2, <1>4, <3>0, <3>2, <4>1
    <3>3. CASE i # cur /\ i \notin cur + 1 .. k + 1
      <4>1. i \in 0 .. k - 1 BY <3>3, <1>0
      <4> QED BY <1>2, <1>4, <3>0, <3>3, <4>1
    <3> QED BY <3>1, <3>2, <3>3
  <2> QED BY <2>1, <2>2, <2>3 DEF EndsAt
<1> DEFINE t == TextOf(m)
           a == SubSeq(t, 1, cur)
           b == SubSeq(t, cur + 1, k)
<1>7. t \in Seq(Chars) /\ Len(t) = k /\ \A i \in 1 .. k : t[i] = m[i - 1] BY TextIs, <1>0
<1>8. /\ TextOf(w) \in Seq(Chars) /\ Len(TextOf(w)) = k + 1
      /\ \A i \in 1 .. k + 1 : TextOf(w)[i] = w[i - 1]
  <2>1. k + 1 \in 0 .. n - 1 BY <1>0
  <2> QED BY TextIs, <1>5, <1>6, <2>1
<1> HIDE DEF t
<1>9. a \in Seq(Chars) /\ Len(a) = cur /\ \A i \in 1 .. cur : a[i] = t[i]
  <2>1. \A i \in 1 .. cur : t[i] \in Chars BY <1>7
  <2>2. a \in Seq(Chars) /\ Len(a) = (IF 1 <= cur THEN cur - 1 + 1 ELSE 0)
        /\ \A i \in 1 .. cur - 1 + 1 : a[i] = t[1 + i - 1] BY <2>1, <1>0, SubSeqProperties
  <2> QED BY <2>2, <1>0
<1>10. b \in Seq(Chars) /\ Len(b) = k - cur /\ \A i \in 1 .. k - cur : b[i] = t[cur + i]
  <2>1. \A i \in cur + 1 .. k : t[i] \in Chars BY <1>7, <1>0
  <2>2. b \in Seq(Chars) /\ Len(b) = (IF cur + 1 <= k THEN k - (cur + 1) + 1 ELSE 0)
        /\ \A i \in 1 .. k - (cur + 1) + 1 : b[i] = t[cur + 1 + i - 1] BY <2>1, <1>0, SubSeqProperties
  <2>3. k - (cur + 1) + 1 = k - cur BY <1>0
  <2>4. ASSUME NEW i \in 1 .. k - cur PROVE b[i] = t[cur + i]
    <3>1. cur + 1 + i - 1 = cur + i BY <1>0
    <3> QED BY <2>2, <2>3, <3>1
  <2> QED BY <2>2, <2>3, <2>4, <1>0
<1> HIDE DEF a, b
<1> DEFINE e == <<c>>
<1>11. e \in Seq(Chars) /\ Len(e) = 1 /\ e[1] = c OBVIOUS
<1> HIDE DEF e
<1>12. /\ a \o e \in Seq(Chars) /\ Len(a \o e) = cur + 1
       /\ \A i \in 1 .. cur + 1 : (a \o e)[i] = IF i <= cur THEN a[i] ELSE c
  <2>1. /\ a \o e \in Seq(Chars) /\ Len(a \o e) = Len(a) + Len(e)
        /\ \A i \in 1 .. Len(a) + Len(e) : (a \o e)[i] = IF i <= Len(a) THEN a[i] ELSE e[i - Len(a)]
    BY <1>9, <1>11, ConcatProperties
  <2>2. ASSUME NEW i \in 1 .. cur + 1 PROVE (a \o e)[i] = IF i <= cur THEN a[i] ELSE c
    <3>1. CASE i <= cur BY <2>1, <1>9, <1>11, <3>1
    <3>2. CASE i = cur + 1
      <4>1. i - cur = 1 /\ ~(i <= cur) /\ i \in 1 .. cur + 1 BY <3>2, <1>0
      <4>2. (a \o e)[i] = e[i - cur] BY <2>1, <1>9, <1>11, <4>1
      <4>3. (a \o e)[i] = c BY <4>1, <4>2, <1>11, Zenon
      <4> QED BY <4>1, <4>3, Zenon
    <3>3. i <= cur \/ i = cur + 1 BY <1>0
    <3> QED BY <3>1, <3>2, <3>3, Zenon
  <2> QED BY <2>1, <2>2, <1>9, <1>11
<1> DEFINE u == (a \o e) \o b
<1>13. /\ u \in Seq(Chars) /\ Len(u) = k + 1
       /\ \A i \in 1 .. k + 1 : u[i] = IF i <= cur + 1 THEN (a \o e)[i] ELSE b[i - (cur + 1)]
  <2> DEFINE p == a \o e
  <2>0. p \in Seq(Chars) /\ Len(p) = cur + 1 BY <1>12
  <2> HIDE DEF p
  <2>3. /\ p \o b \in Seq(Chars) /\ Len(p \o b) = Len(p) + Len(b)
        /\ \A i \in 1 .. Len(p) + Len(b) : (p \o b)[i] = IF i <= Len(p) THEN p[i] ELSE b[i - Len(p)]
    BY <2>0, <1>10, ConcatProperties
  <2>4. Len(p) + Len(b) = (cur + 1) + (k - cur) BY <2>0, <1>10
  <2>1. /\ u \in Seq(Chars) /\ Len(u) = (cur + 1) + (k - cur)
        /\ \A i \in 1 .. (cur + 1) + (k - cur) : u[i] = IF i <= cur + 1 THEN (a \o e)[i] ELSE b[i - (cur + 1)]
    BY <2>0, <2>3, <2>4 DEF p
  <2>2. (cur + 1) + (k - cur) = k + 1 BY <1>0
  <2> QED BY <2>1, <2>2
<1> HIDE DEF u
<1>14. ASSUME NEW i \in 1 .. k + 1 PROVE TextOf(w)[i] = u[i]
  <2>4. k + 1 <= n - 1 BY <1>0
  <2>5. i - 1 \in 0 .. n - 1 BY <1>0, <2>4
  <2>0. i - 1 \in 0 .. n - 1 /\ TextOf(w)[i] = w[i - 1] BY <1>8, <2>5
  <2>1. CASE i <= cur
    <3>1. i \in 1 .. cur /\ i \in 1 .. k /\ i - 1 # cur /\ i - 1 \notin cur + 1 .. k + 1 /\ i <= cur + 1 /\ i \in 1 .. cur + 1
      BY <2>1, <1>0
    <3>2. w[i - 1] = m[i - 1] BY <1>2, <2>0, <3>1
    <3>4. u[i] = (a \o e)[i] BY <1>13, <3>1
    <3>5. (a \o e)[i] = a[i] BY <1>12, <2>1, <3>1
    <3>3. u[i] = a[i] BY <3>4, <3>5
    <3> QED BY <2>0, <3>1, <3>2, <3>3, <1>9, <1>7
  <2>2. CASE i = cur + 1
    <3>1. i - 1 = cur /\ i <= cur + 1 /\ ~(i <= cur) /\ i \in 1 .. cur + 1 BY <2>2, <1>0
    <3> QED BY <2>0, <1>2, <1>12, <1>13, <3>1
  <2>3. CASE i > cur + 1
    <3>1. /\ i - 1 # cur /\ i - 1 \in cur + 1 .. k + 1 /\ ~(i <= cur + 1)
          /\ i - (cur + 1) \in 1 .. k - cur /\ cur + (i - (cur + 1)) = i - 1 /\ i - 1 \in 1 .. k
      BY <2>3, <1>0
    <3>2. w[i - 1] = m[(i - 1) - 1] BY <1>2, <2>0, <3>1
    <3>3. u[i] = t[i - 1] BY <1>13, <1>10, <3>1
    <3> QED BY <2>0, <3>1, <3>2, <3>3, <1>7
  <2> QED BY <2>1, <2>2, <2>3, <1>0
<1>15. TextOf(w) = u
  <2>1. Len(TextOf(w)) = Len(u) /\ \A i \in 1 .. Len(TextOf(w)) : TextOf(w)[i] = u[i] BY <1>8, <1>13, <1>14
  <2> QED BY <2>1, <1>8, <1>13, SeqEqual
<1> QED BY <1>5, <1>6, <1>15 DEF w, u, e, a, b, t

\* The character before the cursor taken out: the bytes, and the text they are.
LEMMA ErasedText ==
  ASSUME NEW n \in Nat, NEW m \in Buffer(n), NEW k \in 0 .. n - 1, EndsAt(m, k),
         NEW cur \in 1 .. k
  PROVE  /\ Erased(m, k, cur) \in Buffer(n) /\ EndsAt(Erased(m, k, cur), k - 1)
         /\ TextOf(Erased(m, k, cur)) = SubSeq(TextOf(m), 1, cur - 1) \o SubSeq(TextOf(m), cur + 1, k)
<1> DEFINE w == Erased(m, k, cur)
<1>0. k \in Int /\ cur \in Int /\ n \in Int /\ k - 1 \in 0 .. n - 1 OBVIOUS
<1> USE DEF Erased
<1>1. DOMAIN m = 0 .. n - 1 BY DEF Buffer
<1>2. ASSUME NEW i \in 0 .. n - 1
      PROVE  w[i] = IF i \in cur - 1 .. k - 1 THEN m[i + 1] ELSE m[i]
  <2>1. w[i] = IF i \in cur - 1 .. cur - 1 + (k - cur + 1) - 1 THEN m[cur + (i - (cur - 1))] ELSE m[i]
    BY <1>1 DEF Moved
  <2>2. cur - 1 + (k - cur + 1) - 1 = k - 1 /\ cur + (i - (cur - 1)) = i + 1 BY <1>0
  <2> QED BY <2>1, <2>2
<1>3. DOMAIN w = 0 .. n - 1 BY <1>1 DEF Moved
<1> HIDE DEF w, Erased
<1>5. w \in Buffer(n)
  <2>1. ASSUME NEW i \in 0 .. n - 1 PROVE w[i] \in Chars \cup {Nul}
    <3>1. CASE i \in cur - 1 .. k - 1
      <4>1. i + 1 \in 0 .. n - 1 BY <3>1, <1>0
      <4> QED BY <1>2, <3>1, <4>1 DEF Buffer
    <3>2. CASE i \notin cur - 1 .. k - 1 BY <1>2, <3>2 DEF Buffer
    <3> QED BY <3>1, <3>2
  <2>2. w = [i \in 0 .. n - 1 |-> w[i]] BY <1>3 DEF w, Moved, Erased
  <2> QED BY <2>1, <2>2 DEF Buffer
<1>6. EndsAt(w, k - 1)
  <2>1. k - 1 \in DOMAIN w /\ k - 1 \in cur - 1 .. k - 1 /\ k - 1 + 1 = k BY <1>0, <1>3
  <2>2. w[k - 1] = Nul BY <1>0, <1>2, <2>1 DEF EndsAt
  <2>3. ASSUME NEW i \in 0 .. (k - 1) - 1 PROVE w[i] # Nul
    <3>1. i \in 0 .. n - 1 /\ i \in 0 .. k - 1 /\ i + 1 \in 0 .. k - 1 BY <1>0
    <3>2. m[i] # Nul /\ m[i + 1] # Nul BY <3>1 DEF EndsAt
    <3> QED BY <1>2, <3>1, <3>2
  <2> QED BY <2>1, <2>2, <2>3 DEF EndsAt
<1> DEFINE t == TextOf(m)
           a == SubSeq(t, 1, cur - 1)
           b == SubSeq(t, cur + 1, k)
<1>7. t \in Seq(Chars) /\ Len(t) = k /\ \A i \in 1 .. k : t[i] = m[i - 1] BY TextIs
<1>8. /\ TextOf(w) \in Seq(Chars) /\ Len(TextOf(w)) = k - 1
      /\ \A i \in 1 .. k - 1 : TextOf(w)[i] = w[i - 1]
  BY TextIs, <1>5, <1>6, <1>0
<1> HIDE DEF t
<1>9. a \in Seq(Chars) /\ Len(a) = cur - 1 /\ \A i \in 1 .. cur - 1 : a[i] = t[i]
  <2>1. \A i \in 1 .. cur - 1 : t[i] \in Chars BY <1>7
  <2>2. a \in Seq(Chars) /\ Len(a) = (IF 1 <= cur - 1 THEN cur - 1 - 1 + 1 ELSE 0)
        /\ \A i \in 1 .. cur - 1 - 1 + 1 : a[i] = t[1 + i - 1] BY <2>1, <1>0, SubSeqProperties
  <2> QED BY <2>2, <1>0
<1>10. b \in Seq(Chars) /\ Len(b) = k - cur /\ \A i \in 1 .. k - cur : b[i] = t[cur + i]
  <2>1. \A i \in cur + 1 .. k : t[i] \in Chars BY <1>7, <1>0
  <2>2. b \in Seq(Chars) /\ Len(b) = (IF cur + 1 <= k THEN k - (cur + 1) + 1 ELSE 0)
        /\ \A i \in 1 .. k - (cur + 1) + 1 : b[i] = t[cur + 1 + i - 1] BY <2>1, <1>0, SubSeqProperties
  <2>3. k - (cur + 1) + 1 = k - cur BY <1>0
  <2>4. ASSUME NEW i \in 1 .. k - cur PROVE b[i] = t[cur + i]
    <3>1. cur + 1 + i - 1 = cur + i BY <1>0
    <3> QED BY <2>2, <2>3, <3>1
  <2> QED BY <2>2, <2>3, <2>4, <1>0
<1> HIDE DEF a, b
<1> DEFINE u == a \o b
<1>11. /\ u \in Seq(Chars) /\ Len(u) = k - 1
       /\ \A i \in 1 .. k - 1 : u[i] = IF i <= cur - 1 THEN a[i] ELSE b[i - (cur - 1)]
  <2>1. /\ u \in Seq(Chars) /\ Len(u) = Len(a) + Len(b)
        /\ \A i \in 1 .. Len(a) + Len(b) : u[i] = IF i <= Len(a) THEN a[i] ELSE b[i - Len(a)]
    BY <1>9, <1>10, ConcatProperties
  <2>2. Len(a) + Len(b) = k - 1 BY <1>9, <1>10, <1>0
  <2> QED BY <2>1, <2>2, <1>9
<1> HIDE DEF u
<1>12. ASSUME NEW i \in 1 .. k - 1 PROVE TextOf(w)[i] = u[i]
  <2>1. i - 1 \in 0 .. n - 1 /\ TextOf(w)[i] = w[i - 1] /\ i \in 1 .. k /\ i + 1 \in 1 .. k BY <1>8, <1>0
  <2>2. CASE i <= cur - 1
    <3>1. i \in 1 .. cur - 1 /\ i - 1 \notin cur - 1 .. k - 1 BY <2>2, <1>0
    <3>2. w[i - 1] = m[i - 1] BY <1>2, <2>1, <3>1
    <3> QED BY <2>1, <2>2, <3>1, <3>2, <1>7, <1>9, <1>11
  <2>3. CASE ~(i <= cur - 1)
    <3>1. /\ i - 1 \in cur - 1 .. k - 1 /\ i - (cur - 1) \in 1 .. k - cur
          /\ cur + (i - (cur - 1)) = i + 1 /\ i - 1 + 1 = i /\ i + 1 - 1 = i
      BY <2>3, <1>0
    <3>2. w[i - 1] = m[i] BY <1>2, <2>1, <3>1
    <3>3. u[i] = t[i + 1] BY <1>10, <1>11, <2>3, <3>1
    <3>5. t[i + 1] = m[(i + 1) - 1] BY <2>1, <1>7
    <3>4. t[i + 1] = m[i] BY <3>1, <3>5
    <3> QED BY <2>1, <3>2, <3>3, <3>4
  <2> QED BY <2>2, <2>3
<1>13. TextOf(w) = u
  <2>1. Len(TextOf(w)) = Len(u) /\ \A i \in 1 .. Len(TextOf(w)) : TextOf(w)[i] = u[i] BY <1>8, <1>11, <1>12
  <2> QED BY <2>1, <1>8, <1>11, SeqEqual
<1> QED BY <1>5, <1>6, <1>13 DEF w, u, a, b, t

-----------------------------------------------------------------------------
(* The keyboard's state.                                                   *)

\* Initially every text has an end.
LEMMA InitCorrect == Init => TypeOK /\ TextFits
<1> SUFFICES ASSUME Init PROVE TypeOK /\ TextFits OBVIOUS
<1> USE DEF Init
<1>1. TypeOK BY KeyboardAssumption DEF TypeOK
<1>2. ASSUME NEW f \in Fields PROVE \E n \in 0 .. Size[f] - 1 : EndsAt(mem[f], n)
  <2>1. PICK n \in 0 .. Size[f] - 1 : \A i \in 0 .. Size[f] - 1 : (mem[f][i] = Nul) <=> (i >= n)
    OBVIOUS
  <2>2. Size[f] \in Nat BY KeyboardAssumption
  <2>3. n \in DOMAIN mem[f] BY DEF Bytes
  <2>4. mem[f][n] = Nul BY <2>1, <2>2
  <2>5. ASSUME NEW i \in 0 .. n - 1 PROVE mem[f][i] # Nul
    <3>1. i \in 0 .. Size[f] - 1 /\ ~(i >= n) BY <2>2
    <3> QED BY <2>1, <3>1
  <2> QED BY <2>3, <2>4, <2>5 DEF EndsAt
<1>3. ~active OBVIOUS
<1> QED BY <1>1, <1>2, <1>3 DEF TextFits

\* What the open field is, when there is one.
LEMMA OpenField ==
  ASSUME TypeOK, TextFits, active
  PROVE  /\ targetBuffer \in Fields /\ Size[targetBuffer] \in Nat /\ maxLen = Size[targetBuffer]
         /\ mem[targetBuffer] \in Buffer(Size[targetBuffer])
         /\ StrLen(mem[targetBuffer]) \in 0 .. Size[targetBuffer] - 1
         /\ EndsAt(mem[targetBuffer], StrLen(mem[targetBuffer]))
         /\ cursorIndex \in 0 .. StrLen(mem[targetBuffer])
<1>1. targetBuffer \in Fields /\ maxLen = Size[targetBuffer] /\ cursorIndex \in Nat BY DEF TypeOK
<1>2. Size[targetBuffer] \in Nat BY <1>1, KeyboardAssumption
<1>3. mem[targetBuffer] \in Buffer(Size[targetBuffer]) BY <1>1 DEF TypeOK, Bytes, Buffer
<1>4. PICK n \in 0 .. Size[targetBuffer] - 1 : EndsAt(mem[targetBuffer], n) BY <1>1 DEF TextFits
<1>5. StrLen(mem[targetBuffer]) = n BY <1>2, <1>3, <1>4, StrLenIs
<1>6. cursorIndex <= StrLen(mem[targetBuffer]) BY DEF TextFits
<1> QED BY <1>1, <1>2, <1>3, <1>4, <1>5, <1>6

\* One buffer with a text replaced by another one with a text.
LEMMA Replaced ==
  ASSUME TypeOK, TextFits, NEW f \in Fields, NEW w \in Buffer(Size[f]),
         NEW n \in 0 .. Size[f] - 1, EndsAt(w, n), mem' = [mem EXCEPT ![f] = w]
  PROVE  /\ mem' \in [Fields -> UNION {Bytes(g) : g \in Fields}]
         /\ \A g \in Fields : mem'[g] \in Bytes(g)
         /\ \A g \in Fields : \E j \in 0 .. Size[g] - 1 : EndsAt(mem'[g], j)
         /\ mem'[f] = w
<1>1. mem \in [Fields -> UNION {Bytes(g) : g \in Fields}] /\ \A g \in Fields : mem[g] \in Bytes(g) BY DEF TypeOK
<1>2. mem'[f] = w /\ \A g \in Fields \ {f} : mem'[g] = mem[g] BY <1>1
<1>3. w \in Bytes(f) BY DEF Buffer, Bytes
<1>4. \A g \in Fields : mem'[g] \in Bytes(g) BY <1>1, <1>2, <1>3
<1>5. mem' \in [Fields -> UNION {Bytes(g) : g \in Fields}] BY <1>1, <1>3
<1>6. ASSUME NEW g \in Fields PROVE \E j \in 0 .. Size[g] - 1 : EndsAt(mem'[g], j)
  <2>1. CASE g = f BY <1>2, <2>1
  <2>2. CASE g # f BY <1>2, <2>2 DEF TextFits
  <2> QED BY <2>1, <2>2
<1> QED BY <1>2, <1>4, <1>5, <1>6

\* The bytes a key leaves, if it leaves any.
LEMMA PressKeyText ==
  ASSUME TypeOK, TextFits, NEW c \in Chars, PressKey(c)
  PROVE  \E w : LET f == targetBuffer  m == mem[f]  k == StrLen(m) IN
           /\ w \in Buffer(Size[f]) /\ k + 1 \in 0 .. Size[f] - 1 /\ EndsAt(w, k + 1)
           /\ TextOf(w) = SubSeq(TextOf(m), 1, cursorIndex) \o <<c>> \o SubSeq(TextOf(m), cursorIndex + 1, k)
           /\ mem' = [mem EXCEPT ![f] = w]
<1> DEFINE f == targetBuffer
           m == mem[f]
           k == StrLen(m)
           w == [Moved(m, cursorIndex + 1, cursorIndex, k - cursorIndex + 1) EXCEPT ![cursorIndex] = c]
<1>1. active /\ k < maxLen - 1 /\ mem' = [mem EXCEPT ![f] = w] BY DEF PressKey, InsertChar
<1>2. /\ Size[f] \in Nat /\ maxLen = Size[f] /\ m \in Buffer(Size[f]) /\ k \in 0 .. Size[f] - 1
      /\ EndsAt(m, k) /\ cursorIndex \in 0 .. k
  BY <1>1, OpenField
<1>3. w = [Moved(m, cursorIndex + 1, cursorIndex, k - cursorIndex + 1) EXCEPT ![cursorIndex] = c] OBVIOUS
<1> HIDE DEF f, m, k, w
<1>4. k \in 0 .. Size[f] - 2 /\ k + 1 \in 0 .. Size[f] - 1 BY <1>1, <1>2
<1>5. /\ w \in Buffer(Size[f]) /\ EndsAt(w, k + 1)
      /\ TextOf(w) = SubSeq(TextOf(m), 1, cursorIndex) \o <<c>> \o SubSeq(TextOf(m), cursorIndex + 1, k)
  <2> DEFINE n == Size[f]
             cur == cursorIndex
  <2>1. n \in Nat /\ m \in Buffer(n) /\ k \in 0 .. n - 2 /\ EndsAt(m, k) /\ cur \in 0 .. k BY <1>2, <1>4
  <2>2. w = Inserted(m, k, cur, c) BY <1>3 DEF Inserted
  <2> HIDE DEF n, cur
  <2>3. /\ Inserted(m, k, cur, c) \in Buffer(n) /\ EndsAt(Inserted(m, k, cur, c), k + 1)
        /\ TextOf(Inserted(m, k, cur, c)) = SubSeq(TextOf(m), 1, cur) \o <<c>> \o SubSeq(TextOf(m), cur + 1, k)
    BY <2>1, InsertedText
  <2> QED BY <2>2, <2>3 DEF n, cur
<1> QED BY <1>1, <1>4, <1>5 DEF f, m, k

\* The bytes that are left when a character is deleted.
LEMMA DeleteCharText ==
  ASSUME TypeOK, TextFits, DeleteChar
  PROVE  \E w : LET f == targetBuffer  m == mem[f]  k == StrLen(m) IN
           /\ w \in Buffer(Size[f]) /\ k - 1 \in 0 .. Size[f] - 1 /\ EndsAt(w, k - 1)
           /\ TextOf(w) = SubSeq(TextOf(m), 1, cursorIndex - 1) \o SubSeq(TextOf(m), cursorIndex + 1, k)
           /\ mem' = [mem EXCEPT ![f] = w]
<1> DEFINE f == targetBuffer
           m == mem[f]
           k == StrLen(m)
           w == Moved(m, cursorIndex - 1, cursorIndex, k - cursorIndex + 1)
<1>1. active /\ cursorIndex > 0 /\ mem' = [mem EXCEPT ![f] = w] BY DEF DeleteChar
<1>2. /\ Size[f] \in Nat /\ m \in Buffer(Size[f]) /\ k \in 0 .. Size[f] - 1
      /\ EndsAt(m, k) /\ cursorIndex \in 0 .. k
  BY <1>1, OpenField
<1>3. w = Moved(m, cursorIndex - 1, cursorIndex, k - cursorIndex + 1) OBVIOUS
<1> HIDE DEF f, m, k, w
<1>4. cursorIndex \in 1 .. k /\ k - 1 \in 0 .. Size[f] - 1 BY <1>1, <1>2
<1>5. /\ w \in Buffer(Size[f]) /\ EndsAt(w, k - 1)
      /\ TextOf(w) = SubSeq(TextOf(m), 1, cursorIndex - 1) \o SubSeq(TextOf(m), cursorIndex + 1, k)
  <2> DEFINE n == Size[f]
             cur == cursorIndex
  <2>1. n \in Nat /\ m \in Buffer(n) /\ k \in 0 .. n - 1 /\ EndsAt(m, k) /\ cur \in 1 .. k BY <1>2, <1>4
  <2>2. w = Erased(m, k, cur) BY <1>3 DEF Erased
  <2> HIDE DEF n, cur
  <2>3. /\ Erased(m, k, cur) \in Buffer(n) /\ EndsAt(Erased(m, k, cur), k - 1)
        /\ TextOf(Erased(m, k, cur)) = SubSeq(TextOf(m), 1, cur - 1) \o SubSeq(TextOf(m), cur + 1, k)
    BY <2>1, ErasedText
  <2> QED BY <2>2, <2>3 DEF n, cur
<1> QED BY <1>1, <1>4, <1>5 DEF f, m, k

\* Every step keeps the texts in their buffers, and the cursor in its text.
LEMMA StepCorrect == TypeOK /\ TextFits /\ [Next]_vars => TypeOK' /\ TextFits'
<1> SUFFICES ASSUME TypeOK, TextFits, [Next]_vars PROVE TypeOK' /\ TextFits' OBVIOUS
<1>1. CASE UNCHANGED vars BY <1>1 DEF vars, layout, TypeOK, TextFits
<1>2. ASSUME NEW f \in Fields, Show(f) PROVE TypeOK' /\ TextFits'
  <2>1. Size[f] \in Nat /\ mem[f] \in Buffer(Size[f]) BY KeyboardAssumption DEF TypeOK, Bytes, Buffer
  <2>2. PICK n \in 0 .. Size[f] - 1 : EndsAt(mem[f], n) BY DEF TextFits
  <2>3. StrLen(mem[f]) = n /\ n \in Nat BY <2>1, <2>2, StrLenIs
  <2>4. f # Nowhere BY KeyboardAssumption
  <2>5. TypeOK' BY <1>2, <2>1, <2>3, <2>4 DEF Show, TypeOK
  <2>6. TextFits' BY <1>2, <2>3 DEF Show, TextFits
  <2> QED BY <2>5, <2>6
<1>3. CASE Hide BY <1>3 DEF Hide, layout, TypeOK, TextFits
<1>4. ASSUME active, NEW i \in 0 .. Size[targetBuffer], TouchText(i) PROVE TypeOK' /\ TextFits'
  <2>1. i \in Nat /\ i <= StrLen(mem[targetBuffer]) BY <1>4, OpenField DEF TouchText
  <2> QED BY <1>4, <2>1 DEF TouchText, layout, TypeOK, TextFits
<1>5. ASSUME NEW c \in Chars, PressKey(c) PROVE TypeOK' /\ TextFits'
  <2> DEFINE f == targetBuffer
             k == StrLen(mem[f])
  <2>1. PICK w : /\ w \in Buffer(Size[f]) /\ k + 1 \in 0 .. Size[f] - 1 /\ EndsAt(w, k + 1)
                 /\ mem' = [mem EXCEPT ![f] = w]
    BY <1>5, PressKeyText
  <2>2. /\ f \in Fields /\ Size[f] \in Nat /\ k \in 0 .. Size[f] - 1 /\ cursorIndex \in 0 .. k
    BY <1>5, OpenField DEF PressKey
  <2>3. cursorIndex' = cursorIndex + 1 /\ UNCHANGED <<active, targetBuffer, maxLen, isCaps, isSymbols>>
    BY <1>5 DEF PressKey, InsertChar, layout
  <2> HIDE DEF f, k
  <2>4. /\ mem' \in [Fields -> UNION {Bytes(g) : g \in Fields}]
        /\ \A g \in Fields : mem'[g] \in Bytes(g)
        /\ \A g \in Fields : \E j \in 0 .. Size[g] - 1 : EndsAt(mem'[g], j)
        /\ mem'[f] = w
    BY <2>1, <2>2, Replaced
  <2>5. StrLen(mem'[f]) = k + 1 BY <2>1, <2>2, <2>4, StrLenIs
  <2>6. cursorIndex' \in Nat /\ cursorIndex' <= k + 1 BY <2>2, <2>3
  <2>7. TypeOK' BY <2>3, <2>4, <2>6 DEF TypeOK
  <2>8. TextFits' BY <2>3, <2>4, <2>5, <2>6 DEF TextFits, f
  <2> QED BY <2>7, <2>8
<1>6. CASE DeleteChar
  <2> DEFINE f == targetBuffer
             k == StrLen(mem[f])
  <2>1. PICK w : /\ w \in Buffer(Size[f]) /\ k - 1 \in 0 .. Size[f] - 1 /\ EndsAt(w, k - 1)
                 /\ mem' = [mem EXCEPT ![f] = w]
    BY <1>6, DeleteCharText
  <2>2. /\ f \in Fields /\ Size[f] \in Nat /\ k \in 0 .. Size[f] - 1 /\ cursorIndex \in 0 .. k
    BY <1>6, OpenField DEF DeleteChar
  <2>3. cursorIndex > 0 /\ cursorIndex' = cursorIndex - 1 /\ UNCHANGED <<active, targetBuffer, maxLen, isCaps, isSymbols>>
    BY <1>6 DEF DeleteChar, layout
  <2> HIDE DEF f, k
  <2>4. /\ mem' \in [Fields -> UNION {Bytes(g) : g \in Fields}]
        /\ \A g \in Fields : mem'[g] \in Bytes(g)
        /\ \A g \in Fields : \E j \in 0 .. Size[g] - 1 : EndsAt(mem'[g], j)
        /\ mem'[f] = w
    BY <2>1, <2>2, Replaced
  <2>5. StrLen(mem'[f]) = k - 1 BY <2>1, <2>2, <2>4, StrLenIs
  <2>6. cursorIndex' \in Nat /\ cursorIndex' <= k - 1 BY <2>2, <2>3
  <2>7. TypeOK' BY <2>3, <2>4, <2>6 DEF TypeOK
  <2>8. TextFits' BY <2>3, <2>4, <2>5, <2>6 DEF TextFits, f
  <2> QED BY <2>7, <2>8
<1>7. CASE ToggleSymbols BY <1>7 DEF ToggleSymbols, TypeOK, TextFits
<1>8. CASE ToggleCaps BY <1>8 DEF ToggleCaps, TypeOK, TextFits
<1> QED BY <1>1, <1>2, <1>3, <1>4, <1>5, <1>6, <1>7, <1>8 DEF Next

\* The keyboard's lengths and layouts are always of their types: the length it was
\* shown with is that of the open field, and capitals and symbols exclude each other.
THEOREM TypeCorrect == Spec => []TypeOK
<1>1. Init => TypeOK /\ TextFits BY InitCorrect
<1>2. (TypeOK /\ TextFits) /\ [Next]_vars => (TypeOK /\ TextFits)' BY StepCorrect
<1> QED BY <1>1, <1>2, PTL DEF Spec

\* No sequence of fields, keys and touches writes past the end of a field or leaves it
\* without its terminating zero, whatever the fields' sizes are.
THEOREM FitsCorrect == Spec => []TextFits
<1>1. Init => TypeOK /\ TextFits BY InitCorrect
<1>2. (TypeOK /\ TextFits) /\ [Next]_vars => (TypeOK /\ TextFits)' BY StepCorrect
<1> QED BY <1>1, <1>2, PTL DEF Spec

-----------------------------------------------------------------------------
(* The keyboard implements the text field.                                 *)

Texts == [f \in Fields |-> TextOf(mem[f])]

\* Initially the texts fit and none is open.
LEMMA InitMaps == Init => Typed!Init
<1> SUFFICES ASSUME Init PROVE Typed!Init OBVIOUS
<1>1. TypeOK /\ TextFits BY InitCorrect
<1>2. ASSUME NEW f \in Fields PROVE TextOf(mem[f]) \in Seq(Chars) /\ Len(TextOf(mem[f])) < Size[f]
  <2>1. Size[f] \in Nat /\ mem[f] \in Buffer(Size[f]) BY <1>1, KeyboardAssumption DEF TypeOK, Bytes, Buffer
  <2>2. PICK n \in 0 .. Size[f] - 1 : EndsAt(mem[f], n) BY <1>1 DEF TextFits
  <2>3. TextOf(mem[f]) \in Seq(Chars) /\ Len(TextOf(mem[f])) = n BY <2>1, <2>2, TextIs
  <2> QED BY <2>1, <2>3
<1>3. targetBuffer = Nowhere /\ active = FALSE BY DEF Init
<1> QED BY <1>2, <1>3 DEF Typed!Init

\* A buffer changes, and so does its text; the others stay.
LEMMA TextChanges ==
  ASSUME TypeOK, NEW f \in Fields, NEW w, mem' = [mem EXCEPT ![f] = w]
  PROVE  [g \in Fields |-> TextOf(mem'[g])] = [Texts EXCEPT ![f] = TextOf(w)]
<1>1. mem \in [Fields -> UNION {Bytes(g) : g \in Fields}] BY DEF TypeOK
<1>2. \A g \in Fields : mem'[g] = IF g = f THEN w ELSE mem[g] BY <1>1
<1>3. \A g \in Fields : TextOf(mem'[g]) = IF g = f THEN TextOf(w) ELSE TextOf(mem[g]) BY <1>2
<1> QED BY <1>3 DEF Texts

\* Every step of the keyboard is one of the text field, or none.
LEMMA StepMaps == TypeOK /\ TextFits /\ [Next]_vars => [Typed!Next]_(Typed!vars)
<1> SUFFICES ASSUME TypeOK, TextFits, [Next]_vars PROVE [Typed!Next]_(Typed!vars) OBVIOUS
<1>a. (active <=> targetBuffer # Nowhere) /\ targetBuffer \in Fields \cup {Nowhere} BY DEF TypeOK
<1>b. [f \in Fields |-> TextOf(mem[f])] = Texts BY DEF Texts
<1>c. ASSUME mem' = mem PROVE [f \in Fields |-> TextOf(mem'[f])] = Texts BY <1>c DEF Texts
<1>d. ASSUME active
      PROVE  LET f == targetBuffer  k == StrLen(mem[f]) IN
             /\ f \in Fields /\ {f} \ {Nowhere} = {f} /\ Texts[f] = TextOf(mem[f]) /\ Len(TextOf(mem[f])) = k
             /\ k \in 0 .. Size[f] - 1 /\ Size[f] \in Nat /\ maxLen = Size[f] /\ cursorIndex \in 0 .. k
  <2> DEFINE f == targetBuffer
             m == mem[f]
             k == StrLen(m)
  <2>1. /\ f \in Fields /\ Size[f] \in Nat /\ maxLen = Size[f] /\ m \in Buffer(Size[f])
        /\ k \in 0 .. Size[f] - 1 /\ EndsAt(m, k) /\ cursorIndex \in 0 .. k
    BY <1>d, OpenField
  <2> HIDE DEF m, k
  <2>2. Len(TextOf(m)) = k BY <2>1, TextIs
  <2>3. f # Nowhere BY <2>1, KeyboardAssumption
  <2>4. Texts[f] = TextOf(m) BY <2>1 DEF Texts, m
  <2> QED BY <2>1, <2>2, <2>3, <2>4 DEF m, k
<1>1. CASE UNCHANGED vars
  <2>1. mem' = mem /\ active' = active /\ targetBuffer' = targetBuffer /\ cursorIndex' = cursorIndex
    BY <1>1 DEF vars
  <2> QED BY <2>1 DEF Typed!vars
<1>2. ASSUME NEW f \in Fields, Show(f) PROVE Typed!Next
  <2>1. /\ ~active /\ active' /\ targetBuffer' = f /\ mem' = mem /\ cursorIndex' = StrLen(mem[f]) BY <1>2 DEF Show
  <2>2. Size[f] \in Nat /\ mem[f] \in Buffer(Size[f]) BY KeyboardAssumption DEF TypeOK, Bytes, Buffer
  <2>3. PICK n \in 0 .. Size[f] - 1 : EndsAt(mem[f], n) BY DEF TextFits
  <2>4. StrLen(mem[f]) = n BY <2>2, <2>3, StrLenIs
  <2>5. Len(TextOf(mem[f])) = n BY <2>2, <2>3, TextIs
  <2>6. {targetBuffer} \ {Nowhere} = {} /\ {targetBuffer'} \ {Nowhere} = {f} BY <1>a, <2>1, KeyboardAssumption
  <2>7. [g \in Fields |-> TextOf(mem'[g])] = [g \in Fields |-> TextOf(mem[g])] BY <2>1
  <2>8. [g \in Fields |-> TextOf(mem[g])][f] = TextOf(mem[f]) OBVIOUS
  <2>9. (IF active' THEN cursorIndex' ELSE 0) = n BY <2>1, <2>4
  <2>10. Typed!Open(f) BY <2>5, <2>6, <2>7, <2>8, <2>9 DEF Typed!Open
  <2> QED BY <2>10 DEF Typed!Next
<1>3. CASE Hide
  <2>1. active /\ ~active' /\ targetBuffer' = Nowhere /\ mem' = mem BY <1>3 DEF Hide
  <2>2. {targetBuffer} \ {Nowhere} # {} /\ {targetBuffer'} \ {Nowhere} = {} BY <1>a, <2>1
  <2>3. (IF active' THEN cursorIndex' ELSE 0) = 0 BY <2>1
  <2>4. Typed!Close BY <2>1, <2>2, <2>3 DEF Typed!Close
  <2> QED BY <2>4 DEF Typed!Next
<1>4. ASSUME active, NEW i \in 0 .. Size[targetBuffer], TouchText(i) PROVE Typed!Next
  <2> DEFINE f == targetBuffer
  <2>1. /\ i \in 0 .. StrLen(mem[f]) /\ cursorIndex' = i /\ mem' = mem /\ active' = active /\ targetBuffer' = targetBuffer
    BY <1>4 DEF TouchText
  <2>2. f \in Fields /\ {f} \ {Nowhere} = {f} /\ Len(TextOf(mem[f])) = StrLen(mem[f]) BY <1>4, <1>d
  <2>3. [g \in Fields |-> TextOf(mem[g])][f] = TextOf(mem[f]) BY <2>2
  <2>4. (IF active' THEN cursorIndex' ELSE 0) = i BY <1>4, <2>1
  <2>5. Typed!PutCaret(f, i) BY <2>1, <2>2, <2>3, <2>4 DEF Typed!PutCaret
  <2> QED BY <2>2, <2>5 DEF Typed!Next
<1>5. ASSUME NEW c \in Chars, PressKey(c) PROVE Typed!Next
  <2> DEFINE f == targetBuffer
             t == TextOf(mem[f])
             k == StrLen(mem[f])
  <2>1. PICK w : /\ TextOf(w) = SubSeq(t, 1, cursorIndex) \o <<c>> \o SubSeq(t, cursorIndex + 1, k)
                 /\ mem' = [mem EXCEPT ![f] = w]
    BY <1>5, PressKeyText
  <2>2. /\ active /\ k < maxLen - 1 /\ cursorIndex' = cursorIndex + 1 /\ active' = active /\ targetBuffer' = targetBuffer
    BY <1>5 DEF PressKey, InsertChar
  <2>3. /\ f \in Fields /\ {f} \ {Nowhere} = {f} /\ Texts[f] = t /\ Len(t) = k
        /\ k \in 0 .. Size[f] - 1 /\ Size[f] \in Nat /\ maxLen = Size[f] /\ cursorIndex \in 0 .. k
    BY <1>d, <2>2
  <2>4. [g \in Fields |-> TextOf(mem'[g])] = [Texts EXCEPT ![f] = TextOf(w)] BY <2>1, <2>3, TextChanges
  <2>5. Len(t) + 1 < Size[f] BY <2>2, <2>3
  <2>6. (IF active THEN cursorIndex ELSE 0) = cursorIndex /\ (IF active' THEN cursorIndex' ELSE 0) = cursorIndex + 1 BY <2>2
  <2>7. cursorIndex + 1 - 1 = cursorIndex BY <2>3
  <2>8. TextOf(w) = Typed!InsertAt(t, cursorIndex + 1, c) BY <2>1, <2>3, <2>7 DEF Typed!InsertAt
  <2>9. Typed!Type(f, c) BY <1>b, <2>2, <2>3, <2>4, <2>5, <2>6, <2>8 DEF Typed!Type
  <2> QED BY <2>3, <2>9 DEF Typed!Next
<1>6. CASE DeleteChar
  <2> DEFINE f == targetBuffer
             t == TextOf(mem[f])
             k == StrLen(mem[f])
  <2>1. PICK w : /\ TextOf(w) = SubSeq(t, 1, cursorIndex - 1) \o SubSeq(t, cursorIndex + 1, k)
                 /\ mem' = [mem EXCEPT ![f] = w]
    BY <1>6, DeleteCharText
  <2>2. /\ active /\ cursorIndex > 0 /\ cursorIndex' = cursorIndex - 1 /\ active' = active /\ targetBuffer' = targetBuffer
    BY <1>6 DEF DeleteChar
  <2>3. /\ f \in Fields /\ {f} \ {Nowhere} = {f} /\ Texts[f] = t /\ Len(t) = k
    BY <1>d, <2>2
  <2>4. [g \in Fields |-> TextOf(mem'[g])] = [Texts EXCEPT ![f] = TextOf(w)] BY <2>1, <2>3, TextChanges
  <2>6. (IF active THEN cursorIndex ELSE 0) = cursorIndex /\ (IF active' THEN cursorIndex' ELSE 0) = cursorIndex - 1 BY <2>2
  <2>8. TextOf(w) = Typed!RemoveAt(t, cursorIndex) BY <2>1, <2>3 DEF Typed!RemoveAt
  <2>9. Typed!Erase(f) BY <1>b, <2>2, <2>3, <2>4, <2>6, <2>8 DEF Typed!Erase
  <2> QED BY <2>3, <2>9 DEF Typed!Next
<1>7. CASE ToggleSymbols \/ ToggleCaps
  <2>1. mem' = mem /\ active' = active /\ targetBuffer' = targetBuffer /\ cursorIndex' = cursorIndex
    BY <1>7 DEF ToggleSymbols, ToggleCaps
  <2> QED BY <2>1 DEF Typed!vars
<1> QED BY <1>1, <1>2, <1>3, <1>4, <1>5, <1>6, <1>7 DEF Next

\* The keyboard is a text field: the bytes it moves are, for all fields and sizes, what
\* inserting and removing characters of a sequence makes of the text.
THEOREM TextFieldCorrect == Spec => IsTextField
<1>1. Init => TypeOK /\ TextFits BY InitCorrect
<1>2. (TypeOK /\ TextFits) /\ [Next]_vars => (TypeOK /\ TextFits)' BY StepCorrect
<1>3. Init => Typed!Init BY InitMaps
<1>4. (TypeOK /\ TextFits) /\ [Next]_vars => [Typed!Next]_(Typed!vars) BY StepMaps
<1> QED BY <1>1, <1>2, <1>3, <1>4, PTL DEF Spec, IsTextField, Typed!Spec

-----------------------------------------------------------------------------
(* The settings.  Every copy of them is named with the stage in which it   *)
(* can be relied on: the file from the end of one save to the next, the    *)
(* fields and options while the menu is open, the configuration and the    *)
(* options from its end to the program's.                                  *)

AfterMenu == {"entering", "game", "closing"}

\* The file against the settings last written.
Saved ==
    /\ app = "off" => ~saving
    /\ app # "off" => (readable <=> ~saving)
    /\ readable => \A k \in Read : LoadedFrom(file)[k] = kept[k]
    /\ app \in AfterMenu /\ ~saving => config = kept
    /\ AllOrNothing

\* What the menu shows of a choice.
Shown(k) == IF k \in Edited THEN fields[k] ELSE IF k \in Unsaved THEN options[k] ELSE config[k]

\* All copies against what the player chose last.
Remembered ==
    /\ app = "menu" => \A k \in Choices : Shown(k) = chosen[k]
    /\ app \in AfterMenu => \A k \in AllKeys : config[k] = chosen[k]
    /\ app \in AfterMenu => options["volume"] = chosen["volume"]
    /\ app = "off" /\ intact => readable /\ \A k \in Read : kept[k] = chosen[k]
    /\ ChoicesSurvive
    /\ CalledAsTyped

SettingsInv == SettingsOK /\ Saved /\ Remembered

LEMMA KeysAre == Read \subseteq AllKeys /\ Edited \subseteq AllKeys /\ AllKeys \subseteq Choices /\ "name" \in Edited
                 /\ Choices = AllKeys \cup Unsaved /\ AllKeys \cap Unsaved = {}
                 /\ "volume" \in Unsaved /\ "public" \in Unsaved
BY DEF Read, Edited, AllKeys, Unsaved, Choices

\* What is loaded from any file is a configuration, and a file that has all settings is
\* loaded as it was written, but for the language.
LEMMA LoadedIs ==
  ASSUME NEW f, DOMAIN f \subseteq AllKeys, f \in [DOMAIN f -> Values]
  PROVE  /\ LoadedFrom(f) \in [AllKeys -> Values]
         /\ DOMAIN f = AllKeys => \A k \in Read : LoadedFrom(f)[k] = f[k]
<1>1. ASSUME NEW k \in AllKeys
      PROVE  (IF k \notin Read THEN Static[k] ELSE IF k \in DOMAIN f THEN f[k] ELSE IfAbsent[k]) \in Values
  BY SettingsAssumption
<1>2. LoadedFrom(f) \in [AllKeys -> Values] BY <1>1 DEF LoadedFrom
<1>3. Read \subseteq AllKeys BY DEF Read
<1> QED BY <1>2, <1>3 DEF LoadedFrom

LEMMA SettingsInitCorrect == SettingsInit => SettingsInv
<1> SUFFICES ASSUME SettingsInit PROVE SettingsInv OBVIOUS
<1>1. DOMAIN file \subseteq AllKeys /\ file \in [DOMAIN file -> Values] BY DEF SettingsInit
<1>2. kept \in [AllKeys -> Values] BY <1>1, LoadedIs, SettingsAssumption DEF SettingsInit
<1>3. fields \in [Edited -> Values] BY SettingsAssumption DEF SettingsInit, AllKeys
<1>a. chosen \in [Choices -> Values] BY SettingsAssumption, KeysAre DEF SettingsInit
<1>4. SettingsOK BY <1>1, <1>2, <1>3, <1>a, SettingsAssumption DEF SettingsInit, SettingsOK
<1>5. Saved BY DEF SettingsInit, Saved, AllOrNothing, Opens, AfterMenu
<1>6. Remembered BY DEF SettingsInit, Remembered, ChoicesSurvive, Opens, CalledAsTyped, AfterMenu
<1> QED BY <1>4, <1>5, <1>6 DEF SettingsInv

\* Every save, whichever handler makes it, writes what is in memory.
LEMMA WriteFileKeeps == SettingsInv /\ WriteFile => SettingsInv'
<1> SUFFICES ASSUME SettingsInv, WriteFile PROVE SettingsInv' OBVIOUS
<1>a. /\ file' = config /\ readable' = TRUE /\ saving' = FALSE /\ kept' = config
      /\ UNCHANGED <<app, config, fields, options, editing, sceneDue, connected, pending, joined, chosen, intact>>
      /\ app # "off"
  BY DEF WriteFile, menu, net, SettingsInv, Saved
<1>b. SettingsOK BY DEF SettingsInv
<1>1. DOMAIN config = AllKeys BY <1>b DEF SettingsOK
<1>2. SettingsOK' BY <1>a, <1>b, <1>1 DEF SettingsOK
<1>3. \A k \in Read : LoadedFrom(config)[k] = config[k] BY <1>1, <1>b, LoadedIs DEF SettingsOK
<1>4. Saved' BY <1>a, <1>3 DEF Saved, AllOrNothing, Opens, LoadedFrom
<1>6. Remembered' BY <1>a, KeysAre DEF Shown, SettingsInv, Remembered, ChoicesSurvive, Opens, CalledAsTyped
<1> QED BY <1>2, <1>4, <1>6 DEF SettingsInv

\* What is loaded is what was written last, which after an orderly end is what was chosen.
LEMMA LaunchKeeps == SettingsInv /\ Launch => SettingsInv'
<1> SUFFICES ASSUME SettingsInv, Launch PROVE SettingsInv' OBVIOUS
<1>a. /\ app = "off" /\ app' = "starting" /\ ~saving /\ options' = AtStart
      /\ UNCHANGED <<file, fields, editing, sceneDue, connected, pending, joined, chosen, kept, intact>>
  BY DEF Launch, BeginSave, menu, net, history, disk, SettingsInv, Saved
<1>b. SettingsOK BY DEF SettingsInv
<1>1. CASE readable
  <2>1. config' = LoadedFrom(file) /\ readable' = readable /\ saving' = saving
    BY <1>1 DEF Launch, disk
  <2>2. config' \in [AllKeys -> Values] BY <2>1, <1>b, LoadedIs DEF SettingsOK
  <2>3. SettingsOK' BY <1>a, <1>b, <2>1, <2>2, SettingsAssumption DEF SettingsOK
  <2>4. \A k \in Read : config'[k] = kept[k] BY <1>1, <2>1 DEF SettingsInv, Saved
  <2>5. Saved' BY <1>a, <1>1, <2>1, <2>4 DEF Saved, AllOrNothing, Opens, AfterMenu, LoadedFrom
  <2>6. intact => \A k \in Read : kept[k] = chosen[k] BY <1>a DEF SettingsInv, Remembered
  <2>7. Remembered' BY <1>a, <2>4, <2>6 DEF Remembered, ChoicesSurvive, Opens, CalledAsTyped, AfterMenu
  <2> QED BY <2>3, <2>5, <2>7 DEF SettingsInv
<1>2. CASE ~readable
  <2>1. config' = Fresh /\ readable' = FALSE /\ saving' = TRUE BY <1>2 DEF Launch, BeginSave
  <2>2. SettingsOK' BY <1>a, <1>b, <2>1, SettingsAssumption DEF SettingsOK
  <2>3. Saved' BY <1>a, <2>1 DEF Saved, AllOrNothing, Opens, AfterMenu
  <2>4. intact = FALSE BY <1>a, <1>b, <1>2 DEF SettingsInv, Remembered, SettingsOK
  <2>5. Remembered' BY <1>a, <2>4 DEF Remembered, ChoicesSurvive, Opens, CalledAsTyped, AfterMenu
  <2> QED BY <2>2, <2>3, <2>5 DEF SettingsInv
<1> QED BY <1>1, <1>2

\* The menu opens with copies of what is in memory, in which the player has a free hand.
LEMMA EnterMenuKeeps == SettingsInv /\ EnterMenu => SettingsInv'
<1> SUFFICES ASSUME SettingsInv, EnterMenu PROVE SettingsInv' OBVIOUS
<1>a. /\ Opens /\ ~saving /\ app' = "menu"
      /\ fields' = [k \in Edited |-> config[k]] /\ editing' = FALSE /\ sceneDue' = FALSE
      /\ options' = [options EXCEPT !["public"] = AtStart["public"]]
      /\ chosen' = [k \in Choices |-> IF k \in Unsaved THEN options'[k] ELSE config[k]] /\ intact' = TRUE
      /\ UNCHANGED <<config, readable, file, saving, connected, pending, joined, kept>>
  BY DEF EnterMenu, net, disk
<1>b. SettingsOK BY DEF SettingsInv
<1>1. fields' \in [Edited -> Values] BY <1>a, <1>b, KeysAre DEF SettingsOK
<1>2. options' \in [Unsaved -> Values] BY <1>a, <1>b, KeysAre, SettingsAssumption DEF SettingsOK
<1>3. chosen' \in [Choices -> Values]
  <2>1. ASSUME NEW k \in Choices PROVE (IF k \in Unsaved THEN options'[k] ELSE config[k]) \in Values
    BY <1>b, <1>2, KeysAre DEF SettingsOK
  <2> QED BY <1>a, <2>1
<1>4. SettingsOK' BY <1>a, <1>b, <1>1, <1>2, <1>3 DEF SettingsOK
<1>5. Saved' BY <1>a DEF SettingsInv, Saved, AllOrNothing, Opens, AfterMenu, LoadedFrom
<1>6. ASSUME NEW k \in Choices PROVE Shown(k)' = chosen'[k] BY <1>a, KeysAre DEF Shown
<1>7. Remembered' BY <1>a, <1>6 DEF Remembered, ChoicesSurvive, Opens, CalledAsTyped, AfterMenu
<1> QED BY <1>4, <1>5, <1>7 DEF SettingsInv

\* A keystroke, a slider or the checkbox changes what is shown and the player's mind alike.
LEMMA EditKeeps ==
  ASSUME SettingsInv, NEW k \in Choices, NEW v \in Values, Idle("menu"), editing' \in BOOLEAN,
         chosen' = [chosen EXCEPT ![k] = v],
         \/ k \in Edited /\ fields' = [fields EXCEPT ![k] = v] /\ UNCHANGED options
         \/ k \in Unsaved /\ options' = [options EXCEPT ![k] = v] /\ UNCHANGED fields,
         UNCHANGED <<app, config, disk, sceneDue, net, kept, intact>>
  PROVE  SettingsInv'
<1>a. /\ app = "menu" /\ app' = app
      /\ UNCHANGED <<config, readable, file, saving, sceneDue, connected, pending, joined, kept, intact>>
  BY DEF Idle, net, disk
<1>b. SettingsOK BY DEF SettingsInv
<1>d. /\ fields \in [Edited -> Values] /\ options \in [Unsaved -> Values]
      /\ chosen \in [Choices -> Values]
  BY <1>b DEF SettingsOK
<1>1. /\ fields' \in [Edited -> Values] /\ options' \in [Unsaved -> Values]
      /\ chosen' \in [Choices -> Values]
  BY <1>d
<1>2. SettingsOK' BY <1>a, <1>b, <1>1 DEF SettingsOK
<1>3. Saved' BY <1>a DEF SettingsInv, Saved, AllOrNothing, Opens, AfterMenu, LoadedFrom
<1>5. ASSUME NEW j \in Choices PROVE Shown(j)' = chosen'[j]
  <2>1. Shown(j) = chosen[j] BY <1>a DEF SettingsInv, Remembered
  <2>2. Edited \cap Unsaved = {} BY KeysAre
  <2> QED BY <1>a, <1>d, <2>1, <2>2 DEF Shown
<1>8. Remembered' BY <1>a, <1>5 DEF Remembered, ChoicesSurvive, Opens, CalledAsTyped, AfterMenu
<1> QED BY <1>2, <1>3, <1>8 DEF SettingsInv

\* In the menu a handler may take any field into the configuration, and save or not: the
\* fields stay, and the rest of the configuration is the player's choice.
LEMMA MenuKeeps ==
  ASSUME SettingsInv, Idle("menu"), app' = app, config' \in [AllKeys -> Values], chosen' \in [Choices -> Values],
         \A k \in AllKeys \ Edited : (config'[k] = config[k] /\ chosen'[k] = chosen[k]) \/ config'[k] = chosen'[k],
         \A k \in Edited \cup Unsaved : chosen'[k] = chosen[k],
         editing' \in BOOLEAN,
         UNCHANGED disk \/ BeginSave(config'),
         UNCHANGED <<fields, options, sceneDue, net, kept, intact>>
  PROVE  SettingsInv'
<1>a. /\ app = "menu" /\ ~saving
      /\ UNCHANGED <<app, file, fields, options, sceneDue, connected, pending, joined, kept, intact>>
  BY DEF Idle, net, disk, BeginSave
<1>b. SettingsOK /\ readable BY <1>a DEF SettingsInv, Saved
<1>c. /\ \/ readable' = readable /\ saving' = saving
         \/ readable' = FALSE /\ saving' = TRUE
  BY DEF disk, BeginSave
<1>2. SettingsOK' BY <1>a, <1>b, <1>c DEF SettingsOK
<1>3. Saved' BY <1>a, <1>c DEF SettingsInv, Saved, AllOrNothing, Opens, AfterMenu, LoadedFrom
<1>5. ASSUME NEW j \in Choices PROVE Shown(j)' = chosen'[j]
  <2>1. Shown(j) = chosen[j] BY <1>a DEF SettingsInv, Remembered
  <2> QED BY <1>a, <2>1, KeysAre DEF Shown
<1>8. Remembered' BY <1>a, <1>5 DEF Remembered, ChoicesSurvive, Opens, CalledAsTyped, AfterMenu
<1> QED BY <1>2, <1>3, <1>8 DEF SettingsInv

LEMMA HandlersKeep == SettingsInv /\ (StopEditing \/ JoinDirect \/ CreateLobby \/ CycleLanguage) => SettingsInv'
<1> SUFFICES ASSUME SettingsInv, StopEditing \/ JoinDirect \/ CreateLobby \/ CycleLanguage PROVE SettingsInv' OBVIOUS
<1>a. /\ config \in [AllKeys -> Values] /\ fields \in [Edited -> Values] /\ chosen \in [Choices -> Values]
      /\ editing \in BOOLEAN /\ Languages \subseteq Values
  BY SettingsAssumption DEF SettingsInv, SettingsOK
<1>1. CASE StopEditing
  <2>1. /\ Idle("menu") /\ app' = app /\ editing' = FALSE /\ config' = [config EXCEPT !["name"] = fields["name"]]
        /\ chosen' = chosen /\ UNCHANGED disk /\ UNCHANGED <<fields, options, sceneDue, net, kept, intact>>
    BY <1>1 DEF StopEditing, history
  <2>2. config' \in [AllKeys -> Values] /\ \A k \in AllKeys \ Edited : config'[k] = config[k]
    BY <1>a, <2>1 DEF AllKeys, Edited
  <2> QED BY <1>a, <2>1, <2>2, MenuKeeps
<1>2. CASE JoinDirect
  <2>1. /\ Idle("menu") /\ app' = app /\ editing' = editing /\ config' = [config EXCEPT !["address"] = fields["address"]]
        /\ chosen' = chosen /\ BeginSave(config') /\ UNCHANGED <<fields, options, sceneDue, net, kept, intact>>
    BY <1>2 DEF JoinDirect, BeginSave, history, menu
  <2>2. config' \in [AllKeys -> Values] /\ \A k \in AllKeys \ Edited : config'[k] = config[k]
    BY <1>a, <2>1 DEF AllKeys, Edited
  <2> QED BY <1>a, <2>1, <2>2, MenuKeeps
<1>3. CASE CreateLobby
  <2>1. /\ Idle("menu") /\ app' = app /\ editing' = editing /\ config' = [config EXCEPT !["server"] = fields["server"]]
        /\ chosen' = chosen /\ UNCHANGED disk /\ UNCHANGED <<fields, options, sceneDue, net, kept, intact>>
    BY <1>3 DEF CreateLobby, history, menu
  <2>2. config' \in [AllKeys -> Values] /\ \A k \in AllKeys \ Edited : config'[k] = config[k]
    BY <1>a, <2>1 DEF AllKeys, Edited
  <2> QED BY <1>a, <2>1, <2>2, MenuKeeps
<1>4. CASE CycleLanguage
  <2>1. PICK l \in Languages : BeginSave([config EXCEPT !["language"] = l]) /\ chosen' = [chosen EXCEPT !["language"] = l]
    BY <1>4 DEF CycleLanguage
  <2>2. /\ Idle("menu") /\ app' = app /\ editing' = editing /\ config' = [config EXCEPT !["language"] = l]
        /\ BeginSave(config') /\ UNCHANGED <<fields, options, sceneDue, net, kept, intact>>
    BY <1>4, <2>1 DEF CycleLanguage, BeginSave, menu
  <2>3. /\ config' \in [AllKeys -> Values] /\ chosen' \in [Choices -> Values]
        /\ \A k \in Edited \cup Unsaved : chosen'[k] = chosen[k]
        /\ config'["language"] = chosen'["language"]
        /\ \A k \in AllKeys \ {"language"} : config'[k] = config[k] /\ chosen'[k] = chosen[k]
    BY <1>a, <2>1, <2>2 DEF AllKeys, Edited, Unsaved, Choices
  <2> QED BY <1>a, <2>2, <2>3, MenuKeeps
<1> QED BY <1>1, <1>2, <1>3, <1>4

\* The menu's end, by a game or by the window: its fields become the configuration.
LEMMA ExitMenuKeeps == ASSUME SettingsInv, NEW next \in {"entering", "closing"}, ExitMenu(next) PROVE SettingsInv'
<1>a. /\ app = "menu" /\ ~saving /\ app' = next /\ config' = FromFields /\ readable' = FALSE /\ saving' = TRUE
      /\ UNCHANGED <<file, fields, options, editing, sceneDue, connected, pending, joined, chosen, kept, intact>>
  BY DEF ExitMenu, Idle, BeginSave, menu, net, history
<1>b. SettingsOK BY DEF SettingsInv
<1>1. ASSUME NEW k \in AllKeys PROVE config'[k] = chosen[k] /\ config'[k] \in Values
  <2>1. Shown(k) = chosen[k] BY <1>a, KeysAre DEF SettingsInv, Remembered
  <2>2. chosen[k] \in Values BY <1>b, KeysAre DEF SettingsOK
  <2> QED BY <1>a, <2>1, <2>2, KeysAre DEF Shown, FromFields
<1>c. options["volume"] = chosen["volume"] BY <1>a, KeysAre DEF SettingsInv, Remembered, Shown
<1>d. config' \in [AllKeys -> Values] BY <1>a, <1>1 DEF FromFields
<1>2. SettingsOK' BY <1>a, <1>b, <1>d DEF SettingsOK
<1>3. Saved' BY <1>a DEF Saved, AllOrNothing, Opens, AfterMenu
<1>4. Remembered' BY <1>a, <1>1, <1>c DEF Remembered, ChoicesSurvive, Opens, CalledAsTyped, AfterMenu
<1> QED BY <1>2, <1>3, <1>4 DEF SettingsInv

\* Connections come and go, and are told the name: the one in the configuration.
LEMMA NetKeeps ==
  ASSUME SettingsInv, UNCHANGED <<config, disk, fields, options, editing, history>>,
         \/ app' = app
         \/ app = "entering" /\ app' = "game"
         \/ app = "game" /\ app' = "opening" /\ ~saving,
         sceneDue' \in BOOLEAN, connected' \in BOOLEAN, pending' \in BOOLEAN, joined' \in Values \cup {None},
         \/ ~connected' \/ pending' \/ app' # "game"
         \/ joined' = config["name"]
         \/ app = "game" /\ connected /\ ~pending /\ joined' = joined
  PROVE  SettingsInv'
<1>a. UNCHANGED <<config, readable, file, saving, fields, options, editing, chosen, kept, intact>> BY DEF disk, history
<1>b. SettingsOK BY DEF SettingsInv
<1>1. SettingsOK' BY <1>a, <1>b DEF SettingsOK
<1>2. Saved' BY <1>a DEF SettingsInv, Saved, AllOrNothing, Opens, AfterMenu, LoadedFrom
<1>3. ASSUME NEW k \in Choices PROVE Shown(k)' = Shown(k) BY <1>a DEF Shown
<1>4. ChoicesSurvive' BY <1>a, KeysAre DEF SettingsInv, Remembered, ChoicesSurvive, Opens, AfterMenu
<1>5. CalledAsTyped' BY <1>a, KeysAre DEF SettingsInv, Remembered, CalledAsTyped, AfterMenu
<1>6. Remembered' BY <1>a, <1>3, <1>4, <1>5 DEF SettingsInv, Remembered, AfterMenu
<1> QED BY <1>1, <1>2, <1>6 DEF SettingsInv

\* An end of the program: of a crash nothing is expected, any other one follows a save.
LEMMA EndedKeeps ==
  ASSUME SettingsInv, Ended, UNCHANGED <<chosen, kept>>,
         \/ app \in {"game", "closing"} /\ ~saving /\ UNCHANGED <<saving, intact>>
         \/ saving' = FALSE /\ intact' = FALSE
  PROVE  SettingsInv'
<1>a. /\ app' = "off" /\ connected' = FALSE /\ pending' = FALSE /\ joined' = None /\ saving' = FALSE
      /\ UNCHANGED <<config, readable, file, fields, options, editing, sceneDue, chosen, kept>>
  BY DEF Ended, menu, SettingsInv, SettingsOK
<1>b. SettingsOK BY DEF SettingsInv
<1>1. SettingsOK' BY <1>a, <1>b DEF SettingsOK
<1>2. Saved' BY <1>a DEF SettingsInv, Saved, AllOrNothing, Opens, AfterMenu, LoadedFrom
<1>3. Read \subseteq AllKeys BY DEF Read
<1>4. intact' => readable' /\ \A k \in Read : kept'[k] = chosen'[k]
  BY <1>a, <1>3 DEF SettingsInv, Saved, Remembered, AfterMenu
<1>5. Remembered' BY <1>a, <1>4 DEF Remembered, ChoicesSurvive, Opens, CalledAsTyped, AfterMenu
<1> QED BY <1>1, <1>2, <1>5 DEF SettingsInv

LEMMA SettingsStepCorrect == SettingsInv /\ [SettingsNext]_settings => SettingsInv'
<1> SUFFICES ASSUME SettingsInv, [SettingsNext]_settings PROVE SettingsInv' OBVIOUS
<1>a. /\ config["name"] \in Values /\ joined \in Values \cup {None} /\ connected \in BOOLEAN /\ pending \in BOOLEAN
      /\ sceneDue \in BOOLEAN /\ editing \in BOOLEAN
  BY DEF SettingsInv, SettingsOK, AllKeys, Edited
<1>b. Join \in Values \cup {None} BY <1>a DEF Join
<1>1. CASE WriteFile BY <1>1, WriteFileKeeps
<1>2. CASE Launch BY <1>2, LaunchKeeps
<1>3. CASE EnterMenu BY <1>3, EnterMenuKeeps
<1>4. ASSUME NEW v \in Values, EditName(v) PROVE SettingsInv'
  BY <1>4, KeysAre, EditKeeps DEF EditName
<1>5. ASSUME NEW v \in Values, NEW k \in Edited, EditField(k, v) PROVE SettingsInv'
  BY <1>5, <1>a, KeysAre, EditKeeps DEF EditField
<1>16. ASSUME NEW v \in Values, NEW k \in Unsaved, EditOption(k, v) PROVE SettingsInv'
  BY <1>16, <1>a, KeysAre, EditKeeps DEF EditOption
<1>6. CASE StopEditing \/ JoinDirect \/ CreateLobby \/ CycleLanguage BY <1>6, HandlersKeep
<1>7. CASE LeaveMenu \/ CloseMenu BY <1>7, ExitMenuKeeps DEF LeaveMenu, CloseMenu
<1>8. CASE EnterGame
  <2>1. UNCHANGED <<fields, options, editing, sceneDue>> BY <1>8 DEF EnterGame, menu
  <2> QED BY <1>8, <1>a, <1>b, <2>1, NetKeeps DEF EnterGame, Idle, Join
<1>9. CASE ConnectionUp
  <2>1. UNCHANGED <<fields, options, editing, sceneDue>> BY <1>9 DEF ConnectionUp, menu
  <2> QED BY <1>9, <1>a, <2>1, NetKeeps DEF ConnectionUp
<1>10. CASE ConnectionDown
  <2>1. UNCHANGED <<fields, options, editing, sceneDue>> BY <1>10 DEF ConnectionDown, menu
  <2> QED BY <1>10, <1>a, <2>1, NetKeeps DEF ConnectionDown
<1>11. CASE HandleConnect BY <1>11, <1>a, <1>b, NetKeeps DEF HandleConnect, Join
<1>12. CASE ReturnToMenu
  <2>1. UNCHANGED <<fields, options, editing, sceneDue>> BY <1>12 DEF ReturnToMenu, menu
  <2> QED BY <1>12, <1>a, <2>1, NetKeeps DEF ReturnToMenu, Idle
<1>13. CASE CloseGame \/ Closed BY <1>13, EndedKeeps DEF CloseGame, Closed, Idle, history
<1>14. CASE Crash BY <1>14, EndedKeeps DEF Crash
<1>15. CASE UNCHANGED settings
  <2>1. UNCHANGED <<app, config, disk, fields, options, editing, sceneDue, connected, pending, joined, history>>
    BY <1>15 DEF settings, menu, net
  <2>2. CASE app = "game" /\ connected /\ ~pending BY <1>a, <2>1, <2>2, NetKeeps
  <2>3. CASE ~(app = "game" /\ connected /\ ~pending) BY <1>a, <2>1, <2>3, NetKeeps
  <2> QED BY <2>2, <2>3
<1> QED BY <1>1, <1>2, <1>3, <1>4, <1>5, <1>6, <1>7, <1>8, <1>9, <1>10, <1>11, <1>12, <1>13, <1>14, <1>15, <1>16 DEF SettingsNext

\* What the settings' copies are to each other holds at every point of every run.
THEOREM SettingsInvariance == SettingsSpec => []SettingsInv
BY SettingsInitCorrect, SettingsStepCorrect, PTL DEF SettingsSpec

\* The file, the fields and the configuration hold settings, and JOIN a name or nothing,
\* whatever was loaded.
THEOREM SettingsTyped == SettingsSpec => []SettingsOK
<1>1. SettingsInv => SettingsOK BY DEF SettingsInv
<1> QED BY <1>1, SettingsInvariance, PTL

\* Every setting that is saved and loaded is as the player chose it before an orderly end
\* when the menu opens again, and the volume so after a game, whichever handlers copied
\* and saved what in between, for all files and values.
THEOREM ChoicesCorrect == SettingsSpec => []ChoicesSurvive
<1>1. SettingsInv => ChoicesSurvive BY DEF SettingsInv, Remembered
<1> QED BY <1>1, SettingsInvariance, PTL

\* A crash, also between Save's truncating the file and writing it, leaves the settings
\* written last or new ones.
THEOREM SavesCorrect == SettingsSpec => []AllOrNothing
<1>1. SettingsInv => AllOrNothing BY DEF SettingsInv, Saved
<1> QED BY <1>1, SettingsInvariance, PTL

\* In a game the server knows the player by the name typed last, whenever the connection
\* came up.
THEOREM NameCorrect == SettingsSpec => []CalledAsTyped
<1>1. SettingsInv => CalledAsTyped BY DEF SettingsInv, Remembered
<1> QED BY <1>1, SettingsInvariance, PTL
=============================================================================
