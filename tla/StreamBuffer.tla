----------------------------- MODULE StreamBuffer -----------------------------
(***************************************************************************)
(* StreamBuffer: a vector of bytes with a read cursor.  Values are written *)
(* at the end, most significant byte first, and read at the cursor.  A     *)
(* read of an integer that is not there gives zero and leaves the cursor;  *)
(* of a string, a vector or a composite value what is there is read, and   *)
(* the reader has lost its place.  A float is the integer it is packed to. *)
(* The write cursor, which counts what is written and is used by nobody,   *)
(* is left out.                                                            *)
(***************************************************************************)
EXTENDS Integers, Sequences

CONSTANTS
    Base,           \* values of a byte (256)
    Items,          \* what is written: a type and a value of it
    MaxItems        \* bound on values written

VARIABLES
    buffer,
    gpos,           \* the read cursor
    unread,         \* history: what was written and not read
    starts,         \* history: where in the buffer each of it starts
    written,        \* history: how many values were written
    astray,         \* history: part of a value was read, of which part is missing
    got             \* what the last step read

vars == <<buffer, gpos, unread, starts, written, astray, got>>

Byte == 0 .. (Base - 1)
Half == Base * Base
Word == Half * Half
None == [type |-> "none", value |-> 0]

-----------------------------------------------------------------------------
(* Integers as bytes.                                                      *)

\* data >> 8, and the cast to uint8_t.
Shr(v) == v \div Base
Low(v) == v % Base

Bytes1(v) == <<Low(v)>>
Bytes2(v) == <<Low(Shr(v)), Low(v)>>
Bytes4(v) == Bytes2(Shr(Shr(v))) \o Bytes2(v)
Bytes8(v) == Bytes4(Shr(Shr(Shr(Shr(v))))) \o Bytes4(v)

\* The bytes of b from position i on, as an unsigned integer.
Unsigned1(b, i) == b[i]
Unsigned2(b, i) == b[i] * Base + b[i + 1]
Unsigned4(b, i) == Unsigned2(b, i) * Half + Unsigned2(b, i + 2)
Unsigned8(b, i) == Unsigned4(b, i) * Word + Unsigned4(b, i + 4)

\* An unsigned integer below m, a power of two, as a signed one.
SignedOffByOne(u, m) == IF u <= m \div 2 THEN u ELSE -1 - (m - 1 - u)
Signed(u, m) == IF u <= m \div 2 - 1 THEN u ELSE -1 - (m - 1 - u)

\* What a cast to unsigned makes of a signed integer.
AsUnsigned(v, m) == v % m

-----------------------------------------------------------------------------
(* Values of every type, as bytes and back.                                *)

Signeds == {"i8", "i16", "i32", "i64"}
Unsigneds == {"bool", "u8", "u16", "u32", "u64"}
Sized == {"string", "vector"}

\* The parts of a composite value: bytes, or floats of 32 bits.
Parts == [Color |-> 4, Vector2 |-> 2, Vector3 |-> 3, Quaternion |-> 4]
Floats == {"Vector2", "Vector3", "Quaternion"}

Types == Signeds \cup Unsigneds \cup Sized \cup Floats \cup {"Color"}

Width(t) ==
    CASE t \in {"bool", "u8", "i8"} -> 1
      [] t \in {"u16", "i16"} -> 2
      [] t \in {"u32", "i32"} -> 4
      [] t \in {"u64", "i64"} -> 8

NumValues(t) ==
    CASE Width(t) = 1 -> Base [] Width(t) = 2 -> Half [] Width(t) = 4 -> Word
      [] OTHER -> Word * Word

Values(t) ==
    CASE t = "bool" -> {0, 1}
      [] t \in Unsigneds \ {"bool"} -> 0 .. (NumValues(t) - 1)
      [] t \in Signeds -> -(NumValues(t) \div 2) .. (NumValues(t) \div 2 - 1)
      [] t \in Sized -> {s \in Seq(Byte) : Len(s) < Word}
      [] t = "Color" -> [1 .. 4 -> Byte]
      [] t \in Floats -> [1 .. Parts[t] -> 0 .. (Word - 1)]

ASSUME StreamAssumption ==
    /\ Base \in Nat /\ Base > 1 /\ MaxItems \in Nat
    /\ \A x \in Items : /\ x = [type |-> x.type, value |-> x.value]
                         /\ x.type \in Types /\ x.value \in Values(x.type)

IntegerBytes(t, v) ==
    CASE Width(t) = 1 -> Bytes1(v) [] Width(t) = 2 -> Bytes2(v)
      [] Width(t) = 4 -> Bytes4(v) [] OTHER -> Bytes8(v)

\* The four bytes of each part, one part after the other.
FloatBytes(v, n) == [i \in 1 .. 4 * n |-> Bytes4(v[1 + (i - 1) \div 4])[1 + ((i - 1) % 4)]]

\* A string, or a vector of bytes, is its length, as 32 bits, and its content.
Encode(x) ==
    CASE x.type \in Sized -> Bytes4(Len(x.value)) \o x.value
      [] x.type = "Color" -> x.value
      [] x.type \in Floats -> FloatBytes(x.value, Parts[x.type])
      [] x.type \in Unsigneds -> IntegerBytes(x.type, x.value)
      [] x.type \in Signeds -> IntegerBytes(x.type, AsUnsigned(x.value, NumValues(x.type)))

Result(v, g) == [value |-> v, gpos |-> g]

ReadInteger(b, g, n) ==
    IF g + n > Len(b) THEN Result(0, g)
    ELSE Result(CASE n = 1 -> Unsigned1(b, g + 1) [] n = 2 -> Unsigned2(b, g + 1)
                  [] n = 4 -> Unsigned4(b, g + 1) [] OTHER -> Unsigned8(b, g + 1), g + n)

\* n bytes, and n floats, each read by itself: what is not there is zero, and the cursor
\* stops before the first that is not.
ReadBytes(b, g, n) ==
    Result([i \in 1 .. n |-> IF g + i > Len(b) THEN 0 ELSE b[g + i]],
           IF g + n > Len(b) THEN Len(b) ELSE g + n)

ReadFloats(b, g, n) ==
    Result([i \in 1 .. n |-> IF g + 4 * i > Len(b) THEN 0 ELSE Unsigned4(b, g + 4 * i - 3)],
           IF g + 4 * n > Len(b) THEN g + 4 * ((Len(b) - g) \div 4) ELSE g + 4 * n)

\* An empty string and one that is cut off both read as "", the latter with the
\* cursor behind its length.
ReadString(b, g) ==
    LET len == ReadInteger(b, g, 4)
    IN  IF len.value > 0 /\ len.gpos + len.value <= Len(b)
        THEN Result(SubSeq(b, len.gpos + 1, len.gpos + len.value), len.gpos + len.value)
        ELSE Result(<<>>, len.gpos)

\* A vector is resized to its length whether or not its content is there.
ReadVector(b, g) == LET size == ReadInteger(b, g, 4) IN ReadBytes(b, size.gpos, size.value)

ReadSigned(b, g, t) ==
    LET r == ReadInteger(b, g, Width(t)) IN Result(Signed(r.value, NumValues(t)), r.gpos)

Decode(t, b, g) ==
    CASE t = "string" -> ReadString(b, g)
      [] t = "vector" -> ReadVector(b, g)
      [] t = "Color" -> ReadBytes(b, g, 4)
      [] t \in Floats -> ReadFloats(b, g, Parts[t])
      [] t \in Unsigneds -> ReadInteger(b, g, Width(t))
      [] t \in Signeds -> ReadSigned(b, g, t)

\* What a value of type t takes of b from position g on: its first part, that is the
\* first thing read of it, and all of it, which for a string or a vector the length says.
FirstWidth(t) ==
    CASE t \in Sized \cup Floats -> 4 [] t = "Color" -> 1 [] OTHER -> Width(t)

WholeWidth(t, b, g) ==
    CASE t \in Sized -> 4 + ReadInteger(b, g, 4).value
      [] t \in Floats -> 4 * Parts[t] [] t = "Color" -> 4 [] OTHER -> Width(t)

-----------------------------------------------------------------------------
(* A buffer that is written and read.                                      *)

\* The cursor stays in the buffer, which holds bytes.
TypeOK ==
    /\ buffer \in Seq(Byte) /\ gpos \in 0 .. Len(buffer)
    /\ unread \in Seq(Items) /\ starts \in Seq(Nat) /\ written \in 0 .. MaxItems
    /\ astray \in BOOLEAN /\ got \in Items \cup {None}

Init ==
    /\ buffer = <<>> /\ gpos = 0
    /\ unread = <<>> /\ starts = <<>> /\ written = 0
    /\ astray = FALSE /\ got = None

Write(x) ==
    /\ written < MaxItems
    /\ buffer' = buffer \o Encode(x)
    /\ unread' = Append(unread, x) /\ starts' = Append(starts, Len(buffer))
    /\ written' = written + 1 /\ got' = None
    /\ UNCHANGED <<gpos, astray>>

\* The reader asks for what the writer wrote next.
ReadNext ==
    /\ unread # <<>> /\ ~astray
    /\ LET t == Head(unread).type
           r == Decode(t, buffer, gpos)
       IN  gpos' = r.gpos /\ got' = [type |-> t, value |-> r.value]
    /\ unread' = Tail(unread) /\ starts' = Tail(starts)
    /\ UNCHANGED <<buffer, written, astray>>

\* A read of type t that is not the one the writer meant.
ReadOther(t) ==
    /\ gpos' = Decode(t, buffer, gpos).gpos /\ got' = None
    /\ UNCHANGED <<buffer, unread, starts, written>>

\* The reader asks for more bytes than there are; its first part may be there.
ReadTooMuch(t) ==
    /\ gpos + WholeWidth(t, buffer, gpos) > Len(buffer)
    /\ ReadOther(t)
    /\ astray' = (astray \/ gpos + FirstWidth(t) <= Len(buffer))

\* Nothing tells the reader that it is astray: it reads on, whatever the bytes are.
ReadAstray(t) ==
    /\ astray /\ gpos + WholeWidth(t, buffer, gpos) <= Len(buffer)
    /\ ReadOther(t)
    /\ UNCHANGED astray

Next ==
    \/ \E x \in Items : Write(x)
    \/ ReadNext
    \/ \E t \in Types : ReadTooMuch(t) \/ ReadAstray(t)

Spec == Init /\ [][Next]_vars

-----------------------------------------------------------------------------
(* Properties.                                                             *)

End == Len(buffer)
EndOf(i) == starts[i] + Len(Encode(unread[i]))

\* The cursor is where the next value that was not read starts, at the end if there is
\* none: no read takes too much or too little.  A miss leaves the cursor there, unless
\* the first part of what is asked for is there: such a miss takes what there is and
\* the reader is astray; then the cursor is still within the buffer.
CursorAtNext ==
    IF astray THEN gpos \in 1 .. End
    ELSE gpos = IF unread = <<>> THEN End ELSE starts[1]

\* What was not read lies in the buffer, byte for byte, one value behind the other.
UnreadInPlace ==
    /\ Len(starts) = Len(unread)
    /\ \A i \in 1 .. Len(unread) :
          /\ EndOf(i) = IF i = Len(unread) THEN End ELSE starts[i + 1]
          /\ \A j \in 1 .. Len(Encode(unread[i])) : buffer[starts[i] + j] = Encode(unread[i])[j]

\* The buffer is a queue of the values written to it: whoever reads them in the order
\* and with the types of the writer, and goes not astray, gets each of them back, once.
Queue == INSTANCE Fifo WITH queue <- unread, Nothing <- None
IsFifo == Queue!Spec
=============================================================================
