------------------------------- MODULE MCMessage -------------------------------
(* A small instance of Message: bytes of one bit; every value of the short *)
(* types, the edges of the long ones.                                      *)
EXTENDS Message

Texts == UNION {[1 .. n -> Byte] : n \in 0 .. 2}
Edges(m) == {0, 1, m \div 2 - 1, m \div 2, m - 1}
Uneven(S) == {v \in S : v[1] # v[2] /\ v[3] # v[4]}
ValuesOf(t) ==
    CASE t \in Sized -> Texts
      [] t = "u32" -> Edges(Word)
      [] t = "i32" -> {v - Word \div 2 : v \in Edges(Word)}
      [] t = "u64" -> Edges(Word * Word)
      [] t = "i64" -> {v - Word * (Word \div 2) : v \in Edges(Word * Word)}
      [] t = "Color" -> Uneven(Values("Color"))
      [] t = "Quaternion" -> Uneven([1 .. 4 -> {1, Word - 2}])
      [] t \in Floats -> [1 .. Parts[t] -> {1, Word - 2}]
      [] OTHER -> Values(t)

SmallItems == UNION {[type : {t}, value : ValuesOf(t)] : t \in Types}
SomeEnvelopes == [id : {2, 14}, requestId : {7}, type : {1}]
=============================================================================
