------------------------------ MODULE TextField -------------------------------
(***************************************************************************)
(* Typing as the player sees it: texts of bounded length, at most one of   *)
(* them open, with a caret between its characters.  Keyboard implements it *)
(* with zero-terminated bytes that it moves in place.                      *)
(***************************************************************************)
EXTENDS Integers, SequencesExt

CONSTANTS
    Fields,
    Size,           \* field -> the size of its buffer
    Characters

VARIABLES
    text,           \* field -> what is written in it
    open,           \* the open field, alone in a set, or nothing
    caret           \* how many characters are before the caret

vars == <<text, open, caret>>

Init ==
    /\ text \in [Fields -> Seq(Characters)] /\ \A f \in Fields : Len(text[f]) < Size[f]
    /\ open = {} /\ caret = 0

Open(f) ==
    /\ open = {}
    /\ open' = {f} /\ caret' = Len(text[f])
    /\ UNCHANGED text

Close ==
    /\ open # {}
    /\ open' = {} /\ caret' = 0
    /\ UNCHANGED text

PutCaret(f, i) ==
    /\ open = {f} /\ i \in 0 .. Len(text[f])
    /\ caret' = i
    /\ UNCHANGED <<text, open>>

\* The last byte of the buffer is not for a character.
Type(f, c) ==
    /\ open = {f} /\ Len(text[f]) + 1 < Size[f]
    /\ text' = [text EXCEPT ![f] = InsertAt(@, caret + 1, c)]
    /\ caret' = caret + 1
    /\ UNCHANGED open

Erase(f) ==
    /\ open = {f} /\ caret > 0
    /\ text' = [text EXCEPT ![f] = RemoveAt(@, caret)]
    /\ caret' = caret - 1
    /\ UNCHANGED open

Next ==
    \/ \E f \in Fields : Open(f) \/ Erase(f)
    \/ \E f \in Fields : \E i \in 0 .. Size[f] : PutCaret(f, i)
    \/ \E f \in Fields, c \in Characters : Type(f, c)
    \/ Close

Spec == Init /\ [][Next]_vars
=============================================================================
