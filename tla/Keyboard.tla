------------------------------- MODULE Keyboard -------------------------------
(***************************************************************************)
(* InGameKeyboard and the fields of the menu it writes to: zero-terminated *)
(* texts in buffers of fixed size, edited in place by moving bytes.        *)
(*                                                                         *)
(* The frame loop is the only thread here, and a frame has at most one     *)
(* press.  Where the player touches the text becomes any place in it: the  *)
(* fonts decide.  The texts are those Enter copied from the configuration, *)
(* which fit.                                                              *)
(***************************************************************************)
EXTENDS Integers

CONSTANTS
    Fields,         \* name, address, port, server's name
    Size,           \* field -> the size of its buffer
    Lower, Upper, Symbols,      \* the keys of each layout
    Space,
    Nul,
    Nowhere         \* a null targetBuffer

Chars == Lower \cup Upper \cup Symbols \cup {Space}

ASSUME KeyboardAssumption ==
    /\ Size \in [Fields -> Nat \ {0}]
    /\ Nul \notin Chars /\ Nowhere \notin Fields

VARIABLES
    mem,            \* field -> the bytes of its buffer
    active, targetBuffer, maxLen, cursorIndex,
    isCaps, isSymbols

layout == <<isCaps, isSymbols>>
vars == <<mem, active, targetBuffer, maxLen, cursorIndex, layout>>

Bytes(f) == [0 .. Size[f] - 1 -> Chars \cup {Nul}]

TypeOK ==
    /\ mem \in [Fields -> UNION {Bytes(f) : f \in Fields}] /\ \A f \in Fields : mem[f] \in Bytes(f)
    /\ active \in BOOLEAN /\ targetBuffer \in Fields \cup {Nowhere}
    /\ maxLen \in Nat /\ cursorIndex \in Nat
    /\ isCaps \in BOOLEAN /\ isSymbols \in BOOLEAN
    /\ active <=> targetBuffer # Nowhere
    /\ active => maxLen = Size[targetBuffer]
    /\ ~(isCaps /\ isSymbols)

\* The first zero of m is at n, which is the length of its text.
EndsAt(m, n) == n \in DOMAIN m /\ m[n] = Nul /\ \A i \in 0 .. n - 1 : m[i] # Nul

StrLen(m) == CHOOSE n \in DOMAIN m : EndsAt(m, n)

Init ==
    /\ mem \in [Fields -> UNION {Bytes(f) : f \in Fields}] /\ \A f \in Fields : mem[f] \in Bytes(f)
    /\ \A f \in Fields : \E n \in 0 .. Size[f] - 1 :
         \A i \in 0 .. Size[f] - 1 : (mem[f][i] = Nul) <=> (i >= n)
    /\ active = FALSE /\ targetBuffer = Nowhere /\ maxLen = 0 /\ cursorIndex = 0
    /\ isCaps = FALSE /\ isSymbols = FALSE

-----------------------------------------------------------------------------

\* A touch on a field: the fields are disabled while there is a keyboard.
Show(f) ==
    /\ ~active
    /\ targetBuffer' = f /\ maxLen' = Size[f]
    /\ active' = TRUE /\ isCaps' = FALSE /\ isSymbols' = FALSE
    /\ cursorIndex' = StrLen(mem[f])
    /\ UNCHANGED mem

\* OK, or a touch on the upper part of the screen.
Hide ==
    /\ active
    /\ active' = FALSE /\ targetBuffer' = Nowhere
    /\ UNCHANGED <<mem, maxLen, cursorIndex, layout>>

TouchText(i) ==
    /\ active /\ i \in 0 .. StrLen(mem[targetBuffer])
    /\ cursorIndex' = i
    /\ UNCHANGED <<mem, active, targetBuffer, maxLen, layout>>

\* memmove: n bytes of m from position "from" to position "to", as far as m has them.
Moved(m, to, from, n) == [i \in DOMAIN m |-> IF i \in to .. to + n - 1 THEN m[from + (i - to)] ELSE m[i]]

InsertsOneMore(c) ==
    LET m == mem[targetBuffer]  len == StrLen(m) IN
    /\ len < maxLen
    /\ mem' = [mem EXCEPT ![targetBuffer] =
                 [Moved(m, cursorIndex + 1, cursorIndex, len - cursorIndex + 1)
                    EXCEPT ![cursorIndex] = c]]
    /\ cursorIndex' = cursorIndex + 1

InsertChar(c) ==
    LET m == mem[targetBuffer]  len == StrLen(m) IN
    /\ len < maxLen - 1
    /\ mem' = [mem EXCEPT ![targetBuffer] =
                 [Moved(m, cursorIndex + 1, cursorIndex, len - cursorIndex + 1)
                    EXCEPT ![cursorIndex] = c]]
    /\ cursorIndex' = cursorIndex + 1

Keys == IF isSymbols THEN Symbols ELSE IF isCaps THEN Upper ELSE Lower

PressKey(c) ==
    /\ active /\ c \in Keys \cup {Space}
    /\ InsertChar(c)
    /\ UNCHANGED <<active, targetBuffer, maxLen, layout>>

DeletesAhead ==
    LET m == mem[targetBuffer]  len == StrLen(m) IN
    /\ active /\ cursorIndex > 0
    /\ mem' = [mem EXCEPT ![targetBuffer] =
                 Moved(m, cursorIndex, cursorIndex + 1, len - cursorIndex)]
    /\ cursorIndex' = cursorIndex - 1
    /\ UNCHANGED <<active, targetBuffer, maxLen, layout>>

DeleteChar ==
    LET m == mem[targetBuffer]  len == StrLen(m) IN
    /\ active /\ cursorIndex > 0
    /\ mem' = [mem EXCEPT ![targetBuffer] =
                 Moved(m, cursorIndex - 1, cursorIndex, len - cursorIndex + 1)]
    /\ cursorIndex' = cursorIndex - 1
    /\ UNCHANGED <<active, targetBuffer, maxLen, layout>>

ToggleSymbols ==
    /\ active
    /\ isSymbols' = ~isSymbols /\ isCaps' = (isCaps /\ isSymbols)
    /\ UNCHANGED <<mem, active, targetBuffer, maxLen, cursorIndex>>

ToggleCaps ==
    /\ active /\ ~isSymbols
    /\ isCaps' = ~isCaps
    /\ UNCHANGED <<mem, active, targetBuffer, maxLen, cursorIndex, isSymbols>>

Next ==
    \/ \E f \in Fields : Show(f)
    \/ Hide
    \/ active /\ \E i \in 0 .. Size[targetBuffer] : TouchText(i)
    \/ \E c \in Chars : PressKey(c)
    \/ DeleteChar \/ ToggleSymbols \/ ToggleCaps

Spec == Init /\ [][Next]_vars

-----------------------------------------------------------------------------

\* Every field keeps its terminating zero inside its own buffer, and the cursor stays
\* inside the text it is shown in, however keys, touches and fields follow each other:
\* the lengths and the cursor survive from one field to the next.
TextFits ==
    /\ \A f \in Fields : \E n \in 0 .. Size[f] - 1 : EndsAt(mem[f], n)
    /\ active => cursorIndex <= StrLen(mem[targetBuffer])

\* The keyboard as a text field: the text is what is before the zero.
TextOf(m) == [i \in 1 .. StrLen(m) |-> m[i - 1]]

Typed == INSTANCE TextField WITH
    text <- [f \in Fields |-> TextOf(mem[f])],
    open <- {targetBuffer} \ {Nowhere},
    caret <- IF active THEN cursorIndex ELSE 0,
    Characters <- Chars

\* What the keyboard does to the bytes is what a player expects of a text: a key puts its
\* character at the cursor, the other one takes the character before it, in the open
\* field and nowhere else, and a full field stays as it is.
IsTextField == Typed!Spec
=============================================================================
