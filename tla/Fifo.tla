--------------------------------- MODULE Fifo ---------------------------------
(***************************************************************************)
(* What a stream buffer promises whoever reads it as it was written: a     *)
(* queue of values.  StreamBuffer, which has bytes and a cursor, implements *)
(* it.                                                                     *)
(***************************************************************************)
EXTENDS Sequences

CONSTANTS Items, Nothing

VARIABLES
    queue,          \* values not read yet
    got             \* what the last step read

vars == <<queue, got>>

Init == queue = <<>> /\ got = Nothing

Put(x) == queue' = Append(queue, x) /\ got' = Nothing

Get == queue # <<>> /\ queue' = Tail(queue) /\ got' = Head(queue)

\* A read of more than there is gives nothing that was written.
Miss == got' = Nothing /\ UNCHANGED queue

Next == (\E x \in Items : Put(x)) \/ Get \/ Miss

Spec == Init /\ [][Next]_vars
=============================================================================
