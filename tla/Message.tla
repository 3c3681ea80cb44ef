-------------------------------- MODULE Message --------------------------------
(***************************************************************************)
(* Message: the stream a program has written, sent behind a header (id,    *)
(* request id, type) in one packet.  The receiver parses the header and    *)
(* keeps the stream, whose cursor is then at the payload.                  *)
(***************************************************************************)
EXTENDS StreamBuffer

CONSTANT Envelopes      \* the headers: id, requestId, type

ASSUME MessageAssumption ==
    Envelopes \subseteq [id: Values("u32"), requestId: Values("u32"), type: Values("u8")]

VARIABLES
    sent,           \* the header the sender wrote, once it has
    envelope        \* the header the receiver parsed

allVars == <<vars, sent, envelope>>

\* A header is kept as a set that is empty before and has it after.
Unsent == {}

MessageInit == Init /\ sent = Unsent /\ envelope = Unsent

Header(e) == IntegerBytes("u32", e.id) \o IntegerBytes("u32", e.requestId)
                \o IntegerBytes("u8", e.type)

serialize(e) == Header(e) \o buffer

TypeLeftUnread(b) ==
    LET id == ReadInteger(b, 0, 4)
        requestId == ReadInteger(b, id.gpos, 4)
    IN  [envelope |-> [id |-> id.value, requestId |-> requestId.value, type |-> 0],
         gpos |-> requestId.gpos]
deserialize(b) ==
    LET id == ReadInteger(b, 0, 4)
        requestId == ReadInteger(b, id.gpos, 4)
        type == ReadInteger(b, requestId.gpos, 1)
    IN  [envelope |-> [id |-> id.value, requestId |-> requestId.value, type |-> type.value],
         gpos |-> type.gpos]

\* sendMessage and the other side's poll.  The packet holds the whole buffer, so that
\* the model sends what nobody has begun to read.
Deliver(e) ==
    /\ envelope = Unsent /\ gpos = 0
    /\ buffer' = serialize(e)
    /\ LET m == deserialize(buffer') IN envelope' = {m.envelope} /\ gpos' = m.gpos
    /\ starts' = [i \in 1 .. Len(starts) |-> starts[i] + Len(Header(e))]
    /\ sent' = {e} /\ got' = None
    /\ UNCHANGED <<unread, written, astray>>

MessageNext ==
    \/ envelope = Unsent /\ (\E x \in Items : Write(x)) /\ UNCHANGED <<sent, envelope>>
    \/ \E e \in Envelopes : Deliver(e)
    \/ ReadNext /\ UNCHANGED <<sent, envelope>>
    \/ \E t \in Types : ReadTooMuch(t) /\ UNCHANGED <<sent, envelope>>
    \/ \E t \in Types : ReadAstray(t) /\ UNCHANGED <<sent, envelope>>

MessageSpec == MessageInit /\ [][MessageNext]_allVars

-----------------------------------------------------------------------------
\* The receiver parses the header that was sent.
EnvelopeSurvives == envelope = sent
=============================================================================
